----------------------------- MODULE SerialLink -----------------------------
(***************************************************************************)
(* ATModem._send (src/src/at_modem.py): one AT command and its response    *)
(* over the serial port.                                                   *)
(*                                                                         *)
(* Every request thread calls it, and nothing orders the calls: a thread   *)
(* empties the input buffer, writes its command, and takes what comes in   *)
(* until "OK" or "ERROR" has come or its deadline has passed.  Bytes carry *)
(* no mark of the command they answer.  A modem answers in the order of    *)
(* the commands, in its own time, which may be after the deadline; it may  *)
(* ignore a command, and send unsolicited lines at any time.               *)
(***************************************************************************)
EXTENDS Integers, Sequences

CONSTANTS
  Threads,   \* the threads that may be in _send
  MaxSends,  \* bound: calls of _send
  MaxUrcs    \* bound: unsolicited lines

ASSUME SerialLinkAssumption == MaxSends \in Nat /\ MaxUrcs \in Nat

VARIABLES
  rx,       \* the port's input buffer: pieces that have arrived, oldest first
  pending,  \* the modem: commands written and not yet answered
  told,     \* the modem: whether it has sent the body of its current answer
  sends,    \* calls of _send so far, which number the commands from 1
  urcs,     \* unsolicited lines so far
  th        \* each thread's local variables in _send

vars == <<rx, pending, told, sends, urcs, th>>
modemVars == <<pending, told, urcs>>

\* A piece of input: the command it answers (0: none), whether it holds the final
\* result code, and how many calls of _send had begun when it arrived.
Unsolicited == 0
Piece(c, final) == [cmd |-> c, last |-> final, since |-> sends]

Complete(buf) == \E p \in buf : p.last

Init ==
  /\ rx = <<>> /\ pending = <<>> /\ told = FALSE /\ sends = 0 /\ urcs = 0
  /\ th = [t \in Threads |-> [pc |-> "idle", cmd |-> 0, buf |-> {}, alone |-> FALSE]]

-----------------------------------------------------------------------------
\* Nothing else uses the link when thread t begins: no other call is under way
\* and the modem owes no answer.
Unshared(t) == pending = <<>> /\ \A u \in Threads \ {t} : th[u].pc = "idle"

\* reset_input_buffer, and the locals of the call.
Begun(t, buf) ==
  [u \in Threads |->
     IF u = t THEN [pc |-> "write", cmd |-> sends + 1, buf |-> buf, alone |-> Unshared(t)]
     ELSE [th[u] EXCEPT !.alone = @ /\ th[u].pc = "idle"]]

ResetWithoutFlush(t) ==
  /\ th[t].pc = "idle" /\ sends < MaxSends
  /\ sends' = sends + 1
  /\ th' = Begun(t, {})
  /\ UNCHANGED <<rx, modemVars>>

ResetKeepingBuf(t) ==
  /\ th[t].pc = "idle" /\ sends < MaxSends
  /\ sends' = sends + 1
  /\ rx' = <<>>
  /\ th' = Begun(t, th[t].buf)
  /\ UNCHANGED modemVars

Reset(t) ==
  /\ th[t].pc = "idle" /\ sends < MaxSends
  /\ sends' = sends + 1
  /\ rx' = <<>>
  /\ th' = Begun(t, {})
  /\ UNCHANGED modemVars

Write(t) ==
  /\ th[t].pc = "write"
  /\ pending' = Append(pending, th[t].cmd)
  /\ th' = [th EXCEPT ![t].pc = "read"]
  /\ UNCHANGED <<rx, told, sends, urcs>>

\* One read: the k pieces that were waiting.  The loop ends on a final code.
Read(t, k) ==
  LET buf == th[t].buf \cup {rx[i] : i \in 1..k} IN
  /\ th[t].pc = "read"
  /\ k <= Len(rx)
  /\ rx' = SubSeq(rx, k + 1, Len(rx))
  /\ th' = [th EXCEPT ![t] = [@ EXCEPT !.buf = buf, !.pc = IF Complete(buf) THEN "idle" ELSE "read"]]
  /\ UNCHANGED <<modemVars, sends>>

\* The deadline has passed: _send returns what it has.
GiveUp(t) ==
  /\ th[t].pc = "read"
  /\ th' = [th EXCEPT ![t].pc = "idle"]
  /\ UNCHANGED <<rx, modemVars, sends>>

-----------------------------------------------------------------------------
\* The modem.
Body ==
  /\ pending # <<>> /\ ~told
  /\ rx' = Append(rx, Piece(Head(pending), FALSE))
  /\ told' = TRUE
  /\ UNCHANGED <<pending, sends, urcs, th>>

Final ==
  /\ pending # <<>>
  /\ rx' = Append(rx, Piece(Head(pending), TRUE))
  /\ pending' = Tail(pending) /\ told' = FALSE
  /\ UNCHANGED <<sends, urcs, th>>

Ignore ==
  /\ pending # <<>>
  /\ pending' = Tail(pending) /\ told' = FALSE
  /\ UNCHANGED <<rx, sends, urcs, th>>

Urc ==
  /\ urcs < MaxUrcs
  /\ urcs' = urcs + 1
  /\ rx' = Append(rx, Piece(Unsolicited, FALSE))
  /\ UNCHANGED <<pending, told, sends, th>>

Modem == Body \/ Final \/ Ignore \/ Urc

Send(t) == Reset(t) \/ Write(t) \/ GiveUp(t) \/ \E k \in 1..Len(rx) : Read(t, k)

Next == Modem \/ \E t \in Threads : Send(t)

Spec == Init /\ [][Next]_vars

-----------------------------------------------------------------------------
\* Properties.

Pieces == [cmd : Nat, last : BOOLEAN, since : Nat]

\* Every variable keeps the shape the code gives it.
TypeOK ==
  /\ rx \in Seq(Pieces)
  /\ pending \in Seq(Nat)
  /\ told \in BOOLEAN
  /\ sends \in 0..MaxSends
  /\ urcs \in 0..MaxUrcs
  /\ th \in [Threads -> [pc : {"idle", "write", "read"}, cmd : 0..MaxSends,
                         buf : SUBSET Pieces, alone : BOOLEAN]]

\* A response holds nothing that had arrived before its own call emptied the
\* buffer, however calls and late answers interleave.
NothingStale == \A t \in Threads : \A p \in th[t].buf : p.since >= th[t].cmd

\* A call that shares the link with no other, on a modem that owed no answer when
\* it began, returns pieces of its own answer and unsolicited lines only.
UnsharedReplyIsOwn ==
  \A t \in Threads :
    th[t].alone => \A p \in th[t].buf : p.cmd \in {th[t].cmd, Unsolicited}

=============================================================================
