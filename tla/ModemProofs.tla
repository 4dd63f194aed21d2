---------------------------- MODULE ModemProofs ----------------------------
(***************************************************************************)
(* Proofs about SerialLink, for every number of threads, calls and         *)
(* unsolicited lines, and about ModemReset, for any number of polls and    *)
(* any modem.                                                              *)
(*                                                                         *)
(* The argument for the link: what is in the input buffer while a call is  *)
(* under way arrived after the call emptied it (Fresh); while a call is    *)
(* alone, the modem owes no answer but the call's own, so all that is      *)
(* waiting in the buffer is the call's or unsolicited (Unmixed).           *)
(*                                                                         *)
(* For the resets: while a response is read, the time gone by and the time *)
(* left to the deadline add up to no more than a budget that depends on    *)
(* the command and the number of the poll alone (OnBudget).                *)
(***************************************************************************)
EXTENDS SerialLink, ModemReset, SequenceTheorems, TLAPS

-----------------------------------------------------------------------------
\* The serial link.

\* No thread has a number that has not been given out.
Numbered == \A t \in Threads : th[t].cmd <= sends

\* What waits for a call under way arrived after it began, as did what it has.
Fresh ==
  /\ \A t \in Threads : th[t].pc # "idle" =>
       \A i \in 1..Len(rx) : rx[i].since >= th[t].cmd
  /\ NothingStale

\* What the modem owes and what waits, while the call of thread t is alone.
OwnOnly(t) ==
  /\ \A u \in Threads \ {t} : th[u].pc = "idle"
  /\ th[t].pc = "write" => pending = <<>>
  /\ \A i \in 1..Len(pending) : pending[i] = th[t].cmd
  /\ \A i \in 1..Len(rx) : rx[i].cmd \in {th[t].cmd, Unsolicited}

Unmixed ==
  /\ \A t \in Threads : th[t].alone /\ th[t].pc # "idle" => OwnOnly(t)
  /\ UnsharedReplyIsOwn

IInv == TypeOK /\ Numbered /\ Fresh /\ Unmixed

-----------------------------------------------------------------------------
\* The invariant holds before the first call.
LEMMA InitIInv == Init => IInv
<1> SUFFICES ASSUME Init PROVE IInv
  OBVIOUS
<1>1. TypeOK
  <2>1. [pc |-> "idle", cmd |-> 0, buf |-> {}, alone |-> FALSE]
          \in [pc : {"idle", "write", "read"}, cmd : 0..MaxSends,
               buf : SUBSET Pieces, alone : BOOLEAN]
    BY SerialLinkAssumption
  <2>2. rx \in Seq(Pieces) /\ pending \in Seq(Nat)
    BY DEF Init
  <2>3. th \in [Threads -> [pc : {"idle", "write", "read"}, cmd : 0..MaxSends,
                            buf : SUBSET Pieces, alone : BOOLEAN]]
    BY <2>1, Zenon DEF Init
  <2>4. sends \in 0..MaxSends /\ urcs \in 0..MaxUrcs
    BY SerialLinkAssumption DEF Init
  <2>5. told \in BOOLEAN
    BY DEF Init
  <2> QED BY <2>2, <2>3, <2>4, <2>5 DEF TypeOK
<1> QED BY <1>1
     DEF Init, IInv, Numbered, Fresh, NothingStale, Unmixed, UnsharedReplyIsOwn

\* A call that begins empties the buffer, and ends the solitude of the others.
LEMMA ResetIInv ==
  ASSUME IInv, NEW t \in Threads, Reset(t)
  PROVE  IInv'
<1>1. /\ rx' = <<>> /\ sends' = sends + 1 /\ pending' = pending /\ told' = told /\ urcs' = urcs
      /\ sends \in Nat /\ sends' \in 0..MaxSends
  BY SerialLinkAssumption DEF Reset, modemVars, IInv, TypeOK
<1>2. /\ th'[t] = [pc |-> "write", cmd |-> sends + 1, buf |-> {}, alone |-> Unshared(t)]
      /\ \A u \in Threads \ {t} : th'[u] = [th[u] EXCEPT !.alone = @ /\ th[u].pc = "idle"]
  BY DEF Reset, Begun
<1>3. \A u \in Threads \ {t} :
        /\ th'[u].pc = th[u].pc /\ th'[u].cmd = th[u].cmd /\ th'[u].buf = th[u].buf
        /\ th'[u].alone => th[u].alone /\ th[u].pc = "idle"
  BY <1>2 DEF IInv, TypeOK
<1>4. TypeOK'
  <2>1. Unshared(t) \in BOOLEAN
    BY DEF Unshared
  <2>2. th' \in [Threads -> [pc : {"idle", "write", "read"}, cmd : 0..MaxSends,
                             buf : SUBSET Pieces, alone : BOOLEAN]]
    BY <1>1, <2>1 DEF Reset, Begun, IInv, TypeOK
  <2> QED BY <1>1, <2>2 DEF IInv, TypeOK
<1>5. Numbered'
  BY <1>1, <1>2, <1>3 DEF IInv, TypeOK, Numbered
<1>6. Fresh'
  BY <1>1, <1>2, <1>3 DEF IInv, TypeOK, Fresh, NothingStale
<1>7. Unmixed'
  <2>1. UnsharedReplyIsOwn'
    BY <1>2, <1>3 DEF IInv, Unmixed, UnsharedReplyIsOwn
  <2>2. ASSUME NEW u \in Threads, th'[u].alone, th'[u].pc # "idle"
        PROVE  OwnOnly(u)'
    <3>1. u = t
      BY <1>3, <2>2
    <3>2. th'[t].alone = Unshared(t)
      BY <1>2
    <3>3. Unshared(t)
      BY <2>2, <3>1, <3>2, Zenon
    <3> QED BY <1>1, <1>2, <1>3, <3>1, <3>3 DEF OwnOnly, Unshared
  <2> QED BY <2>1, <2>2 DEF Unmixed
<1> QED BY <1>4, <1>5, <1>6, <1>7 DEF IInv

\* Writing adds the call's own command to what the modem owes.
LEMMA WriteIInv ==
  ASSUME IInv, NEW t \in Threads, Write(t)
  PROVE  IInv'
<1>1. /\ th[t].pc = "write" /\ rx' = rx /\ told' = told /\ sends' = sends /\ urcs' = urcs
      /\ pending' = Append(pending, th[t].cmd)
  BY DEF Write
<1>2. /\ th'[t] = [th[t] EXCEPT !.pc = "read"]
      /\ \A u \in Threads \ {t} : th'[u] = th[u]
  BY DEF Write, IInv, TypeOK
<1>3. /\ th'[t].pc = "read" /\ th'[t].cmd = th[t].cmd /\ th'[t].buf = th[t].buf
      /\ th'[t].alone = th[t].alone
  BY <1>2 DEF IInv, TypeOK
<1>4. TypeOK'
  <2>1. th[t].cmd \in Nat
    BY SerialLinkAssumption DEF IInv, TypeOK
  <2>2. pending' \in Seq(Nat)
    BY <1>1, <2>1 DEF IInv, TypeOK
  <2>3. th' \in [Threads -> [pc : {"idle", "write", "read"}, cmd : 0..MaxSends,
                             buf : SUBSET Pieces, alone : BOOLEAN]]
    BY DEF Write, IInv, TypeOK
  <2> QED BY <1>1, <2>2, <2>3 DEF IInv, TypeOK
<1>5. Numbered'
  BY <1>1, <1>2, <1>3 DEF IInv, Numbered
<1>6. Fresh'
  <2>1. NothingStale /\ \A u \in Threads :
          th[u].pc # "idle" => \A i \in 1..Len(rx) : rx[i].since >= th[u].cmd
    BY DEF IInv, Fresh
  <2>2. \A u \in Threads : th'[u].cmd = th[u].cmd /\ th'[u].buf = th[u].buf
                           /\ (th'[u].pc # "idle" => th[u].pc # "idle")
    BY <1>1, <1>2, <1>3
  <2>3. NothingStale'
    BY <2>1, <2>2 DEF NothingStale
  <2> QED BY <1>1, <2>1, <2>2, <2>3 DEF Fresh
<1>7. Unmixed'
  <2>1. ASSUME NEW u \in Threads, th'[u].alone, th'[u].pc # "idle"
        PROVE  OwnOnly(u)'
    <3>1. CASE u = t
      <4>1. OwnOnly(t) /\ pending = <<>>
        BY <1>1, <1>3, <2>1, <3>1 DEF IInv, Unmixed, OwnOnly
      <4>2. \A i \in 1..Len(pending') : pending'[i] = th[t].cmd
        BY <1>1, <4>1
      <4> QED BY ZenonT(40), <1>1, <1>2, <1>3, <3>1, <4>1, <4>2 DEF OwnOnly
    <3>2. CASE u # t
      BY <1>1, <1>2, <2>1, <3>2 DEF IInv, Unmixed, OwnOnly
    <3> QED BY <3>1, <3>2
  <2>2. UnsharedReplyIsOwn'
    BY <1>2, <1>3 DEF IInv, Unmixed, UnsharedReplyIsOwn
  <2> QED BY <2>1, <2>2 DEF Unmixed
<1> QED BY <1>4, <1>5, <1>6, <1>7 DEF IInv

\* Reading moves the first k pieces from the buffer to the response.
LEMMA ReadIInv ==
  ASSUME IInv, NEW t \in Threads, NEW k \in 1..Len(rx), Read(t, k)
  PROVE  IInv'
<1> DEFINE buf == th[t].buf \cup {rx[i] : i \in 1..k}
<1>1. /\ th[t].pc = "read" /\ pending' = pending /\ told' = told /\ sends' = sends /\ urcs' = urcs
      /\ rx' = SubSeq(rx, k + 1, Len(rx)) /\ k \in Nat /\ k >= 1 /\ k <= Len(rx)
      /\ rx \in Seq(Pieces) /\ Len(rx) \in Nat
  BY DEF Read, modemVars, IInv, TypeOK
<1>2. /\ rx' \in Seq(Pieces)
      /\ \A i \in 1..Len(rx') : i + k \in 1..Len(rx) /\ rx'[i] = rx[i + k]
  BY <1>1
<1>3. \A i \in 1..k : i \in 1..Len(rx) /\ rx[i] \in Pieces
  BY <1>1
<1>4. /\ th'[t].pc \in {"idle", "read"} /\ th'[t].cmd = th[t].cmd
      /\ th'[t].buf = buf /\ th'[t].alone = th[t].alone
      /\ \A u \in Threads \ {t} : th'[u] = th[u]
  BY DEF Read, IInv, TypeOK
<1>5. TypeOK'
  <2>1. buf \in SUBSET Pieces
    BY <1>3 DEF IInv, TypeOK
  <2> HIDE DEF buf
  <2>2. th' = [th EXCEPT ![t] = [th[t] EXCEPT !.buf = buf,
                                   !.pc = IF Complete(buf) THEN "idle" ELSE "read"]]
    BY DEF Read, buf
  <2>3. [th[t] EXCEPT !.buf = buf, !.pc = IF Complete(buf) THEN "idle" ELSE "read"]
          \in [pc : {"idle", "write", "read"}, cmd : 0..MaxSends,
               buf : SUBSET Pieces, alone : BOOLEAN]
    BY <2>1 DEF IInv, TypeOK
  <2> QED BY <1>1, <1>2, <2>2, <2>3 DEF IInv, TypeOK
<1>6. Numbered'
  BY <1>1, <1>4 DEF IInv, Numbered
<1>7. Fresh'
  <2>1. \A p \in buf : p.since >= th[t].cmd
    BY <1>1, <1>3 DEF IInv, Fresh, NothingStale
  <2> HIDE DEF buf
  <2>2. NothingStale'
    BY <1>4, <2>1 DEF IInv, Fresh, NothingStale
  <2>3. ASSUME NEW u \in Threads, th'[u].pc # "idle", NEW i \in 1..Len(rx')
        PROVE  rx'[i].since >= th'[u].cmd
    <3>1. th[u].pc # "idle" /\ th'[u].cmd = th[u].cmd
      BY <1>1, <1>4, <2>3
    <3> QED BY <1>2, <3>1 DEF IInv, Fresh
  <2> QED BY <2>2, <2>3 DEF Fresh
<1>8. Unmixed'
  <2>1. th[t].alone => \A p \in buf : p.cmd \in {th[t].cmd, Unsolicited}
    BY <1>1, <1>3 DEF IInv, Unmixed, OwnOnly, UnsharedReplyIsOwn
  <2> HIDE DEF buf
  <2>2. UnsharedReplyIsOwn'
    BY <1>4, <2>1 DEF IInv, Unmixed, UnsharedReplyIsOwn
  <2>3. ASSUME NEW u \in Threads, th'[u].alone, th'[u].pc # "idle"
        PROVE  OwnOnly(u)'
    <3>1. th[u].alone /\ th[u].pc # "idle" /\ th'[u].cmd = th[u].cmd
      BY <1>1, <1>4, <2>3
    <3>2. OwnOnly(u)
      BY <3>1 DEF IInv, Unmixed
    <3>3. \A v \in Threads \ {u} : v # t
      BY <1>1, <3>2 DEF OwnOnly
    <3> QED BY <1>1, <1>2, <1>4, <3>1, <3>2, <3>3 DEF OwnOnly
  <2> QED BY <2>2, <2>3 DEF Unmixed
<1> QED BY <1>5, <1>6, <1>7, <1>8 DEF IInv

\* Giving up leaves the link as it is.
LEMMA GiveUpIInv ==
  ASSUME IInv, NEW t \in Threads, GiveUp(t)
  PROVE  IInv'
<1>1. UNCHANGED <<rx, pending, told, sends, urcs>>
  BY DEF GiveUp, modemVars
<1>2. /\ th'[t].pc = "idle" /\ th'[t].cmd = th[t].cmd /\ th'[t].buf = th[t].buf
      /\ th'[t].alone = th[t].alone
      /\ \A u \in Threads \ {t} : th'[u] = th[u]
  BY DEF GiveUp, IInv, TypeOK
<1>3. TypeOK'
  BY <1>1 DEF GiveUp, IInv, TypeOK
<1> QED BY <1>1, <1>2, <1>3
     DEF IInv, Numbered, Fresh, NothingStale, Unmixed, OwnOnly, UnsharedReplyIsOwn

\* What the modem sends is new, and answers a command it was sent or none.
LEMMA ArrivalIInv ==
  ASSUME IInv, NEW c \in Nat, NEW final \in BOOLEAN,
         rx' = Append(rx, Piece(c, final)), sends' = sends, th' = th,
         pending' \in Seq(Nat), told' \in BOOLEAN, urcs' \in 0..MaxUrcs,
         c = Unsolicited \/ \E i \in 1..Len(pending) : c = pending[i],
         \A i \in 1..Len(pending') : \E j \in 1..Len(pending) : pending'[i] = pending[j],
         pending = <<>> => pending' = <<>>
  PROVE  IInv'
<1>1. rx \in Seq(Pieces) /\ Piece(c, final) \in Pieces /\ sends \in Nat
  BY SerialLinkAssumption DEF IInv, TypeOK, Piece, Pieces
<1>2. /\ rx' \in Seq(Pieces)
      /\ \A i \in 1..Len(rx') : rx'[i] = Piece(c, final) \/ (i \in 1..Len(rx) /\ rx'[i] = rx[i])
  BY <1>1
<1>3. Piece(c, final).since = sends /\ Piece(c, final).cmd = c
  BY DEF Piece
<1>4. TypeOK'
  BY <1>2 DEF IInv, TypeOK
<1>5. Fresh'
  BY <1>2, <1>3 DEF IInv, TypeOK, Numbered, Fresh, NothingStale
<1>6. Unmixed'
  <2>1. ASSUME NEW u \in Threads, th[u].alone, th[u].pc # "idle"
        PROVE  OwnOnly(u)'
    <3>1. OwnOnly(u)
      BY <2>1 DEF IInv, Unmixed
    <3> QED BY <1>2, <1>3, <3>1 DEF OwnOnly
  <2> QED BY <2>1 DEF IInv, Unmixed, UnsharedReplyIsOwn
<1> QED BY <1>4, <1>5, <1>6 DEF IInv, Numbered

\* Every step of the modem keeps the invariant.
LEMMA ModemIInv ==
  ASSUME IInv, Modem
  PROVE  IInv'
<1>1. pending # <<>> =>
        /\ Head(pending) \in Nat /\ 1 \in 1..Len(pending) /\ Head(pending) = pending[1]
        /\ Tail(pending) \in Seq(Nat)
        /\ \A i \in 1..Len(Tail(pending)) : i + 1 \in 1..Len(pending) /\ Tail(pending)[i] = pending[i + 1]
  BY DEF IInv, TypeOK
<1>2. CASE Body
  BY <1>1, <1>2, ArrivalIInv DEF Body, IInv, TypeOK
<1>3. CASE Final
  BY <1>1, <1>3, ArrivalIInv DEF Final, IInv, TypeOK
<1>4. CASE Urc
  <2>1. urcs' \in 0..MaxUrcs
    BY <1>4, SerialLinkAssumption DEF Urc, IInv, TypeOK
  <2> QED BY <1>4, <2>1, ArrivalIInv DEF Urc, IInv, TypeOK, Unsolicited
<1>5. CASE Ignore
  <2>1. TypeOK'
    BY <1>1, <1>5 DEF Ignore, IInv, TypeOK
  <2>2. ASSUME NEW u \in Threads, OwnOnly(u)
        PROVE  OwnOnly(u)'
    BY <1>1, <1>5, <2>2 DEF Ignore, OwnOnly
  <2> QED BY <1>5, <2>1, <2>2
       DEF Ignore, IInv, Numbered, Fresh, NothingStale, Unmixed, UnsharedReplyIsOwn
<1> QED BY <1>2, <1>3, <1>4, <1>5 DEF Modem

\* The invariant is inductive.
LEMMA NextIInv == IInv /\ [Next]_vars => IInv'
<1> SUFFICES ASSUME IInv, [Next]_vars PROVE IInv'
  OBVIOUS
<1>1. CASE UNCHANGED vars
  BY <1>1 DEF vars, IInv, TypeOK, Numbered, Fresh, NothingStale, Unmixed, OwnOnly, UnsharedReplyIsOwn
<1>2. CASE Modem
  BY <1>2, ModemIInv
<1>3. ASSUME NEW t \in Threads, Send(t)
      PROVE  IInv'
  BY <1>3, ResetIInv, WriteIInv, ReadIInv, GiveUpIInv DEF Send
<1> QED BY <1>1, <1>2, <1>3 DEF Next

\* A response never holds bytes from before its call began.
THEOREM ResponsesFresh == Spec => []NothingStale
<1>1. IInv => NothingStale
  BY DEF IInv, Fresh
<1> QED BY <1>1, InitIInv, NextIInv, PTL DEF Spec

\* A call with the link to itself gets its own answer: what makes an AT exchange
\* one step in the modules about requests.
THEOREM UnsharedCorrect == Spec => []UnsharedReplyIsOwn
<1>1. IInv => UnsharedReplyIsOwn
  BY DEF IInv, Unmixed
<1> QED BY <1>1, InitIInv, NextIInv, PTL DEF Spec

-----------------------------------------------------------------------------
\* The two resets.

\* The latest deadline of command c, or of poll p, of reset o: the deadlines of
\* the commands before it, 61 ticks for the last read of each, and the sleeps.
Budget(o, c, p) ==
  IF o = "apple_reset"
  THEN IF c = "cfun0" THEN 62 ELSE IF c = "cfun1" THEN 164 ELSE 264 + 102 * p
  ELSE IF c = "cfun0" THEN 102 ELSE IF c = "cfun1" THEN 264 ELSE 254 + 132 * p

Longest(o) == IF o = "apple_reset" THEN 384 + 102 * MaxPolls ELSE 324 + 132 * MaxPolls

OnBudget ==
  /\ op \in ResetOps
  /\ pc \in {"cfun0", "cfun1", "poll", "done"}
  /\ left \in Nat \ {0}
  /\ polls \in 0..MaxPolls
  /\ now \in Nat
  /\ pc = "poll" => polls >= 1
  /\ pc # "done" => now + left <= Budget(op, pc, polls)
  /\ pc = "done" => now <= Longest(op)

\* The sums that the properties write out are the ones above.
LEMMA LongestIs ==
  ASSUME op \in ResetOps
  PROVE  LongestReset = Longest(op)
<1>1. MaxPolls \in Nat
  BY ModemResetAssumption
<1>2. CASE op = "apple_reset"
  <2>1. /\ LongestSend("cfun0") = 122 /\ LongestSend("cfun1") = 102 /\ LongestSend("poll") = 82
        /\ Reboot = 100 /\ Pause = 20 /\ Settle = 60
    BY <1>2 DEF Timeout, Reboot, Pause, Settle, Apple, LongestSend, WriteTime, ReadTimeout
  <2> QED BY <1>1, <1>2, <2>1 DEF LongestReset, Longest
<1>3. CASE op = "cfun_reset"
  <2>1. /\ LongestSend("cfun0") = 162 /\ LongestSend("cfun1") = 162 /\ LongestSend("poll") = 122
        /\ Reboot = 0 /\ Pause = 10 /\ Settle = 0
    BY <1>3 DEF Timeout, Reboot, Pause, Settle, Apple, LongestSend, WriteTime, ReadTimeout
  <2> QED BY <1>1, <1>3, <2>1 DEF LongestReset, Longest
<1> QED BY <1>2, <1>3 DEF ResetOps

\* A command that returns w ticks after a read began is followed on budget.
LEMMA ReturnedOnBudget ==
  ASSUME OnBudget, NEW ok, NEW g, NEW w \in 1..61, pc # "done", Returned(ok, g, now + w)
  PROVE  OnBudget'
<1> DEFINE at == now + w
<1>1. at \in Nat /\ at <= Budget(op, pc, polls) + 60 /\ MaxPolls \in Nat \ {0}
  BY ModemResetAssumption DEF OnBudget, Budget
<1>2. op' = op /\ op \in ResetOps /\ polls \in 0..MaxPolls
  BY DEF Returned, Judge, Return, Command, OnBudget
<1>3. CASE pc = "cfun0"
  <2>1. pc' = "cfun1" /\ left' = Timeout("cfun1")' /\ now' = at + 2 /\ polls' = polls
    BY <1>2, <1>3 DEF Returned, Command, WriteTime, Timeout, Apple
  <2> HIDE DEF at
  <2> QED BY <1>1, <1>2, <1>3, <2>1 DEF OnBudget, Budget, ResetOps, Timeout, Apple
<1>4. CASE pc = "cfun1"
  <2>1. /\ pc' = "poll" /\ left' = Timeout("poll")' /\ polls' = 1
        /\ now' = at + Reboot + (IF Apple THEN Pause ELSE 0) + 2
    BY <1>2, <1>4 DEF Returned, Command, WriteTime, Timeout, Apple
  <2> HIDE DEF at
  <2> QED BY <1>1, <1>2, <1>4, <2>1 DEF OnBudget, Budget, ResetOps, Timeout, Apple, Reboot, Pause
<1>5. CASE pc = "poll"
  <2>1. at <= Budget(op, "poll", polls) + 60 /\ polls >= 1
    BY <1>1, <1>5 DEF OnBudget
  <2>2. CASE polls' = polls /\ pc' = "done" /\ now' \in {at + Settle, at, at + Pause} /\ left' = left
    <3>1. polls <= MaxPolls
      BY <1>2
    <3>2. left' \in Nat \ {0}
      BY <2>2 DEF OnBudget
    <3> HIDE DEF at
    <3>3. CASE op = "apple_reset"
      <4>1. at <= 324 + 102 * polls /\ 102 * polls <= 102 * MaxPolls
        BY <1>1, <1>2, <2>1, <3>1, <3>3 DEF Budget
      <4>2. now' \in Nat /\ now' <= at + 60
        BY <1>1, <2>2, <3>3 DEF Settle, Pause, Apple
      <4>3. now' <= Longest(op)
        BY <1>1, <1>2, <3>3, <4>1, <4>2 DEF Longest
      <4> QED BY <1>2, <2>2, <3>2, <4>2, <4>3 DEF OnBudget, Longest
    <3>4. CASE op = "cfun_reset"
      BY <1>1, <1>2, <2>1, <2>2, <3>1, <3>2, <3>4
         DEF OnBudget, Budget, Longest, Settle, Pause, Apple
    <3> QED BY <1>2, <3>3, <3>4 DEF ResetOps
  <2>3. CASE /\ polls < MaxPolls /\ polls' = polls + 1 /\ pc' = "poll"
             /\ left' = Timeout("poll") /\ now' = at + Pause + 2
    <3> HIDE DEF at
    <3>1. CASE op = "apple_reset"
      BY <1>1, <1>2, <2>1, <2>3, <3>1 DEF OnBudget, Budget, Pause, Apple, Timeout
    <3>2. CASE op = "cfun_reset"
      BY <1>1, <1>2, <2>1, <2>3, <3>2 DEF OnBudget, Budget, Pause, Apple, Timeout
    <3> QED BY <1>2, <3>1, <3>2 DEF ResetOps
  <2> QED BY <1>5, <2>2, <2>3 DEF Returned, Judge, Return, Command, WriteTime
<1> QED BY <1>3, <1>4, <1>5 DEF OnBudget

\* A read that ends the command or leaves time on it keeps to the budget.
LEMMA GoOnOnBudget ==
  ASSUME OnBudget, NEW w \in 1..61, NEW g, pc # "done", GoOn(w, g)
  PROVE  OnBudget'
<1>1. CASE left > w
  BY <1>1 DEF GoOn, OnBudget, Budget
<1>2. CASE ~(left > w)
  BY <1>2, ReturnedOnBudget DEF GoOn
<1> QED BY <1>1, <1>2

\* A reset answers its request in bounded time, however the modem behaves.
THEOREM ResetAnswers == ResetSpec => []AnswersInTime
<1>1. ResetInit => OnBudget
  <2> SUFFICES ASSUME ResetInit PROVE OnBudget
    OBVIOUS
  <2>1. op \in ResetOps /\ pc = "cfun0" /\ now = 2 /\ left = Timeout("cfun0") /\ polls = 0
    BY ModemResetAssumption DEF ResetInit, WriteTime
  <2> QED BY <2>1, ModemResetAssumption DEF OnBudget, Budget, Timeout, Apple, ResetOps
<1>2. OnBudget /\ [ResetNext]_resetVars => OnBudget'
  <2> SUFFICES ASSUME OnBudget, [ResetNext]_resetVars PROVE OnBudget'
    OBVIOUS
  <2>1. CASE UNCHANGED resetVars
    BY <2>1 DEF resetVars, OnBudget, Budget
  <2>2. CASE Done
    BY <2>2 DEF Done, resetVars, OnBudget, Budget
  <2>3. CASE Silence
    <3>1. ReadTimeout + 1 \in 1..61
      BY DEF ReadTimeout
    <3> QED BY <2>3, <3>1, GoOnOnBudget DEF Silence
  <2>4. ASSUME NEW c \in Replies, NEW w \in Waits, Chunk(c, w)
        PROVE  OnBudget'
    <3>1. w \in 1..61
      BY ModemResetAssumption DEF ReadTimeout
    <3> QED BY <2>4, <3>1, GoOnOnBudget, ReturnedOnBudget DEF Chunk
  <2> QED BY <2>1, <2>2, <2>3, <2>4 DEF ResetNext
<1>3. OnBudget => AnswersInTime
  <2> SUFFICES ASSUME OnBudget PROVE now <= Longest(op)
    BY LongestIs DEF AnswersInTime, OnBudget
  <2>1. MaxPolls \in Nat \ {0}
    BY ModemResetAssumption
  <2> QED BY <2>1 DEF OnBudget, Budget, Longest, ResetOps
<1> QED BY <1>1, <1>2, <1>3, PTL DEF ResetSpec

-----------------------------------------------------------------------------
\* What apple_reset knows when it reports success.

Outcomes == {"OK", "GTI", "other"}

\* The last n of s are OK.
EndsOK(s, n) == n <= Len(s) /\ \A i \in 1..Len(s) : i > Len(s) - n => s[i] = "OK"

\* ok_count counts the OKs that the record of polls ends with.
EvidenceInv ==
  /\ recent \in Seq(Outcomes) /\ Len(recent) <= 3
  /\ ok_count \in Nat
  /\ gti \in BOOLEAN
  /\ pc # "done" => result = "none"
  /\ Apple /\ result = "none" => ok_count <= 2 /\ EndsOK(recent, ok_count)
  /\ ReadyOnEvidence

\* A record holds fewer than three polls or exactly three.
LEMMA BelowThree == \A n \in Nat : n <= 3 => n < 3 \/ n = 3
OBVIOUS

\* The record after a poll ends with its outcome, after what was there before.
LEMMA LastThreeFacts ==
  ASSUME NEW s \in Seq(Outcomes), Len(s) <= 3, NEW x \in Outcomes
  PROVE  LET r == LastThree(Append(s, x)) IN
           /\ r \in Seq(Outcomes) /\ Len(r) \in Nat /\ Len(r) >= 1 /\ Len(r) <= 3 /\ r[Len(r)] = x
           /\ Len(r) = IF Len(s) = 3 THEN 3 ELSE Len(s) + 1
           /\ \A i \in 1..(Len(r) - 1) : r[i] = s[i + (Len(s) + 1 - Len(r))]
<1> DEFINE a == Append(s, x)  r == LastThree(a)
<1>0. Len(s) \in Nat /\ Len(s) <= 3
  BY LenProperties
<1>1. /\ a \in Seq(Outcomes) /\ Len(a) = Len(s) + 1 /\ a[Len(s) + 1] = x
      /\ \A i \in 1..Len(s) : a[i] = s[i]
  BY <1>0, AppendProperties
<1> HIDE DEF a, r
<1> SUFFICES /\ r \in Seq(Outcomes) /\ Len(r) \in Nat /\ Len(r) >= 1 /\ Len(r) <= 3 /\ r[Len(r)] = x
             /\ Len(r) = IF Len(s) = 3 THEN 3 ELSE Len(s) + 1
             /\ \A i \in 1..(Len(r) - 1) : r[i] = s[i + (Len(s) + 1 - Len(r))]
  BY DEF a, r
<1>2. CASE Len(s) < 3
  <2>1. r = a
    BY <1>0, <1>1, <1>2 DEF LastThree, r
  <2>2. Len(r) = Len(s) + 1 /\ Len(r) \in Nat /\ Len(r) >= 1 /\ Len(r) <= 3
    BY <1>0, <1>1, <1>2, <2>1
  <2>3. ASSUME NEW i \in 1..(Len(r) - 1) PROVE r[i] = s[i + (Len(s) + 1 - Len(r))]
    <3>1. i \in 1..Len(s) /\ i + (Len(s) + 1 - Len(r)) = i
      BY <1>0, <2>2
    <3> QED BY <1>1, <2>1, <3>1
  <2> QED BY <1>0, <1>1, <1>2, <2>1, <2>2, <2>3
<1>3. CASE Len(s) = 3
  <2>1. Len(a) = 4 /\ a # <<>>
    BY <1>1, <1>3, EmptySeq
  <2>2. r = Tail(a)
    BY <2>1 DEF LastThree, r
  <2>3. /\ r \in Seq(Outcomes) /\ Len(r) = Len(a) - 1
        /\ \A i \in 1..Len(r) : r[i] = a[i + 1]
    BY <1>1, <2>1, <2>2, HeadTailProperties
  <2>4. Len(r) = 3
    BY <2>1, <2>3
  <2>5. r[3] = x
    <3>1. \A i \in 1..3 : r[i] = a[i + 1]
      BY <2>3, <2>4
    <3>2. r[3] = a[3 + 1]
      BY <3>1
    <3>3. a[3 + 1] = x
      BY <1>1, <1>3
    <3> QED BY <3>2, <3>3
  <2>6. ASSUME NEW i \in 1..(Len(r) - 1) PROVE r[i] = s[i + (Len(s) + 1 - Len(r))]
    <3>1. i \in 1..Len(r) /\ i + 1 \in 1..Len(s) /\ i + (Len(s) + 1 - Len(r)) = i + 1
      BY <1>3, <2>4
    <3> QED BY <1>1, <2>3, <3>1
  <2>7. r[Len(r)] = x /\ Len(r) \in Nat /\ Len(r) >= 1 /\ Len(r) <= 3
    BY <2>4, <2>5
  <2>8. Len(r) = IF Len(s) = 3 THEN 3 ELSE Len(s) + 1
    BY <1>3, <2>4
  <2> QED BY <2>3, <2>6, <2>7, <2>8
<1>4. Len(s) < 3 \/ Len(s) = 3
  BY <1>0, BelowThree
<1> QED BY <1>2, <1>3, <1>4

\* A poll judged on its outcome keeps the evidence.
LEMMA JudgeEvidence ==
  ASSUME EvidenceInv, pc = "poll", NEW ok \in BOOLEAN, NEW g \in BOOLEAN, NEW at,
         Judge(ok, g, at)
  PROVE  EvidenceInv'
<1> DEFINE x == IF g THEN "GTI" ELSE IF ok THEN "OK" ELSE "other"
           r == LastThree(Append(recent, x))
           count == IF ok THEN ok_count + 1 ELSE 0
<1>1. /\ recent' = r /\ ok_count' = count /\ x \in Outcomes
      /\ op' = op /\ gti' \in BOOLEAN /\ recent \in Seq(Outcomes) /\ Len(recent) <= 3
      /\ ok_count \in Nat /\ gti \in BOOLEAN /\ result = "none"
  BY DEF Judge, Return, Command, EvidenceInv, Outcomes
<1>2. /\ r \in Seq(Outcomes) /\ Len(r) \in Nat /\ Len(r) >= 1 /\ Len(r) <= 3 /\ r[Len(r)] = x
      /\ Len(r) = IF Len(recent) = 3 THEN 3 ELSE Len(recent) + 1
      /\ \A i \in 1..(Len(r) - 1) : r[i] = recent[i + (Len(recent) + 1 - Len(r))]
  BY <1>1, LastThreeFacts
<1>3. Len(recent) \in Nat /\ Len(recent) <= 3
  BY <1>1, LenProperties
<1>4. \/ /\ (IF Apple THEN g \/ count >= 3 ELSE ok)
         /\ result' = "success" /\ pc' = "done"
      \/ ~(IF Apple THEN g \/ count >= 3 ELSE ok) /\ pc' = "poll" /\ result' = "none"
      \/ ~(IF Apple THEN g \/ count >= 3 ELSE ok) /\ pc' = "done" /\ result' \in {"timeout", "success"}
         /\ (Apple => result' = "timeout")
  BY <1>1 DEF Judge, Return, Command
<1>5. Apple' <=> Apple
  BY <1>1 DEF Apple
<1>6. count \in Nat
  BY <1>1
<1> HIDE DEF r
<1>7. CASE ~Apple
  BY <1>1, <1>2, <1>4, <1>5, <1>6, <1>7 DEF EvidenceInv, ReadyOnEvidence
<1>8. CASE Apple /\ ~g
  <2>1. ok_count <= 2 /\ EndsOK(recent, ok_count)
    BY <1>1, <1>8 DEF EvidenceInv
  <2>2. count <= 3 /\ EndsOK(r, count)
    <3>1. CASE ~ok
      BY <1>2, <3>1 DEF EndsOK
    <3>2. CASE ok
      <4>1. count = ok_count + 1 /\ count <= Len(r) /\ x = "OK"
        BY <1>1, <1>2, <1>3, <1>8, <2>1, <3>2 DEF EndsOK
      <4>2. ASSUME NEW i \in 1..Len(r), i > Len(r) - count PROVE r[i] = "OK"
        <5>1. CASE i = Len(r)
          BY <1>2, <4>1, <5>1
        <5>2. CASE i # Len(r)
          <6> DEFINE k == i + (Len(recent) + 1 - Len(r))
          <6>1. i \in 1..(Len(r) - 1) /\ r[i] = recent[k]
            <7>1. i \in 1..(Len(r) - 1)
              BY <1>2, <5>2
            <7> QED BY <1>2, <7>1
          <6> HIDE DEF x
          <6>2. k \in 1..Len(recent) /\ k > Len(recent) - ok_count
            <7>1. Len(r) = IF Len(recent) = 3 THEN 3 ELSE Len(recent) + 1
              BY <1>2
            <7>2. i > Len(r) - (ok_count + 1) /\ ok_count \in Nat
              BY <1>1, <4>1, <4>2
            <7> HIDE DEF k
            <7>3. CASE Len(recent) = 3
              <8>1. k = i + 1 /\ Len(r) = 3
                BY <7>1, <7>3 DEF k
              <8> QED BY <6>1, <7>2, <7>3, <8>1
            <7>4. CASE Len(recent) < 3
              <8>1. k = i /\ Len(r) = Len(recent) + 1
                BY <1>3, <7>1, <7>4 DEF k
              <8> QED BY <1>3, <6>1, <7>2, <7>4, <8>1
            <7> QED BY <1>3, <7>3, <7>4, BelowThree
          <6>3. recent[k] = "OK"
            BY <2>1, <6>2 DEF EndsOK
          <6> QED BY <6>1, <6>3
        <5> QED BY <5>1, <5>2
      <4>3. count <= 3
        BY <1>1, <2>1, <4>1
      <4> HIDE DEF count, x
      <4> QED BY <4>1, <4>2, <4>3 DEF EndsOK
    <3> QED BY <3>1, <3>2
  <2>3. CASE count >= 3
    <3>1. count = 3 /\ Len(r) = 3
      BY <1>2, <1>6, <2>2, <2>3 DEF EndsOK
    <3>2. r[1] = "OK" /\ r[2] = "OK" /\ r[3] = "OK"
      BY <2>2, <3>1 DEF EndsOK
    <3>3. r = <<"OK", "OK", "OK">>
      BY <1>2, <3>1, <3>2
    <3>4. pc' = "done" /\ result' = "success"
      BY <1>4, <1>8, <2>3
    <3> QED BY <1>1, <1>2, <1>6, <3>3, <3>4 DEF EvidenceInv, ReadyOnEvidence
  <2>4. CASE count <= 2
    <3>1. ~(count >= 3)
      BY <1>6, <2>4
    <3>2. result' # "success" /\ (pc' # "done" => result' = "none")
      BY <1>4, <1>8, <3>1
    <3> QED BY <1>1, <1>2, <1>6, <2>2, <2>4, <3>2 DEF EvidenceInv, ReadyOnEvidence
  <2> QED BY <1>6, <2>2, <2>3, <2>4
<1>9. CASE Apple /\ g
  <2>1. result' = "success" /\ pc' = "done" /\ r[Len(r)] = "GTI"
    BY <1>2, <1>4, <1>9
  <2> QED BY <1>1, <1>2, <1>6, <2>1 DEF EvidenceInv, ReadyOnEvidence
<1> QED BY <1>7, <1>8, <1>9

\* A command that returns keeps the evidence.
LEMMA ReturnedEvidence ==
  ASSUME EvidenceInv, pc # "done", NEW ok \in BOOLEAN, NEW g \in BOOLEAN, NEW at,
         Returned(ok, g, at)
  PROVE  EvidenceInv'
<1>1. CASE pc = "poll" /\ Judge(ok, g, at)
  BY <1>1, JudgeEvidence
<1>2. CASE UNCHANGED <<op, ok_count, recent, result>> /\ gti' = FALSE
  BY <1>2 DEF EvidenceInv, ReadyOnEvidence, Apple
<1> QED BY <1>1, <1>2 DEF Returned, Command

\* So does one that reads on.
LEMMA GoOnEvidence ==
  ASSUME EvidenceInv, pc # "done", NEW w, NEW g \in BOOLEAN, GoOn(w, g)
  PROVE  EvidenceInv'
<1>1. CASE left > w
  <2>1. gti' = g /\ UNCHANGED <<op, pc, ok_count, recent, result>>
    BY <1>1 DEF GoOn
  <2> QED BY <2>1 DEF EvidenceInv, ReadyOnEvidence, Apple
<1>2. CASE ~(left > w)
  BY <1>2, ReturnedEvidence DEF GoOn
<1> QED BY <1>1, <1>2

\* A modem that trickles noise, errors and stray OKs cannot make apple_reset report
\* success without GTI or three OKs running, for any number of polls.
THEOREM ResetOnEvidence == ResetSpec => []ReadyOnEvidence
<1>1. ResetInit => EvidenceInv
  <2> SUFFICES ASSUME ResetInit PROVE EvidenceInv
    OBVIOUS
  <2>1. recent = <<>> /\ ok_count = 0 /\ gti = FALSE /\ result = "none"
    BY DEF ResetInit
  <2>2. recent \in Seq(Outcomes) /\ Len(recent) = 0
    BY <2>1, EmptySeq
  <2>3. EndsOK(recent, ok_count)
    BY <2>1, <2>2 DEF EndsOK
  <2>4. ok_count \in Nat /\ ok_count <= 2 /\ Len(recent) <= 3 /\ gti \in BOOLEAN
    <3>1. gti \in BOOLEAN
      BY <2>1
    <3>2. ok_count \in Nat /\ ok_count <= 2
      BY <2>1
    <3>3. Len(recent) <= 3
      BY <2>2
    <3> QED BY <3>1, <3>2, <3>3
  <2>5. ReadyOnEvidence
    BY <2>1 DEF ReadyOnEvidence
  <2> QED BY <2>1, <2>2, <2>3, <2>4, <2>5 DEF EvidenceInv
<1>2. EvidenceInv /\ [ResetNext]_resetVars => EvidenceInv'
  <2> SUFFICES ASSUME EvidenceInv, [ResetNext]_resetVars PROVE EvidenceInv'
    OBVIOUS
  <2>1. CASE UNCHANGED resetVars
    BY <2>1 DEF resetVars, EvidenceInv, ReadyOnEvidence, Apple
  <2>2. CASE Silence
    BY <2>2, GoOnEvidence DEF Silence, EvidenceInv
  <2>3. ASSUME NEW c \in Replies, NEW w \in Waits, Chunk(c, w)
        PROVE  EvidenceInv'
    <3>1. gti \in BOOLEAN /\ (gti \/ c = "GTI") \in BOOLEAN /\ (c = "OK") \in BOOLEAN
      BY DEF EvidenceInv
    <3>2. CASE c \in {"OK", "ERROR"}
      BY <2>3, <3>1, <3>2, ReturnedEvidence DEF Chunk
    <3>3. CASE c \notin {"OK", "ERROR"}
      BY <2>3, <3>1, <3>3, GoOnEvidence DEF Chunk
    <3> QED BY <3>2, <3>3
  <2> QED BY <2>1, <2>2, <2>3 DEF ResetNext, Done
<1>3. EvidenceInv => ReadyOnEvidence
  BY DEF EvidenceInv
<1> QED BY <1>1, <1>2, <1>3, PTL DEF ResetSpec

=============================================================================
