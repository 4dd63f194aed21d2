----------------------------- MODULE ModemReset -----------------------------
(***************************************************************************)
(* The two resets of the modem, with the time they take: apple_reset       *)
(* (src/src/app.py) and ATModem.cfun_reset (src/src/at_modem.py).  Both    *)
(* switch the modem off and on with AT+CFUN and then poll it with AT.      *)
(*                                                                         *)
(* Time is counted in ticks of 50 ms, the shortest sleep of the code.  The *)
(* timeout that _send takes bounds when its last read may begin; how long  *)
(* a read waits is the timeout the port was opened with.                   *)
(***************************************************************************)
EXTENDS Integers, Sequences

CONSTANTS
  Ops,       \* the resets requested
  MaxPolls,  \* the polls before a reset gives up (30 in the code)
  Replies,   \* what the modem may send in answer to a command
  Waits      \* after how many ticks it may send it

ReadTimeout == 60
ResetOps == {"apple_reset", "cfun_reset"}

ASSUME ModemResetAssumption ==
  /\ Ops \subseteq ResetOps
  /\ MaxPolls \in Nat \ {0}
  /\ Replies \subseteq {"OK", "ERROR", "GTI", "noise"}
  /\ Waits \subseteq 1..ReadTimeout

VARIABLES
  op,        \* the reset under way
  pc,        \* the command whose response is being read, or "done"
  left,      \* ticks to the deadline of the command
  gti,       \* "GTI" is in what the command has received
  polls,     \* the current poll, from 1
  ok_count,  \* polls in a row that answered OK
  now,       \* ticks since the request came
  recent,    \* what the last three polls came to
  result     \* "none" while running

resetVars == <<op, pc, left, gti, polls, ok_count, now, recent, result>>

\* The timeout each reset gives its commands, its sleeps before and between polls.
Apple == op = "apple_reset"
Timeout(c) == CASE c = "cfun0" -> IF Apple THEN 60 ELSE 100
                [] c = "cfun1" -> IF Apple THEN 40 ELSE 100
                [] OTHER -> IF Apple THEN 20 ELSE 60
Reboot == IF Apple THEN 100 ELSE 0
Pause == IF Apple THEN 20 ELSE 10
Settle == IF Apple THEN 60 ELSE 0

\* _send sleeps 100 ms between writing and reading.
WriteTime == 2

ResetInit ==
  /\ op \in Ops
  /\ pc = "cfun0" /\ left = Timeout("cfun0") /\ now = WriteTime
  /\ gti = FALSE /\ polls = 0 /\ ok_count = 0 /\ recent = <<>> /\ result = "none"

-----------------------------------------------------------------------------
\* The next command goes out at time at, and its response is read from then.
Command(c, at) ==
  /\ pc' = c
  /\ left' = Timeout(c)
  /\ now' = at + WriteTime
  /\ gti' = FALSE
  /\ UNCHANGED op

Return(r, at) ==
  /\ pc' = "done"
  /\ result' = r
  /\ now' = at
  /\ UNCHANGED <<op, left, gti>>

LastThree(s) == IF Len(s) <= 3 THEN s ELSE Tail(s)

\* A poll came to ok (an OK in the response) and g (a GTI) at time at.
\* apple_reset pauses before each poll, cfun_reset after each that failed.
JudgeKeepingCount(ok, g, at) ==
  LET count == IF ok THEN ok_count + 1 ELSE ok_count
      ready == IF Apple THEN g \/ count >= 3 ELSE ok
  IN /\ recent' = LastThree(Append(recent, IF g THEN "GTI" ELSE IF ok THEN "OK" ELSE "other"))
     /\ ok_count' = count
     /\ \/ ready /\ Return("success", at + Settle) /\ UNCHANGED polls
        \/ ~ready /\ polls = MaxPolls /\ UNCHANGED polls
           /\ Return(IF Apple THEN "timeout" ELSE "success", IF Apple THEN at ELSE at + Pause)
        \/ ~ready /\ polls < MaxPolls /\ polls' = polls + 1
           /\ Command("poll", at + Pause) /\ UNCHANGED result

Judge(ok, g, at) ==
  LET count == IF ok THEN ok_count + 1 ELSE 0
      ready == IF Apple THEN g \/ count >= 3 ELSE ok
  IN /\ recent' = LastThree(Append(recent, IF g THEN "GTI" ELSE IF ok THEN "OK" ELSE "other"))
     /\ ok_count' = count
     /\ \/ ready /\ Return("success", at + Settle) /\ UNCHANGED polls
        \/ ~ready /\ polls = MaxPolls /\ UNCHANGED polls
           /\ Return(IF Apple THEN "timeout" ELSE "success", IF Apple THEN at ELSE at + Pause)
        \/ ~ready /\ polls < MaxPolls /\ polls' = polls + 1
           /\ Command("poll", at + Pause) /\ UNCHANGED result

\* _send returns at time at.  Nobody looks at the answers to AT+CFUN.
Returned(ok, g, at) ==
  \/ /\ pc = "cfun0"
     /\ Command("cfun1", at)
     /\ UNCHANGED <<polls, ok_count, recent, result>>
  \/ /\ pc = "cfun1"
     /\ polls' = 1
     /\ Command("poll", at + Reboot + IF Apple THEN Pause ELSE 0)
     /\ UNCHANGED <<ok_count, recent, result>>
  \/ pc = "poll" /\ Judge(ok, g, at)

\* The read loop goes on until the deadline, w ticks having gone by.
GoOn(w, g) ==
  IF left > w
  THEN /\ left' = left - w /\ gti' = g /\ now' = now + w
       /\ UNCHANGED <<op, pc, polls, ok_count, recent, result>>
  ELSE Returned(FALSE, g, now + w)

\* A read returns what the modem sent after w ticks.
Chunk(c, w) ==
  /\ pc # "done"
  /\ IF c \in {"OK", "ERROR"} THEN Returned(c = "OK", gti, now + w) ELSE GoOn(w, gti \/ c = "GTI")

\* A read returns nothing, and the loop sleeps one tick.
SilenceUncounted ==
  /\ pc # "done"
  /\ left' = left /\ gti' = gti /\ now' = now + ReadTimeout + 1
  /\ UNCHANGED <<op, pc, polls, ok_count, recent, result>>
Silence == pc # "done" /\ GoOn(ReadTimeout + 1, gti)

Done == pc = "done" /\ UNCHANGED resetVars

ResetNext == Done \/ Silence \/ \E c \in Replies, w \in Waits : Chunk(c, w)

ResetSpec == ResetInit /\ [][ResetNext]_resetVars

-----------------------------------------------------------------------------
\* Properties.

\* Every variable keeps the shape the code gives it.
ResetTypeOK ==
  /\ op \in ResetOps
  /\ pc \in {"cfun0", "cfun1", "poll", "done"}
  /\ left \in 1..100
  /\ gti \in BOOLEAN
  /\ polls \in 0..MaxPolls
  /\ ok_count \in 0..MaxPolls
  /\ now \in Nat
  /\ Len(recent) <= 3
  /\ result \in {"none", "success", "timeout"}

\* apple_reset reports success only on evidence that the modem is back: "GTI" in
\* the last response, or OK in three responses running.
ReadyOnEvidence ==
  Apple /\ result = "success" =>
    recent[Len(recent)] = "GTI" \/ recent = <<"OK", "OK", "OK">>

\* The longest a command takes: its last read begins a tick before the deadline
\* and waits in vain.
LongestSend(c) == WriteTime + (Timeout(c) - 1) + ReadTimeout + 1
LongestReset ==
  LongestSend("cfun0") + LongestSend("cfun1") + Reboot
    + MaxPolls * (Pause + LongestSend("poll")) + Settle

\* However the modem answers, trickles or stays silent, a reset answers its
\* request within this time.
AnswersInTime == now <= LongestReset

=============================================================================
