------------------------------ MODULE ApduLog ------------------------------
(***************************************************************************)
(* The APDU log: ATModem._log_apdu (src/src/at_modem.py), the endpoints    *)
(* /apdu_log and /apdu_log_clear (src/src/app.py) and the console of the   *)
(* page that polls them (src/src/templates/index.html).                    *)
(*                                                                         *)
(* The log is a list that any request thread appends to and that is cut to *)
(* its newest entries when it is too long.  The page asks for the entries  *)
(* from a position on and remembers the length of the list as the position *)
(* to ask from next.  Nothing is locked.                                   *)
(***************************************************************************)
EXTENDS Integers, Sequences, FiniteSets

CONSTANTS
  Threads,    \* request threads that log
  Polls,      \* polls of the page that may be under way at once
  LogMax,     \* apdu_log_max (500 in the code)
  MaxEntries, \* bound: entries logged
  MaxClears   \* bound: uses of the Clear button

ASSUME ApduLogAssumption == LogMax \in Nat \ {0} /\ MaxEntries \in Nat /\ MaxClears \in Nat

VARIABLES
  log,      \* the server's list, its entries numbered from 1 as they were logged
  logged,   \* entries logged so far
  writer,   \* each thread inside _log_apdu: where it is, and the slice it made
  idx,      \* the page: _apduLogIdx
  shown,    \* the page: the entries of the console
  poll,     \* each poll under way: where it is, and its answer so far
  clear,    \* the page: where clearApduLog is
  clears    \* uses of the Clear button

vars == <<log, logged, writer, idx, shown, poll, clear, clears>>
serverVars == <<log, logged, writer>>
pageVars == <<idx, shown, poll, clear, clears>>

From(s, i) == SubSeq(s, i + 1, Len(s))
Newest(s) == From(s, Len(s) - LogMax)

NoPoll == [pc |-> "none", since |-> 0, entries |-> <<>>, total |-> 0]

Init ==
  /\ log = <<>> /\ logged = 0
  /\ writer = [t \in Threads |-> [pc |-> "out", slice |-> <<>>]]
  /\ idx = 0 /\ shown = <<>> /\ clear = "none" /\ clears = 0
  /\ poll = [p \in Polls |-> NoPoll]

-----------------------------------------------------------------------------
\* _log_apdu: append; if the list is too long slice it, then put the slice in
\* its place.  An entry appended between these two is lost, and a clear between
\* them undone.
Append1(t) ==
  /\ writer[t].pc = "out" /\ logged < MaxEntries
  /\ logged' = logged + 1
  /\ log' = Append(log, logged + 1)
  /\ writer' = [writer EXCEPT ![t].pc = "appended"]
  /\ UNCHANGED pageVars

SliceNever(t) ==
  /\ writer[t].pc = "appended"
  /\ writer' = [writer EXCEPT ![t].pc = "out"]
  /\ UNCHANGED <<log, logged, pageVars>>

Slice(t) ==
  /\ writer[t].pc = "appended"
  /\ writer' = [writer EXCEPT ![t] =
       IF Len(log) > LogMax THEN [pc |-> "sliced", slice |-> Newest(log)]
       ELSE [@ EXCEPT !.pc = "out"]]
  /\ UNCHANGED <<log, logged, pageVars>>

Replace(t) ==
  /\ writer[t].pc = "sliced"
  /\ log' = writer[t].slice
  /\ writer' = [writer EXCEPT ![t] = [pc |-> "out", slice |-> <<>>]]
  /\ UNCHANGED <<logged, pageVars>>

-----------------------------------------------------------------------------
\* pollApduLog, once a second.
PollSend(p) ==
  /\ poll[p].pc = "none"
  /\ poll' = [poll EXCEPT ![p] = [NoPoll EXCEPT !.pc = "sent", !.since = idx]]
  /\ UNCHANGED <<serverVars, idx, shown, clear, clears>>

\* The server takes the entries first and the length afterwards.
PollEntries(p) ==
  /\ poll[p].pc = "sent"
  /\ poll' = [poll EXCEPT ![p].pc = "entries", ![p].entries = From(log, poll[p].since)]
  /\ UNCHANGED <<serverVars, idx, shown, clear, clears>>

PollTotal(p) ==
  /\ poll[p].pc = "entries"
  /\ poll' = [poll EXCEPT ![p].pc = "answered", ![p].total = Len(log)]
  /\ UNCHANGED <<serverVars, idx, shown, clear, clears>>

\* The page shows them and remembers the length, unless there were none.  A clear
\* that comes while the poll is under way does not stop it.
PollShowKeepingIdx(p) ==
  /\ poll[p].pc = "answered"
  /\ shown' = shown \o poll[p].entries
  /\ poll' = [poll EXCEPT ![p] = NoPoll]
  /\ UNCHANGED <<serverVars, idx, clear, clears>>

PollShow(p) ==
  /\ poll[p].pc = "answered"
  /\ shown' = shown \o poll[p].entries
  /\ idx' = IF poll[p].entries = <<>> THEN idx ELSE poll[p].total
  /\ poll' = [poll EXCEPT ![p] = NoPoll]
  /\ UNCHANGED <<serverVars, clear, clears>>

\* clearApduLog: the console, then the server's list, then the position.
ClearConsole ==
  /\ clear = "none" /\ clears < MaxClears
  /\ clears' = clears + 1
  /\ shown' = <<>>
  /\ clear' = "sent"
  /\ UNCHANGED <<serverVars, idx, poll>>

ClearServer ==
  /\ clear = "sent"
  /\ log' = <<>>
  /\ clear' = "answered"
  /\ UNCHANGED <<logged, writer, idx, shown, poll, clears>>

ClearIdx ==
  /\ clear = "answered"
  /\ idx' = 0
  /\ clear' = "none"
  /\ UNCHANGED <<serverVars, shown, poll, clears>>

Write(t) == Append1(t) \/ Slice(t) \/ Replace(t)
Poll(p) == PollSend(p) \/ PollEntries(p) \/ PollTotal(p) \/ PollShow(p)
Clear == ClearConsole \/ ClearServer \/ ClearIdx

Next == (\E t \in Threads : Write(t)) \/ (\E p \in Polls : Poll(p)) \/ Clear

Spec == Init /\ [][Next]_vars

\* The page's timer keeps polling, and the server answers what it was asked.
Fairness ==
  /\ \A p \in Polls : WF_vars(Poll(p))
  /\ \A t \in Threads : WF_vars(Slice(t) \/ Replace(t))
  /\ WF_vars(ClearServer \/ ClearIdx)

FairSpec == Spec /\ Fairness

-----------------------------------------------------------------------------
\* Properties.

\* The list outgrows its limit only by the threads that have appended and not
\* yet put the shorter list in its place.
LogBounded == Len(log) <= LogMax + Cardinality({t \in Threads : writer[t].pc # "out"})

\* Until the Clear button is used, no entry appears twice in the console and none
\* out of its order, through the cuts of the list and the entries it loses, so
\* long as one poll is under way at a time.
ShownInOrder ==
  clears = 0 => \A i, j \in 1..Len(shown) : i < j => shown[i] < shown[j]

\* README: the panel "shows all APDU communication in real-time": an entry that
\* is logged comes to be shown.
EveryEntryShown ==
  \A n \in 1..MaxEntries : logged >= n ~> \E i \in 1..Len(shown) : shown[i] = n

=============================================================================
