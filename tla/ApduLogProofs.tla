--------------------------- MODULE ApduLogProofs ---------------------------
(***************************************************************************)
(* The log and its console, for any number of threads and any limit: how   *)
(* long the list gets, and the order of what the console shows.            *)
(***************************************************************************)
EXTENDS ApduLog, SequenceTheorems, FiniteSetTheorems, TLAPS

WriterStates == [pc : {"out", "appended", "sliced"}, slice : Seq(Nat)]
PollStates ==
  [pc : {"none", "sent", "entries", "answered"}, since : Nat, entries : Seq(Nat), total : Nat]

LogType ==
  /\ log \in Seq(Nat) /\ logged \in Nat
  /\ writer \in [Threads -> WriterStates]
  /\ idx \in Nat /\ shown \in Seq(Nat)
  /\ clear \in {"none", "sent", "answered"} /\ clears \in Nat
  /\ poll \in [Polls -> PollStates]
  /\ \A t \in Threads : writer[t].pc = "sliced" => Len(writer[t].slice) = LogMax

\* What a slice of a list from a position on is made of.
LEMMA FromFacts ==
  ASSUME NEW s \in Seq(Nat), NEW i \in Nat
  PROVE  /\ From(s, i) \in Seq(Nat)
         /\ Len(From(s, i)) = IF i <= Len(s) THEN Len(s) - i ELSE 0
         /\ \A j \in 1..Len(From(s, i)) : i + j \in 1..Len(s) /\ From(s, i)[j] = s[i + j]
<1>1. Len(s) \in Nat /\ \A j \in (i + 1)..Len(s) : s[j] \in Nat
  BY LenProperties, ElementOfSeq
<1>2. /\ SubSeq(s, i + 1, Len(s)) \in Seq(Nat)
      /\ Len(SubSeq(s, i + 1, Len(s))) = IF i + 1 <= Len(s) THEN Len(s) - (i + 1) + 1 ELSE 0
      /\ \A j \in 1..(Len(s) - (i + 1) + 1) : SubSeq(s, i + 1, Len(s))[j] = s[i + 1 + j - 1]
  BY <1>1, SubSeqProperties
<1> QED BY <1>1, <1>2 DEF From

\* The slice that cuts a list to its limit.
LEMMA NewestFacts ==
  ASSUME NEW s \in Seq(Nat), Len(s) > LogMax
  PROVE  /\ Newest(s) \in Seq(Nat) /\ Len(Newest(s)) = LogMax
         /\ \A j \in 1..LogMax : /\ Len(s) - LogMax + j \in 1..Len(s)
                                 /\ Newest(s)[j] = s[Len(s) - LogMax + j]
<1>1. Len(s) - LogMax \in Nat /\ LogMax \in Nat /\ Len(s) \in Nat
  BY ApduLogAssumption, LenProperties
<1> QED BY <1>1, FromFacts DEF Newest

\* Every variable keeps its shape, and a slice has the limit's length.
LEMMA LogTyped == Spec => []LogType
<1>1. Init => LogType
  BY DEF Init, LogType, NoPoll, WriterStates, PollStates
<1>2. LogType /\ [Next]_vars => LogType'
  <2> SUFFICES ASSUME LogType, [Next]_vars PROVE LogType'
    OBVIOUS
  <2> USE DEF LogType, serverVars, pageVars
  <2>1. ASSUME NEW t \in Threads, Append1(t) PROVE LogType'
    <3>1. log' \in Seq(Nat) /\ logged' \in Nat
      BY <2>1 DEF Append1
    <3>2. writer' = [writer EXCEPT ![t] = [@ EXCEPT !.pc = "appended"]]
      BY <2>1 DEF Append1
    <3>3. [writer[t] EXCEPT !.pc = "appended"] \in WriterStates
      BY DEF WriterStates
    <3> QED BY <2>1, <3>1, <3>2, <3>3 DEF Append1, WriterStates
  <2>2. ASSUME NEW t \in Threads, Slice(t) PROVE LogType'
    <3>1. CASE Len(log) > LogMax
      <4>1. Newest(log) \in Seq(Nat) /\ Len(Newest(log)) = LogMax
        BY <3>1, NewestFacts
      <4>2. writer' = [writer EXCEPT ![t] = [pc |-> "sliced", slice |-> Newest(log)]]
        BY <2>2, <3>1 DEF Slice
      <4> QED BY <2>2, <4>1, <4>2 DEF Slice, WriterStates
    <3>2. CASE ~(Len(log) > LogMax)
      <4>1. writer' = [writer EXCEPT ![t] = [@ EXCEPT !.pc = "out"]]
        BY <2>2, <3>2 DEF Slice
      <4>2. [writer[t] EXCEPT !.pc = "out"] \in WriterStates
        BY DEF WriterStates
      <4> QED BY <2>2, <4>1, <4>2 DEF Slice, WriterStates
    <3> QED BY <3>1, <3>2
  <2>3. ASSUME NEW t \in Threads, Replace(t) PROVE LogType'
    BY <2>3 DEF Replace, WriterStates
  <2>4. ASSUME NEW p \in Polls, PollSend(p) PROVE LogType'
    <3>1. [NoPoll EXCEPT !.pc = "sent", !.since = idx] \in PollStates
      <4>1. NoPoll \in PollStates
        BY DEF NoPoll, PollStates
      <4> QED BY <4>1 DEF PollStates
    <3> QED BY <2>4, <3>1 DEF PollSend
  <2>5. ASSUME NEW p \in Polls, PollEntries(p) PROVE LogType'
    <3>1. poll[p] \in PollStates /\ From(log, poll[p].since) \in Seq(Nat)
      BY FromFacts DEF PollStates
    <3>2. [poll[p] EXCEPT !.pc = "entries", !.entries = From(log, poll[p].since)] \in PollStates
      BY <3>1 DEF PollStates
    <3>3. poll' = [poll EXCEPT ![p] = [poll[p] EXCEPT !.pc = "entries", !.entries = From(log, poll[p].since)]]
      BY <2>5 DEF PollEntries
    <3> QED BY <2>5, <3>2, <3>3 DEF PollEntries
  <2>6. ASSUME NEW p \in Polls, PollTotal(p) PROVE LogType'
    <3>1. [poll[p] EXCEPT !.pc = "answered", !.total = Len(log)] \in PollStates
      BY LenProperties DEF PollStates
    <3>2. poll' = [poll EXCEPT ![p] = [poll[p] EXCEPT !.pc = "answered", !.total = Len(log)]]
      BY <2>6 DEF PollTotal
    <3> QED BY <2>6, <3>1, <3>2 DEF PollTotal
  <2>7. ASSUME NEW p \in Polls, PollShow(p) PROVE LogType'
    <3>1. poll[p] \in PollStates /\ NoPoll \in PollStates
      BY DEF PollStates, NoPoll
    <3>2. shown \o poll[p].entries \in Seq(Nat) /\ poll[p].total \in Nat
      BY <3>1, ConcatProperties DEF PollStates
    <3>3. shown' \in Seq(Nat) /\ idx' \in Nat /\ poll' \in [Polls -> PollStates]
      BY <2>7, <3>1, <3>2 DEF PollShow
    <3> QED BY <2>7, <3>3 DEF PollShow
  <2>8. CASE Clear
    <3>1. CASE ClearConsole
      BY <3>1 DEF ClearConsole
    <3>2. CASE ClearServer
      BY <3>2 DEF ClearServer
    <3>3. CASE ClearIdx
      BY <3>3 DEF ClearIdx
    <3> QED BY <2>8, <3>1, <3>2, <3>3 DEF Clear
  <2>9. CASE UNCHANGED vars
    BY <2>9 DEF vars
  <2> QED BY <2>1, <2>2, <2>3, <2>4, <2>5, <2>6, <2>7, <2>8, <2>9 DEF Next, Write, Poll
<1> QED BY <1>1, <1>2, PTL DEF Spec

-----------------------------------------------------------------------------
\* The length of the list.

Busy == {t \in Threads : writer[t].pc # "out"}

\* The list outgrows its limit by one entry for each thread inside _log_apdu at
\* most, for any number of threads.
THEOREM LogStaysBounded ==
  ASSUME IsFiniteSet(Threads)
  PROVE  Spec => []LogBounded
<1>1. ASSUME LogType
      PROVE  IsFiniteSet(Busy) /\ Cardinality(Busy) \in Nat /\ LogMax \in Nat
  BY FS_Subset, FS_CardinalityType, ApduLogAssumption DEF Busy
<1>2. Init => LogBounded
  <2> SUFFICES ASSUME Init PROVE LogBounded
    OBVIOUS
  <2>1. log = <<>> /\ Busy = {}
    BY DEF Init, Busy
  <2>2. Len(log) = 0 /\ Cardinality(Busy) = 0
    BY <2>1, FS_EmptySet
  <2>3. Len(log) <= LogMax + Cardinality(Busy)
    BY <2>2, ApduLogAssumption
  <2> QED BY <2>3 DEF LogBounded, Busy
<1>3. LogType /\ LogType' /\ LogBounded /\ [Next]_vars => LogBounded'
  <2> SUFFICES ASSUME LogType, LogType', LogBounded, [Next]_vars PROVE LogBounded'
    OBVIOUS
  <2>0. Len(log) <= LogMax + Cardinality(Busy)
    BY DEF LogBounded, Busy
  <2> SUFFICES Len(log') <= LogMax + Cardinality(Busy')
    BY DEF LogBounded, Busy
  <2>a. /\ IsFiniteSet(Busy) /\ Cardinality(Busy) \in Nat /\ LogMax \in Nat
        /\ Len(log) \in Nat
    BY <1>1, LenProperties DEF LogType
  <2>1. ASSUME NEW t \in Threads, Append1(t) PROVE Len(log') <= LogMax + Cardinality(Busy')
    <3>1. Busy' = Busy \cup {t} /\ t \notin Busy
      BY <2>1 DEF Append1, Busy, LogType, WriterStates
    <3>2. Cardinality(Busy') = Cardinality(Busy) + 1
      BY <2>a, <3>1, FS_AddElement
    <3>3. Len(log') = Len(log) + 1
      BY <2>1 DEF Append1, LogType
    <3> QED BY <2>0, <2>a, <3>2, <3>3
  <2>2. ASSUME NEW t \in Threads, Slice(t) PROVE Len(log') <= LogMax + Cardinality(Busy')
    <3>1. log' = log
      BY <2>2 DEF Slice
    <3>2. CASE Len(log) > LogMax
      <4>1. Busy' = Busy
        BY <2>2, <3>2 DEF Slice, Busy, LogType, WriterStates
      <4> QED BY <2>0, <3>1, <4>1
    <3>3. CASE Len(log) <= LogMax
      <4>1. Busy' \in SUBSET Busy
        BY <2>2, <3>3 DEF Slice, Busy, LogType, WriterStates
      <4>2. Cardinality(Busy') \in Nat
        BY <2>a, <4>1, FS_Subset, FS_CardinalityType
      <4> QED BY <2>a, <3>1, <3>3, <4>2
    <3> QED BY <2>a, <3>2, <3>3
  <2>3. ASSUME NEW t \in Threads, Replace(t) PROVE Len(log') <= LogMax + Cardinality(Busy')
    <3>1. Len(log') = LogMax
      BY <2>3 DEF Replace, LogType, WriterStates
    <3>2. Busy' \in SUBSET Busy
      BY <2>3 DEF Replace, Busy, LogType, WriterStates
    <3>3. Cardinality(Busy') \in Nat
      BY <2>a, <3>2, FS_Subset, FS_CardinalityType
    <3> QED BY <2>a, <3>1, <3>3
  <2>4. CASE writer' = writer /\ log' \in {log, <<>>}
    <3>1. Busy' = Busy
      BY <2>4 DEF Busy
    <3>2. Len(log') <= Len(log)
      BY <2>4, <2>a
    <3> QED BY <2>0, <2>a, <2>4, <3>1, <3>2
  <2> QED BY <2>1, <2>2, <2>3, <2>4
          DEF Next, Write, Poll, Clear, PollSend, PollEntries, PollTotal, PollShow,
              ClearConsole, ClearServer, ClearIdx, serverVars, vars
<1> QED BY <1>2, <1>3, LogTyped, PTL DEF Spec

-----------------------------------------------------------------------------
\* The order of what is shown.

Increasing(s) == \A i, j \in 1..Len(s) : i < j => s[i] < s[j]
Upto(s, n) == \A i \in 1..Len(s) : s[i] <= n
\* The entries of s after position k were logged after all of t.
Beyond(s, k, t) == \A j \in 1..Len(s) : j > k => \A i \in 1..Len(t) : t[i] < s[j]

\* The list, and what a thread is about to put in its place.
Lists == {log} \cup {writer[t].slice : t \in {u \in Threads : writer[u].pc = "sliced"}}

\* One poll at a time (p).  Whatever the list is or is about to be, beyond the
\* page's position it has entries later than all those shown; and so beyond the
\* position that an answered poll brings.  That holds because a list that has been
\* cut never has fewer entries than the limit, so that a slice put in its place
\* ends where the page will ask next or before.
InOrder(p) ==
  clears = 0 =>
    /\ clear = "none"
    /\ \A t \in Threads : writer[t].pc = "sliced" => Len(log) >= LogMax
    /\ Increasing(shown) /\ Upto(shown, logged)
    /\ \A s \in Lists : Increasing(s) /\ Upto(s, logged) /\ Beyond(s, idx, shown)
    /\ poll[p].pc # "none" => poll[p].since = idx
    /\ poll[p].pc \in {"entries", "answered"} =>
         /\ Increasing(poll[p].entries) /\ Upto(poll[p].entries, logged)
         /\ Beyond(poll[p].entries, 0, shown)
    /\ poll[p].pc = "answered" /\ poll[p].entries # <<>> =>
         \A s \in Lists : Beyond(s, poll[p].total, poll[p].entries)

\* Entries logged so far stay so.
LEMMA UptoMore ==
  ASSUME NEW s \in Seq(Nat), NEW n \in Nat, NEW m \in Nat, n <= m, Upto(s, n)
  PROVE  Upto(s, m)
<1> SUFFICES ASSUME NEW i \in 1..Len(s) PROVE s[i] <= m
  BY DEF Upto
<1>1. s[i] \in Nat /\ s[i] <= n
  BY ElementOfSeq DEF Upto
<1> QED BY <1>1

\* A newly logged entry comes after all others.
LEMMA AppendOrder ==
  ASSUME NEW s \in Seq(Nat), NEW n \in Nat, Increasing(s), Upto(s, n)
  PROVE  /\ Increasing(Append(s, n + 1)) /\ Upto(Append(s, n + 1), n + 1)
         /\ \A k \in Nat : \A t \in Seq(Nat) :
              Beyond(s, k, t) /\ Upto(t, n) => Beyond(Append(s, n + 1), k, t)
<1> DEFINE a == Append(s, n + 1)
<1>1. /\ Len(s) \in Nat /\ Len(a) = Len(s) + 1
      /\ \A i \in 1..Len(s) : a[i] = s[i] /\ s[i] \in Nat /\ s[i] <= n
      /\ a[Len(s) + 1] = n + 1
  BY AppendProperties, LenProperties, ElementOfSeq DEF Upto
<1> HIDE DEF a
<1>2. Increasing(a) /\ Upto(a, n + 1)
  <2>1. \A i \in 1..Len(a) : i \in 1..Len(s) \/ i = Len(s) + 1
    BY <1>1
  <2>2. Upto(a, n + 1)
    BY <1>1, <2>1 DEF Upto
  <2>3. ASSUME NEW i \in 1..Len(a), NEW j \in 1..Len(a), i < j
        PROVE  a[i] < a[j]
    <3>1. i \in 1..Len(s)
      BY <1>1, <2>3
    <3>2. CASE j = Len(s) + 1
      BY <1>1, <3>1, <3>2
    <3>3. CASE j \in 1..Len(s)
      BY <1>1, <2>3, <3>1, <3>3 DEF Increasing
    <3> QED BY <2>1, <3>2, <3>3
  <2> QED BY <2>2, <2>3 DEF Increasing
<1>3. ASSUME NEW k \in Nat, NEW t \in Seq(Nat), Beyond(s, k, t), Upto(t, n)
      PROVE  Beyond(a, k, t)
  <2>1. ASSUME NEW j \in 1..Len(a), j > k, NEW i \in 1..Len(t)
        PROVE  t[i] < a[j]
    <3>1. t[i] \in Nat /\ t[i] <= n
      BY <1>3, ElementOfSeq DEF Upto
    <3>2. CASE j = Len(s) + 1
      BY <1>1, <3>1, <3>2
    <3>3. CASE j \in 1..Len(s)
      BY <1>1, <1>3, <2>1, <3>3 DEF Beyond
    <3> QED BY <1>1, <3>2, <3>3
  <2> QED BY <2>1 DEF Beyond
<1> QED BY <1>2, <1>3 DEF a

\* A slice keeps the order, and moves entries to the front only.
LEMMA NewestOrder ==
  ASSUME NEW s \in Seq(Nat), Len(s) > LogMax, NEW n \in Nat, Increasing(s), Upto(s, n)
  PROVE  /\ Increasing(Newest(s)) /\ Upto(Newest(s), n)
         /\ \A k \in Nat : \A t \in Seq(Nat) : Beyond(s, k, t) => Beyond(Newest(s), k, t)
<1> DEFINE a == Newest(s)  d == Len(s) - LogMax
<1>1. /\ a \in Seq(Nat) /\ Len(a) = LogMax
      /\ \A j \in 1..LogMax : d + j \in 1..Len(s) /\ a[j] = s[d + j]
  BY NewestFacts
<1>2. d \in Nat \ {0} /\ LogMax \in Nat
  BY ApduLogAssumption, LenProperties
<1> HIDE DEF a, d
<1>3. Increasing(a) /\ Upto(a, n)
  <2>1. ASSUME NEW i \in 1..Len(a), NEW j \in 1..Len(a), i < j PROVE a[i] < a[j]
    <3>1. d + i \in 1..Len(s) /\ d + j \in 1..Len(s) /\ d + i < d + j
      BY <1>1, <1>2, <2>1
    <3>2. s[d + i] < s[d + j]
      BY <3>1 DEF Increasing
    <3> QED BY <1>1, <2>1, <3>2
  <2>2. ASSUME NEW i \in 1..Len(a) PROVE a[i] <= n
    BY <1>1, <2>2 DEF Upto
  <2> QED BY <2>1, <2>2 DEF Increasing, Upto
<1>4. ASSUME NEW k \in Nat, NEW t \in Seq(Nat), Beyond(s, k, t) PROVE Beyond(a, k, t)
  <2>1. ASSUME NEW j \in 1..Len(a), j > k, NEW i \in 1..Len(t) PROVE t[i] < a[j]
    <3>1. d + j \in 1..Len(s) /\ d + j > k
      <4>1. j \in 1..LogMax /\ j \in Nat /\ j > k
        BY <1>1, <1>2, <2>1
      <4>2. d + j \in 1..Len(s)
        BY <1>1, <4>1
      <4>3. d + j > k
        BY <1>2, <4>1
      <4> QED BY <4>2, <4>3
    <3>2. t[i] < s[d + j]
      BY <1>4, <3>1 DEF Beyond
    <3> QED BY <1>1, <2>1, <3>2
  <2> QED BY <2>1 DEF Beyond
<1> QED BY <1>3, <1>4 DEF a

\* What a poll is sent is in order too, and all of it beyond its position.
LEMMA FromOrder ==
  ASSUME NEW s \in Seq(Nat), NEW k \in Nat, NEW n \in Nat, NEW t \in Seq(Nat),
         Increasing(s), Upto(s, n), Beyond(s, k, t)
  PROVE  Increasing(From(s, k)) /\ Upto(From(s, k), n) /\ Beyond(From(s, k), 0, t)
<1> DEFINE a == From(s, k)
<1>1. /\ a \in Seq(Nat) /\ Len(a) \in Nat
      /\ \A j \in 1..Len(a) : k + j \in 1..Len(s) /\ a[j] = s[k + j]
  BY FromFacts, LenProperties
<1> HIDE DEF a
<1>2. Increasing(a) /\ Upto(a, n)
  <2>1. ASSUME NEW i \in 1..Len(a), NEW j \in 1..Len(a), i < j PROVE a[i] < a[j]
    <3>1. k + i \in 1..Len(s) /\ k + j \in 1..Len(s) /\ k + i < k + j
      BY <1>1, <2>1
    <3>2. s[k + i] < s[k + j]
      BY <3>1 DEF Increasing
    <3> QED BY <1>1, <2>1, <3>2
  <2>2. ASSUME NEW i \in 1..Len(a) PROVE a[i] <= n
    BY <1>1, <2>2 DEF Upto
  <2> QED BY <2>1, <2>2 DEF Increasing, Upto
<1>3. Beyond(a, 0, t)
  <2>1. ASSUME NEW j \in 1..Len(a), j > 0, NEW i \in 1..Len(t) PROVE t[i] < a[j]
    <3>1. k + j \in 1..Len(s) /\ k + j > k
      BY <1>1, <2>1
    <3>2. t[i] < s[k + j]
      BY <3>1 DEF Beyond
    <3> QED BY <1>1, <2>1, <3>2
  <2> QED BY <2>1 DEF Beyond
<1> QED BY <1>2, <1>3 DEF a

\* Appending to the console what comes after all it has.
LEMMA ConcatOrder ==
  ASSUME NEW s \in Seq(Nat), NEW t \in Seq(Nat), NEW n \in Nat,
         Increasing(s), Increasing(t), Upto(s, n), Upto(t, n), Beyond(t, 0, s)
  PROVE  /\ Increasing(s \o t) /\ Upto(s \o t, n)
         /\ \A l \in Seq(Nat) : \A k \in Nat :
              t # <<>> /\ Beyond(l, k, t) => Beyond(l, k, s \o t)
<1> DEFINE a == s \o t
<1>1. /\ Len(s) \in Nat /\ Len(t) \in Nat /\ Len(a) = Len(s) + Len(t)
      /\ \A i \in 1..Len(a) : a[i] = IF i <= Len(s) THEN s[i] ELSE t[i - Len(s)]
  BY ConcatProperties, LenProperties
<1>2. (\A i \in 1..Len(s) : s[i] \in Nat) /\ (\A i \in 1..Len(t) : t[i] \in Nat)
  BY ElementOfSeq
<1> HIDE DEF a
<1>3. Increasing(a)
  <2> SUFFICES ASSUME NEW i \in 1..Len(a), NEW j \in 1..Len(a), i < j PROVE a[i] < a[j]
    BY DEF Increasing
  <2>1. CASE j <= Len(s)
    <3>1. i \in 1..Len(s) /\ j \in 1..Len(s) /\ a[i] = s[i] /\ a[j] = s[j]
      BY <1>1, <2>1
    <3>2. s[i] < s[j]
      BY <3>1 DEF Increasing
    <3> QED BY <3>1, <3>2
  <2>2. CASE i > Len(s)
    <3>1. i - Len(s) \in 1..Len(t) /\ j - Len(s) \in 1..Len(t) /\ i - Len(s) < j - Len(s)
      BY <1>1, <2>2
    <3>2. a[i] = t[i - Len(s)] /\ a[j] = t[j - Len(s)]
      BY <1>1, <2>2
    <3>3. t[i - Len(s)] < t[j - Len(s)]
      BY <3>1 DEF Increasing
    <3> QED BY <3>2, <3>3
  <2>3. CASE i <= Len(s) /\ j > Len(s)
    <3>1. j - Len(s) \in 1..Len(t) /\ j - Len(s) > 0 /\ i \in 1..Len(s)
      BY <1>1, <2>3
    <3>2. a[i] = s[i] /\ a[j] = t[j - Len(s)]
      BY <1>1, <2>3
    <3>3. s[i] < t[j - Len(s)]
      BY <3>1 DEF Beyond
    <3> QED BY <3>2, <3>3
  <2> QED BY <1>1, <2>1, <2>2, <2>3
<1>4. Upto(a, n)
  <2> SUFFICES ASSUME NEW i \in 1..Len(a) PROVE a[i] <= n
    BY DEF Upto
  <2>1. CASE i <= Len(s)
    BY <1>1, <2>1 DEF Upto
  <2>2. CASE i > Len(s)
    <3>1. i - Len(s) \in 1..Len(t)
      BY <1>1, <2>2
    <3> QED BY <1>1, <2>2, <3>1 DEF Upto
  <2> QED BY <1>1, <2>1, <2>2
<1>5. ASSUME NEW l \in Seq(Nat), NEW k \in Nat, t # <<>>, Beyond(l, k, t)
      PROVE  Beyond(l, k, a)
  <2> SUFFICES ASSUME NEW j \in 1..Len(l), j > k, NEW i \in 1..Len(a) PROVE a[i] < l[j]
    BY DEF Beyond
  <2>0. l[j] \in Nat
    BY ElementOfSeq
  <2>1. CASE i <= Len(s)
    <3>1. 1 \in 1..Len(t)
      BY <1>1, <1>5, EmptySeq
    <3>2. i \in 1..Len(s) /\ a[i] = s[i]
      BY <1>1, <2>1
    <3>3. s[i] < t[1]
      BY <3>1, <3>2 DEF Beyond
    <3>4. t[1] < l[j]
      BY <1>5, <3>1 DEF Beyond
    <3>5. s[i] \in Nat /\ t[1] \in Nat
      BY <1>2, <3>1, <3>2
    <3>6. \A x, y, z \in Nat : x < y /\ y < z => x < z
      OBVIOUS
    <3> QED BY <2>0, <3>2, <3>3, <3>4, <3>5, <3>6
  <2>2. CASE i > Len(s)
    <3>1. i - Len(s) \in 1..Len(t)
      BY <1>1, <2>2
    <3>2. a[i] = t[i - Len(s)]
      BY <1>1, <2>2
    <3>3. t[i - Len(s)] < l[j]
      BY <1>5, <3>1 DEF Beyond
    <3> QED BY <3>2, <3>3
  <2> QED BY <1>1, <2>1, <2>2
<1> QED BY <1>3, <1>4, <1>5 DEF a

\* The steps of a thread that logs keep the order.
LEMMA WriteOrder ==
  ASSUME LogType, NEW p \in Polls, InOrder(p), NEW t \in Threads, Write(t)
  PROVE  InOrder(p)'
<1> SUFFICES ASSUME clears' = 0 PROVE InOrder(p)'
  BY DEF InOrder
<1>0. /\ log \in Seq(Nat) /\ logged \in Nat /\ idx \in Nat /\ shown \in Seq(Nat)
      /\ Len(log) \in Nat /\ LogMax \in Nat
      /\ poll[p].total \in Nat /\ poll[p].entries \in Seq(Nat)
      /\ \A s \in Lists : s \in Seq(Nat)
  BY LenProperties, ApduLogAssumption DEF LogType, Lists, WriterStates, PollStates
<1>1. UNCHANGED <<idx, shown, poll, clear, clears>>
  BY DEF Write, Append1, Slice, Replace, pageVars
<1>2. /\ clear = "none"
      /\ \A u \in Threads : writer[u].pc = "sliced" => Len(log) >= LogMax
      /\ Increasing(shown) /\ Upto(shown, logged)
      /\ \A s \in Lists : Increasing(s) /\ Upto(s, logged) /\ Beyond(s, idx, shown)
      /\ poll[p].pc # "none" => poll[p].since = idx
      /\ poll[p].pc \in {"entries", "answered"} =>
           /\ Increasing(poll[p].entries) /\ Upto(poll[p].entries, logged)
           /\ Beyond(poll[p].entries, 0, shown)
      /\ poll[p].pc = "answered" /\ poll[p].entries # <<>> =>
           \A s \in Lists : Beyond(s, poll[p].total, poll[p].entries)
  BY <1>1 DEF InOrder
<1> DEFINE Kept(s, n) ==
      /\ Increasing(s) /\ Upto(s, n) /\ Beyond(s, idx, shown)
      /\ poll[p].pc = "answered" /\ poll[p].entries # <<>> => Beyond(s, poll[p].total, poll[p].entries)
<1>3. \A s \in Lists : Kept(s, logged)
  BY <1>2
<1>4. ASSUME logged' \in {logged, logged + 1},
             \A u \in Threads : writer[u].pc' = "sliced" => Len(log') >= LogMax,
             \A s \in Lists' : Kept(s, logged')
      PROVE  InOrder(p)'
  <2>1. \A q \in Seq(Nat) : Upto(q, logged) => Upto(q, logged')
    BY <1>0, <1>4, UptoMore
  <2>2. Upto(shown, logged')
    BY <1>0, <1>2, <2>1
  <2>3. poll[p].pc \in {"entries", "answered"} => Upto(poll[p].entries, logged')
    BY <1>0, <1>2, <2>1
  <2> QED BY <1>1, <1>2, <1>4, <2>2, <2>3 DEF InOrder
<1>5. CASE Append1(t)
  <2>1. /\ log' = Append(log, logged + 1) /\ logged' = logged + 1
        /\ writer' = [writer EXCEPT ![t].pc = "appended"]
    BY <1>5 DEF Append1
  <2>2. \A s \in Lists' : s = log' \/ s \in Lists
    BY <2>1 DEF Lists, LogType, WriterStates
  <2>3. \A u \in Threads : writer[u].pc' = "sliced" => Len(log') >= LogMax
    <3>1. Len(log') = Len(log) + 1
      BY <2>1, <1>0
    <3>2. \A u \in Threads : writer[u].pc' = "sliced" => writer[u].pc = "sliced"
      BY <2>1 DEF LogType
    <3> QED BY <1>0, <1>2, <3>1, <3>2
  <2>4. log \in Lists
    BY DEF Lists
  <2>5. Kept(log', logged')
    <3>1. /\ Increasing(log') /\ Upto(log', logged')
          /\ \A k \in Nat : \A q \in Seq(Nat) : Beyond(log, k, q) /\ Upto(q, logged) => Beyond(log', k, q)
      BY <1>0, <1>2, <2>1, <2>4, AppendOrder
    <3> QED BY <1>0, <1>2, <2>4, <3>1
  <2>6. \A s \in Lists : Kept(s, logged')
    <3>1. ASSUME NEW s \in Lists PROVE Upto(s, logged')
      <4>1. s \in Seq(Nat) /\ Upto(s, logged) /\ logged + 1 \in Nat /\ logged <= logged + 1
        BY <1>0, <1>2
      <4> QED BY <1>0, <2>1, <4>1, UptoMore
    <3> QED BY <1>3, <3>1
  <2> QED BY <1>4, <2>1, <2>2, <2>3, <2>5, <2>6
<1>6. CASE Slice(t)
  <2>1. log' = log /\ logged' = logged
    BY <1>6 DEF Slice
  <2>2. CASE Len(log) > LogMax
    <3>1. writer' = [writer EXCEPT ![t] = [pc |-> "sliced", slice |-> Newest(log)]]
      BY <1>6, <2>2 DEF Slice
    <3>2. \A s \in Lists' : s = Newest(log) \/ s \in Lists
      BY <2>1, <3>1 DEF Lists, LogType, WriterStates
    <3>3. \A u \in Threads : writer[u].pc' = "sliced" => Len(log') >= LogMax
      BY <1>0, <2>1, <2>2
    <3>4. log \in Lists
      BY DEF Lists
    <3>5. Kept(Newest(log), logged)
      <4>1. /\ Increasing(Newest(log)) /\ Upto(Newest(log), logged)
            /\ \A k \in Nat : \A q \in Seq(Nat) : Beyond(log, k, q) => Beyond(Newest(log), k, q)
        BY <1>0, <1>2, <2>2, <3>4, NewestOrder
      <4> QED BY <1>0, <1>2, <3>4, <4>1
    <3> QED BY <1>3, <1>4, <2>1, <3>2, <3>3, <3>5
  <2>3. CASE ~(Len(log) > LogMax)
    <3>1. writer' = [writer EXCEPT ![t].pc = "out"]
      BY <1>6, <2>3 DEF Slice
    <3>2. Lists' \subseteq Lists
      BY <2>1, <3>1 DEF Lists, LogType, WriterStates
    <3>3. \A u \in Threads : writer[u].pc' = "sliced" => Len(log') >= LogMax
      BY <1>2, <2>1, <3>1 DEF LogType
    <3> QED BY <1>3, <1>4, <2>1, <3>2, <3>3
  <2> QED BY <2>2, <2>3
<1>7. CASE Replace(t)
  <2>1. /\ writer[t].pc = "sliced" /\ log' = writer[t].slice /\ logged' = logged
        /\ writer' = [writer EXCEPT ![t] = [pc |-> "out", slice |-> <<>>]]
    BY <1>7 DEF Replace
  <2>2. Lists' \subseteq Lists
    BY <2>1 DEF Lists, LogType, WriterStates
  <2>3. Len(log') = LogMax
    BY <2>1 DEF LogType
  <2> QED BY <1>0, <1>3, <1>4, <2>1, <2>2, <2>3
<1> QED BY <1>5, <1>6, <1>7 DEF Write

\* The steps of the page and of the server's answers keep the order.
LEMMA PollOrder ==
  ASSUME LogType, NEW p \in Polls, InOrder(p), Poll(p)
  PROVE  InOrder(p)'
<1> SUFFICES ASSUME clears' = 0 PROVE InOrder(p)'
  BY DEF InOrder
<1>0. /\ log \in Seq(Nat) /\ logged \in Nat /\ idx \in Nat /\ shown \in Seq(Nat)
      /\ Len(log) \in Nat /\ LogMax \in Nat
      /\ poll[p].total \in Nat /\ poll[p].entries \in Seq(Nat)
      /\ \A s \in Lists : s \in Seq(Nat)
  BY LenProperties, ApduLogAssumption DEF LogType, Lists, WriterStates, PollStates
<1>1. UNCHANGED <<log, logged, writer, clear, clears>> /\ Lists' = Lists
  BY DEF Poll, PollSend, PollEntries, PollTotal, PollShow, serverVars, Lists
<1>2. /\ clear = "none"
      /\ \A u \in Threads : writer[u].pc = "sliced" => Len(log) >= LogMax
      /\ Increasing(shown) /\ Upto(shown, logged)
      /\ \A s \in Lists : Increasing(s) /\ Upto(s, logged) /\ Beyond(s, idx, shown)
      /\ poll[p].pc # "none" => poll[p].since = idx
      /\ poll[p].pc \in {"entries", "answered"} =>
           /\ Increasing(poll[p].entries) /\ Upto(poll[p].entries, logged)
           /\ Beyond(poll[p].entries, 0, shown)
      /\ poll[p].pc = "answered" /\ poll[p].entries # <<>> =>
           \A s \in Lists : Beyond(s, poll[p].total, poll[p].entries)
  BY <1>1 DEF InOrder
<1>3. log \in Lists
  BY DEF Lists
<1>4. CASE PollSend(p)
  <2>1. /\ UNCHANGED <<idx, shown>>
        /\ poll'[p].pc = "sent" /\ poll'[p].since = idx
    BY <1>4 DEF PollSend, NoPoll, LogType, PollStates
  <2> QED BY <1>1, <1>2, <2>1 DEF InOrder
<1>5. CASE PollEntries(p)
  <2>1. /\ UNCHANGED <<idx, shown>>
        /\ poll'[p].pc = "entries" /\ poll'[p].since = idx
        /\ poll'[p].entries = From(log, idx)
    BY <1>2, <1>5 DEF PollEntries, LogType, PollStates
  <2>2. /\ Increasing(From(log, idx)) /\ Upto(From(log, idx), logged)
        /\ Beyond(From(log, idx), 0, shown)
    BY <1>0, <1>2, <1>3, FromOrder
  <2> QED BY <1>1, <1>2, <2>1, <2>2 DEF InOrder
<1>6. CASE PollTotal(p)
  <2>1. /\ UNCHANGED <<idx, shown>>
        /\ poll[p].pc = "entries" /\ poll'[p].pc = "answered" /\ poll'[p].since = poll[p].since
        /\ poll'[p].entries = poll[p].entries /\ poll'[p].total = Len(log)
    BY <1>6 DEF PollTotal, LogType, PollStates
  <2>2. \A s \in Lists : Len(s) <= Len(log)
    BY <1>0, <1>2 DEF Lists, LogType, WriterStates
  <2>3. \A s \in Lists : Beyond(s, Len(log), poll[p].entries)
    BY <1>0, <2>2, LenProperties DEF Beyond
  <2> QED BY <1>1, <1>2, <2>1, <2>3 DEF InOrder
<1>7. CASE PollShow(p)
  <2>1. /\ poll[p].pc = "answered" /\ poll'[p].pc = "none"
        /\ shown' = shown \o poll[p].entries
        /\ idx' = IF poll[p].entries = <<>> THEN idx ELSE poll[p].total
    BY <1>7 DEF PollShow, NoPoll, LogType, PollStates
  <2>2. /\ Increasing(shown') /\ Upto(shown', logged)
        /\ \A l \in Seq(Nat) : \A k \in Nat :
             poll[p].entries # <<>> /\ Beyond(l, k, poll[p].entries) => Beyond(l, k, shown')
    BY <1>0, <1>2, <2>1, ConcatOrder
  <2>3. \A s \in Lists : Beyond(s, idx', shown')
    <3>1. CASE poll[p].entries = <<>>
      <4>1. shown' = shown /\ idx' = idx
        BY <1>0, <2>1, <3>1, ConcatEmptySeq
      <4> QED BY <1>2, <4>1
    <3>2. CASE poll[p].entries # <<>>
      BY <1>0, <1>2, <2>1, <2>2, <3>2
    <3> QED BY <3>1, <3>2
  <2> QED BY <1>1, <1>2, <2>1, <2>2, <2>3 DEF InOrder
<1> QED BY <1>4, <1>5, <1>6, <1>7 DEF Poll

\* The console shows entries in the order they were logged and none twice, until
\* the first clear and with one poll at a time, whatever threads log meanwhile.
THEOREM ConsoleInOrder ==
  ASSUME NEW p, Polls = {p}
  PROVE  Spec => []ShownInOrder
<1>1. Init => InOrder(p)
  <2> SUFFICES ASSUME Init PROVE InOrder(p)
    OBVIOUS
  <2>1. /\ Lists = {<<>>} /\ shown = <<>> /\ Len(<<>>) = 0 /\ clear = "none"
        /\ poll[p].pc = "none" /\ \A t \in Threads : writer[t].pc = "out"
    BY DEF Init, Lists, NoPoll
  <2> QED BY <2>1 DEF InOrder, Increasing, Upto, Beyond
<1>2. LogType /\ InOrder(p) /\ [Next]_vars => InOrder(p)'
  <2> SUFFICES ASSUME LogType, InOrder(p), [Next]_vars PROVE InOrder(p)'
    OBVIOUS
  <2>1. ASSUME NEW t \in Threads, Write(t) PROVE InOrder(p)'
    BY <2>1, WriteOrder
  <2>2. CASE Poll(p)
    BY <2>2, PollOrder
  <2>3. CASE Clear
    <3>1. CASE clears' = clears
      <4>1. clear # "none"
        BY <2>3, <3>1 DEF Clear, ClearConsole, ClearServer, ClearIdx, LogType
      <4> QED BY <3>1, <4>1 DEF InOrder
    <3>2. CASE clears' = clears + 1
      BY <3>2 DEF InOrder, LogType
    <3> QED BY <2>3, <3>1, <3>2 DEF Clear, ClearConsole, ClearServer, ClearIdx
  <2>4. CASE UNCHANGED vars
    BY <2>4 DEF vars, InOrder, Lists
  <2> QED BY <2>1, <2>2, <2>3, <2>4 DEF Next
<1>3. InOrder(p) => ShownInOrder
  BY DEF InOrder, ShownInOrder, Increasing
<1> QED BY <1>1, <1>2, <1>3, LogTyped, PTL DEF Spec

=============================================================================
