--------------------------- MODULE SimServerProofs ---------------------------
(***************************************************************************)
(* Proofs about the web server: FileRequests, for every set of threads,    *)
(* session numbers, card layouts and files, and any number of failing      *)
(* exchanges, and SimServer, which extends it, for any endpoints besides.  *)
(*                                                                         *)
(* The argument for the file requests: what a thread's record may look     *)
(* like (LocalInv) does not depend on other threads.  Sessions belong to   *)
(* one thread each, so what a thread selected on its session stays         *)
(* selected (SessionInv).  A channel belongs to nobody, so there the       *)
(* selection is only safe while the other threads are idle                 *)
(* (IsolationInv).  So a protected request's commands go to its own file,  *)
(* and what the promise of FileServer sees of a request depends on the     *)
(* record of its thread alone; each step of a thread takes its record to   *)
(* one that the promise allows next (Allowed).                             *)
(*                                                                         *)
(* For the server: a request writes the globals one by one, so what counts *)
(* is the value each will have when the assignments under way are made     *)
(* (EndsAs), and making the next one does not change that.  While nobody   *)
(* else is at work these values satisfy the property from the moment the   *)
(* list of assignments is drawn up.                                        *)
(***************************************************************************)
EXTENDS SimServer, SequenceTheorems, TLAPS

-----------------------------------------------------------------------------
\* The file requests.

\* What holds of the record of one thread, whatever the others do.
LocalInv(l) ==
  /\ l.pc # "idle" => l.op \in FileOps /\ l.path \in Files \cup BatchFiles
  /\ l.pc \in {"idle", "route", "open"} => l.session = NoSession
  /\ l.pc = "close" => l.session # NoSession
  /\ l.pc = "open" \/ l.session # NoSession => l.path.app = "ISIM"
  /\ l.op \in Batches /\ l.pc # "idle" => l.path = Batch[l.op][l.n]
  /\ l.op = "read_info" /\ l.pc # "idle" => l.lchan = g.usim_lchan
  /\ l.pc \in {"select", "delete", "access"} /\ l.session = NoSession
       => /\ l.path.app = "ISIM" => ~g.isim_ccho
          /\ l.op # "read_arr" =>
               l.lchan = IF l.path.app = "ISIM" THEN g.isim_lchan ELSE g.usim_lchan

-----------------------------------------------------------------------------
\* The files of the batches are files, and the constants of a batch.
LEMMA BatchFacts ==
  ASSUME NEW o \in Batches, NEW i \in 1..3
  PROVE  /\ Batch[o][i] \in BatchFiles
         /\ Batch[o][i] \in [app : {"MF", "USIM", "ISIM"}, fid : FileIds]
         /\ o = "read_info" => Batch[o][i].app # "ISIM"
<1>1. i = 1 \/ i = 2 \/ i = 3
  OBVIOUS
<1>2. Batch["read_info"] = <<File("MF", "2FE2"), File("USIM", "6F07"), File("USIM", "6F40")>>
  BY DEF Batch
<1>3. Batch["read_arr"] = <<File("MF", "2F06"), File("USIM", "6F06"), File("ISIM", "6F06")>>
  BY DEF Batch
<1>4. Batch[o][i] \in BatchFiles
  BY DEF BatchFiles
<1> QED BY <1>1, <1>2, <1>3, <1>4 DEF File, FileIds, Batches

\* Every file a request is about is a well-formed one.
LEMMA FileFacts ==
  ASSUME NEW p \in Files \cup BatchFiles
  PROVE  p \in [app : {"MF", "USIM", "ISIM"}, fid : FileIds]
<1>1. CASE p \in Files
  BY <1>1, FileRequestsAssumption DEF FileIds
<1>2. CASE p \in BatchFiles
  BY <1>2, BatchFacts DEF BatchFiles
<1> QED BY <1>1, <1>2

\* The members of the component sets that the steps assign.
LEMMA Members ==
  /\ 0 \in Pieces /\ 1 \in 1..3 /\ -1 \in Numbers /\ NoSession \in Holdings
  /\ {"idle", "route", "open", "select", "delete", "access", "close"} \subseteq Points
  /\ {"none", "serial", "runtime"} \subseteq Exceptions
  /\ {"none", "ok", "error", "disconnected", "error500"} \subseteq Answers
  /\ Files \cup BatchFiles \cup {NoFile} \subseteq Paths
  /\ FileOps \cup {"none"} \subseteq OpNames
BY FileRequestsAssumption
   DEF Pieces, Numbers, Holdings, Points, Exceptions, Answers, Paths, OpNames

\* The record of an idle thread is well-formed.
LEMMA IdleThreadType == IdleThread \in ThreadType
BY Members DEF IdleThread, ThreadType

\* A request that has answered is idle, holds no session and keeps how it arrived.
LEMMA ReplyFacts ==
  ASSUME NEW l \in ThreadType, NEW a \in Answers
  PROVE  /\ Reply(l, a) \in ThreadType
         /\ Reply(l, a).pc = "idle"
         /\ Reply(l, a).session = NoSession
         /\ Reply(l, a).op = l.op
         /\ Reply(l, a).alone = l.alone
         /\ LocalInv(Reply(l, a))
<1>1. Reply(l, a) \in ThreadType
  BY IdleThreadType DEF Reply, ThreadType
<1>2. /\ Reply(l, a).pc = "idle"
      /\ Reply(l, a).session = NoSession
      /\ Reply(l, a).op = l.op
      /\ Reply(l, a).alone = l.alone
  BY DEF Reply, IdleThread
<1> QED BY <1>1, <1>2 DEF LocalInv, NoSession

\* After a file a request is idle or at the next file of its batch, with no session.
LEMMA JobOverFacts ==
  ASSUME NEW l \in ThreadType, NEW a \in Answers, LocalInv(l), l.pc # "idle"
  PROVE  /\ JobOver(l, a) \in ThreadType
         /\ JobOver(l, a).pc \in {"idle", "route"}
         /\ JobOver(l, a).session = NoSession
         /\ JobOver(l, a).alone = l.alone
         /\ LocalInv(JobOver(l, a))
<1>1. CASE l.op \in Batches /\ l.n < 3
  <2>1. l.n + 1 \in 1..3
    BY <1>1 DEF ThreadType
  <2>2. Batch[l.op][l.n + 1] \in BatchFiles
    BY <1>1, <2>1, BatchFacts
  <2>3. JobOver(l, a) = [l EXCEPT !.pc = "route", !.n = l.n + 1, !.path = Batch[l.op][l.n + 1],
                 !.session = NoSession, !.left = 0, !.exc = "none", !.resp = "none"]
    BY <1>1 DEF JobOver
  <2>4. JobOver(l, a) \in ThreadType
    BY ZenonT(40), <2>1, <2>2, <2>3, Members DEF ThreadType
  <2>5. LocalInv(JobOver(l, a))
    BY <1>1, <2>1, <2>2, <2>3 DEF ThreadType, LocalInv, NoSession, Batches, FileOps
  <2> QED BY <2>3, <2>4, <2>5 DEF ThreadType
<1>2. CASE ~(l.op \in Batches /\ l.n < 3)
  <2>1. \E b \in Answers : JobOver(l, a) = Reply(l, b)
    BY <1>2, Members DEF JobOver
  <2> QED BY <2>1, ReplyFacts
<1> QED BY <1>1, <1>2

\* What holds of a record after its thread leaves the work on a file.
Departed(l, m) ==
  /\ m \in ThreadType
  /\ m.pc \in {"idle", "route", "close"}
  /\ m.session = IF m.pc = "close" THEN l.session ELSE NoSession
  /\ m.alone = l.alone
  /\ LocalInv(m)

\* Leaving a file with an answer closes the session first, if there is one.
LEMMA LeaveFacts ==
  ASSUME NEW l \in ThreadType, NEW a \in Answers, LocalInv(l), l.pc # "idle"
  PROVE  Departed(l, Leave(l, a))
<1>1. CASE l.session = NoSession
  BY <1>1, JobOverFacts DEF Leave, Departed
<1>2. CASE l.session # NoSession
  <2>1. Leave(l, a) = [l EXCEPT !.pc = "close", !.resp = a]
    BY <1>2 DEF Leave
  <2>2. Leave(l, a) \in ThreadType
    BY <2>1, Members DEF ThreadType
  <2>3. LocalInv(Leave(l, a))
    BY <1>2, <2>1 DEF LocalInv, ThreadType
  <2> QED BY <2>1, <2>2, <2>3 DEF Departed, ThreadType
<1> QED BY <1>1, <1>2

\* An exception that reaches the wrapper leaves no session behind.
LEMMA CaughtFacts ==
  ASSUME NEW l \in ThreadType, NEW k, LocalInv(l), l.pc # "idle"
  PROVE  /\ Departed(l, Caught(l, k))
         /\ Caught(l, k).pc # "close"
<1>1. \E b \in Answers : Caught(l, k) = JobOver(l, b) \/ Caught(l, k) = Reply(l, b)
  BY Members DEF Caught
<1> QED BY <1>1, JobOverFacts, ReplyFacts DEF Departed

\* An exception leaves a file as an answer does; one raised by the closing is final.
LEMMA ThrowFacts ==
  ASSUME connected \in BOOLEAN, NEW l \in ThreadType, LocalInv(l), l.pc # "idle"
  PROVE  /\ Departed(l, Throw(l))
         /\ l.pc = "close" => Throw(l).pc # "close"
<1> DEFINE m == [l EXCEPT !.raised = l.raised \/ connected]
<1>1. m \in ThreadType
  BY DEF ThreadType
<1>2. LocalInv(m) /\ m.pc # "idle" /\ m.session = l.session /\ m.alone = l.alone /\ m.pc = l.pc
  BY DEF ThreadType, LocalInv, NoSession
<1>3. CASE l.session # NoSession /\ l.pc # "close"
  <2>1. Throw(l) = [m EXCEPT !.pc = "close", !.exc = Kind]
    BY <1>3 DEF Throw
  <2>2. Kind \in Exceptions
    BY Members DEF Kind
  <2> HIDE DEF m
  <2>3. Throw(l) \in ThreadType
    BY <1>1, <2>1, <2>2, Members DEF ThreadType
  <2>4. LocalInv(Throw(l))
    BY <1>1, <1>2, <1>3, <2>1 DEF LocalInv, ThreadType
  <2> QED BY <1>1, <1>2, <1>3, <2>1, <2>3, <2>4 DEF Departed, ThreadType
<1>4. CASE ~(l.session # NoSession /\ l.pc # "close")
  <2>1. Throw(l) = Caught(m, Kind)
    BY <1>4 DEF Throw
  <2> HIDE DEF m
  <2> QED BY <1>1, <1>2, <2>1, CaughtFacts DEF Departed
<1> QED BY <1>3, <1>4

-----------------------------------------------------------------------------
\* A session whose number a thread has read belongs to that thread alone; no file
\* is selected on it before that thread's SELECT, and afterwards no other than its own.
SessionInv ==
  /\ \A t \in Threads : th[t].session # NoSession => th[t].session \in sessions \ adrift
  /\ \A t, u \in Threads :
       t # u /\ th[t].session # NoSession => th[u].session # th[t].session
  /\ \A s \in adrift : s \in sessions /\ cur[Cgla(s)] = NoFile
  /\ \A t \in Threads :
       th[t].session # NoSession /\ th[t].pc = "select" => cur[Cgla(th[t].session)] = NoFile
  /\ SessionRequestsHitTarget

\* While a request is alone the other threads are idle.
AloneInv ==
  \A t, u \in Threads :
    t # u /\ th[t].alone /\ th[t].pc # "idle" => th[u].pc = "idle"

IInv ==
  /\ TypeOK
  /\ \A t \in Threads : LocalInv(th[t])
  /\ SessionInv
  /\ AloneInv
  /\ IsolatedRequestsHitTarget

\* The invariant holds when a connection has just been set up.
LEMMA InitIInv == Init => IInv
<1> SUFFICES ASSUME Init PROVE IInv
  OBVIOUS
<1>1. \A t \in Threads : th[t] = IdleThread
  BY DEF Init
<1>2. IdleThread.pc = "idle" /\ IdleThread.session = NoSession
  BY DEF IdleThread
<1>3. TypeOK
  <2>1. cur \in [Handles -> [app : {"none", "MF", "USIM", "ISIM"}, fid : FileIds]]
    BY DEF Init, NoFile, File, FileIds
  <2>2. g \in Globals
    BY DEF Init, Globals, Numbers
  <2>3. layout \in [Channels -> {"USIM", "ISIM", "MF", "closed", "unsupported"}]
    BY FileRequestsAssumption DEF Init
  <2>4. th \in [Threads -> ThreadType]
    BY IdleThreadType DEF Init
  <2>5. faults \in 0..MaxFaults
    BY FileRequestsAssumption DEF Init
  <2> QED BY <2>1, <2>2, <2>3, <2>4, <2>5 DEF Init, TypeOK
<1>4. \A t \in Threads : LocalInv(th[t])
  BY <1>1, <1>2 DEF LocalInv, NoSession
<1>5. adrift = {}
  BY DEF Init
<1> QED BY <1>1, <1>2, <1>3, <1>4, <1>5
     DEF IInv, SessionInv, AloneInv, SessionRequestsHitTarget, IsolatedRequestsHitTarget,
         AboutToAccess

\* A busy thread moves to record m: what m and the card must satisfy for IInv.
LEMMA Move ==
  ASSUME IInv, NEW t \in Threads, NEW m \in ThreadType,
         th[t].pc # "idle", th' = [th EXCEPT ![t] = m],
         connected' \in BOOLEAN, g' = g, layout' = layout,
         cur' \in [Handles -> [app : {"none", "MF", "USIM", "ISIM"}, fid : FileIds]],
         sessions' \in SUBSET SessionIds, adrift' \in SUBSET SessionIds,
         lost' \in SUBSET SessionIds, faults' \in 0..MaxFaults,
         LocalInv(m), m.alone = th[t].alone,
         \A s \in adrift' : s \in sessions' /\ cur'[Cgla(s)] = NoFile,
         m.session # NoSession =>
           /\ m.session \in sessions' \ adrift'
           /\ \A u \in Threads \ {t} : th[u].session # m.session,
         \A u \in Threads \ {t} : th[u].session # NoSession =>
           /\ th[u].session \in sessions' \ adrift'
           /\ cur'[Cgla(th[u].session)] = cur[Cgla(th[u].session)],
         m.session # NoSession /\ m.pc = "select" => cur'[Cgla(m.session)] = NoFile,
         m.session # NoSession /\ AboutToAccess(m) =>
           /\ cur'[Cgla(m.session)] \in {NoFile, m.path}
           /\ m.own => cur'[Cgla(m.session)] = m.path,
         m.alone /\ AboutToAccess(m) /\ InSync /\ ReadsWhereItSelects(m)
           => cur'[DataHandle(m)] = m.path
  PROVE  IInv'
<1>1. th'[t] = m /\ \A u \in Threads \ {t} : th'[u] = th[u]
  BY DEF IInv, TypeOK
<1>2. TypeOK'
  BY <1>1 DEF IInv, TypeOK
<1>3. \A u \in Threads : LocalInv(th[u])'
  BY <1>1 DEF IInv, LocalInv
<1>4. AloneInv'
  BY <1>1 DEF IInv, AloneInv
<1>5. (\A u \in Threads : th[u].session # NoSession => th[u].session \in sessions \ adrift)'
  BY <1>1 DEF NoSession
<1>6. (\A u, v \in Threads :
       u # v /\ th[u].session # NoSession => th[v].session # th[u].session)'
  <2> SUFFICES ASSUME NEW u \in Threads, NEW v \in Threads, u # v,
                      th'[u].session # NoSession
               PROVE  th'[v].session # th'[u].session
    BY DEF NoSession
  <2>1. CASE u = t
    BY <1>1, <2>1
  <2>2. CASE v = t
    BY <1>1, <2>2
  <2>3. CASE u # t /\ v # t
    BY <1>1, <2>3 DEF IInv, SessionInv
  <2> QED BY <2>1, <2>2, <2>3
<1>7. SessionRequestsHitTarget'
  <2> SUFFICES ASSUME NEW u \in Threads, th'[u].session # NoSession, AboutToAccess(th'[u])
               PROVE  /\ cur'[Cgla(th'[u].session)] \in {NoFile, th'[u].path}
                      /\ th'[u].own => cur'[Cgla(th'[u].session)] = th'[u].path
    BY DEF SessionRequestsHitTarget, DataHandle, AboutToAccess, Cgla, NoSession, NoFile
  <2>1. CASE u = t
    BY <1>1, <2>1
  <2>2. CASE u # t
    <3>1. th[u].session # NoSession /\ AboutToAccess(th[u])
      BY <1>1, <2>2
    <3>2. /\ cur[Cgla(th[u].session)] \in {NoFile, th[u].path}
          /\ th[u].own => cur[Cgla(th[u].session)] = th[u].path
      BY <3>1 DEF IInv, SessionInv, SessionRequestsHitTarget, DataHandle
    <3> QED BY <1>1, <2>2, <3>1, <3>2
  <2> QED BY <2>1, <2>2
<1>9. (\A u \in Threads :
         th[u].session # NoSession /\ th[u].pc = "select" => cur[Cgla(th[u].session)] = NoFile)'
  <2> SUFFICES ASSUME NEW u \in Threads, th'[u].session # NoSession, th'[u].pc = "select"
               PROVE  cur'[Cgla(th'[u].session)] = NoFile
    BY DEF NoSession, NoFile, Cgla
  <2>1. CASE u = t
    BY <1>1, <2>1
  <2>2. CASE u # t
    BY <1>1, <2>2 DEF IInv, SessionInv
  <2> QED BY <2>1, <2>2
<1>10. (\A s \in adrift : s \in sessions /\ cur[Cgla(s)] = NoFile)'
  BY DEF NoFile, Cgla
<1>8. IsolatedRequestsHitTarget'
  <2> SUFFICES ASSUME NEW u \in Threads, th'[u].alone, AboutToAccess(th'[u]), InSync,
                      ReadsWhereItSelects(th'[u])
               PROVE  cur'[DataHandle(th'[u])] = th'[u].path
    BY ZenonT(40) DEF IsolatedRequestsHitTarget, AboutToAccess, InSync, ReadsWhereItSelects,
           DataHandle, Csim, Cgla, ChannelOf, NoSession
  <2>1. CASE u = t
    BY <1>1, <2>1
  <2>2. CASE u # t
    <3>1. th[u].alone /\ th[u].pc # "idle"
      BY <1>1, <2>2 DEF AboutToAccess
    <3>2. th[t].pc = "idle"
      BY <2>2, <3>1 DEF IInv, AloneInv
    <3> QED BY <3>2
  <2> QED BY <2>1, <2>2
<1> QED BY <1>2, <1>3, <1>4, <1>5, <1>6, <1>7, <1>8, <1>9, <1>10 DEF IInv, SessionInv

\* A thread that leaves its file touches no selection and at most its own session.
LEMMA Depart ==
  ASSUME IInv, NEW t \in Threads, NEW m,
         th[t].pc # "idle", Become(t, m), Departed(th[t], m),
         g' = g, layout' = layout, faults' \in 0..MaxFaults,
         cur' \in [Handles -> [app : {"none", "MF", "USIM", "ISIM"}, fid : FileIds]],
         sessions' \in SUBSET SessionIds, adrift' \in SUBSET SessionIds,
         lost' \in SUBSET SessionIds,
         \A s \in adrift' : s \in sessions' /\ cur'[Cgla(s)] = NoFile,
         m.pc = "close" => th[t].session \in sessions' \ adrift',
         \A u \in Threads \ {t} : th[u].session # NoSession =>
           /\ th[u].session \in sessions' \ adrift'
           /\ cur'[Cgla(th[u].session)] = cur[Cgla(th[u].session)]
  PROVE  IInv'
<1>1. m \in ThreadType /\ LocalInv(m) /\ m.alone = th[t].alone /\ ~AboutToAccess(m)
  BY DEF Departed, AboutToAccess
<1>2. m.session # NoSession => m.pc = "close" /\ m.session = th[t].session
  BY DEF Departed
<1>3. m.session # NoSession =>
        /\ m.session \in sessions' \ adrift'
        /\ \A u \in Threads \ {t} : th[u].session # m.session
  BY <1>2 DEF IInv, SessionInv
<1>4. connected' \in BOOLEAN /\ th' = [th EXCEPT ![t] = m]
  BY DEF Become
<1>5. ~(m.session # NoSession /\ m.pc = "select")
  BY <1>2
<1> QED BY <1>1, <1>3, <1>4, <1>5, Move

\* The bound on faults, and that a lone request's answer is the card's own.
LEMMA ExchangeFaults ==
  ASSUME TypeOK, NEW l, NEW r, NEW x, Exchange(l, r, x)
  PROVE  /\ faults' \in 0..MaxFaults
         /\ r = "ok" /\ l.alone => x
BY FileRequestsAssumption DEF Exchange, TypeOK

\* A new request changes nothing but its own record and who is alone.
LEMMA BeginIInv ==
  ASSUME IInv, NEW t \in Threads, NEW o \in FileOps, NEW p \in Files \cup BatchFiles,
         Begin(t, o, p)
  PROVE  IInv'
<1> DEFINE l == [IdleThread EXCEPT !.pc = "route", !.op = o, !.path = p,
                   !.lchan = IF o = "read_info" THEN g.usim_lchan ELSE -1]
           b == \A v \in Threads \ {t} : th[v].pc = "idle"
           m == [l EXCEPT !.alone = b]
<1>1. th' = [u \in Threads |-> IF u = t THEN m ELSE [th[u] EXCEPT !.alone = FALSE]]
  BY DEF Begin, Arrive
<1>2. m \in ThreadType
  <2>1. (IF o = "read_info" THEN g.usim_lchan ELSE -1) \in Numbers
    BY DEF IInv, TypeOK, Globals, Numbers
  <2>2. l \in ThreadType
    BY <2>1, IdleThreadType, Members DEF ThreadType
  <2> HIDE DEF l
  <2> QED BY <2>2 DEF ThreadType
<1>3. /\ m.pc = "route" /\ m.op = o /\ m.path = p /\ m.n = 1 /\ m.session = NoSession
      /\ m.lchan = IF o = "read_info" THEN g.usim_lchan ELSE -1
      /\ m.alone => \A v \in Threads \ {t} : th[v].pc = "idle"
  BY DEF IdleThread
<1>4. LocalInv(m)
  <2>1. o \in Batches => p = Batch[o][1]
    BY DEF Begin
  <2> HIDE DEF m
  <2> QED BY <1>3, <2>1 DEF LocalInv
<1> HIDE DEF m, b
<1>5. \A u \in Threads \ {t} :
        /\ th'[u] \in ThreadType /\ ~th'[u].alone
        /\ th'[u].pc = th[u].pc /\ th'[u].op = th[u].op /\ th'[u].path = th[u].path
        /\ th'[u].n = th[u].n /\ th'[u].lchan = th[u].lchan /\ th'[u].session = th[u].session
        /\ th'[u].own = th[u].own
  BY ZenonT(40), <1>1 DEF IInv, TypeOK, ThreadType
<1>6. /\ th'[t] = m /\ th[t].session = NoSession
      /\ g' = g /\ cur' = cur /\ sessions' = sessions /\ adrift' = adrift
  BY <1>1 DEF Begin, Arrive, cardVars, IInv, LocalInv
<1>7. TypeOK'
  BY <1>1, <1>2, <1>5 DEF Begin, cardVars, IInv, TypeOK
<1>8. \A u \in Threads : LocalInv(th[u])'
  BY <1>4, <1>5, <1>6 DEF IInv, LocalInv
<1>9. SessionInv'
  BY <1>3, <1>5, <1>6 DEF IInv, SessionInv, SessionRequestsHitTarget, AboutToAccess, DataHandle,
     Cgla, NoSession, NoFile
<1>10. AloneInv'
  BY <1>3, <1>5, <1>6 DEF AloneInv
<1>11. IsolatedRequestsHitTarget'
  BY <1>3, <1>5, <1>6 DEF IsolatedRequestsHitTarget, AboutToAccess
<1> QED BY <1>7, <1>8, <1>9, <1>10, <1>11 DEF IInv

\* Routing records the channel number that Select and Access then use.
LEMMA RouteIInv ==
  ASSUME IInv, NEW t \in Threads, Route(t)
  PROVE  IInv'
<1> DEFINE l == th[t]
           isim == l.path.app = "ISIM"
           next == IF isim /\ g.isim_ccho THEN "open" ELSE "select"
           ch == IF isim THEN g.isim_lchan ELSE g.usim_lchan
           m == [l EXCEPT !.pc = next,
                   !.lchan = IF l.op \notin Batches /\ next = "select" THEN ch ELSE @]
<1>1. /\ l \in ThreadType /\ LocalInv(l) /\ l.pc = "route" /\ l.session = NoSession
      /\ g' = g /\ layout' = layout /\ cur' = cur /\ sessions' = sessions
      /\ adrift' = adrift /\ lost' = lost /\ faults' = faults
  BY DEF Route, cardVars, IInv, TypeOK, LocalInv
<1>2. Become(t, JobOver(l, "error")) \/ Become(t, m)
  BY DEF Route
<1>3. CASE Become(t, JobOver(l, "error"))
  <2>1. Departed(l, JobOver(l, "error")) /\ JobOver(l, "error").pc # "close"
    BY <1>1, JobOverFacts, Members DEF Departed
  <2> QED BY <1>1, <1>3, <2>1, Depart DEF IInv, TypeOK, SessionInv
<1>4. CASE Become(t, m)
  <2>1. m \in ThreadType
    BY ZenonT(40), <1>1, Members DEF ThreadType, IInv, TypeOK, Globals, Numbers
  <2>2. /\ m.pc = next /\ m.op = l.op /\ m.path = l.path /\ m.n = l.n
        /\ m.session = NoSession /\ m.alone = l.alone
        /\ m.lchan = IF l.op \notin Batches /\ next = "select" THEN ch ELSE l.lchan
    BY <1>1 DEF ThreadType
  <2>3. l.op = "read_info" => ~isim
    BY <1>1, BatchFacts DEF LocalInv, ThreadType, Batches
  <2>4. th' = [th EXCEPT ![t] = m] /\ connected' \in BOOLEAN
    BY <1>4 DEF Become
  <2> HIDE DEF m
  <2>5. LocalInv(m) /\ ~AboutToAccess(m)
    BY <1>1, <2>2, <2>3 DEF LocalInv, Batches, AboutToAccess
  <2> QED BY <1>1, <2>1, <2>2, <2>4, <2>5, Move DEF IInv, TypeOK, SessionInv
<1> QED BY <1>2, <1>3, <1>4

\* Opening a session takes a number that no thread holds.
LEMMA OpenIInv ==
  ASSUME IInv, NEW t \in Threads, NEW r \in Results, NEW x \in BOOLEAN, NEW s \in SessionIds,
         Open(t, r, x, s)
  PROVE  IInv'
<1> DEFINE l == th[t]
           m == [l EXCEPT !.session = s, !.pc = "select"]
<1>1. /\ l \in ThreadType /\ LocalInv(l) /\ l.pc = "open" /\ l.session = NoSession
      /\ l.path.app = "ISIM" /\ g' = g /\ layout' = layout
  BY DEF Open, IInv, TypeOK, LocalInv
<1>2. /\ faults' \in 0..MaxFaults
      /\ x => s \notin sessions
      /\ r = "ok" => x \/ s \in adrift
  BY ExchangeFaults DEF Open, CchoOpen, IInv, TypeOK
<1>3. /\ sessions' = IF x THEN sessions \cup {s} ELSE sessions
      /\ cur' = IF x THEN [cur EXCEPT ![Cgla(s)] = NoFile] ELSE cur
      /\ adrift' = IF r = "ok" THEN adrift \ {s} ELSE IF x THEN adrift \cup {s} ELSE adrift
      /\ adrift' \in SUBSET SessionIds /\ lost' \in SUBSET SessionIds
  BY DEF Open, CchoOpen, IInv, TypeOK
<1>4. /\ cur' \in [Handles -> [app : {"none", "MF", "USIM", "ISIM"}, fid : FileIds]]
      /\ sessions' \in SUBSET SessionIds
  <2>1. NoFile \in [app : {"none", "MF", "USIM", "ISIM"}, fid : FileIds]
    BY DEF NoFile, File, FileIds
  <2> QED BY <1>3, <2>1 DEF IInv, TypeOK
<1>11. \A q \in SessionIds : cur'[Cgla(q)] = IF x /\ q = s THEN NoFile ELSE cur[Cgla(q)]
  <2>1. \A q \in SessionIds : Cgla(q) \in Handles /\ (q # s => Cgla(q) # Cgla(s))
    BY DEF Cgla, Handles
  <2> QED BY <1>3, <2>1 DEF IInv, TypeOK
<1>12. adrift \subseteq SessionIds /\ \A q \in adrift : q \in sessions /\ cur[Cgla(q)] = NoFile
  BY DEF IInv, TypeOK, SessionInv
<1>13. \A q \in adrift' : q \in sessions' /\ cur'[Cgla(q)] = NoFile
  BY <1>3, <1>11, <1>12
<1>5. \A u \in Threads : th[u].session # NoSession =>
        /\ th[u].session \in sessions' \ adrift' /\ th[u].session \in sessions \ adrift
        /\ cur'[Cgla(th[u].session)] = cur[Cgla(th[u].session)]
  <2> SUFFICES ASSUME NEW u \in Threads, th[u].session # NoSession
               PROVE  /\ th[u].session \in sessions' \ adrift'
                      /\ th[u].session \in sessions \ adrift
                      /\ cur'[Cgla(th[u].session)] = cur[Cgla(th[u].session)]
    OBVIOUS
  <2>1. th[u].session \in sessions \ adrift /\ th[u].session \in SessionIds
    BY DEF IInv, TypeOK, SessionInv
  <2>2. x => th[u].session # s
    BY <1>2, <2>1
  <2> QED BY <1>3, <1>11, <2>1, <2>2
<1>6. \/ Become(t, Throw(l))
      \/ Become(t, JobOver(l, "error"))
      \/ Become(t, JobOver(l, "ok"))
      \/ r = "ok" /\ Become(t, m)
  BY DEF Open, Results
<1>7. CASE Become(t, Throw(l))
  <2>1. Departed(l, Throw(l))
    BY <1>1, ThrowFacts DEF IInv, TypeOK
  <2>2. Throw(l).pc # "close"
    BY <1>1, <2>1 DEF Departed, LocalInv
  <2> QED BY <1>1, <1>2, <1>3, <1>4, <1>5, <1>7, <1>13, <2>1, <2>2, Depart
<1>8. CASE Become(t, JobOver(l, "error")) \/ Become(t, JobOver(l, "ok"))
  <2>1. \A a \in {"ok", "error"} : Departed(l, JobOver(l, a)) /\ JobOver(l, a).pc # "close"
    BY <1>1, JobOverFacts, Members DEF Departed
  <2> QED BY <1>1, <1>2, <1>3, <1>4, <1>5, <1>8, <1>13, <2>1, Depart
<1>9. CASE r = "ok" /\ Become(t, m)
  <2>1. m \in ThreadType
    BY <1>1, Members DEF ThreadType, Holdings
  <2>2. /\ m.pc = "select" /\ m.op = l.op /\ m.path = l.path /\ m.n = l.n
        /\ m.session = s /\ m.alone = l.alone /\ m.lchan = l.lchan
    BY <1>1 DEF ThreadType
  <2>3. th' = [th EXCEPT ![t] = m] /\ connected' \in BOOLEAN
    BY <1>9 DEF Become
  <2>5. s # NoSession
    BY FileRequestsAssumption DEF NoSession
  <2>4. /\ s \in sessions' \ adrift' /\ cur'[Cgla(s)] = NoFile
        /\ \A u \in Threads : th[u].session # s
    BY <1>2, <1>3, <1>5, <1>9, <1>11, <1>12, <2>5
  <2> HIDE DEF m
  <2>6. LocalInv(m) /\ ~AboutToAccess(m)
    BY <1>1, <2>2, <2>5 DEF LocalInv, AboutToAccess
  <2> QED BY <1>1, <1>2, <1>3, <1>4, <1>5, <1>13, <2>1, <2>2, <2>3, <2>4, <2>6, Move
<1> QED BY <1>6, <1>7, <1>8, <1>9

\* The class byte addresses the channel it was made for, and always some channel.
LEMMA ChannelOfFacts ==
  /\ \A n \in Channels : ChannelOf(n) = n
  /\ \A n \in Int : ChannelOf(n) \in Channels
<1>1. ASSUME NEW n \in Int
      PROVE  n % 4 \in 0..3 /\ (n - 4) % 16 \in 0..15
  OBVIOUS
<1>2. ASSUME NEW n \in Channels
      PROVE  ChannelOf(n) = n
  <2>1. CASE n <= 3
    <3>1. n \in 0..3 => n % 4 = n
      OBVIOUS
    <3> QED BY <2>1, <3>1 DEF ChannelOf, Channels
  <2>2. CASE n > 3
    <3>1. n - 4 \in 0..15 => (n - 4) % 16 = n - 4
      OBVIOUS
    <3> QED BY <2>2, <3>1 DEF ChannelOf, Channels
  <2> QED BY <2>1, <2>2 DEF Channels
<1>3. ASSUME NEW n \in Int
      PROVE  ChannelOf(n) \in Channels
  BY <1>1 DEF ChannelOf, Channels
<1> QED BY <1>2, <1>3

\* The channel numbers of the globals are integers.
LEMMA GlobalsFacts ==
  ASSUME TypeOK
  PROVE  g.usim_lchan \in Int /\ g.isim_lchan \in Int
<1>1. g \in Globals
  BY DEF TypeOK
<1>2. g.usim_lchan \in Channels /\ g.isim_lchan \in Numbers
  BY <1>1 DEF Globals
<1>3. Numbers \subseteq Int /\ Channels \subseteq Int
  BY FileRequestsAssumption DEF Numbers, Channels
<1> QED BY <1>2, <1>3

\* SELECT changes what is selected on one handle, and there to the file asked for.
LEMMA SelectIInv ==
  ASSUME IInv, NEW t \in Threads, NEW r \in Results, NEW x \in BOOLEAN,
         NEW k \in 1..MaxPieces, Select(t, r, x, k)
  PROVE  IInv'
<1> DEFINE l == th[t]
           h == SelectHandle(l)
           p == l.path
           m == [l EXCEPT !.pc = IF l.op = "write_tlv" THEN "delete" ELSE "access", !.left = k,
                     !.own = x]
<1>1. /\ l \in ThreadType /\ LocalInv(l) /\ l.pc = "select"
      /\ g' = g /\ layout' = layout /\ sessions' = sessions
      /\ adrift' = adrift /\ lost' = lost
      /\ g \in Globals
  BY DEF Select, IInv, TypeOK
<1>2. p \in [app : {"MF", "USIM", "ISIM"}, fid : FileIds] /\ l.session \in Holdings
  BY <1>1, FileFacts DEF LocalInv, ThreadType
<1>3. /\ faults' \in 0..MaxFaults
      /\ r = "ok" => /\ l.alone => x
                     /\ x => CanSelect(h, p)
                     /\ l.session = NoSession /\ p.app = "ISIM" => g.isim_lchan >= 0
  <2>1. TypeOK
    BY DEF IInv
  <2>2. CASE Exchange(l, r, x) /\ ~(l.session = NoSession /\ p.app = "ISIM" /\ g.isim_lchan < 0)
             /\ (x => CanSelect(h, p))
    <3>1. g.isim_lchan \in Int
      BY <2>1, GlobalsFacts
    <3>2. /\ faults' \in 0..MaxFaults
          /\ r = "ok" /\ l.alone => x
      BY <2>1, <2>2, ExchangeFaults
    <3> HIDE DEF l, h, p
    <3> QED BY <2>2, <3>1, <3>2
  <2>3. CASE r = "fail" /\ UNCHANGED faults
    BY <2>1, <2>3 DEF TypeOK
  <2> QED BY <2>2, <2>3 DEF Select
<1>4. cur' = IF x THEN [cur EXCEPT ![h] = Selected(h, p)] ELSE cur
  BY DEF Select
<1>5. h = IF l.session # NoSession THEN Cgla(l.session)
          ELSE Csim(ChannelOf(IF p.app = "ISIM" THEN g.isim_lchan ELSE g.usim_lchan))
  BY DEF SelectHandle
<1>6. h \in Handles
  <2>1. g.isim_lchan \in Int /\ g.usim_lchan \in Int
    BY GlobalsFacts DEF IInv
  <2> QED BY <1>2, <1>5, <2>1, ChannelOfFacts DEF Handles, Cgla, Csim, Holdings
<1>7. AppAt(h) \in {"USIM", "ISIM", "MF", "closed", "unsupported"}
  BY <1>6 DEF AppAt, Handles, IInv, TypeOK
<1>8. cur' \in [Handles -> [app : {"none", "MF", "USIM", "ISIM"}, fid : FileIds]]
  <2>1. x => Selected(h, p) \in [app : {"none", "MF", "USIM", "ISIM"}, fid : FileIds]
    <3>1. CASE r = "fail" /\ ~x
      BY <3>1
    <3>2. CASE x => CanSelect(h, p)
      BY <1>2, <1>7, <3>2 DEF Selected, CanSelect, File
    <3> QED BY <3>1, <3>2 DEF Select
  <2> QED BY <1>4, <2>1 DEF IInv, TypeOK
<1>9. \A u \in Threads \ {t} : th[u].session # NoSession =>
        /\ th[u].session \in sessions' \ adrift'
        /\ cur'[Cgla(th[u].session)] = cur[Cgla(th[u].session)]
  <2> SUFFICES ASSUME NEW u \in Threads \ {t}, th[u].session # NoSession
               PROVE  /\ th[u].session \in sessions' \ adrift'
                      /\ cur'[Cgla(th[u].session)] = cur[Cgla(th[u].session)]
    OBVIOUS
  <2>1. th[u].session \in sessions \ adrift /\ l.session # th[u].session
    BY DEF IInv, SessionInv
  <2>2. h # Cgla(th[u].session)
    BY <1>5, <2>1 DEF Cgla, Csim
  <2> QED BY <1>1, <1>4, <2>1, <2>2 DEF IInv, TypeOK
<1>10. \/ Become(t, Throw(l))
       \/ Become(t, Leave(l, "error"))
       \/ r = "ok" /\ Become(t, m)
  BY DEF Select, Results
<1>11. l.session # NoSession => l.session \in sessions \ adrift /\ cur[Cgla(l.session)] = NoFile
  BY <1>1 DEF IInv, SessionInv
<1>12. \A d : Departed(l, d) /\ d.pc = "close" => th[t].session \in sessions' \ adrift'
  BY <1>1, <1>11 DEF Departed, LocalInv
<1>16. \A s \in adrift' : s \in sessions' /\ cur'[Cgla(s)] = NoFile
  <2> SUFFICES ASSUME NEW s \in adrift PROVE s \in sessions /\ cur'[Cgla(s)] = NoFile
    BY <1>1
  <2>1. s \in sessions /\ cur[Cgla(s)] = NoFile
    BY DEF IInv, SessionInv
  <2>2. h # Cgla(s)
    BY <1>5, <1>11 DEF Cgla, Csim
  <2> QED BY <1>4, <2>1, <2>2 DEF IInv, TypeOK
<1>13. CASE Become(t, Throw(l))
  <2>1. Departed(l, Throw(l))
    BY <1>1, ThrowFacts DEF IInv, TypeOK
  <2> QED BY <1>1, <1>3, <1>8, <1>9, <1>12, <1>13, <1>16, <2>1, Depart DEF IInv, TypeOK
<1>14. CASE Become(t, Leave(l, "error"))
  <2>1. Departed(l, Leave(l, "error"))
    BY <1>1, LeaveFacts, Members
  <2> QED BY <1>1, <1>3, <1>8, <1>9, <1>12, <1>14, <1>16, <2>1, Depart DEF IInv, TypeOK
<1>15. CASE r = "ok" /\ Become(t, m)
  <2>1. m \in ThreadType
    <3>1. k \in Pieces
      BY FileRequestsAssumption DEF Pieces
    <3> QED BY <1>1, <3>1, Members DEF ThreadType
  <2>2. /\ m.pc \in {"delete", "access"} /\ m.op = l.op /\ m.path = p /\ m.n = l.n
        /\ m.session = l.session /\ m.alone = l.alone /\ m.lchan = l.lchan /\ m.own = x
    BY <1>1 DEF ThreadType
  <2>3. th' = [th EXCEPT ![t] = m] /\ connected' \in BOOLEAN
    BY <1>15 DEF Become
  <2> HIDE DEF m
  <2>4. LocalInv(m)
    BY <1>1, <2>2 DEF LocalInv
  <2>5. x => cur'[h] = Selected(h, p)
    BY <1>4, <1>6 DEF IInv, TypeOK
  <2>6. p = File(p.app, p.fid)
    BY <1>2 DEF File
  <2>7. l.session # NoSession => cur'[Cgla(l.session)] = IF x THEN p ELSE NoFile
    <3>1. l.session # NoSession => p.app = "ISIM" /\ AppAt(h) = "ISIM" /\ h = Cgla(l.session)
      BY <1>1, <1>5 DEF LocalInv, AppAt, Cgla
    <3>2. CASE x
      BY <2>5, <2>6, <3>1, <3>2 DEF Selected
    <3>3. CASE ~x
      BY <1>4, <1>11, <3>3
    <3> QED BY <3>2, <3>3
  <2>8. ASSUME l.session = NoSession, x, InSync, ReadsWhereItSelects(m)
        PROVE  DataHandle(m) = h /\ cur'[h] = p
    <3>1. h = Csim(ChannelOf(IF p.app = "ISIM" THEN g.isim_lchan ELSE g.usim_lchan))
      BY <1>5, <2>8
    <3>2. DataHandle(m) = h
      <4>1. CASE l.op # "read_arr"
        BY <1>1, <2>2, <2>8, <3>1, <4>1 DEF DataHandle, LocalInv
      <4>2. CASE l.op = "read_arr" /\ p.app = "ISIM"
        BY <2>2, <2>8, <3>1, <4>2 DEF DataHandle
      <4>3. CASE l.op = "read_arr" /\ p.app # "ISIM"
        <5>1. g.usim_lchan = 0
          BY <2>2, <2>8, <4>3 DEF ReadsWhereItSelects
        <5>2. ChannelOf(0) = 0
          BY ChannelOfFacts DEF Channels
        <5> QED BY <2>2, <2>8, <3>1, <4>3, <5>1, <5>2 DEF DataHandle
      <4> QED BY <4>1, <4>2, <4>3
    <3>3. CASE p.app = "ISIM"
      <4>1. g.isim_lchan >= 0 /\ ~g.isim_ccho
        BY <1>1, <1>3, <1>15, <2>8, <3>3 DEF LocalInv
      <4>2. g.isim_lchan \in Channels /\ layout[g.isim_lchan] = "ISIM"
        BY <4>1, <2>8 DEF InSync
      <4>3. AppAt(h) = "ISIM"
        BY <3>1, <3>3, <4>2, ChannelOfFacts DEF AppAt, Csim
      <4> QED BY <2>5, <2>6, <2>8, <3>2, <3>3, <4>3 DEF Selected
    <3>4. CASE p.app = "USIM"
      <4>1. AppAt(h) = "USIM"
        BY <2>8, <3>1, <3>4, ChannelOfFacts DEF AppAt, Csim, InSync
      <4> QED BY <2>5, <2>6, <2>8, <3>2, <3>4, <4>1 DEF Selected
    <3>5. CASE p.app = "MF"
      BY <2>5, <2>8, <3>2, <3>5 DEF Selected
    <3> QED BY <1>2, <3>3, <3>4, <3>5
  <2>9. m.alone /\ AboutToAccess(m) /\ InSync /\ ReadsWhereItSelects(m)
          => cur'[DataHandle(m)] = m.path
    BY <1>3, <1>15, <2>2, <2>7, <2>8 DEF DataHandle
  <2>11. m.session # NoSession /\ AboutToAccess(m) =>
           /\ cur'[Cgla(m.session)] \in {NoFile, m.path}
           /\ m.own => cur'[Cgla(m.session)] = m.path
    BY <2>2, <2>7
  <2>10. m.session # NoSession =>
           m.session \in sessions' \ adrift' /\ \A u \in Threads \ {t} : th[u].session # m.session
    BY <1>1, <1>11, <2>2 DEF IInv, SessionInv
  <2> QED BY <1>1, <1>3, <1>8, <1>9, <1>16, <2>1, <2>2, <2>3, <2>4, <2>9, <2>10, <2>11, Move
          DEF IInv, TypeOK
<1> QED BY <1>10, <1>13, <1>14, <1>15

\* A data command leaves the card's selections and sessions alone.
LEMMA DataIInv ==
  ASSUME IInv, NEW t \in Threads, th[t].pc \in {"delete", "access"}, NEW m \in ThreadType,
         m.pc = "access", m.op = th[t].op, m.path = th[t].path, m.n = th[t].n,
         m.session = th[t].session, m.lchan = th[t].lchan, m.alone = th[t].alone,
         m.own = th[t].own, Become(t, m), UNCHANGED <<g, cardVars>>, faults' \in 0..MaxFaults
  PROVE  IInv'
<1>1. LocalInv(m)
  BY DEF IInv, LocalInv
<1>2. m.session # NoSession =>
        /\ m.session \in sessions' \ adrift'
        /\ \A u \in Threads \ {t} : th[u].session # m.session
  BY DEF IInv, SessionInv, cardVars
<1>3. th' = [th EXCEPT ![t] = m] /\ connected' \in BOOLEAN
  BY DEF Become
<1>4. DataHandle(m) = DataHandle(th[t])
  BY DEF DataHandle
<1>5. m.session # NoSession /\ AboutToAccess(m) =>
        /\ cur'[Cgla(m.session)] \in {NoFile, m.path}
        /\ m.own => cur'[Cgla(m.session)] = m.path
  BY DEF IInv, SessionInv, SessionRequestsHitTarget, AboutToAccess, DataHandle, cardVars
<1>6. m.alone /\ AboutToAccess(m) /\ InSync /\ ReadsWhereItSelects(m)
        => cur'[DataHandle(m)] = m.path
  BY <1>4 DEF IInv, IsolatedRequestsHitTarget, AboutToAccess, ReadsWhereItSelects, cardVars
<1> QED BY <1>1, <1>2, <1>3, <1>5, <1>6, Move DEF IInv, TypeOK, SessionInv, cardVars

\* A data command that ends the work on the file, or raises.
LEMMA LeaveDataIInv ==
  ASSUME IInv, NEW t \in Threads, th[t].pc \in {"delete", "access"}, NEW m,
         Departed(th[t], m), Become(t, m), UNCHANGED <<g, cardVars>>, faults' \in 0..MaxFaults
  PROVE  IInv'
<1>1. m.pc = "close" => th[t].session \in sessions' \ adrift'
  BY DEF IInv, SessionInv, Departed, LocalInv, cardVars
<1> QED BY <1>1, Depart DEF IInv, TypeOK, SessionInv, cardVars

\* DELETE DATA goes on to SET DATA or leaves the file.
LEMMA DeleteIInv ==
  ASSUME IInv, NEW t \in Threads, NEW r \in Results, NEW value \in BOOLEAN, Delete(t, r, value)
  PROVE  IInv'
<1> DEFINE l == th[t]
           m == [l EXCEPT !.pc = "access", !.left = 1]
<1>1. l \in ThreadType /\ LocalInv(l) /\ l.pc = "delete" /\ UNCHANGED <<g, cardVars>>
  BY DEF Delete, IInv, TypeOK
<1>2. faults' \in 0..MaxFaults
  BY ExchangeFaults DEF Delete, IInv
<1>3. Become(t, Throw(l)) \/ Become(t, Leave(l, "ok")) \/ Become(t, m)
  BY DEF Delete
<1>4. CASE Become(t, Throw(l)) \/ Become(t, Leave(l, "ok"))
  <2>1. Departed(l, Throw(l)) /\ Departed(l, Leave(l, "ok"))
    BY <1>1, ThrowFacts, LeaveFacts, Members DEF IInv, TypeOK
  <2> QED BY <1>1, <1>2, <1>4, <2>1, LeaveDataIInv
<1>5. CASE Become(t, m)
  <2>1. m \in ThreadType
    <3>1. 1 \in Pieces
      BY FileRequestsAssumption DEF Pieces
    <3> QED BY <1>1, <3>1, Members DEF ThreadType
  <2>2. /\ m.pc = "access" /\ m.op = l.op /\ m.path = l.path /\ m.n = l.n
        /\ m.session = l.session /\ m.alone = l.alone /\ m.lchan = l.lchan /\ m.own = l.own
    BY <1>1 DEF ThreadType
  <2> HIDE DEF m
  <2> QED BY <1>1, <1>2, <1>5, <2>1, <2>2, DataIInv
<1> QED BY <1>3, <1>4, <1>5

\* A READ or UPDATE goes on to the next piece or leaves the file.
LEMMA AccessIInv ==
  ASSUME IInv, NEW t \in Threads, NEW r \in Results, NEW a, Access(t, r, a)
  PROVE  IInv'
<1> DEFINE l == th[t]
           m == [l EXCEPT !.left = l.left - 1]
<1>1. l \in ThreadType /\ LocalInv(l) /\ l.pc = "access" /\ UNCHANGED <<g, cardVars>>
  BY DEF Access, IInv, TypeOK
<1>2. faults' \in 0..MaxFaults
  BY ExchangeFaults DEF Access, IInv
<1>3. \/ Become(t, Throw(l)) \/ Become(t, Leave(l, "ok")) \/ Become(t, Leave(l, "error"))
      \/ l.left > 1 /\ Become(t, m)
  BY DEF Access, More
<1>4. CASE Become(t, Throw(l)) \/ Become(t, Leave(l, "ok")) \/ Become(t, Leave(l, "error"))
  <2>1. Departed(l, Throw(l)) /\ Departed(l, Leave(l, "ok")) /\ Departed(l, Leave(l, "error"))
    BY <1>1, ThrowFacts, LeaveFacts, Members DEF IInv, TypeOK
  <2> QED BY <1>1, <1>2, <1>4, <2>1, LeaveDataIInv
<1>5. CASE l.left > 1 /\ Become(t, m)
  <2>1. l.left - 1 \in Pieces
    BY <1>1, <1>5, FileRequestsAssumption DEF ThreadType, Pieces
  <2>2. m \in ThreadType
    BY <1>1, <2>1 DEF ThreadType
  <2>3. /\ m.pc = "access" /\ m.op = l.op /\ m.path = l.path /\ m.n = l.n
        /\ m.session = l.session /\ m.alone = l.alone /\ m.lchan = l.lchan /\ m.own = l.own
    BY <1>1 DEF ThreadType
  <2> HIDE DEF m
  <2> QED BY <1>1, <1>2, <1>5, <2>2, <2>3, DataIInv
<1> QED BY <1>3, <1>4, <1>5

\* Closing takes away a session that only this thread holds.
LEMMA CloseIInv ==
  ASSUME IInv, NEW t \in Threads, NEW r \in Results, NEW x \in BOOLEAN, Close(t, r, x)
  PROVE  IInv'
<1> DEFINE l == th[t]
<1>1. /\ l \in ThreadType /\ LocalInv(l) /\ l.pc = "close"
      /\ g' = g /\ layout' = layout /\ cur' = cur
  BY DEF Close, IInv, TypeOK
<1>2. l.session \in SessionIds
  BY <1>1 DEF LocalInv, ThreadType, Holdings
<1>3. /\ faults' \in 0..MaxFaults
      /\ sessions' = IF x THEN sessions \ {l.session} ELSE sessions
      /\ lost' = IF x THEN lost ELSE lost \cup {l.session}
      /\ adrift' = adrift
  BY ExchangeFaults DEF Close, CchoClose, IInv
<1>7. l.session \notin adrift
  BY <1>1 DEF LocalInv, IInv, SessionInv
<1>8. \A s \in adrift' : s \in sessions' /\ cur'[Cgla(s)] = NoFile
  BY <1>1, <1>3, <1>7 DEF IInv, SessionInv
<1>4. /\ sessions' \in SUBSET SessionIds /\ adrift' \in SUBSET SessionIds
      /\ lost' \in SUBSET SessionIds
  BY <1>2, <1>3 DEF IInv, TypeOK
<1>5. \A u \in Threads \ {t} : th[u].session # NoSession =>
        /\ th[u].session \in sessions' \ adrift'
        /\ cur'[Cgla(th[u].session)] = cur[Cgla(th[u].session)]
  BY <1>1, <1>3 DEF IInv, SessionInv
<1>6. PICK m : Become(t, m) /\ Departed(l, m) /\ m.pc # "close"
  <2>1. CASE Become(t, Throw(l))
    BY <1>1, <2>1, ThrowFacts DEF IInv, TypeOK
  <2>2. CASE Become(t, JobOver(l, l.resp))
    BY <1>1, <2>2, JobOverFacts DEF Departed, ThreadType
  <2>3. CASE Become(t, Caught(l, l.exc))
    BY <1>1, <2>3, CaughtFacts
  <2> QED BY <2>1, <2>2, <2>3 DEF Close
<1> QED BY <1>1, <1>3, <1>4, <1>5, <1>6, <1>8, Depart DEF IInv, TypeOK

\* The invariant is inductive.
LEMMA NextIInv == IInv /\ [Next]_vars => IInv'
<1> SUFFICES ASSUME IInv, [Next]_vars PROVE IInv'
  OBVIOUS
<1>1. CASE UNCHANGED vars
  BY <1>1 DEF vars, cardVars, IInv, TypeOK, LocalInv, SessionInv, AloneInv, SessionRequestsHitTarget,
     IsolatedRequestsHitTarget, InSync, ReadsWhereItSelects, AboutToAccess, DataHandle
<1>2. CASE Next
  <2>1. PICK t \in Threads : Request(t) \/ Step(t)
    BY <1>2 DEF Next
  <2>2. CASE Request(t)
    BY <2>2, BeginIInv, FileRequestsAssumption DEF Request
  <2>3. CASE Step(t)
    BY <2>3, RouteIInv, OpenIInv, SelectIInv, DeleteIInv, AccessIInv, CloseIInv DEF Step
  <2> QED BY <2>1, <2>2, <2>3
<1> QED BY <1>1, <1>2

\* Every variable keeps the shape the code gives it, in every behaviour.
THEOREM TypeCorrect == Spec => []TypeOK
<1>1. IInv => TypeOK
  BY DEF IInv
<1> QED BY <1>1, InitIInv, NextIInv, PTL DEF Spec

\* A request on an AT+CCHO session hits its file under any overlap with others.
THEOREM SessionsHit == Spec => []SessionRequestsHitTarget
<1>1. IInv => SessionRequestsHitTarget
  BY DEF IInv, SessionInv
<1> QED BY <1>1, InitIInv, NextIInv, PTL DEF Spec

\* A request that no other overlaps hits its file, whatever exchange fails.
THEOREM IsolatedHit == Spec => []IsolatedRequestsHitTarget
<1>1. IInv => IsolatedRequestsHitTarget
  BY DEF IInv
<1> QED BY <1>1, InitIInv, NextIInv, PTL DEF Spec

-----------------------------------------------------------------------------
\* A thread that holds a session goes on to close it, however it leaves its file.
LEMMA LeavesToClose ==
  ASSUME NEW l \in ThreadType, l.session # NoSession, l.pc # "close"
  PROVE  /\ Throw(l).session = l.session
         /\ \A a : Leave(l, a).session = l.session
<1>1. Throw(l).session = l.session
  <2> DEFINE m == [l EXCEPT !.raised = l.raised \/ connected]
  <2>1. Throw(l) = [m EXCEPT !.pc = "close", !.exc = Kind]
    BY DEF Throw
  <2>2. m.session = l.session /\ DOMAIN m = DOMAIN l
    BY DEF ThreadType
  <2> HIDE DEF m
  <2> QED BY <2>1, <2>2 DEF ThreadType
<1>2. \A a : Leave(l, a).session = l.session
  BY DEF Leave, ThreadType
<1> QED BY <1>1, <1>2

\* The session a step takes from a thread is closed or recorded as lost, and the
\* number of one adrift is only read by the thread that then holds it.
LEMMA KeepsTrack ==
  ASSUME IInv, NoSessionLeak, NEW t \in Threads, NEW m,
         th' = [th EXCEPT ![t] = m], lost \subseteq lost',
         \A s \in sessions' :
           \/ s \in adrift' \cup lost'
           \/ s = m.session
           \/ s \in sessions /\ s \notin adrift \ adrift' /\ s # th[t].session
  PROVE  NoSessionLeak'
<1>1. th'[t] = m /\ \A u \in Threads \ {t} : th'[u] = th[u]
  BY DEF IInv, TypeOK
<1> SUFFICES ASSUME NEW s \in sessions', s \notin adrift', s \notin lost'
             PROVE  \E u \in Threads : th'[u].session = s
  BY DEF NoSessionLeak
<1>2. CASE s = m.session
  BY <1>1, <1>2
<1>3. CASE s \in sessions /\ s \notin adrift \ adrift' /\ s # th[t].session
  <2>1. PICK u \in Threads : th[u].session = s
    BY <1>3 DEF NoSessionLeak
  <2> QED BY <1>1, <1>3, <2>1
<1> QED BY <1>2, <1>3

\* Only Open adds a session, and only Close lets go of one, provided the modem
\* numbers its sessions from 1: read_arr takes number 0 for "no session".
LEMMA NextNoSessionLeak ==
  ASSUME 0 \notin SessionIds, IInv, NoSessionLeak, [Next]_vars
  PROVE  NoSessionLeak'
<1>1. CASE UNCHANGED vars
  BY <1>1 DEF vars, cardVars, NoSessionLeak
<1>2. ASSUME NEW t \in Threads, Request(t)
      PROVE  NoSessionLeak'
  <2>1. PICK o \in Ops, q \in Files \cup BatchFiles : Begin(t, o, q)
    BY <1>2 DEF Request
  <2>2. sessions' = sessions /\ adrift' = adrift /\ lost' = lost /\ th[t].session = NoSession
    BY <2>1 DEF Begin, Arrive, cardVars, IInv, LocalInv
  <2>3. \A u \in Threads \ {t} : th'[u].session = th[u].session
    BY ZenonT(40), <2>1 DEF Begin, Arrive, IInv, TypeOK, ThreadType
  <2>4. \A s \in sessions : s # NoSession
    BY FileRequestsAssumption DEF IInv, TypeOK, NoSession
  <2> QED BY <2>2, <2>3, <2>4 DEF NoSessionLeak
<1>3. ASSUME NEW t \in Threads, Step(t)
      PROVE  NoSessionLeak'
  <2> DEFINE l == th[t]
  <2>1. l \in ThreadType /\ LocalInv(l)
    BY DEF IInv, TypeOK
  <2>2. \A s \in sessions : s # NoSession
    BY FileRequestsAssumption DEF IInv, TypeOK, NoSession
  <2>3. CASE Route(t)
    <3>1. l.session = NoSession /\ sessions' = sessions /\ adrift' = adrift /\ lost' = lost
      BY <2>1, <2>3 DEF Route, cardVars, LocalInv
    <3>2. PICK m : th' = [th EXCEPT ![t] = m]
      BY <2>3 DEF Route, Become
    <3> QED BY <2>2, <3>1, <3>2, KeepsTrack
  <2>4. ASSUME NEW r \in Results, NEW x \in BOOLEAN, NEW s \in SessionIds, Open(t, r, x, s)
        PROVE  NoSessionLeak'
    <3>1. l.session = NoSession /\ l.pc = "open"
      BY <2>1, <2>4 DEF Open, LocalInv
    <3>2. /\ sessions' = IF x THEN sessions \cup {s} ELSE sessions
          /\ adrift' = IF r = "ok" THEN adrift \ {s} ELSE IF x THEN adrift \cup {s} ELSE adrift
          /\ lost' = lost
      BY <2>4 DEF Open, CchoOpen
    <3>3. CASE r = "ok"
      <4> DEFINE m == [l EXCEPT !.session = s, !.pc = "select"]
      <4>1. th' = [th EXCEPT ![t] = m]
        BY <2>4, <3>3 DEF Open, Become
      <4>2. m.session = s
        BY <2>1 DEF ThreadType
      <4> HIDE DEF m
      <4> QED BY <2>2, <3>1, <3>2, <4>1, <4>2, KeepsTrack
    <3>4. CASE r # "ok"
      <4>1. PICK m : th' = [th EXCEPT ![t] = m]
        BY <2>4 DEF Open, Become
      <4> QED BY <2>2, <3>1, <3>2, <3>4, <4>1, KeepsTrack
    <3> QED BY <3>3, <3>4
  <2>5. ASSUME NEW m, th' = [th EXCEPT ![t] = m], m.session = l.session,
               sessions' = sessions, adrift' = adrift, lost' = lost
        PROVE  NoSessionLeak'
    BY <2>5, KeepsTrack
  <2>6. ASSUME NEW m, th' = [th EXCEPT ![t] = m], l.session = NoSession,
               sessions' = sessions, adrift' = adrift, lost' = lost
        PROVE  NoSessionLeak'
    BY <2>2, <2>6, KeepsTrack
  <2>7. CASE \E r \in Results, x \in BOOLEAN, k \in 1..MaxPieces : Select(t, r, x, k)
    <3>1. PICK m : /\ th' = [th EXCEPT ![t] = m]
                   /\ l.session # NoSession => m.session = l.session
      <4> DEFINE n(k, x) == [l EXCEPT !.pc = IF l.op = "write_tlv" THEN "delete" ELSE "access",
                                      !.left = k, !.own = x]
      <4>1. \A k, x : n(k, x).session = l.session
        BY <2>1 DEF ThreadType
      <4>2. l.pc = "select"
        BY <2>7 DEF Select
      <4>3. \/ th' = [th EXCEPT ![t] = Throw(l)]
            \/ th' = [th EXCEPT ![t] = Leave(l, "error")]
            \/ \E k \in 1..MaxPieces, x \in BOOLEAN : th' = [th EXCEPT ![t] = n(k, x)]
        BY <2>7 DEF Select, Become, Results
      <4> HIDE DEF n
      <4> QED BY <2>1, <4>1, <4>2, <4>3, LeavesToClose
    <3> QED BY <2>5, <2>6, <2>7, <3>1 DEF Select
  <2>8. CASE \E r \in Results, value \in BOOLEAN : Delete(t, r, value)
    <3>1. PICK m : /\ th' = [th EXCEPT ![t] = m]
                   /\ l.session # NoSession => m.session = l.session
      <4> DEFINE n == [l EXCEPT !.pc = "access", !.left = 1]
      <4>1. n.session = l.session /\ l.pc = "delete"
        BY <2>1, <2>8 DEF Delete, ThreadType
      <4>2. \/ th' = [th EXCEPT ![t] = Throw(l)]
            \/ th' = [th EXCEPT ![t] = Leave(l, "ok")]
            \/ th' = [th EXCEPT ![t] = n]
        BY <2>8 DEF Delete, Become
      <4> HIDE DEF n
      <4> QED BY <2>1, <4>1, <4>2, LeavesToClose
    <3> QED BY <2>5, <2>6, <2>8, <3>1 DEF Delete, cardVars
  <2>9. CASE \E r \in Results, a \in {"next", "ok", "error"} : Access(t, r, a)
    <3>1. PICK m : /\ th' = [th EXCEPT ![t] = m]
                   /\ l.session # NoSession => m.session = l.session
      <4> DEFINE n == [l EXCEPT !.left = l.left - 1]
      <4>1. n.session = l.session /\ l.pc = "access"
        BY <2>1, <2>9 DEF Access, ThreadType
      <4>2. \/ th' = [th EXCEPT ![t] = Throw(l)]
            \/ th' = [th EXCEPT ![t] = Leave(l, "ok")]
            \/ th' = [th EXCEPT ![t] = Leave(l, "error")]
            \/ th' = [th EXCEPT ![t] = n]
        BY <2>9 DEF Access, Become, More
      <4> HIDE DEF n
      <4> QED BY <2>1, <4>1, <4>2, LeavesToClose
    <3> QED BY <2>5, <2>6, <2>9, <3>1 DEF Access, cardVars
  <2>10. ASSUME NEW r \in Results, NEW x \in BOOLEAN, Close(t, r, x)
         PROVE  NoSessionLeak'
    <3>1. /\ sessions' = IF x THEN sessions \ {l.session} ELSE sessions
          /\ adrift' = adrift
          /\ lost' = IF x THEN lost ELSE lost \cup {l.session}
      BY <2>10 DEF Close, CchoClose
    <3>2. PICK m : th' = [th EXCEPT ![t] = m]
      BY <2>10 DEF Close, Become
    <3>3. CASE x
      BY <3>1, <3>2, <3>3, KeepsTrack
    <3>4. CASE ~x
      BY <3>1, <3>2, <3>4, KeepsTrack
    <3> QED BY <3>3, <3>4
  <2> QED BY <1>3, <2>3, <2>4, <2>7, <2>8, <2>9, <2>10 DEF Step
<1> QED BY <1>1, <1>2, <1>3 DEF Next

\* Where the modem does not number a session 0, every open session is held by a
\* request that will close it, or the link lost its number or its closing.
THEOREM NoLeak ==
  ASSUME 0 \notin SessionIds
  PROVE  Spec => []NoSessionLeak
<1>1. Init => NoSessionLeak
  BY DEF Init, NoSessionLeak
<1>2. IInv /\ NoSessionLeak /\ [Next]_vars => NoSessionLeak'
  BY NextNoSessionLeak
<1> QED BY <1>1, <1>2, InitIInv, NextIInv, PTL DEF Spec

-----------------------------------------------------------------------------
\* Where a step takes a request: every way out of a file, and the way on.

\* On towards the file, or to its next command.
Forward(l, m) ==
  /\ l.pc # "close" /\ m.pc \in {"open", "select", "delete", "access"}
  /\ m.op = l.op /\ m.path = l.path /\ m.n = l.n /\ m.exc = l.exc /\ m.resp = l.resp
  /\ m.alone = l.alone /\ m.raised = l.raised

Moves(l, m) ==
  \/ m = Throw(l)
  \/ l.pc \in {"route", "open"} /\ m = JobOver(l, "error")
  \/ l.pc = "open" /\ l.op = "read_arr" /\ m = JobOver(l, "ok")
  \/ l.pc \in {"select", "delete", "access"} /\ m = Leave(l, "error")
  \/ l.pc \in {"delete", "access"} /\ m = Leave(l, "ok")
  \/ l.pc = "close" /\ l.exc = "none" /\ m = JobOver(l, l.resp)
  \/ l.pc = "close" /\ l.exc # "none" /\ m = Caught(l, l.exc)
  \/ Forward(l, m)

\* Every step of a thread moves its request in one of these ways.
LEMMA StepMoves ==
  ASSUME IInv, NEW t \in Threads, Step(t)
  PROVE  th[t].pc # "idle" /\ \E m : Become(t, m) /\ Moves(th[t], m)
<1> DEFINE l == th[t]
           Goal == l.pc # "idle" /\ \E m : Become(t, m) /\ Moves(l, m)
<1> SUFFICES Goal
  OBVIOUS
<1>0. l \in ThreadType
  BY DEF IInv, TypeOK
<1>1. CASE Route(t)
  <2>1. l.pc = "route"
    BY <1>1 DEF Route
  <2>2. PICK m : /\ Become(t, m)
                 /\ \/ m = JobOver(l, "error")
                    \/ \E p \in {"open", "select"} : \E c : m = [l EXCEPT !.pc = p, !.lchan = c]
    BY <1>1 DEF Route
  <2> HIDE DEF l
  <2>3. CASE \E p \in {"open", "select"} : \E c : m = [l EXCEPT !.pc = p, !.lchan = c]
    <3>1. Forward(l, m)
      BY <1>0, <2>1, <2>3 DEF Forward, ThreadType
    <3> QED BY <2>1, <2>2, <3>1 DEF Moves
  <2>4. CASE ~(\E p \in {"open", "select"} : \E c : m = [l EXCEPT !.pc = p, !.lchan = c])
    BY <2>1, <2>2, <2>4 DEF Moves
  <2> QED BY <2>3, <2>4
<1>2. ASSUME NEW r \in Results, NEW x \in BOOLEAN, NEW s \in SessionIds, Open(t, r, x, s)
      PROVE  Goal
  <2>1. l.pc = "open"
    BY <1>2 DEF Open
  <2>2. PICK m : /\ Become(t, m)
                 /\ \/ m = Throw(l) \/ m = JobOver(l, "error")
                    \/ l.op = "read_arr" /\ m = JobOver(l, "ok")
                    \/ m = [l EXCEPT !.session = s, !.pc = "select"]
    BY <1>2 DEF Open, Results
  <2> HIDE DEF l
  <2>3. CASE m = [l EXCEPT !.session = s, !.pc = "select"]
    <3>1. Forward(l, m)
      BY <1>0, <2>1, <2>3 DEF Forward, ThreadType
    <3> QED BY <2>1, <2>2, <3>1 DEF Moves
  <2>4. CASE ~(m = [l EXCEPT !.session = s, !.pc = "select"])
    BY <2>1, <2>2, <2>4 DEF Moves
  <2> QED BY <2>3, <2>4
<1>3. ASSUME NEW r \in Results, NEW x \in BOOLEAN, NEW k \in 1..MaxPieces, Select(t, r, x, k)
      PROVE  Goal
  <2>1. l.pc = "select"
    BY <1>3 DEF Select
  <2>2. PICK m : /\ Become(t, m)
                 /\ \/ m = Throw(l) \/ m = Leave(l, "error")
                    \/ \E p \in {"delete", "access"} : m = [l EXCEPT !.pc = p, !.left = k, !.own = x]
    BY <1>3 DEF Select, Results
  <2> HIDE DEF l
  <2>3. CASE \E p \in {"delete", "access"} : m = [l EXCEPT !.pc = p, !.left = k, !.own = x]
    <3>1. Forward(l, m)
      BY <1>0, <2>1, <2>3 DEF Forward, ThreadType
    <3> QED BY <2>1, <2>2, <3>1 DEF Moves
  <2>4. CASE ~(\E p \in {"delete", "access"} : m = [l EXCEPT !.pc = p, !.left = k, !.own = x])
    BY <2>1, <2>2, <2>4 DEF Moves
  <2> QED BY <2>3, <2>4
<1>4. ASSUME NEW r \in Results, NEW value \in BOOLEAN, Delete(t, r, value)
      PROVE  Goal
  <2>1. l.pc = "delete"
    BY <1>4 DEF Delete
  <2>2. PICK m : /\ Become(t, m)
                 /\ \/ m = Throw(l) \/ m = Leave(l, "ok")
                    \/ m = [l EXCEPT !.pc = "access", !.left = 1]
    BY <1>4 DEF Delete
  <2> HIDE DEF l
  <2>3. CASE m = [l EXCEPT !.pc = "access", !.left = 1]
    <3>1. Forward(l, m)
      BY <1>0, <2>1, <2>3 DEF Forward, ThreadType
    <3> QED BY <2>1, <2>2, <3>1 DEF Moves
  <2>4. CASE ~(m = [l EXCEPT !.pc = "access", !.left = 1])
    BY <2>1, <2>2, <2>4 DEF Moves
  <2> QED BY <2>3, <2>4
<1>5. ASSUME NEW r \in Results, NEW a \in {"next", "ok", "error"}, Access(t, r, a)
      PROVE  Goal
  <2>1. l.pc = "access"
    BY <1>5 DEF Access
  <2>2. PICK m : /\ Become(t, m)
                 /\ \/ m = Throw(l) \/ m = Leave(l, "ok") \/ m = Leave(l, "error")
                    \/ m = [l EXCEPT !.left = l.left - 1]
    BY <1>5 DEF Access
  <2> HIDE DEF l
  <2>3. CASE m = [l EXCEPT !.left = l.left - 1]
    <3>1. Forward(l, m)
      BY <1>0, <2>1, <2>3 DEF Forward, ThreadType
    <3> QED BY <2>1, <2>2, <3>1 DEF Moves
  <2>4. CASE m # [l EXCEPT !.left = l.left - 1]
    BY <2>1, <2>2, <2>4 DEF Moves
  <2> QED BY <2>3, <2>4
<1>6. ASSUME NEW r \in Results, NEW x \in BOOLEAN, Close(t, r, x)
      PROVE  Goal
  <2>1. l.pc = "close"
    BY <1>6 DEF Close
  <2>2. PICK m : /\ Become(t, m)
                 /\ \/ m = Throw(l)
                    \/ l.exc = "none" /\ m = JobOver(l, l.resp)
                    \/ l.exc # "none" /\ m = Caught(l, l.exc)
    BY <1>6 DEF Close
  <2> HIDE DEF l
  <2>3. Moves(l, m)
    BY <2>1, <2>2 DEF Moves
  <2> QED BY <2>1, <2>2, <2>3
<1> QED BY <1>1, <1>2, <1>3, <1>4, <1>5, <1>6 DEF Step

-----------------------------------------------------------------------------
\* The report of a lost port.

\* Of a request, with the port connected (c) or not.  The exception that a lone
\* request has raised waits behind the closing of its session, if anywhere.
PortInv(l, c) ==
  /\ l.pc # "idle" =>
       /\ l.resp # "disconnected"
       /\ l.alone => c
       /\ l.alone /\ l.raised /\ l.op \notin Batches => l.pc = "close" /\ l.exc = "serial"
  /\ l.pc = "idle" /\ l.alone /\ l.raised /\ l.op \notin Batches
       => l.resp = "disconnected" /\ ~c

\* While a request is alone, and after it, until another arrives, the others idle.
LoneInv == \A t, u \in Threads : t # u /\ th[t].alone => th[u].pc = "idle"

\* The request of one file that ends without an exception, or any batch.
LEMMA JobOverPort ==
  ASSUME NEW l \in ThreadType, NEW c \in BOOLEAN, PortInv(l, c), l.pc # "idle",
         NEW a \in {"ok", "error"},
         ~(l.alone /\ l.raised /\ l.op \notin Batches)
  PROVE  PortInv(JobOver(l, a), c /\ JobOver(l, a).resp # "disconnected")
<1>1. CASE l.op \in Batches /\ l.n < 3
  <2>1. JobOver(l, a) = [l EXCEPT !.pc = "route", !.n = l.n + 1, !.path = Batch[l.op][l.n + 1],
                 !.session = NoSession, !.left = 0, !.exc = "none", !.resp = "none"]
    BY <1>1 DEF JobOver
  <2>2. /\ JobOver(l, a).pc = "route" /\ JobOver(l, a).op = l.op /\ JobOver(l, a).resp = "none"
        /\ JobOver(l, a).alone = l.alone
    BY <2>1 DEF ThreadType
  <2> QED BY <1>1, <2>2 DEF PortInv
<1>2. CASE ~(l.op \in Batches /\ l.n < 3)
  <2>1. PICK b : JobOver(l, a) = Reply(l, b)
    BY <1>2 DEF JobOver
  <2>2. /\ Reply(l, b).pc = "idle" /\ Reply(l, b).op = l.op
        /\ Reply(l, b).alone = l.alone /\ Reply(l, b).raised = l.raised
    BY DEF Reply, IdleThread
  <2> QED BY <2>1, <2>2 DEF PortInv
<1> QED BY <1>1, <1>2

\* A serial exception of a request for one file is answered with "disconnected".
LEMMA CaughtPort ==
  ASSUME NEW l \in ThreadType, NEW c \in BOOLEAN, l.pc # "idle", NEW k,
         l.resp # "disconnected", l.alone => c,
         l.alone /\ l.raised /\ l.op \notin Batches => k = "serial"
  PROVE  PortInv(Caught(l, k), c /\ Caught(l, k).resp # "disconnected")
<1>1. CASE Swallows(l)
  <2>1. l.op \in Batches /\ Caught(l, k) = JobOver(l, "ok")
    BY <1>1 DEF Swallows, Batches, Caught
  <2>2. PortInv(l, c)
    BY <2>1 DEF PortInv
  <2> QED BY <2>1, <2>2, JobOverPort
<1>2. CASE ~Swallows(l)
  <2>1. PICK b : Caught(l, k) = Reply(l, b) /\ (k = "serial" => b = "disconnected")
    BY <1>2 DEF Caught
  <2>2. /\ Reply(l, b).pc = "idle" /\ Reply(l, b).op = l.op /\ Reply(l, b).resp = b
        /\ Reply(l, b).alone = l.alone /\ Reply(l, b).raised = l.raised
    BY DEF Reply, IdleThread
  <2> QED BY <2>1, <2>2 DEF PortInv
<1> QED BY <1>1, <1>2

\* Where a request goes from what the invariant allows, it allows too.
LEMMA MovesPort ==
  ASSUME connected \in BOOLEAN, NEW l \in ThreadType, NEW m, PortInv(l, connected),
         l.pc # "idle", Moves(l, m),
         l.pc = "close" /\ l.exc = "none" => l.resp \in {"ok", "error"}
  PROVE  PortInv(m, connected /\ m.resp # "disconnected")
<1>0. /\ l.resp # "disconnected" /\ (l.alone => connected)
      /\ l.alone /\ l.raised /\ l.op \notin Batches => l.pc = "close" /\ l.exc = "serial"
  BY DEF PortInv
<1>1. CASE m = Throw(l)
  <2> DEFINE k == [l EXCEPT !.raised = l.raised \/ connected]
  <2>1. k \in ThreadType
    BY DEF ThreadType
  <2>2. /\ k.pc = l.pc /\ k.op = l.op /\ k.alone = l.alone /\ k.resp = l.resp
        /\ k.alone => Kind = "serial"
    BY <1>0 DEF ThreadType, Kind
  <2>3. CASE l.session # NoSession /\ l.pc # "close"
    <3>1. m = [k EXCEPT !.pc = "close", !.exc = Kind]
      BY <1>1, <2>3 DEF Throw
    <3> HIDE DEF k
    <3>2. m.pc = "close" /\ m.exc = Kind /\ m.resp = l.resp /\ m.alone = l.alone /\ m.op = l.op
      BY <2>1, <2>2, <3>1 DEF ThreadType
    <3> QED BY <1>0, <2>2, <3>2 DEF PortInv
  <2>4. CASE ~(l.session # NoSession /\ l.pc # "close")
    <3>1. m = Caught(k, Kind)
      BY <1>1, <2>4 DEF Throw
    <3> HIDE DEF k
    <3> QED BY <1>0, <2>1, <2>2, <3>1, CaughtPort
  <2> QED BY <2>3, <2>4
<1>2. ASSUME NEW a \in {"ok", "error"}, l.pc # "close", m = JobOver(l, a) \/ m = Leave(l, a)
      PROVE  PortInv(m, connected /\ m.resp # "disconnected")
  <2>1. ~(l.alone /\ l.raised /\ l.op \notin Batches)
    BY <1>0, <1>2
  <2>2. CASE m = JobOver(l, a)
    BY <2>1, <2>2, JobOverPort
  <2>3. CASE l.session # NoSession /\ m = Leave(l, a)
    <3>1. m = [l EXCEPT !.pc = "close", !.resp = a]
      BY <2>3 DEF Leave
    <3>2. m.pc = "close" /\ m.resp = a /\ m.alone = l.alone /\ m.op = l.op /\ m.raised = l.raised
      BY <3>1 DEF ThreadType
    <3> QED BY <1>0, <2>1, <3>2 DEF PortInv
  <2> QED BY <1>2, <2>2, <2>3 DEF Leave
<1>3. CASE l.pc = "close" /\ l.exc = "none" /\ m = JobOver(l, l.resp)
  BY <1>0, <1>3, JobOverPort
<1>4. CASE l.pc = "close" /\ l.exc # "none" /\ m = Caught(l, l.exc)
  BY <1>0, <1>4, CaughtPort
<1>5. CASE Forward(l, m)
  BY <1>0, <1>5 DEF Forward, PortInv
<1> QED BY <1>1, <1>2, <1>3, <1>4, <1>5 DEF Moves

\* A request that closes its session behind an answer has that answer.
AnswerInv(l) == l.pc = "close" /\ l.exc = "none" => l.resp \in {"ok", "error"}

\* Whatever way it came to close its session.
LEMMA MovesAnswer ==
  ASSUME connected \in BOOLEAN, NEW l \in ThreadType, NEW m, LocalInv(l), l.pc # "idle", Moves(l, m)
  PROVE  AnswerInv(m)
<1>1. CASE m = Throw(l) /\ l.pc # "close" /\ l.session # NoSession
  <2> DEFINE k == [l EXCEPT !.raised = l.raised \/ connected]
  <2>1. k \in ThreadType
    BY DEF ThreadType
  <2>2. m = [k EXCEPT !.pc = "close", !.exc = Kind]
    BY <1>1 DEF Throw
  <2> HIDE DEF k
  <2>3. m.exc = Kind
    BY <2>1, <2>2 DEF ThreadType
  <2> QED BY <2>3 DEF AnswerInv, Kind
<1>2. CASE m = Throw(l) /\ ~(l.pc # "close" /\ l.session # NoSession)
  <2> DEFINE k == [l EXCEPT !.raised = l.raised \/ connected]
  <2>1. m = Caught(k, Kind)
    BY <1>2 DEF Throw
  <2>2. Caught(k, Kind).pc # "close"
    <3>1. k \in ThreadType
      BY DEF ThreadType
    <3>2. LocalInv(k) /\ k.pc # "idle"
      BY DEF ThreadType, LocalInv, NoSession
    <3> HIDE DEF k
    <3> QED BY <3>1, <3>2, CaughtFacts
  <2> QED BY <2>1, <2>2 DEF AnswerInv
<1>3. ASSUME NEW a \in {"ok", "error"}, m = Leave(l, a) /\ l.session # NoSession
      PROVE  AnswerInv(m)
  BY <1>3 DEF Leave, AnswerInv, ThreadType
<1>4. ASSUME NEW a \in Answers, m = JobOver(l, a)
      PROVE  AnswerInv(m)
  BY <1>4, JobOverFacts DEF AnswerInv
<1>5. CASE m = Caught(l, l.exc)
  BY <1>5, CaughtFacts DEF AnswerInv
<1>6. CASE Forward(l, m)
  BY <1>6 DEF Forward, AnswerInv
<1>7. \A a \in {"ok", "error"} : a \in Answers /\ (l.session = NoSession => Leave(l, a) = JobOver(l, a))
  BY DEF Answers, Leave
<1>8. l.resp \in Answers
  BY DEF ThreadType
<1> QED BY <1>1, <1>2, <1>3, <1>4, <1>5, <1>6, <1>7, <1>8 DEF Moves

\* How a request arrived is not forgotten on its way.
LEMMA MovesAlone ==
  ASSUME connected \in BOOLEAN, NEW l \in ThreadType, NEW m, LocalInv(l), l.pc # "idle", Moves(l, m)
  PROVE  m.alone = l.alone
<1>1. {"ok", "error"} \subseteq Answers /\ l.resp \in Answers
  BY DEF Answers, ThreadType
<1>2. CASE m = Throw(l)
  BY <1>2, ThrowFacts DEF Departed
<1>3. ASSUME NEW a \in Answers, m = Leave(l, a) \/ m = JobOver(l, a) PROVE m.alone = l.alone
  BY <1>3, LeaveFacts, JobOverFacts DEF Departed
<1>4. CASE m = Caught(l, l.exc)
  BY <1>4, CaughtFacts DEF Departed
<1>5. CASE Forward(l, m)
  BY <1>5 DEF Forward
<1> QED BY <1>1, <1>2, <1>3, <1>4, <1>5 DEF Moves

PortsInv ==
  /\ LoneInv
  /\ \A t \in Threads : PortInv(th[t], connected) /\ AnswerInv(th[t])

\* A lone request for one file whose exchange raises answers "disconnected" and
\* leaves the port closed, whichever of its exchanges it was.
THEOREM PortLoss == Spec => []PortLossReported
<1>1. Init => PortsInv
  <2> SUFFICES ASSUME Init PROVE PortsInv
    OBVIOUS
  <2>1. \A t \in Threads : th[t] = IdleThread
    BY DEF Init
  <2>2. IdleThread.pc = "idle" /\ IdleThread.alone = FALSE
    BY DEF IdleThread
  <2> QED BY <2>1, <2>2 DEF PortsInv, LoneInv, PortInv, AnswerInv
<1>2. IInv /\ PortsInv /\ [Next]_vars => PortsInv'
  <2> SUFFICES ASSUME IInv, PortsInv, [Next]_vars PROVE PortsInv'
    OBVIOUS
  <2>1. CASE UNCHANGED vars
    BY <2>1 DEF vars, PortsInv, LoneInv, PortInv, AnswerInv
  <2>2. ASSUME NEW t \in Threads, Request(t) PROVE PortsInv'
    <3>1. PICK o \in Ops, p \in Files \cup BatchFiles : Begin(t, o, p)
      BY <2>2 DEF Request
    <3> DEFINE b == \A v \in Threads \ {t} : th[v].pc = "idle"
    <3>2. /\ connected /\ connected' = connected
          /\ th'[t].pc = "route" /\ th'[t].raised = FALSE /\ th'[t].resp = "none"
          /\ th'[t].alone = b
          /\ \A u \in Threads \ {t} : th'[u] = [th[u] EXCEPT !.alone = FALSE]
      BY <3>1 DEF Begin, Arrive, IdleThread
    <3>3. ASSUME NEW u \in Threads \ {t}
          PROVE  /\ th'[u].alone = FALSE /\ th'[u].pc = th[u].pc
                 /\ th'[u].exc = th[u].exc /\ th'[u].resp = th[u].resp
      BY ZenonT(40), <3>2, <3>3 DEF IInv, TypeOK, ThreadType
    <3>4. LoneInv'
      BY ZenonT(40), <3>2, <3>3 DEF LoneInv
    <3>5. ASSUME NEW u \in Threads PROVE PortInv(th'[u], connected') /\ AnswerInv(th'[u])
      <4>1. CASE u = t
        BY <3>2, <4>1 DEF PortInv, AnswerInv
      <4>2. CASE u # t
        BY ZenonT(40), <3>2, <3>3, <4>2 DEF PortInv, AnswerInv, PortsInv
      <4> QED BY <4>1, <4>2
    <3> QED BY <3>4, <3>5 DEF PortsInv, PortInv, AnswerInv
  <2>3. ASSUME NEW t \in Threads, Step(t) PROVE PortsInv'
    <3>1. PICK m : th[t].pc # "idle" /\ Become(t, m) /\ Moves(th[t], m)
      BY <2>3, StepMoves
    <3>2. /\ th'[t] = m /\ \A u \in Threads \ {t} : th'[u] = th[u]
          /\ connected' = (connected /\ m.resp # "disconnected")
      BY <3>1 DEF Become, IInv, TypeOK
    <3>3. PortInv(m, connected /\ m.resp # "disconnected") /\ AnswerInv(m)
      <4>1. connected \in BOOLEAN /\ th[t] \in ThreadType /\ LocalInv(th[t])
        BY DEF IInv, TypeOK
      <4>2. PortInv(th[t], connected) /\ AnswerInv(th[t])
        BY DEF PortsInv
      <4> QED BY <3>1, <4>1, <4>2, MovesPort, MovesAnswer DEF AnswerInv
    <3>4. m.alone = th[t].alone
      BY <2>3, <3>1, MovesAlone DEF IInv, TypeOK
    <3>5. \A u \in Threads \ {t} : ~th[u].alone
      BY <3>1 DEF PortsInv, LoneInv
    <3>6. LoneInv'
      BY <3>2, <3>4, <3>5 DEF LoneInv, PortsInv
    <3>7. ASSUME NEW u \in Threads PROVE PortInv(th'[u], connected') /\ AnswerInv(th'[u])
      <4>1. CASE u = t
        BY <3>2, <3>3, <4>1
      <4>2. CASE u # t
        BY <3>2, <3>5, <4>2 DEF PortInv, AnswerInv, PortsInv
      <4> QED BY <4>1, <4>2
    <3> QED BY <3>6, <3>7 DEF PortsInv, PortInv, AnswerInv
  <2> QED BY <2>1, <2>2, <2>3 DEF Next
<1>3. PortsInv => PortLossReported
  BY DEF PortsInv, PortInv, PortLossReported
<1> QED BY <1>1, <1>2, <1>3, InitIInv, NextIInv, PTL DEF Spec

-----------------------------------------------------------------------------
\* The promise of FileServer.

\* A single file is the first; a session is closed behind an answer or an exception.
OutcomeInv(l) ==
  l.pc # "idle" =>
    /\ l.op \notin Batches => l.n = 1
    /\ l.pc = "close" /\ l.exc = "none" => l.resp \in {"ok", "error"}

\* Where the promise lets the request with record l go: m.
Allowed(l, m) ==
  \/ m.pc # "idle" /\ m.op = l.op /\ m.path = l.path /\ m.n = l.n
  \/ l.op \in Batches /\ l.n < 3 /\ m.pc = "route" /\ m.op = l.op /\ m.n = l.n + 1
  \/ /\ m.pc = "idle" /\ m.n = 1 /\ m.resp \in Answers \ {"none"}
     /\ m.resp = "ok" => IF l.op \in Batches THEN l.n = 3 ELSE Stage(l) = "there"

Goes(l, m) == Allowed(l, m) /\ OutcomeInv(m)

-----------------------------------------------------------------------------
\* The stage of a request in progress.
LEMMA StageFacts ==
  ASSUME NEW l
  PROVE  /\ l.pc = "idle" => Stage(l) = "idle"
         /\ l.pc # "idle" => Stage(l) \in {"routing", "there"}
         /\ l.pc \in {"delete", "access"} => Stage(l) = "there"
         /\ l.pc \in {"route", "open", "select"} => Stage(l) = "routing"
         /\ l.pc = "close" /\ l.exc = "none" /\ l.resp = "ok" => Stage(l) = "there"
BY DEF Stage, AboutToAccess

\* How a request answers.
LEMMA ReplyGoes ==
  ASSUME NEW l \in ThreadType, NEW a \in Answers \ {"none"},
         a = "ok" => IF l.op \in Batches THEN l.n = 3 ELSE Stage(l) = "there"
  PROVE  Goes(l, Reply(l, a))
<1>1. Reply(l, a).pc = "idle" /\ Reply(l, a).n = 1 /\ Reply(l, a).resp = a
  BY DEF Reply, IdleThread
<1> QED BY <1>1 DEF Goes, Allowed, OutcomeInv

\* A file is done: the next one, or the answer.
LEMMA JobOverGoes ==
  ASSUME NEW l \in ThreadType, NEW a \in {"ok", "error"},
         a = "ok" /\ l.op \notin Batches => Stage(l) = "there"
  PROVE  Goes(l, JobOver(l, a))
<1>1. CASE l.op \in Batches /\ l.n < 3
  <2>1. JobOver(l, a) = [l EXCEPT !.pc = "route", !.n = l.n + 1, !.path = Batch[l.op][l.n + 1],
                 !.session = NoSession, !.left = 0, !.exc = "none", !.resp = "none"]
    BY <1>1 DEF JobOver
  <2>2. /\ JobOver(l, a).pc = "route" /\ JobOver(l, a).op = l.op
        /\ JobOver(l, a).n = l.n + 1
    BY <2>1 DEF ThreadType
  <2> QED BY <1>1, <2>2 DEF Goes, Allowed, OutcomeInv
<1>2. CASE l.op \in Batches /\ ~(l.n < 3)
  <2>1. JobOver(l, a) = Reply(l, "ok") /\ l.n = 3
    BY <1>2 DEF JobOver, ThreadType
  <2> QED BY <1>2, <2>1, ReplyGoes DEF Answers
<1>3. CASE l.op \notin Batches
  <2>1. JobOver(l, a) = Reply(l, a)
    BY <1>3 DEF JobOver
  <2> QED BY <1>3, <2>1, ReplyGoes DEF Answers
<1> QED BY <1>1, <1>2, <1>3

\* Leaving a file, with the session to close first or without one.
LEMMA LeaveGoes ==
  ASSUME NEW l \in ThreadType, OutcomeInv(l), l.pc # "idle", NEW a \in {"ok", "error"},
         a = "ok" /\ l.op \notin Batches => Stage(l) = "there"
  PROVE  Goes(l, Leave(l, a))
<1>1. CASE l.session = NoSession
  BY <1>1, JobOverGoes DEF Leave
<1>2. CASE l.session # NoSession
  <2>1. Leave(l, a) = [l EXCEPT !.pc = "close", !.resp = a]
    BY <1>2 DEF Leave
  <2>2. /\ Leave(l, a).pc = "close" /\ Leave(l, a).op = l.op /\ Leave(l, a).path = l.path
        /\ Leave(l, a).n = l.n /\ Leave(l, a).resp = a
    BY <2>1 DEF ThreadType
  <2> QED BY <2>2 DEF Goes, Allowed, OutcomeInv
<1> QED BY <1>1, <1>2

\* An exception that reaches the wrapper: only a batch swallows it.
LEMMA CaughtGoes ==
  ASSUME NEW l \in ThreadType, NEW k
  PROVE  Goes(l, Caught(l, k))
<1>1. CASE Swallows(l)
  <2>1. l.op \in Batches /\ Caught(l, k) = JobOver(l, "ok")
    BY <1>1 DEF Swallows, Batches, Caught
  <2> QED BY <2>1, JobOverGoes
<1>2. CASE ~Swallows(l)
  <2>1. Caught(l, k) = Reply(l, "disconnected") \/ Caught(l, k) = Reply(l, "error500")
    BY <1>2 DEF Caught
  <2>2. \A a \in {"disconnected", "error500"} : a \in Answers \ {"none"} /\ a # "ok"
    BY DEF Answers
  <2> QED BY <2>1, <2>2, ReplyGoes
<1> QED BY <1>1, <1>2

\* One that a held session's finally meets first, too.
LEMMA ThrowGoes ==
  ASSUME connected \in BOOLEAN, NEW l \in ThreadType, OutcomeInv(l), l.pc # "idle"
  PROVE  Goes(l, Throw(l))
<1> DEFINE m == [l EXCEPT !.raised = l.raised \/ connected]
<1>1. m \in ThreadType
  BY DEF ThreadType
<1>2. /\ m.pc = l.pc /\ m.op = l.op /\ m.path = l.path /\ m.n = l.n /\ m.session = l.session
      /\ m.exc = l.exc /\ m.resp = l.resp
  BY DEF ThreadType
<1>3. CASE l.session # NoSession /\ l.pc # "close"
  <2>1. Throw(l) = [m EXCEPT !.pc = "close", !.exc = Kind]
    BY <1>3 DEF Throw
  <2> HIDE DEF m
  <2>2. /\ Throw(l).pc = "close" /\ Throw(l).op = l.op /\ Throw(l).path = l.path
        /\ Throw(l).n = l.n /\ Throw(l).exc # "none"
    BY <1>1, <1>2, <2>1 DEF ThreadType, Kind
  <2> QED BY <2>2 DEF Goes, Allowed, OutcomeInv
<1>4. CASE ~(l.session # NoSession /\ l.pc # "close")
  <2>1. Throw(l) = Caught(m, Kind)
    BY <1>4 DEF Throw
  <2> HIDE DEF m
  <2>2. Goes(m, Throw(l))
    BY <1>1, <2>1, CaughtGoes
  <2>3. Stage(m) = Stage(l)
    BY <1>2 DEF Stage, AboutToAccess
  <2> QED BY <1>2, <2>2, <2>3 DEF Goes, Allowed
<1> QED BY <1>3, <1>4

\* Every step of a request goes where it may.
LEMMA StepGoes ==
  ASSUME IInv, NEW t \in Threads, OutcomeInv(th[t]), Step(t)
  PROVE  th[t].pc # "idle" /\ \E m : th' = [th EXCEPT ![t] = m] /\ Goes(th[t], m)
<1> DEFINE l == th[t]
<1>1. l \in ThreadType /\ connected \in BOOLEAN /\ OutcomeInv(l)
  BY DEF IInv, TypeOK
<1>2. PICK m : l.pc # "idle" /\ Become(t, m) /\ Moves(l, m)
  BY StepMoves
<1> SUFFICES Goes(l, m)
  BY <1>2 DEF Become
<1> HIDE DEF l
<1>3. CASE m = Throw(l)
  BY <1>1, <1>2, <1>3, ThrowGoes
<1>4. CASE l.pc \in {"route", "open"} /\ m = JobOver(l, "error")
  BY <1>1, <1>4, JobOverGoes
<1>5. CASE l.op = "read_arr" /\ m = JobOver(l, "ok")
  BY <1>1, <1>5, JobOverGoes DEF Batches
<1>6. CASE m = Leave(l, "error")
  BY <1>1, <1>2, <1>6, LeaveGoes
<1>7. CASE l.pc \in {"delete", "access"} /\ m = Leave(l, "ok")
  BY <1>1, <1>7, LeaveGoes, StageFacts
<1>8. CASE l.pc = "close" /\ l.exc = "none" /\ m = JobOver(l, l.resp)
  <2>1. l.resp \in {"ok", "error"} /\ (l.resp = "ok" => Stage(l) = "there")
    BY <1>1, <1>8, StageFacts DEF OutcomeInv
  <2> QED BY <1>1, <1>8, <2>1, JobOverGoes
<1>9. CASE m = Caught(l, l.exc)
  BY <1>1, <1>9, CaughtGoes
<1>10. CASE Forward(l, m)
  BY <1>1, <1>2, <1>10 DEF Forward, Goes, Allowed, OutcomeInv
<1> QED BY <1>2, <1>3, <1>4, <1>5, <1>6, <1>7, <1>8, <1>9, <1>10 DEF Moves

-----------------------------------------------------------------------------
\* What the promise sees of a request.

Own(l) == IF Stage(l) = "there" THEN {l.path} ELSE {}
Said(l) == IF l.pc = "idle" THEN l.resp ELSE "none"

\* A request acts on its own file, and on that alone.
TargetsOwn == \A t \in Threads : Target(th[t]) = Own(th[t])

OutcomesInv == \A t \in Threads : OutcomeInv(th[t])

\* Because of the invariants: a protected request's commands go to its file.
LEMMA Targeted == IInv => TargetsOwn
<1> SUFFICES ASSUME IInv, NEW t \in Threads PROVE Target(th[t]) = Own(th[t])
  BY DEF TargetsOwn
<1> DEFINE l == th[t]
<1>1. CASE AboutToAccess(l) /\ Protected(l)
  <2>1. Stage(l) = "there"
    BY <1>1, StageFacts DEF AboutToAccess
  <2>2. cur[DataHandle(l)] = l.path
    <3>1. CASE l.session # NoSession /\ l.own
      BY <1>1, <3>1 DEF IInv, SessionInv, SessionRequestsHitTarget
    <3>2. CASE l.alone /\ InSync /\ ReadsWhereItSelects(l)
      BY <1>1, <3>2 DEF IInv, IsolatedRequestsHitTarget
    <3> QED BY <1>1, <3>1, <3>2 DEF Protected
  <2>3. Target(l) = {cur[DataHandle(l)]}
    BY <1>1, <2>1 DEF Target
  <2>4. Own(l) = {l.path}
    BY <2>1 DEF Own
  <2> QED BY <2>2, <2>3, <2>4
<1>2. CASE ~(AboutToAccess(l) /\ Protected(l))
  <2>1. CASE Stage(l) = "there"
    <3>1. Target(l) = {l.path}
      BY <1>2, <2>1 DEF Target
    <3>2. Own(l) = {l.path}
      BY <2>1 DEF Own
    <3> QED BY <3>1, <3>2
  <2>2. CASE Stage(l) # "there"
    BY <2>2 DEF Target, Own
  <2> QED BY <2>1, <2>2
<1> QED BY <1>1, <1>2

\* The file a request has reached is the one its itinerary has there.
LEMMA ItineraryFacts ==
  ASSUME NEW l \in ThreadType, LocalInv(l), OutcomeInv(l), l.pc # "idle"
  PROVE  /\ Itinerary(l)[l.n] = l.path
         /\ l.op \in Batches => Len(Itinerary(l)) = 3
         /\ l.op \notin Batches => Len(Itinerary(l)) = 1 /\ l.n = 1
<1>1. CASE l.op \in Batches
  <2>1. Itinerary(l) = Batch[l.op] /\ l.path = Batch[l.op][l.n]
    BY <1>1 DEF Itinerary, LocalInv
  <2>2. Len(Batch["read_info"]) = 3 /\ Len(Batch["read_arr"]) = 3
    BY DEF Batch
  <2> QED BY <1>1, <2>1, <2>2 DEF Batches
<1>2. CASE l.op \notin Batches
  BY <1>2 DEF Itinerary, OutcomeInv
<1> QED BY <1>1, <1>2

\* Nothing the promise sees of the other requests changes.
Same(l, m) ==
  Itinerary(m) = Itinerary(l) /\ m.n = l.n /\ Stage(m) = Stage(l) /\ Own(m) = Own(l) /\ Said(m) = Said(l)

Trips == [u \in Threads |-> Itinerary(th[u])]
Places == [u \in Threads |-> th[u].n]
Stages == [u \in Threads |-> Stage(th[u])]
Targets == [u \in Threads |-> Target(th[u])]
Sayings == [u \in Threads |-> IF th[u].pc = "idle" THEN th[u].resp ELSE "none"]

\* Only what the promise sees of that request changes.
LEMMA Seen ==
  ASSUME TargetsOwn, TargetsOwn', NEW t \in Threads,
         \A u \in Threads \ {t} : Same(th[u], th'[u])
  PROVE  /\ Trips' = [Trips EXCEPT ![t] = Itinerary(th'[t])]
         /\ Places' = [Places EXCEPT ![t] = th'[t].n]
         /\ Stages' = [Stages EXCEPT ![t] = Stage(th'[t])]
         /\ Targets' = [Targets EXCEPT ![t] = Own(th'[t])]
         /\ Sayings' = [Sayings EXCEPT ![t] = Said(th'[t])]
<1>1. Trips' = [Trips EXCEPT ![t] = Itinerary(th'[t])]
  BY DEF Trips, Same
<1>2. Places' = [Places EXCEPT ![t] = th'[t].n]
  BY DEF Places, Same
<1>3. Stages' = [Stages EXCEPT ![t] = Stage(th'[t])]
  BY DEF Stages, Same
<1>4. Targets' = [Targets EXCEPT ![t] = Own(th'[t])]
  BY DEF Targets, Same, TargetsOwn
<1>5. Sayings' = [Sayings EXCEPT ![t] = Said(th'[t])]
  BY DEF Sayings, Same, Said
<1> QED BY <1>1, <1>2, <1>3, <1>4, <1>5

PromiseVars == <<Trips, Places, Stages, Targets, Sayings>>

\* A step of a request in progress is one step of the promise, or none.
LEMMA RequestStep ==
  ASSUME IInv, IInv', OutcomesInv, TargetsOwn, TargetsOwn',
         NEW t \in Threads, NEW m, th' = [th EXCEPT ![t] = m], th[t].pc # "idle", Goes(th[t], m)
  PROVE  Promise!Next \/ UNCHANGED PromiseVars
<1> DEFINE l == th[t]
<1>1. th'[t] = m /\ \A u \in Threads \ {t} : th'[u] = th[u]
  BY DEF IInv, TypeOK
<1>2. l \in ThreadType /\ m \in ThreadType /\ LocalInv(l) /\ OutcomeInv(l) /\ OutcomeInv(m)
  BY <1>1 DEF IInv, TypeOK, OutcomesInv, Goes
<1>3. /\ Trips' = [Trips EXCEPT ![t] = Itinerary(m)]
      /\ Places' = [Places EXCEPT ![t] = m.n]
      /\ Stages' = [Stages EXCEPT ![t] = Stage(m)]
      /\ Targets' = [Targets EXCEPT ![t] = Own(m)]
      /\ Sayings' = [Sayings EXCEPT ![t] = Said(m)]
  BY <1>1, Seen DEF Same
<1>4. /\ Trips[t] = Itinerary(l) /\ Places[t] = l.n /\ Stages[t] = Stage(l)
      /\ Targets[t] = Own(l) /\ Sayings[t] = Said(l)
  BY DEF Trips, Places, Stages, Targets, Sayings, Said, TargetsOwn
<1>5. /\ Itinerary(l)[l.n] = l.path
      /\ l.op \in Batches => Len(Itinerary(l)) = 3
      /\ l.op \notin Batches => Len(Itinerary(l)) = 1 /\ l.n = 1
  BY <1>2, ItineraryFacts
<1>6. Stage(l) \in {"routing", "there"} /\ Said(l) = "none"
  BY StageFacts DEF Said
<1>7. /\ DOMAIN Trips = Threads /\ DOMAIN Places = Threads /\ DOMAIN Stages = Threads
      /\ DOMAIN Targets = Threads /\ DOMAIN Sayings = Threads
      /\ Trips = [u \in Threads |-> Trips[u]] /\ Places = [u \in Threads |-> Places[u]]
      /\ Stages = [u \in Threads |-> Stages[u]] /\ Targets = [u \in Threads |-> Targets[u]]
      /\ Sayings = [u \in Threads |-> Sayings[u]]
  BY DEF Trips, Places, Stages, Targets, Sayings
<1> HIDE DEF l
<1>8. CASE m.pc # "idle" /\ m.op = l.op /\ m.path = l.path /\ m.n = l.n
  <2>1. Itinerary(m) = Itinerary(l) /\ Said(m) = "none" /\ Stage(m) \in {"routing", "there"}
    BY <1>8, StageFacts DEF Itinerary, Said, l
  <2>2. Trips' = Trips /\ Places' = Places /\ Sayings' = Sayings
    BY <1>3, <1>4, <1>6, <1>7, <1>8, <2>1
  <2>3. CASE Stage(m) = Stage(l)
    <3>1. Own(m) = Own(l)
      BY <1>8, <2>3 DEF Own
    <3>2. Stages' = Stages /\ Targets' = Targets
      BY <1>3, <1>4, <1>7, <2>3, <3>1
    <3> QED BY <2>2, <3>2 DEF PromiseVars
  <2>4. CASE Stage(l) = "routing" /\ Stage(m) = "there"
    <3>1. Own(m) = {Trips[t][Places[t]]}
      BY <1>4, <1>5, <1>8, <2>4 DEF Own
    <3>2. Promise!Reach(t)
      BY <1>3, <1>4, <2>2, <2>4, <3>1 DEF Promise!Reach, Trips, Places, Stages, Targets, Sayings
    <3> QED BY <3>2 DEF Promise!Next
  <2>5. CASE Stage(l) = "there" /\ Stage(m) = "routing"
    <3>1. Own(m) = {}
      BY <2>5 DEF Own
    <3>2. Promise!GiveUp(t)
      BY <1>3, <1>4, <2>2, <2>5, <3>1 DEF Promise!GiveUp, Trips, Places, Stages, Targets, Sayings
    <3> QED BY <3>2 DEF Promise!Next
  <2> QED BY <1>6, <2>1, <2>3, <2>4, <2>5
<1>9. CASE l.op \in Batches /\ l.n < 3 /\ m.pc = "route" /\ m.op = l.op /\ m.n = l.n + 1
  <2>1. /\ Itinerary(m) = Itinerary(l) /\ Said(m) = "none" /\ Stage(m) = "routing" /\ Own(m) = {}
    BY <1>9, StageFacts DEF Itinerary, Said, Own, l
  <2>2. Trips' = Trips /\ Sayings' = Sayings
    BY <1>3, <1>4, <1>6, <1>7, <2>1
  <2>3. Places' = [Places EXCEPT ![t] = Places[t] + 1] /\ Places[t] < Len(Trips[t]) /\ Stages[t] # "idle"
    BY <1>3, <1>4, <1>5, <1>6, <1>9
  <2>4. Promise!Advance(t)
    BY <1>3, <2>1, <2>2, <2>3 DEF Promise!Advance, Trips, Places, Stages, Targets, Sayings
  <2> QED BY <2>4 DEF Promise!Next
<1>10. CASE /\ m.pc = "idle" /\ m.n = 1 /\ m.resp \in Answers \ {"none"}
            /\ m.resp = "ok" => IF l.op \in Batches THEN l.n = 3 ELSE Stage(l) = "there"
  <2>1. Itinerary(m) = <<>> /\ Said(m) = m.resp /\ Stage(m) = "idle" /\ Own(m) = {}
    BY <1>10, StageFacts DEF Itinerary, Said, Own
  <2>2. m.resp = "ok" => IF Len(Trips[t]) = 1 THEN Stages[t] = "there" ELSE Places[t] = Len(Trips[t])
    <3>1. CASE l.op \in Batches
      <4>1. Len(Trips[t]) = 3 /\ (m.resp = "ok" => Places[t] = 3)
        BY <1>4, <1>5, <1>10, <3>1
      <4>2. Len(Trips[t]) # 1
        BY <4>1
      <4> QED BY <4>1, <4>2
    <3>2. CASE l.op \notin Batches
      BY <1>4, <1>5, <1>10, <3>2
    <3> QED BY <3>1, <3>2
  <2>3. Stages[t] # "idle"
    BY <1>4, <1>6
  <2>4. Promise!Answer(t, m.resp)
    BY <1>3, <1>10, <2>1, <2>2, <2>3
       DEF Promise!Answer, Promise!MaySayOk, Trips, Places, Stages, Targets, Sayings
  <2> QED BY <1>10, <2>4 DEF Promise!Next
<1> QED BY <1>8, <1>9, <1>10 DEF Goes, Allowed, l

\* A request that comes in is one the promise accepts; the others learn only that
\* they are not alone.
LEMMA RequestBegins ==
  ASSUME IInv, IInv', TargetsOwn, TargetsOwn', NEW t \in Threads, Request(t)
  PROVE  /\ Promise!Next
         /\ OutcomesInv => OutcomesInv'
<1>1. PICK o \in Ops, p \in Files \cup BatchFiles : (o \in Batches \/ p \in Files) /\ Begin(t, o, p)
  BY DEF Request
<1> DEFINE m == th'[t]
<1>2. /\ th[t].pc = "idle"
      /\ m.pc = "route" /\ m.op = o /\ m.path = p /\ m.n = 1 /\ m.exc = "none" /\ m.resp = "none"
      /\ \A u \in Threads \ {t} : th'[u] = [th[u] EXCEPT !.alone = FALSE]
  BY <1>1 DEF Begin, Arrive, IdleThread
<1>3. ASSUME NEW u \in Threads \ {t} PROVE Same(th[u], th'[u]) /\ (OutcomeInv(th[u]) => OutcomeInv(th'[u]))
  <2>1. /\ th'[u].pc = th[u].pc /\ th'[u].op = th[u].op /\ th'[u].path = th[u].path
        /\ th'[u].n = th[u].n /\ th'[u].exc = th[u].exc /\ th'[u].resp = th[u].resp
    BY <1>2, <1>3 DEF IInv, TypeOK, ThreadType
  <2>2. Stage(th'[u]) = Stage(th[u])
    BY <2>1 DEF Stage, AboutToAccess
  <2> QED BY <2>1, <2>2 DEF Same, OutcomeInv, Itinerary, Own, Said
<1>4. OutcomeInv(m)
  BY <1>2 DEF OutcomeInv
<1>5. OutcomesInv => OutcomesInv'
  BY <1>3, <1>4 DEF OutcomesInv, OutcomeInv
<1>6. /\ Trips' = [Trips EXCEPT ![t] = Itinerary(m)]
      /\ Places' = [Places EXCEPT ![t] = m.n]
      /\ Stages' = [Stages EXCEPT ![t] = Stage(m)]
      /\ Targets' = [Targets EXCEPT ![t] = Own(m)]
      /\ Sayings' = [Sayings EXCEPT ![t] = Said(m)]
  BY <1>3, Seen
<1> HIDE DEF m
<1>7. Stage(m) = "routing" /\ Own(m) = {} /\ Said(m) = "none"
  BY <1>2, StageFacts DEF Own, Said
<1>8. Itinerary(m) \in {Batch[b] : b \in Batches} \cup {<<q>> : q \in Files}
  BY <1>1, <1>2 DEF Itinerary
<1>9. Stage(th[t]) = "idle" /\ Target(th[t]) = {}
  BY <1>2, StageFacts DEF Target
<1>10. Targets' = Targets
  BY <1>6, <1>7, <1>9 DEF Targets
<1>11. PICK i : i = Itinerary(m)
  OBVIOUS
<1>12. Promise!Accept(t, i)
  BY <1>2, <1>6, <1>7, <1>9, <1>10, <1>11 DEF Promise!Accept, Trips, Places, Stages, Targets, Sayings
<1>13. i \in {Batch[b] : b \in Batches} \cup {<<q>> : q \in Files}
  BY <1>8, <1>11
<1>14. Promise!Next
  BY <1>12, <1>13 DEF Promise!Next
<1> QED BY <1>5, <1>14

\* The file endpoints implement what FileServer promises, for any number of
\* threads: every request goes through its files in order, acts on its own file,
\* and says "ok" only from there.
THEOREM EndpointsKeepPromise == Spec => KeepsPromise
<1>1. Init => OutcomesInv /\ Promise!Init
  <2> SUFFICES ASSUME Init PROVE OutcomesInv /\ Promise!Init
    OBVIOUS
  <2>1. \A t \in Threads : th[t] = IdleThread
    BY DEF Init
  <2>2. IdleThread.pc = "idle" /\ IdleThread.n = 1 /\ IdleThread.resp = "none"
    BY DEF IdleThread
  <2>3. Stage(IdleThread) = "idle"
    BY <2>2, StageFacts
  <2>4. Itinerary(IdleThread) = <<>> /\ Target(IdleThread) = {}
    BY <2>2, <2>3 DEF Itinerary, Target
  <2> QED BY <2>1, <2>2, <2>3, <2>4 DEF OutcomesInv, OutcomeInv, Promise!Init
<1>2. IInv /\ IInv' /\ TargetsOwn /\ TargetsOwn' /\ OutcomesInv /\ [Next]_vars
        => OutcomesInv' /\ [Promise!Next]_(Promise!vars)
  <2> SUFFICES ASSUME IInv, IInv', TargetsOwn, TargetsOwn', OutcomesInv, [Next]_vars
               PROVE  OutcomesInv' /\ (Promise!Next \/ UNCHANGED PromiseVars)
    BY DEF PromiseVars, Promise!vars, Trips, Places, Stages, Targets, Sayings
  <2>1. CASE UNCHANGED vars
    <3>1. th' = th
      BY <2>1 DEF vars
    <3>2. OutcomesInv' /\ Trips' = Trips /\ Places' = Places /\ Stages' = Stages /\ Sayings' = Sayings
      BY <3>1 DEF OutcomesInv, Trips, Places, Stages, Sayings
    <3>3. Targets' = Targets
      BY <3>1 DEF Targets, TargetsOwn
    <3> QED BY <3>2, <3>3 DEF PromiseVars
  <2>2. ASSUME NEW t \in Threads, Request(t)
        PROVE  OutcomesInv' /\ (Promise!Next \/ UNCHANGED PromiseVars)
    BY <2>2, RequestBegins
  <2>3. ASSUME NEW t \in Threads, Step(t)
        PROVE  OutcomesInv' /\ (Promise!Next \/ UNCHANGED PromiseVars)
    <3>1. PICK m : th[t].pc # "idle" /\ th' = [th EXCEPT ![t] = m] /\ Goes(th[t], m)
      BY <2>3, StepGoes DEF OutcomesInv
    <3>2. OutcomesInv'
      BY <3>1 DEF OutcomesInv, Goes, IInv, TypeOK
    <3> QED BY <3>1, <3>2, RequestStep
  <2> QED BY <2>1, <2>2, <2>3 DEF Next
<1> QED BY <1>1, <1>2, InitIInv, NextIInv, Targeted, PTL DEF Spec, KeepsPromise, Promise!Spec

-----------------------------------------------------------------------------
\* The server.

\* The globals, and an assignment to one of them.
Held == [usim_lchan : Int, isim_lchan : Int, isim_ccho : BOOLEAN, isim_aid : BOOLEAN]
Names == {"usim_lchan", "isim_lchan", "isim_ccho", "isim_aid"}
Assignments ==
  ({"usim_lchan", "isim_lchan"} \X Int) \cup ({"isim_ccho", "isim_aid"} \X BOOLEAN)
    \cup ({"adm_keys"} \X {{}})

\* The globals h after the assignment a.
Made(h, a) == IF a[1] = "adm_keys" THEN h ELSE [h EXCEPT ![a[1]] = a[2]]

\* Global n, now as in h, has value v when the assignments of s are made.
EndsAs(s, h, n, v) ==
  \/ (\A i \in 1..Len(s) : s[i][1] # n) /\ h[n] = v
  \/ \E i \in 1..Len(s) :
       s[i][1] = n /\ s[i][2] = v /\ \A j \in (i + 1)..Len(s) : s[j][1] # n

\* The globals will agree as GlobalsAgree has it.
WillAgree(s, h) ==
  \A k \in Int : EndsAs(s, h, "isim_lchan", k) =>
    /\ k >= 0 => ~EndsAs(s, h, "isim_aid", FALSE)
    /\ k < 0 => ~EndsAs(s, h, "isim_ccho", TRUE)

\* The globals will be as ScanPublishesWhatItFound has them, with y on the card's channels.
WillPublish(s, h, y) ==
  /\ \A u \in Int : EndsAs(s, h, "usim_lchan", u) => u = 0 \/ y[u] = "USIM"
  /\ \A k \in Int : EndsAs(s, h, "isim_lchan", k) =>
       /\ k # -1 => y[k] = "ISIM" /\ ~EndsAs(s, h, "isim_aid", FALSE)
       /\ k = -1 => ~EndsAs(s, h, "isim_aid", TRUE)
  /\ ~EndsAs(s, h, "isim_ccho", TRUE)

-----------------------------------------------------------------------------
\* Making the next assignment does not change where the globals end.
LEMMA AssignEnds ==
  ASSUME NEW s \in Seq(Assignments), s # <<>>, NEW h \in Held, NEW n \in Names, NEW v,
         EndsAs(Tail(s), Made(h, Head(s)), n, v)
  PROVE  EndsAs(s, h, n, v)
<1>1. Len(s) \in Nat \ {0} /\ Len(Tail(s)) = Len(s) - 1 /\ Head(s) = s[1] /\ s[1] \in Assignments
  BY SMT
<1>2. \A i \in 1..(Len(s) - 1) : Tail(s)[i] = s[i + 1]
  BY SMT
<1>3. CASE \E i \in 1..Len(Tail(s)) :
             /\ Tail(s)[i][1] = n /\ Tail(s)[i][2] = v
             /\ \A j \in (i + 1)..Len(Tail(s)) : Tail(s)[j][1] # n
  <2>1. PICK i \in 1..(Len(s) - 1) :
             /\ s[i + 1][1] = n /\ s[i + 1][2] = v
             /\ \A j \in (i + 1)..(Len(s) - 1) : Tail(s)[j][1] # n
    BY <1>1, <1>2, <1>3
  <2>2. \A j \in (i + 2)..Len(s) : s[j][1] # n
    <3>1. SUFFICES ASSUME NEW j \in (i + 2)..Len(s) PROVE s[j][1] # n
      OBVIOUS
    <3>2. j - 1 \in (i + 1)..(Len(s) - 1) /\ j - 1 \in 1..(Len(s) - 1) /\ (j - 1) + 1 = j
      BY <1>1
    <3> QED BY <2>1, <3>2, <1>2
  <2>3. i + 1 \in 1..Len(s) /\ (i + 1) + 1 = i + 2
    BY <1>1
  <2> QED BY <2>1, <2>2, <2>3 DEF EndsAs
<1>4. CASE (\A i \in 1..Len(Tail(s)) : Tail(s)[i][1] # n) /\ Made(h, Head(s))[n] = v
  <2>1. \A j \in 2..Len(s) : s[j][1] # n
    <3>1. SUFFICES ASSUME NEW j \in 2..Len(s) PROVE s[j][1] # n
      OBVIOUS
    <3>2. j - 1 \in 1..(Len(s) - 1) /\ (j - 1) + 1 = j
      BY <1>1
    <3> QED BY <1>1, <1>2, <1>4, <3>2
  <2>2. CASE s[1][1] = n
    <3>1. s[1][2] = v
      BY <1>1, <1>4, <2>2 DEF Made, Held, Names
    <3> QED BY <1>1, <2>1, <2>2, <3>1 DEF EndsAs
  <2>3. CASE s[1][1] # n
    <3>1. h[n] = v
      BY <1>1, <1>4, <2>3 DEF Made, Held, Names
    <3>2. \A j \in 1..Len(s) : s[j][1] # n
      BY <1>1, <2>1, <2>3
    <3> QED BY <3>1, <3>2 DEF EndsAs
  <2> QED BY <2>2, <2>3
<1> QED BY <1>3, <1>4 DEF EndsAs

\* A global ends as its last assignment says.
LEMMA EndsAsLast ==
  ASSUME NEW s \in Seq(Assignments), NEW h, NEW n, NEW v, EndsAs(s, h, n, v),
         NEW i \in Nat, 1 <= i, i <= Len(s), s[i][1] = n,
         \A j \in 1..Len(s) : j > i => s[j][1] # n
  PROVE  v = s[i][2]
<1>1. Len(s) \in Nat /\ i \in 1..Len(s)
  OBVIOUS
<1>2. PICK k \in 1..Len(s) : s[k][1] = n /\ s[k][2] = v /\ \A j \in (k + 1)..Len(s) : s[j][1] # n
  BY <1>1 DEF EndsAs
<1>3. ~(i < k) /\ ~(k < i)
  BY <1>1, <1>2
<1> QED BY <1>1, <1>2, <1>3

\* A global to which nothing is assigned ends as it is.
LEMMA EndsAsHeld ==
  ASSUME NEW s, NEW h, NEW n, NEW v, EndsAs(s, h, n, v), \A i \in 1..Len(s) : s[i][1] # n
  PROVE  v = h[n]
BY DEF EndsAs

\* With nothing left to assign every global ends as it is.
LEMMA NothingToDo ==
  ASSUME NEW h, NEW n, NEW v
  PROVE  EndsAs(<<>>, h, n, v) <=> h[n] = v
BY DEF EndsAs

-----------------------------------------------------------------------------
\* What a scan has found and what is then assigned.
ScanRecord == [next : Nat, usim : Nat \cup {-1}, isim : Nat \cup {-1}, csim_ok : BOOLEAN]

\* What it has found is on the channels of y; channel 0 may be assumed.
ScanTrue(c, y) ==
  /\ c.usim > 0 => y[c.usim] = "USIM"
  /\ c.isim >= 0 => y[c.isim] = "ISIM"

\* F assigns what the scan c has found: which global where, and where for the last time.
Assigns(F, c) ==
  /\ F \in Seq(Assignments) /\ Len(F) \in Nat
  /\ \A i \in 1..Len(F) : F[i][1] # "isim_ccho"
  /\ c.isim < 0 => \A i \in 1..Len(F) : F[i][1] # "isim_lchan" /\ F[i][1] # "isim_aid"
  /\ c.usim >= 0 => /\ Len(F) >= 1 /\ F[1] = <<"usim_lchan", c.usim>>
                    /\ \A i \in 2..Len(F) : F[i][1] # "usim_lchan"
  /\ c.isim >= 0 => /\ Len(F) >= 2
                    /\ F[Len(F) - 1] = <<"isim_lchan", c.isim>>
                    /\ F[Len(F)] = <<"isim_aid", TRUE>>

\* Well-formed assignments.
LEMMA AssignmentFacts ==
  /\ \A n \in Int : <<"usim_lchan", n>> \in Assignments /\ <<"isim_lchan", n>> \in Assignments
  /\ \A b \in BOOLEAN : <<"isim_ccho", b>> \in Assignments /\ <<"isim_aid", b>> \in Assignments
  /\ <<"adm_keys", {}>> \in Assignments
<1>1. <<"adm_keys", {}>> \in Assignments
  BY DEF Assignments
<1> QED BY <1>1 DEF Assignments

\* What follows a scan has that form.
LEMMA FoundEnds ==
  ASSUME NEW c \in ScanRecord
  PROVE  Assigns(Found(c), c)
<1> DEFINE F == Found(c)
<1>1. c.usim \in Int /\ c.isim \in Int
  BY DEF ScanRecord
<1>2. /\ <<"usim_lchan", c.usim>> \in Assignments /\ <<"isim_lchan", c.isim>> \in Assignments
      /\ <<"isim_aid", TRUE>> \in Assignments
  BY <1>1, AssignmentFacts
<1> HIDE DEF F
<1>3. CASE c.usim >= 0 /\ c.isim >= 0
  <2> DEFINE A == <<<<"usim_lchan", c.usim>>>>
             B == <<<<"isim_lchan", c.isim>>, <<"isim_aid", TRUE>>>>
  <2>1. F = A \o B
    BY <1>3 DEF Found, F
  <2>2. A \in Seq(Assignments) /\ B \in Seq(Assignments)
    BY <1>2
  <2>a. /\ Len(A) = 1 /\ A[1] = <<"usim_lchan", c.usim>>
        /\ Len(B) = 2 /\ B[1] = <<"isim_lchan", c.isim>> /\ B[2] = <<"isim_aid", TRUE>>
    OBVIOUS
  <2> HIDE DEF A, B
  <2>3. F \in Seq(Assignments)
    BY <2>1, <2>2, ConcatProperties
  <2>b. Len(F) = Len(A) + Len(B) /\ \A i \in 1..(Len(A) + Len(B)) :
           F[i] = IF i <= Len(A) THEN A[i] ELSE B[i - Len(A)]
    BY <2>1, <2>2, ConcatProperties
  <2>c. Len(F) = 3 /\ F[1] = A[1] /\ F[2] = B[1] /\ F[3] = B[2]
    <3>1. Len(A) + Len(B) = 3 /\ 1 \in 1..3 /\ 2 \in 1..3 /\ 3 \in 1..3
      BY <2>a
    <3>2. /\ F[1] = IF 1 <= 1 THEN A[1] ELSE B[1 - 1]
          /\ F[2] = IF 2 <= 1 THEN A[2] ELSE B[2 - 1]
          /\ F[3] = IF 3 <= 1 THEN A[3] ELSE B[3 - 1]
      BY <2>a, <2>b, <3>1
    <3> QED BY <2>b, <3>1, <3>2
  <2>4. /\ Len(F) = 3 /\ F[1] = <<"usim_lchan", c.usim>>
        /\ F[2] = <<"isim_lchan", c.isim>> /\ F[3] = <<"isim_aid", TRUE>>
    BY <2>a, <2>c
  <2>5. \A i \in 1..3 : i = 1 \/ i = 2 \/ i = 3
    OBVIOUS
  <2>6. Assigns(F, c)
    BY <1>1, <1>3, <2>3, <2>4, <2>5 DEF Assigns
  <2> QED BY <2>6 DEF F
<1>4. CASE c.usim >= 0 /\ ~(c.isim >= 0)
  <2>1. F = <<<<"usim_lchan", c.usim>>>> \o <<>>
    BY <1>4 DEF Found, F
  <2>2. F = <<<<"usim_lchan", c.usim>>>>
    BY <2>1
  <2>3. F \in Seq(Assignments)
    BY <1>2, <2>2
  <2>4. Len(F) = 1 /\ F[1] = <<"usim_lchan", c.usim>>
    BY <2>2
  <2>5. \A i \in 1..1 : i = 1
    OBVIOUS
  <2>6. Assigns(F, c)
    BY <1>1, <1>4, <2>3, <2>4, <2>5 DEF Assigns
  <2> QED BY <2>6 DEF F
<1>5. CASE ~(c.usim >= 0) /\ c.isim >= 0
  <2>1. F = <<>> \o <<<<"isim_lchan", c.isim>>, <<"isim_aid", TRUE>>>>
    BY <1>5 DEF Found, F
  <2>2. F = <<<<"isim_lchan", c.isim>>, <<"isim_aid", TRUE>>>>
    BY <2>1
  <2>3. F \in Seq(Assignments)
    BY <1>2, <2>2
  <2>4. Len(F) = 2 /\ F[1] = <<"isim_lchan", c.isim>> /\ F[2] = <<"isim_aid", TRUE>>
    BY <2>2
  <2>5. \A i \in 1..2 : i = 1 \/ i = 2
    OBVIOUS
  <2>6. Assigns(F, c)
    BY <1>1, <1>5, <2>3, <2>4, <2>5 DEF Assigns
  <2> QED BY <2>6 DEF F
<1>6. CASE ~(c.usim >= 0) /\ ~(c.isim >= 0)
  <2>1. F = <<>>
    BY <1>6 DEF Found, F
  <2>2. Assigns(F, c)
    BY <1>1, <1>6, <2>1 DEF Assigns
  <2> QED BY <2>2 DEF F
<1> QED BY <1>3, <1>4, <1>5, <1>6

\* A full scan: everything is cleared first, then what was found is assigned.
LEMMA ClearedFoundEnds ==
  ASSUME NEW c \in ScanRecord, NEW h \in Held, NEW y
  PROVE  /\ Cleared \o Found(c) \in Seq(Assignments)
         /\ WillAgree(Cleared \o Found(c), h)
         /\ c.usim >= 0 /\ ScanTrue(c, y) => WillPublish(Cleared \o Found(c), h, y)
<1> DEFINE F == Found(c)
           L == Cleared \o F
<1>1. Assigns(F, c)
  BY FoundEnds
<1>2. Cleared \in Seq(Assignments)
  <2>1. -1 \in Int /\ 0 \in Int /\ FALSE \in BOOLEAN
    OBVIOUS
  <2>2. /\ <<"isim_aid", FALSE>> \in Assignments /\ <<"usim_lchan", 0>> \in Assignments
        /\ <<"isim_lchan", -1>> \in Assignments /\ <<"isim_ccho", FALSE>> \in Assignments
    BY <2>1, AssignmentFacts
  <2> QED BY <2>2 DEF Cleared
<1>3. /\ Len(Cleared) = 4
      /\ Cleared[1] = <<"isim_aid", FALSE>> /\ Cleared[2] = <<"usim_lchan", 0>>
      /\ Cleared[3] = <<"isim_lchan", -1>> /\ Cleared[4] = <<"isim_ccho", FALSE>>
  BY DEF Cleared
<1> HIDE DEF F
<1>4. PICK m \in Nat : Len(F) = m
  BY <1>1 DEF Assigns
<1>5. F \in Seq(Assignments)
  BY <1>1 DEF Assigns
<1>6. /\ L \in Seq(Assignments)
      /\ Len(L) = Len(Cleared) + Len(F)
      /\ \A i \in 1..(Len(Cleared) + Len(F)) :
           L[i] = IF i <= Len(Cleared) THEN Cleared[i] ELSE F[i - Len(Cleared)]
  BY <1>2, <1>5, ConcatProperties
<1> HIDE DEF L
<1>7. Len(L) = m + 4 /\ \A i \in 1..(m + 4) : L[i] = IF i <= 4 THEN Cleared[i] ELSE F[i - 4]
  BY <1>3, <1>4, <1>6
<1>8. /\ L[1] = <<"isim_aid", FALSE>> /\ L[2] = <<"usim_lchan", 0>>
      /\ L[3] = <<"isim_lchan", -1>> /\ L[4] = <<"isim_ccho", FALSE>>
  <2>1. 1 \in 1..(m + 4) /\ 2 \in 1..(m + 4) /\ 3 \in 1..(m + 4) /\ 4 \in 1..(m + 4)
    OBVIOUS
  <2>2. L[1] = Cleared[1] /\ L[2] = Cleared[2] /\ L[3] = Cleared[3] /\ L[4] = Cleared[4]
    BY <1>7, <2>1
  <2> QED BY <1>3, <2>2
<1>9. \A i \in 1..m : L[i + 4] = F[i]
  BY <1>7
<1>10. \A j \in 1..(m + 4) : j = 1 \/ j = 2 \/ j = 3 \/ j = 4 \/ (j - 4 \in 1..m /\ L[j] = F[j - 4])
  BY <1>7
<1>11. c.usim \in Int /\ c.isim \in Int /\ (c.isim < 0 => c.isim = -1)
  BY DEF ScanRecord
<1>12. \A i \in 1..5 : i <= m + 4 => i \in Nat /\ 1 <= i /\ i <= Len(L)
  BY <1>7
<1>13. ~EndsAs(L, h, "isim_ccho", TRUE)
  <2>1. \A j \in 1..Len(L) : j > 4 => L[j][1] # "isim_ccho"
    BY <1>1, <1>4, <1>7, <1>10 DEF Assigns
  <2>2. 4 \in Nat /\ 1 <= 4 /\ 4 <= Len(L)
    BY <1>12
  <2>3. L[4][1] = "isim_ccho" /\ L[4][2] = FALSE
    BY <1>8
  <2>4. L \in Seq(Assignments)
    BY <1>6
  <2>5. ASSUME NEW v, EndsAs(L, h, "isim_ccho", v) PROVE v = L[4][2]
    BY <2>1, <2>2, <2>3, <2>4, <2>5, EndsAsLast
  <2> QED BY <2>3, <2>5, Zenon
<1>14. c.isim >= 0 => ~EndsAs(L, h, "isim_aid", FALSE)
  <2>1. SUFFICES ASSUME c.isim >= 0, EndsAs(L, h, "isim_aid", FALSE) PROVE FALSE
    OBVIOUS
  <2>2. m >= 2 /\ F[m] = <<"isim_aid", TRUE>>
    BY <1>1, <1>4, <2>1 DEF Assigns
  <2>3. L[m + 4] = <<"isim_aid", TRUE>>
    <3>1. m \in 1..m
      BY <2>2
    <3>2. L[m + 4] = F[m]
      BY <1>9, <3>1
    <3> QED BY <2>2, <3>2
  <2>4. m + 4 \in Nat /\ 1 <= m + 4 /\ m + 4 <= Len(L) /\ \A j \in 1..Len(L) : ~(j > m + 4)
    BY <1>7
  <2>5. L[m + 4][1] = "isim_aid" /\ L[m + 4][2] = TRUE
    BY <2>3
  <2>6. \A v : EndsAs(L, h, "isim_aid", v) => v = L[m + 4][2]
    BY <1>6, <2>4, <2>5, EndsAsLast
  <2> QED BY <2>1, <2>5, <2>6, Zenon
<1>15. c.isim < 0 => ~EndsAs(L, h, "isim_aid", TRUE)
  <2>1. SUFFICES ASSUME c.isim < 0, EndsAs(L, h, "isim_aid", TRUE) PROVE FALSE
    OBVIOUS
  <2>2. \A j \in 1..Len(L) : j > 1 => L[j][1] # "isim_aid"
    BY <1>1, <1>4, <1>7, <1>8, <1>10, <2>1 DEF Assigns
  <2>3. 1 \in Nat /\ 1 <= 1 /\ 1 <= Len(L)
    BY <1>12
  <2>4. L[1][1] = "isim_aid" /\ L[1][2] = FALSE
    BY <1>8
  <2>5. \A v : EndsAs(L, h, "isim_aid", v) => v = L[1][2]
    BY <1>6, <2>2, <2>3, <2>4, EndsAsLast
  <2> QED BY <2>1, <2>4, <2>5, Zenon
<1>16. \A v : EndsAs(L, h, "isim_lchan", v) => v = c.isim
  <2>1. SUFFICES ASSUME NEW v, EndsAs(L, h, "isim_lchan", v) PROVE v = c.isim
    OBVIOUS
  <2>2. CASE c.isim >= 0
    <3>1. m >= 2 /\ F[m - 1] = <<"isim_lchan", c.isim>> /\ F[m] = <<"isim_aid", TRUE>>
      BY <1>1, <1>4, <2>2 DEF Assigns
    <3>2. L[m + 3] = <<"isim_lchan", c.isim>> /\ L[m + 4] = <<"isim_aid", TRUE>>
      <4>1. m - 1 \in 1..m /\ m \in 1..m /\ (m - 1) + 4 = m + 3
        BY <3>1
      <4> QED BY <1>9, <3>1, <4>1
    <3>3. \A j \in 1..Len(L) : j > m + 3 => L[j][1] # "isim_lchan"
      BY <1>7, <3>2
    <3>4. m + 3 \in Nat /\ 1 <= m + 3 /\ m + 3 <= Len(L)
      BY <1>7
    <3>5. L[m + 3][1] = "isim_lchan" /\ L[m + 3][2] = c.isim
      BY <3>2
    <3> QED BY <1>6, <2>1, <3>3, <3>4, <3>5, EndsAsLast
  <2>3. CASE c.isim < 0
    <3>1. \A j \in 1..Len(L) : j > 3 => L[j][1] # "isim_lchan"
      BY <1>1, <1>4, <1>7, <1>8, <1>10, <2>3 DEF Assigns
    <3>2. 3 \in Nat /\ 1 <= 3 /\ 3 <= Len(L)
      BY <1>12
    <3>3. L[3][1] = "isim_lchan" /\ L[3][2] = -1
      BY <1>8
    <3>4. v = L[3][2]
      BY <1>6, <2>1, <3>1, <3>2, <3>3, EndsAsLast
    <3> QED BY <1>11, <2>3, <3>3, <3>4
  <2> QED BY <1>11, <2>2, <2>3
<1>17. \A v : c.usim >= 0 /\ EndsAs(L, h, "usim_lchan", v) => v = c.usim
  <2>1. SUFFICES ASSUME NEW v, EndsAs(L, h, "usim_lchan", v), c.usim >= 0 PROVE v = c.usim
    OBVIOUS
  <2>2. m >= 1 /\ F[1] = <<"usim_lchan", c.usim>> /\ \A i \in 2..m : F[i][1] # "usim_lchan"
    BY <1>1, <1>4, <2>1 DEF Assigns
  <2>3. L[5] = <<"usim_lchan", c.usim>>
    BY <1>7, <2>2
  <2>4. \A j \in 1..Len(L) : j > 5 => L[j][1] # "usim_lchan"
    BY <1>7, <2>2
  <2>5. 5 \in Nat /\ 1 <= 5 /\ 5 <= Len(L)
    BY <1>7, <2>2
  <2>6. L[5][1] = "usim_lchan" /\ L[5][2] = c.usim
    BY <2>3
  <2> QED BY <1>6, <2>1, <2>4, <2>5, <2>6, EndsAsLast
<1>18. WillAgree(L, h)
  BY <1>11, <1>13, <1>14, <1>16 DEF WillAgree
<1>19. c.usim >= 0 /\ ScanTrue(c, y) => WillPublish(L, h, y)
  <2>1. SUFFICES ASSUME c.usim >= 0, ScanTrue(c, y) PROVE WillPublish(L, h, y)
    OBVIOUS
  <2>2. \A u \in Int : EndsAs(L, h, "usim_lchan", u) => u = 0 \/ y[u] = "USIM"
    BY <1>11, <1>17, <2>1 DEF ScanTrue
  <2>3. ASSUME NEW k \in Int, EndsAs(L, h, "isim_lchan", k)
        PROVE  /\ k # -1 => y[k] = "ISIM" /\ ~EndsAs(L, h, "isim_aid", FALSE)
               /\ k = -1 => ~EndsAs(L, h, "isim_aid", TRUE)
    <3>1. k = c.isim
      BY <1>16, <2>3
    <3>2. k # -1 => c.isim >= 0 /\ y[k] = "ISIM"
      BY <1>11, <2>1, <3>1 DEF ScanTrue
    <3>3. k = -1 => c.isim < 0
      BY <3>1
    <3> QED BY <1>14, <1>15, <3>2, <3>3, Zenon
  <2> QED BY <1>13, <2>2, <2>3, Zenon DEF WillPublish
<1> QED BY <1>6, <1>18, <1>19 DEF L, F

\* A scan after a reset assigns what it found without clearing the rest.
LEMMA FoundAgrees ==
  ASSUME NEW c \in ScanRecord, NEW h \in Held, WillAgree(<<>>, h)
  PROVE  Found(c) \in Seq(Assignments) /\ WillAgree(Found(c), h)
<1> DEFINE F == Found(c)
<1>1. /\ h.isim_lchan \in Int
      /\ h.isim_lchan >= 0 => h.isim_aid # FALSE
      /\ h.isim_lchan < 0 => h.isim_ccho # TRUE
  BY NothingToDo DEF Held, WillAgree
<1>2. Assigns(F, c)
  BY FoundEnds
<1> HIDE DEF F
<1>3. F \in Seq(Assignments)
  BY <1>2 DEF Assigns
<1>4. PICK m \in Nat : Len(F) = m
  BY <1>2 DEF Assigns
<1>5. \A v : EndsAs(F, h, "isim_ccho", v) => v = h.isim_ccho
  BY <1>2, EndsAsHeld DEF Assigns
<1>6. CASE c.isim < 0
  <2>1. \A v : EndsAs(F, h, "isim_aid", v) => v = h.isim_aid
    BY <1>2, <1>6, EndsAsHeld DEF Assigns
  <2>2. \A v : EndsAs(F, h, "isim_lchan", v) => v = h.isim_lchan
    BY <1>2, <1>6, EndsAsHeld DEF Assigns
  <2>3. WillAgree(F, h)
    BY <1>1, <1>5, <2>1, <2>2 DEF WillAgree
  <2> QED BY <1>3, <2>3 DEF F
<1>7. CASE c.isim >= 0
  <2>1. m >= 2 /\ F[m - 1] = <<"isim_lchan", c.isim>> /\ F[m] = <<"isim_aid", TRUE>>
    BY <1>2, <1>4, <1>7 DEF Assigns
  <2>2. /\ m - 1 \in Nat /\ 1 <= m - 1 /\ m - 1 <= Len(F) /\ 1 <= m /\ m <= Len(F)
        /\ \A j \in 1..Len(F) : ~(j > m)
    BY <1>4, <2>1
  <2>3. ~EndsAs(F, h, "isim_aid", FALSE)
    <3>1. F[m][1] = "isim_aid" /\ F[m][2] = TRUE
      BY <2>1
    <3>2. \A v : EndsAs(F, h, "isim_aid", v) => v = F[m][2]
      BY <1>3, <2>2, <3>1, EndsAsLast
    <3> QED BY <3>1, <3>2, Zenon
  <2>4. \A v : EndsAs(F, h, "isim_lchan", v) => v = c.isim
    <3>1. SUFFICES ASSUME NEW v, EndsAs(F, h, "isim_lchan", v) PROVE v = c.isim
      OBVIOUS
    <3>2. \A j \in 1..Len(F) : j > m - 1 => F[j][1] # "isim_lchan"
      BY <1>4, <2>1
    <3> QED BY <1>3, <2>1, <2>2, <3>1, <3>2, EndsAsLast
  <2>5. WillAgree(F, h)
    <3>1. \A k \in Int : EndsAs(F, h, "isim_lchan", k) => ~(k < 0)
      BY <1>7, <2>4
    <3> QED BY <2>3, <3>1, Zenon DEF WillAgree
  <2> QED BY <1>3, <2>5 DEF F
<1>8. c.isim \in Int
  BY DEF ScanRecord
<1> QED BY <1>6, <1>7, <1>8

-----------------------------------------------------------------------------
\* A record of a thread, and one that thread t's next step may leave.
Shape(l) == DOMAIN l = DOMAIN IdleThread
Follows(l, m) == Shape(m) /\ m.op = l.op /\ m.alone = l.alone

\* The fields of a record that control moves through.
LEMMA ShapeFacts ==
  /\ Shape(IdleThread) /\ IdleThread.session = NoSession
  /\ \A l : Shape(l) =>
       {"pc", "op", "path", "n", "lchan", "session", "own", "left", "exc", "resp", "alone", "raised"}
         = DOMAIN l
BY DEF Shape, IdleThread

\* An answer leaves an idle record of the same request.
LEMMA ReplyFollows ==
  ASSUME NEW l, NEW a
  PROVE  /\ Follows(l, Reply(l, a)) /\ Reply(l, a).pc = "idle" /\ Reply(l, a).resp = a
         /\ Reply(l, a).session = NoSession
BY ShapeFacts DEF Follows, Reply, Shape, IdleThread

\* So does the end of a file, which may leave the record at the next file of its batch.
LEMMA JobOverFollows ==
  ASSUME NEW l, Shape(l), NEW a
  PROVE  Follows(l, JobOver(l, a))
<1>1. CASE l.op \in Batches /\ l.n < 3
  <2>1. JobOver(l, a) = [l EXCEPT !.pc = "route", !.n = l.n + 1, !.path = Batch[l.op][l.n + 1],
                 !.session = NoSession, !.left = 0, !.exc = "none", !.resp = "none"]
    BY <1>1 DEF JobOver
  <2> QED BY <2>1, ShapeFacts DEF Follows, Shape
<1>2. CASE ~(l.op \in Batches /\ l.n < 3)
  BY <1>2, ReplyFollows DEF JobOver
<1> QED BY <1>1, <1>2

\* And a return, which may go by way of closing the session.
LEMMA LeaveFollows ==
  ASSUME NEW l, Shape(l), NEW a
  PROVE  Follows(l, Leave(l, a))
<1>1. CASE l.session = NoSession
  BY <1>1, JobOverFollows DEF Leave
<1>2. CASE l.session # NoSession
  <2>1. Leave(l, a) = [l EXCEPT !.pc = "close", !.resp = a]
    BY <1>2 DEF Leave
  <2> QED BY <2>1, ShapeFacts DEF Follows, Shape
<1> QED BY <1>1, <1>2

\* And an exception that has left the handler.
LEMMA CaughtFollows ==
  ASSUME NEW l, Shape(l), NEW kind
  PROVE  Follows(l, Caught(l, kind))
BY JobOverFollows, ReplyFollows DEF Caught

\* And one that has just been raised.
LEMMA ThrowFollows ==
  ASSUME NEW l, Shape(l)
  PROVE  Follows(l, Throw(l))
<1> DEFINE m == [l EXCEPT !.raised = l.raised \/ connected]
<1>1. Follows(l, m)
  BY ShapeFacts DEF Follows, Shape
<1>2. CASE l.session # NoSession /\ l.pc # "close"
  <2>1. Throw(l) = [m EXCEPT !.pc = "close", !.exc = Kind]
    BY <1>2 DEF Throw
  <2> HIDE DEF m
  <2> QED BY <1>1, <2>1, ShapeFacts DEF Follows, Shape
<1>3. CASE ~(l.session # NoSession /\ l.pc # "close")
  <2>1. Throw(l) = Caught(m, Kind)
    BY <1>3 DEF Throw
  <2> HIDE DEF m
  <2> QED BY <1>1, <2>1, CaughtFollows DEF Follows
<1> QED BY <1>2, <1>3

\* An exception in at_check, which holds no session and swallows nothing, is answered.
LEMMA CheckThrows ==
  ASSUME NEW l, Shape(l), l.op = "at_check", l.session = NoSession
  PROVE  /\ Throw(l).pc = "idle" /\ Throw(l).session = NoSession
         /\ Throw(l).resp # "ok"
<1> DEFINE m == [l EXCEPT !.raised = l.raised \/ connected]
<1>1. Throw(l) = Caught(m, Kind)
  BY DEF Throw
<1>2. m.op = "at_check" /\ m.path = l.path
  BY ShapeFacts DEF Shape
<1> HIDE DEF m
<1>3. ~Swallows(m)
  BY <1>2 DEF Swallows
<1>4. Throw(l) = Reply(m, "disconnected") \/ Throw(l) = Reply(m, "error500")
  BY <1>1, <1>3 DEF Caught
<1> QED BY <1>4, ReplyFollows

-----------------------------------------------------------------------------
\* The variables keep the shape the proofs use; assignments wait only in "assign",
\* and a scan is under way only in "scan".
ShapeInv ==
  /\ g \in Held
  /\ todo \in [Threads -> Seq(Assignments)]
  /\ scan \in [Threads -> ScanRecord]
  /\ th = [t \in Threads |-> th[t]]
  /\ \A t \in Threads : /\ Shape(th[t])
                        /\ th[t].pc # "assign" => todo[t] = <<>>
                        /\ th[t].pc # "scan" => scan[t] = NoScan

\* Where an at_check is, and what it has found or will leave in the globals h if
\* nobody disturbs it: record l, scan c, assignments s, channels y.
CheckInv(l, c, s, h, y) ==
  l.op = "at_check" =>
    /\ l.pc \in {"idle", "at", "scan", "assign"}
    /\ l.session = NoSession
    /\ l.alone /\ l.pc = "scan" => ScanTrue(c, y)
    /\ l.alone /\ (l.pc = "assign" \/ (l.pc = "idle" /\ l.resp = "ok")) => WillPublish(s, h, y)

ServerInv ==
  /\ ShapeInv
  /\ LoneInv
  /\ \A t \in Threads : CheckInv(th[t], scan[t], todo[t], g, layout)

\* The start.
LEMMA InitServerInv == ServerInit => ServerInv
<1> SUFFICES ASSUME ServerInit PROVE ServerInv
  OBVIOUS
<1> USE DEF ServerInit
<1>1. g \in Held
  BY DEF Held
<1>2. \A t \in Threads : todo[t] = <<>> /\ scan[t] = NoScan /\ th[t] = IdleThread
  OBVIOUS
<1>3. todo \in [Threads -> Seq(Assignments)] /\ scan \in [Threads -> ScanRecord]
  BY DEF NoScan, ScanRecord
<1>4. th = [t \in Threads |-> th[t]]
  OBVIOUS
<1>5. ShapeInv
  BY <1>1, <1>2, <1>3, <1>4, ShapeFacts DEF ShapeInv
<1>6. IdleThread.op = "none" /\ IdleThread.pc = "idle"
  BY DEF IdleThread
<1> QED BY <1>2, <1>5, <1>6 DEF ServerInv, LoneInv, CheckInv

\* A step of a busy thread t, which leaves its record l, scan c and assignments d:
\* whoever else is busy is not alone, so only t's own part of the invariant is at stake.
LEMMA Advance ==
  ASSUME ServerInv, NEW t \in Threads, th[t].pc # "idle", NEW l, NEW c, NEW d,
         th' = [th EXCEPT ![t] = l], Follows(th[t], l),
         scan' = [scan EXCEPT ![t] = c], c \in ScanRecord, l.pc # "scan" => c = NoScan,
         todo' = [todo EXCEPT ![t] = d], d \in Seq(Assignments), l.pc # "assign" => d = <<>>,
         g' \in Held, CheckInv(l, c, d, g', layout')
  PROVE  ServerInv'
<1>1. /\ th'[t] = l /\ scan'[t] = c /\ todo'[t] = d
      /\ \A u \in Threads : u # t => th'[u] = th[u] /\ scan'[u] = scan[u] /\ todo'[u] = todo[u]
  BY DEF ServerInv, ShapeInv
<1>2. th' = [u \in Threads |-> th'[u]]
  BY DEF ServerInv, ShapeInv
<1>3. scan' \in [Threads -> ScanRecord] /\ todo' \in [Threads -> Seq(Assignments)]
  BY DEF ServerInv, ShapeInv
<1>4. \A u \in Threads : /\ Shape(th'[u])
                         /\ th'[u].pc # "assign" => todo'[u] = <<>>
                         /\ th'[u].pc # "scan" => scan'[u] = NoScan
  BY <1>1 DEF ServerInv, ShapeInv, Follows
<1>5. \A u \in Threads : u # t => ~th[u].alone
  BY DEF ServerInv, LoneInv
<1>6. LoneInv'
  <2>1. SUFFICES ASSUME NEW u \in Threads, NEW v \in Threads, th'[u].alone, v # u
                 PROVE  th'[v].pc = "idle"
    BY DEF LoneInv
  <2>2. u = t /\ th[t].alone
    BY <1>1, <1>5, <2>1 DEF Follows
  <2> QED BY <1>1, <2>1, <2>2 DEF ServerInv, LoneInv
<1>7. ASSUME NEW u \in Threads, u # t
      PROVE  CheckInv(th'[u], scan'[u], todo'[u], g', layout')
  <2>1. CheckInv(th[u], scan[u], todo[u], g, layout) /\ ~th[u].alone
    BY <1>5, <1>7 DEF ServerInv
  <2> QED BY <1>1, <1>7, <2>1 DEF CheckInv
<1>8. \A u \in Threads : CheckInv(th'[u], scan'[u], todo'[u], g', layout')
  BY <1>1, <1>7
<1>9. ShapeInv'
  BY <1>2, <1>3, <1>4 DEF ShapeInv
<1> QED BY <1>6, <1>8, <1>9 DEF ServerInv

\* The same where the thread has drawn up no assignments and scans nothing.
LEMMA Proceed ==
  ASSUME ServerInv, NEW t \in Threads, th[t].pc \notin {"idle", "assign", "scan"}, NEW l,
         th' = [th EXCEPT ![t] = l], Follows(th[t], l), UNCHANGED <<g, scan, todo>>,
         th[t].op = "at_check" => /\ l.pc \in {"idle", "scan"} /\ l.session = NoSession
                                  /\ l.pc = "idle" => l.resp # "ok"
  PROVE  ServerInv'
<1>1. todo[t] = <<>> /\ scan[t] = NoScan /\ g \in Held
  BY DEF ServerInv, ShapeInv
<1>2. scan' = [scan EXCEPT ![t] = NoScan] /\ todo' = [todo EXCEPT ![t] = <<>>]
  BY <1>1 DEF ServerInv, ShapeInv
<1>3. NoScan \in ScanRecord /\ ScanTrue(NoScan, layout')
  BY DEF NoScan, ScanRecord, ScanTrue
<1>4. CheckInv(l, NoScan, <<>>, g', layout')
  BY <1>3 DEF CheckInv, Follows
<1>5. <<>> \in Seq(Assignments) /\ g' \in Held /\ th[t].pc # "idle"
  BY <1>1
<1> QED BY <1>2, <1>3, <1>4, <1>5, Advance

-----------------------------------------------------------------------------
\* A step of a file request: it touches no global and leaves a record of the same request.
LEMMA FileStep ==
  ASSUME NEW t \in Threads, Step(t), Shape(th[t])
  PROVE  /\ th[t].pc \in {"route", "open", "select", "delete", "access", "close"}
         /\ g' = g
         /\ \E l : th' = [th EXCEPT ![t] = l] /\ Follows(th[t], l)
<1> DEFINE Goal == \E l : th' = [th EXCEPT ![t] = l] /\ Follows(th[t], l)
<1>1. ASSUME NEW l, Become(t, l), Follows(th[t], l) PROVE Goal
  BY <1>1 DEF Become
<1>2. CASE Route(t)
  <2> DEFINE isim == th[t].path.app = "ISIM"
             next == IF isim /\ g.isim_ccho THEN "open" ELSE "select"
             ch == IF isim THEN g.isim_lchan ELSE g.usim_lchan
             m == [th[t] EXCEPT !.pc = next,
                     !.lchan = IF th[t].op \notin Batches /\ next = "select" THEN ch ELSE @]
  <2>1. Become(t, JobOver(th[t], "error")) \/ Become(t, m)
    BY <1>2 DEF Route
  <2>2. Follows(th[t], m)
    BY ShapeFacts DEF Follows, Shape
  <2> HIDE DEF m
  <2>3. Goal
    BY <1>1, <2>1, <2>2, JobOverFollows
  <2> QED BY <1>2, <2>3 DEF Route
<1>3. ASSUME NEW r \in Results, NEW x \in BOOLEAN, NEW s \in SessionIds, Open(t, r, x, s) PROVE Goal
  <2> DEFINE m == [th[t] EXCEPT !.session = s, !.pc = "select"]
  <2>1. \/ Become(t, Throw(th[t])) \/ Become(t, JobOver(th[t], "error"))
        \/ Become(t, JobOver(th[t], "ok")) \/ Become(t, m)
    BY <1>3 DEF Open, Results
  <2>2. Follows(th[t], m)
    BY ShapeFacts DEF Follows, Shape
  <2> HIDE DEF m
  <2> QED BY <1>1, <2>1, <2>2, JobOverFollows, ThrowFollows
<1>4. ASSUME NEW r \in Results, NEW x \in BOOLEAN, NEW k \in 1..MaxPieces, Select(t, r, x, k) PROVE Goal
  <2> DEFINE data == IF th[t].op = "write_tlv" THEN "delete" ELSE "access"
             m == [th[t] EXCEPT !.pc = data, !.left = k, !.own = x]
  <2>1. \/ Become(t, Throw(th[t])) \/ Become(t, Leave(th[t], "error")) \/ Become(t, m)
    BY <1>4 DEF Select, Results
  <2>2. Follows(th[t], m)
    BY ShapeFacts DEF Follows, Shape
  <2> HIDE DEF m
  <2> QED BY <1>1, <2>1, <2>2, LeaveFollows, ThrowFollows
<1>5. ASSUME NEW r \in Results, NEW value \in BOOLEAN, Delete(t, r, value) PROVE Goal
  <2> DEFINE m == [th[t] EXCEPT !.pc = "access", !.left = 1]
  <2>1. \/ Become(t, Throw(th[t])) \/ Become(t, Leave(th[t], "ok")) \/ Become(t, m)
    BY <1>5 DEF Delete
  <2>2. Follows(th[t], m)
    BY ShapeFacts DEF Follows, Shape
  <2> HIDE DEF m
  <2> QED BY <1>1, <2>1, <2>2, LeaveFollows, ThrowFollows
<1>6. ASSUME NEW r \in Results, NEW a \in {"next", "ok", "error"}, Access(t, r, a) PROVE Goal
  <2> DEFINE m == [th[t] EXCEPT !.left = th[t].left - 1]
  <2>1. \/ Become(t, Throw(th[t])) \/ Become(t, Leave(th[t], "ok"))
        \/ Become(t, Leave(th[t], "error")) \/ Become(t, m)
    BY <1>6 DEF Access
  <2>2. Follows(th[t], m)
    BY ShapeFacts DEF Follows, Shape
  <2> HIDE DEF m
  <2> QED BY <1>1, <2>1, <2>2, LeaveFollows, ThrowFollows
<1>7. ASSUME NEW r \in Results, NEW x \in BOOLEAN, Close(t, r, x) PROVE Goal
  <2>1. \/ Become(t, Throw(th[t])) \/ Become(t, JobOver(th[t], th[t].resp))
        \/ Become(t, Caught(th[t], th[t].exc))
    BY <1>7 DEF Close
  <2> QED BY <1>1, <2>1, JobOverFollows, CaughtFollows, ThrowFollows
<1>8. Goal
  BY <1>2, <1>3, <1>4, <1>5, <1>6, <1>7 DEF Step
<1>9. th[t].pc \in {"route", "open", "select", "delete", "access", "close"} /\ g' = g
  BY DEF Step, Route, Open, Select, Delete, Access, Close
<1> QED BY <1>8, <1>9

\* So it keeps the invariant of the server.
LEMMA FileStepServerInv ==
  ASSUME ServerInv, NEW t \in Threads, Step(t), UNCHANGED localVars
  PROVE  ServerInv'
<1>1. Shape(th[t]) /\ CheckInv(th[t], scan[t], todo[t], g, layout)
  BY DEF ServerInv, ShapeInv
<1>2. PICK l : th' = [th EXCEPT ![t] = l] /\ Follows(th[t], l)
  BY <1>1, FileStep
<1>3. th[t].pc \notin {"idle", "assign", "scan"} /\ th[t].op # "at_check"
  BY <1>1, FileStep DEF CheckInv
<1> QED BY <1>1, <1>2, <1>3, FileStep, Proceed DEF localVars

\* A new request, at its first step and with its first assignments d.
LEMMA ArriveServerInv ==
  ASSUME ServerInv, NEW t \in Threads, NEW l, Arrive(t, l), Shape(l),
         l.op = "at_check" => l.pc = "at" /\ l.session = NoSession, l.pc # "scan",
         NEW d \in Seq(Assignments), l.pc # "assign" => d = <<>>,
         todo' = [todo EXCEPT ![t] = d], UNCHANGED <<g, scan>>
  PROVE  ServerInv'
<1> DEFINE free == \A v \in Threads \ {t} : th[v].pc = "idle"
           m == [l EXCEPT !.alone = free]
<1>1. th[t].pc = "idle" /\ th' = [u \in Threads |-> IF u = t THEN m ELSE [th[u] EXCEPT !.alone = FALSE]]
  BY DEF Arrive
<1>2. /\ Shape(m) /\ m.op = l.op /\ m.pc = l.pc /\ m.session = l.session /\ m.alone = free
      /\ m.resp = l.resp
  BY ShapeFacts DEF Shape
<1> HIDE DEF m
<1>3. \A u \in Threads : u # t =>
        /\ Shape(th'[u]) /\ th'[u].op = th[u].op /\ th'[u].pc = th[u].pc
        /\ th'[u].session = th[u].session /\ th'[u].alone = FALSE /\ th'[u].resp = th[u].resp
  BY <1>1, ShapeFacts DEF ServerInv, ShapeInv, Shape
<1>4. /\ todo'[t] = d /\ \A u \in Threads : u # t => todo'[u] = todo[u]
      /\ todo' \in [Threads -> Seq(Assignments)]
  BY DEF ServerInv, ShapeInv
<1>5. th'[t] = m /\ th' = [u \in Threads |-> th'[u]]
  BY <1>1
<1>6. ShapeInv'
  <2>1. \A u \in Threads : /\ Shape(th'[u])
                           /\ th'[u].pc # "assign" => todo'[u] = <<>>
                           /\ th'[u].pc # "scan" => scan'[u] = NoScan
    BY <1>1, <1>2, <1>3, <1>4, <1>5 DEF ServerInv, ShapeInv
  <2> QED BY <1>4, <1>5, <2>1 DEF ServerInv, ShapeInv
<1>7. LoneInv'
  <2>1. SUFFICES ASSUME NEW u \in Threads, NEW v \in Threads, th'[u].alone, v # u
                 PROVE  th'[v].pc = "idle"
    BY DEF LoneInv
  <2>2. u = t
    BY <1>3, <2>1
  <2> QED BY <1>2, <1>3, <1>5, <2>1, <2>2
<1>8. ASSUME NEW u \in Threads PROVE CheckInv(th'[u], scan'[u], todo'[u], g', layout')
  <2>1. CASE u = t
    BY <1>2, <1>5, <2>1 DEF CheckInv
  <2>2. CASE u # t
    <3>1. CheckInv(th[u], scan[u], todo[u], g, layout)
      BY DEF ServerInv
    <3> QED BY <1>3, <2>2, <3>1 DEF CheckInv
  <2> QED BY <2>1, <2>2
<1> QED BY <1>6, <1>7, <1>8 DEF ServerInv

\* A file request is a new request that has nothing to assign.
LEMMA BeginServerInv ==
  ASSUME ServerInv, NEW t \in Threads, Request(t), UNCHANGED localVars
  PROVE  ServerInv'
<1>1. PICK o \in Ops, p \in Files \cup BatchFiles : Begin(t, o, p)
  BY DEF Request
<1> DEFINE l == [IdleThread EXCEPT !.pc = "route", !.op = o, !.path = p,
                  !.lchan = IF o = "read_info" THEN g.usim_lchan ELSE -1]
<1>2. Shape(l) /\ l.op = o /\ l.pc = "route"
  BY ShapeFacts DEF Shape
<1>3. Arrive(t, l) /\ UNCHANGED g
  BY <1>1 DEF Begin
<1>4. o # "at_check"
  BY FileRequestsAssumption DEF FileOps
<1>5. todo[t] = <<>> /\ todo' = [todo EXCEPT ![t] = <<>>] /\ <<>> \in Seq(Assignments)
  BY <1>3 DEF Arrive, localVars, ServerInv, ShapeInv
<1> HIDE DEF l
<1> QED BY <1>2, <1>3, <1>4, <1>5, ArriveServerInv DEF localVars

\* The records with which the other requests start.
LEMMA StartingFacts ==
  ASSUME NEW o, NEW pc
  PROVE  /\ Shape(Starting(o, pc)) /\ Starting(o, pc).op = o /\ Starting(o, pc).pc = pc
         /\ Starting(o, pc).session = NoSession
BY ShapeFacts DEF Starting, Shape, IdleThread

\* What disconnect assigns.
Forgets == <<<<"isim_aid", FALSE>>, <<"usim_lchan", 0>>, <<"isim_lchan", -1>>,
             <<"isim_ccho", FALSE>>, <<"adm_keys", {}>>>>
\* It is a list of assignments.
LEMMA ForgetsType == Forgets \in Seq(Assignments)
<1>1. -1 \in Int /\ 0 \in Int /\ FALSE \in BOOLEAN
  OBVIOUS
<1>2. /\ <<"isim_aid", FALSE>> \in Assignments /\ <<"usim_lchan", 0>> \in Assignments
      /\ <<"isim_lchan", -1>> \in Assignments /\ <<"isim_ccho", FALSE>> \in Assignments
      /\ <<"adm_keys", {}>> \in Assignments
  BY <1>1, AssignmentFacts
<1> QED BY <1>2 DEF Forgets

\* The server's own requests keep the invariant when they come in.
LEMMA RequestServerInv ==
  ASSUME ServerInv, NEW t \in Threads, ServerRequest(t)
  PROVE  ServerInv'
<1>1. CASE "connect" \in ServerOps /\ Connect(t)
  <2>1. Arrive(t, Starting("connect", "port")) /\ UNCHANGED <<g, scan, todo>>
    BY <1>1 DEF Connect, localVars
  <2>2. todo' = [todo EXCEPT ![t] = <<>>] /\ <<>> \in Seq(Assignments)
    BY <2>1 DEF Arrive, ServerInv, ShapeInv
  <2> QED BY <2>1, <2>2, StartingFacts, ArriveServerInv
<1>2. CASE "disconnect" \in ServerOps /\ Disconnect(t)
  <2>1. Arrive(t, Starting("disconnect", "assign")) /\ UNCHANGED <<g, scan>>
        /\ todo' = [todo EXCEPT ![t] = Forgets]
    BY <1>2 DEF Disconnect, Forgets
  <2> QED BY <2>1, ForgetsType, StartingFacts, ArriveServerInv
<1>3. ASSUME NEW o \in ServerOps \ {"connect", "disconnect"}, Call(t, o) PROVE ServerInv'
  <2>1. Arrive(t, Starting(o, FirstStep[o])) /\ UNCHANGED <<g, scan, todo>>
    BY <1>3 DEF Call, localVars
  <2>2. todo' = [todo EXCEPT ![t] = <<>>] /\ <<>> \in Seq(Assignments)
    BY <2>1 DEF Arrive, ServerInv, ShapeInv
  <2> DEFINE pc == FirstStep[o]
  <2>3. pc \notin {"scan", "assign"} /\ (o = "at_check" => pc = "at")
    BY SimServerAssumption DEF FirstStep, ServerEndpoints
  <2> HIDE DEF pc
  <2>4. Arrive(t, Starting(o, pc))
    BY <2>1 DEF pc
  <2> DEFINE l == Starting(o, pc)
  <2>5. Shape(l) /\ l.op = o /\ l.pc = pc /\ l.session = NoSession
    BY StartingFacts
  <2> HIDE DEF l
  <2>6. Arrive(t, l) /\ UNCHANGED <<g, scan>>
    BY <2>1, <2>4 DEF l
  <2> QED BY <2>2, <2>3, <2>5, <2>6, ArriveServerInv
<1> QED BY <1>1, <1>2, <1>3 DEF ServerRequest

-----------------------------------------------------------------------------
\* The steps of the server's own requests that draw up no assignments.
LEMMA PlainServerInv ==
  ASSUME ServerInv, NEW t \in Threads,
         \/ \E opened \in BOOLEAN : OpenPort(t, opened)
         \/ \E r \in Results : Hello(t, r) \/ VerifyAt(t, r) \/ Poll(t, r)
         \/ \E r \in Results, x \in BOOLEAN : HangUp(t, r, x) \/ Cfun(t, r, x)
         \/ \E r \in Results, key \in AdmTypes, accepted \in BOOLEAN : VerifyAdm(t, r, key, accepted)
  PROVE  ServerInv'
<1>1. Shape(th[t]) /\ CheckInv(th[t], scan[t], todo[t], g, layout)
  BY DEF ServerInv, ShapeInv
<1>2. ASSUME NEW opened \in BOOLEAN, OpenPort(t, opened) PROVE ServerInv'
  <2> DEFINE m == [th[t] EXCEPT !.pc = "hello"]
  <2>1. Follows(th[t], m) /\ Follows(th[t], Reply(th[t], "error"))
    BY <1>1, ShapeFacts, ReplyFollows DEF Follows, Shape
  <2>2. th' = [th EXCEPT ![t] = m] \/ th' = [th EXCEPT ![t] = Reply(th[t], "error")]
    BY <1>2 DEF OpenPort
  <2>3. th[t].pc = "port" /\ th[t].op # "at_check" /\ UNCHANGED <<g, scan, todo>>
    BY <1>1, <1>2 DEF OpenPort, CheckInv, localVars
  <2> HIDE DEF m
  <2> QED BY <2>1, <2>2, <2>3, Proceed
<1>3. ASSUME NEW r \in Results, Hello(t, r) PROVE ServerInv'
  <2>1. PICK a : th' = [th EXCEPT ![t] = Reply(th[t], a)]
    BY <1>3 DEF Hello, Become
  <2>2. th[t].pc = "hello" /\ th[t].op # "at_check" /\ UNCHANGED <<g, scan, todo>>
    BY <1>1, <1>3 DEF Hello, CheckInv, localVars
  <2> QED BY <2>1, <2>2, ReplyFollows, Proceed
<1>4. ASSUME NEW r \in Results, VerifyAt(t, r) PROVE ServerInv'
  <2> DEFINE m == [th[t] EXCEPT !.pc = "scan"]
  <2>1. Follows(th[t], m) /\ m.pc = "scan" /\ m.session = th[t].session
    BY <1>1, ShapeFacts DEF Follows, Shape
  <2>2. \/ th' = [th EXCEPT ![t] = m] \/ th' = [th EXCEPT ![t] = Throw(th[t])]
        \/ th' = [th EXCEPT ![t] = Reply(th[t], "error")]
    BY <1>4 DEF VerifyAt, Become, Results
  <2>3. th[t].pc = "at" /\ UNCHANGED <<g, scan, todo>>
    BY <1>4 DEF VerifyAt, localVars
  <2>4. th[t].op = "at_check" => th[t].session = NoSession
    BY <1>1 DEF CheckInv
  <2> HIDE DEF m
  <2>5. CASE th' = [th EXCEPT ![t] = m]
    BY <2>1, <2>3, <2>4, <2>5, Proceed
  <2>6. CASE th' = [th EXCEPT ![t] = Throw(th[t])]
    BY <1>1, <2>3, <2>4, <2>6, ThrowFollows, CheckThrows, Proceed
  <2>7. CASE th' = [th EXCEPT ![t] = Reply(th[t], "error")]
    BY <1>1, <2>3, <2>7, ReplyFollows, Proceed
  <2> QED BY <2>2, <2>5, <2>6, <2>7
<1>5. ASSUME NEW r \in Results, Poll(t, r) PROVE ServerInv'
  <2> DEFINE m == [th[t] EXCEPT !.pc = "scan"]
  <2>1. Follows(th[t], m)
    BY <1>1, ShapeFacts DEF Follows, Shape
  <2>2. \/ th' = [th EXCEPT ![t] = m] \/ th' = [th EXCEPT ![t] = Throw(th[t])]
        \/ \E a : th' = [th EXCEPT ![t] = Reply(th[t], a)]
    BY <1>5 DEF Poll, Become
  <2>3. th[t].pc = "poll" /\ th[t].op # "at_check" /\ UNCHANGED <<g, scan, todo>>
    BY <1>1, <1>5 DEF Poll, CheckInv, localVars
  <2> HIDE DEF m
  <2> QED BY <1>1, <2>1, <2>2, <2>3, ThrowFollows, ReplyFollows, Proceed
<1>6. ASSUME NEW r \in Results, NEW x \in BOOLEAN, HangUp(t, r, x) PROVE ServerInv'
  <2> DEFINE m == [th[t] EXCEPT !.raised = connected]
  <2>1. Follows(th[t], m)
    BY <1>1, ShapeFacts DEF Follows, Shape
  <2>2. th' = [th EXCEPT ![t] = Caught(m, Kind)] \/ th' = [th EXCEPT ![t] = Reply(th[t], "ok")]
    BY <1>6 DEF HangUp, Become
  <2>3. th[t].pc = "hangup" /\ th[t].op # "at_check" /\ UNCHANGED <<g, scan, todo>>
    BY <1>1, <1>6 DEF HangUp, CheckInv, localVars
  <2> HIDE DEF m
  <2>4. Follows(th[t], Caught(m, Kind))
    BY <2>1, CaughtFollows DEF Follows
  <2> QED BY <2>2, <2>3, <2>4, ReplyFollows, Proceed
<1>7. ASSUME NEW r \in Results, NEW x \in BOOLEAN, Cfun(t, r, x) PROVE ServerInv'
  <2> DEFINE m == [th[t] EXCEPT !.pc = "poll"]
  <2>1. Follows(th[t], m)
    BY <1>1, ShapeFacts DEF Follows, Shape
  <2>2. th' = [th EXCEPT ![t] = m] \/ th' = [th EXCEPT ![t] = Throw(th[t])]
    BY <1>7 DEF Cfun, Become
  <2>3. th[t].pc = "cfun" /\ th[t].op # "at_check" /\ UNCHANGED <<g, scan, todo>>
    BY <1>1, <1>7 DEF Cfun, CheckInv, localVars
  <2> HIDE DEF m
  <2> QED BY <1>1, <2>1, <2>2, <2>3, ThrowFollows, Proceed
<1>8. ASSUME NEW r \in Results, NEW key \in AdmTypes, NEW accepted \in BOOLEAN,
             VerifyAdm(t, r, key, accepted)
      PROVE  ServerInv'
  <2>1. th' = [th EXCEPT ![t] = Throw(th[t])] \/ \E a : th' = [th EXCEPT ![t] = Reply(th[t], a)]
    BY <1>8 DEF VerifyAdm, Become
  <2>2. th[t].pc = "verify" /\ th[t].op # "at_check" /\ UNCHANGED <<g, scan, todo>>
    BY <1>1, <1>8 DEF VerifyAdm, CheckInv
  <2> QED BY <1>1, <2>1, <2>2, ThrowFollows, ReplyFollows, Proceed
<1> QED BY <1>2, <1>3, <1>4, <1>5, <1>6, <1>7, <1>8

\* The steps of isim_fallback: it is no at_check, so only the shape is at stake.
LEMMA FallbackServerInv ==
  ASSUME ServerInv, NEW t \in Threads,
         \/ \E r \in Results, x \in BOOLEAN : SelectDir(t, r, x)
         \/ \E r \in Results, found \in BOOLEAN : ReadDir(t, r, found)
         \/ \E r \in Results, x \in BOOLEAN, s \in SessionIds : ProbeIsim(t, r, x, s)
  PROVE  ServerInv'
<1>1. /\ Shape(th[t]) /\ CheckInv(th[t], scan[t], todo[t], g, layout) /\ g \in Held
      /\ th[t].pc # "assign" => todo[t] = <<>>
      /\ th[t].pc # "scan" => scan[t] = NoScan
      /\ scan \in [Threads -> ScanRecord]
      /\ todo \in [Threads -> Seq(Assignments)]
  BY DEF ServerInv, ShapeInv
<1>2. ASSUME NEW l, NEW d \in Seq(Assignments), th[t].pc \notin {"idle", "scan"},
             th[t].op # "at_check", th' = [th EXCEPT ![t] = l], Follows(th[t], l), l.pc # "scan",
             todo' = [todo EXCEPT ![t] = d], l.pc # "assign" => d = <<>>, UNCHANGED <<g, scan>>
      PROVE  ServerInv'
  <2>1. /\ NoScan \in ScanRecord /\ scan' = [scan EXCEPT ![t] = NoScan]
    BY <1>1, <1>2
  <2>2. CheckInv(l, NoScan, d, g', layout')
    BY <1>2 DEF CheckInv, Follows
  <2>3. g' \in Held
    BY <1>1, <1>2
  <2> QED BY <1>2, <2>1, <2>2, <2>3, Advance
<1>3. ASSUME NEW r \in Results, NEW x \in BOOLEAN, SelectDir(t, r, x) PROVE ServerInv'
  <2> DEFINE m == [th[t] EXCEPT !.pc = "assign"]
             n == [th[t] EXCEPT !.pc = "dirrec"]
  <2>1. Follows(th[t], m) /\ Follows(th[t], n) /\ m.pc = "assign" /\ n.pc = "dirrec"
    BY <1>1, ShapeFacts DEF Follows, Shape
  <2>2. \/ th' = [th EXCEPT ![t] = m] \/ th' = [th EXCEPT ![t] = n]
        \/ th' = [th EXCEPT ![t] = Throw(th[t])]
    BY <1>3 DEF SelectDir, Become, Results
  <2>3. th[t].pc = "dir" /\ th[t].op # "at_check" /\ UNCHANGED <<g, scan, todo>>
    BY <1>1, <1>3 DEF SelectDir, CheckInv, localVars
  <2>4. <<>> \in Seq(Assignments) /\ todo' = [todo EXCEPT ![t] = <<>>]
    BY <1>1, <2>3
  <2> HIDE DEF m, n
  <2>5. CASE th' = [th EXCEPT ![t] = m]
    BY <1>2, <2>1, <2>3, <2>4, <2>5
  <2>6. CASE ~(th' = [th EXCEPT ![t] = m])
    BY <1>1, <2>1, <2>2, <2>3, <2>6, ThrowFollows, Proceed
  <2> QED BY <2>5, <2>6
<1>4. ASSUME NEW r \in Results, NEW found \in BOOLEAN, ReadDir(t, r, found) PROVE ServerInv'
  <2> DEFINE m == [th[t] EXCEPT !.pc = "assign"]
             d == IF found THEN <<<<"isim_aid", TRUE>>>> ELSE todo[t]
  <2>1. Follows(th[t], m) /\ m.pc = "assign"
    BY <1>1, ShapeFacts DEF Follows, Shape
  <2>2. th[t].pc = "dirrec" /\ th[t].op # "at_check" /\ UNCHANGED <<g, scan>>
    BY <1>1, <1>4 DEF ReadDir, CheckInv
  <2>a. TRUE \in BOOLEAN
    OBVIOUS
  <2>b. <<"isim_aid", TRUE>> \in Assignments
    BY <2>a, AssignmentFacts
  <2>3. <<>> \in Seq(Assignments) /\ <<<<"isim_aid", TRUE>>>> \in Seq(Assignments)
    BY <2>b
  <2>4. CASE r = "raise"
    <3>1. th' = [th EXCEPT ![t] = Throw(th[t])] /\ todo' = todo
      BY <1>1, <1>4, <2>4 DEF ReadDir, Become
    <3> QED BY <1>1, <2>2, <3>1, ThrowFollows, Proceed
  <2>5. CASE r # "raise"
    <3>1. th' = [th EXCEPT ![t] = m] /\ todo' = [todo EXCEPT ![t] = d]
      BY <1>4, <2>5 DEF ReadDir, Become
    <3>2. d \in Seq(Assignments)
      BY <1>1, <2>2, <2>3
    <3> HIDE DEF m, d
    <3> QED BY <1>2, <2>1, <2>2, <3>1, <3>2
  <2> QED BY <2>4, <2>5
<1>5. ASSUME NEW r \in Results, NEW x \in BOOLEAN, NEW s \in SessionIds, ProbeIsim(t, r, x, s)
      PROVE  ServerInv'
  <2> DEFINE m == [th[t] EXCEPT !.pc = "assign", !.session = s]
             d == <<<<"isim_ccho", TRUE>>, <<"isim_lchan", s>>>>
  <2>1. Follows(th[t], m) /\ m.pc = "assign"
    BY <1>1, ShapeFacts DEF Follows, Shape
  <2>2. th[t].pc = "probe" /\ th[t].op # "at_check" /\ UNCHANGED <<g, scan>>
    BY <1>1, <1>5 DEF ProbeIsim, CheckInv
  <2>3. s \in Int
    BY FileRequestsAssumption
  <2>a. TRUE \in BOOLEAN
    OBVIOUS
  <2>b. <<"isim_ccho", TRUE>> \in Assignments /\ <<"isim_lchan", s>> \in Assignments
    BY <2>3, <2>a, AssignmentFacts
  <2>4. d \in Seq(Assignments)
    BY <2>b
  <2>5. CASE g.isim_aid /\ r = "ok"
    <3>1. th' = [th EXCEPT ![t] = m] /\ todo' = [todo EXCEPT ![t] = d]
      BY <1>5, <2>5 DEF ProbeIsim, Become
    <3> HIDE DEF m, d
    <3> QED BY <1>2, <2>1, <2>2, <2>4, <3>1
  <2>6. CASE ~(g.isim_aid /\ r = "ok")
    <3>1. /\ th' = [th EXCEPT ![t] = Throw(th[t])] \/ th' = [th EXCEPT ![t] = Reply(th[t], "ok")]
          /\ todo' = todo
      BY <1>1, <1>5, <2>6 DEF ProbeIsim, Become, Results
    <3>2. Follows(th[t], Throw(th[t])) /\ Follows(th[t], Reply(th[t], "ok"))
      BY <1>1, ThrowFollows, ReplyFollows
    <3>3. UNCHANGED <<g, scan, todo>> /\ th[t].pc \notin {"idle", "assign", "scan"}
      BY <2>2, <3>1
    <3> HIDE DEF m, d
    <3> QED BY <2>2, <3>1, <3>2, <3>3, Proceed
  <2> QED BY <2>5, <2>6
<1> QED BY <1>3, <1>4, <1>5

\* One STATUS of a scan: what it shows is on the card's channel.
LEMMA StatusFacts ==
  ASSUME NEW ch
  PROVE  /\ Status(ch) = "USIM" => layout[ch] = "USIM"
         /\ Status(ch) = "ISIM" => layout[ch] = "ISIM"
BY DEF Status

\* What a scan has found stays true with one more answer.
LEMMA ScannedFacts ==
  ASSUME NEW c \in ScanRecord, NEW answer
  PROVE  /\ Scanned(c, answer) \in ScanRecord
         /\ (/\ answer = "USIM" => layout[c.next] = "USIM"
             /\ answer = "ISIM" => layout[c.next] = "ISIM"
             /\ ScanTrue(c, layout))
              => ScanTrue(Scanned(c, answer), layout)
<1>1. c.next \in Nat /\ c.next + 1 \in Nat
  BY DEF ScanRecord
<1>2. Scanned(c, answer) \in ScanRecord
  BY <1>1 DEF Scanned, ScanRecord
<1>3. /\ Scanned(c, answer).usim \in {c.usim, c.next}
      /\ Scanned(c, answer).usim # c.usim => answer = "USIM" \/ c.next = 0
      /\ Scanned(c, answer).isim \in {c.isim, c.next}
      /\ Scanned(c, answer).isim # c.isim => answer = "ISIM"
  BY DEF Scanned
<1> QED BY <1>1, <1>2, <1>3 DEF ScanTrue

\* A step of a scan, with what follows the last one, keeps the invariant.
LEMMA ScanServerInv ==
  ASSUME ServerInv, NEW t \in Threads, NEW r \in Results, NEW x \in BOOLEAN,
         NEW answer \in Statuses, ScanChannel(t, r, x, answer)
  PROVE  ServerInv'
<1> DEFINE s == Scanned(scan[t], answer)
           over == answer = "6E00" \/ (s.usim >= 0 /\ s.isim >= 0) \/ s.next = 20
           failed == th[t].op = "at_check" /\ (~s.csim_ok \/ s.usim = -1)
           assigns == (IF th[t].op = "at_check" THEN Cleared ELSE <<>>) \o Found(s)
           m == [th[t] EXCEPT !.pc = "assign"]
           c == IF over \/ r = "raise" THEN NoScan ELSE s
           d == IF over /\ ~failed /\ r # "raise" THEN assigns ELSE todo[t]
           l == CASE r = "raise" -> Throw(th[t])
                  [] r # "raise" /\ ~over -> th[t]
                  [] r # "raise" /\ over /\ failed -> Reply(th[t], "error")
                  [] OTHER -> m
<1>1. /\ Shape(th[t]) /\ CheckInv(th[t], scan[t], todo[t], g, layout) /\ g \in Held
      /\ scan[t] \in ScanRecord
  BY DEF ServerInv, ShapeInv
<1>2. th[t].pc = "scan" /\ todo[t] = <<>> /\ g' = g /\ layout' = layout
  BY DEF ScanChannel, ServerInv, ShapeInv, cardVars
<1>3. /\ th' = [th EXCEPT ![t] = l] /\ scan' = [scan EXCEPT ![t] = c] /\ todo' = [todo EXCEPT ![t] = d]
  BY DEF ScanChannel, Become
<1>4. Follows(th[t], m) /\ m.pc = "assign" /\ m.session = th[t].session
  BY <1>1, ShapeFacts DEF Follows, Shape
<1>5. /\ s \in ScanRecord
      /\ th[t].alone /\ ScanTrue(scan[t], layout) => ScanTrue(s, layout)
  <2>1. th[t].alone => answer = "error" \/ answer = Status(scan[t].next)
    BY DEF ScanChannel, Exchange
  <2>2. th[t].alone => /\ answer = "USIM" => layout[scan[t].next] = "USIM"
                       /\ answer = "ISIM" => layout[scan[t].next] = "ISIM"
    BY <2>1, StatusFacts
  <2> QED BY <1>1, <2>2, ScannedFacts
<1>6. NoScan \in ScanRecord /\ <<>> \in Seq(Assignments)
  BY DEF NoScan, ScanRecord
<1>7. th[t].op = "at_check" => th[t].session = NoSession /\ (th[t].alone => ScanTrue(scan[t], layout))
  BY <1>1, <1>2 DEF CheckInv
<1>8. Follows(th[t], th[t])
  BY <1>1 DEF Follows
<1>9. /\ th[t].op # "at_check" => assigns = <<>> \o Found(s)
      /\ th[t].op = "at_check" => assigns = Cleared \o Found(s)
  OBVIOUS
<1> HIDE DEF s, assigns, m
<1>10. s.usim \in Nat \cup {-1}
  BY <1>5 DEF ScanRecord
<1>11. assigns \in Seq(Assignments)
  <2>1. Found(s) \in Seq(Assignments)
    BY <1>5, FoundEnds DEF Assigns
  <2> QED BY <1>1, <1>5, <1>9, <2>1, ClearedFoundEnds, ConcatEmptySeq
<1>12. CASE r = "raise"
  <2>1. l = Throw(th[t]) /\ c = NoScan /\ d = <<>>
    BY <1>2, <1>12
  <2>2. CheckInv(l, c, d, g', layout')
    BY <1>1, <1>7, <2>1, CheckThrows, ThrowFollows DEF CheckInv, Follows
  <2> HIDE DEF l, c, d
  <2> QED BY <1>1, <1>2, <1>3, <1>6, <2>1, <2>2, ThrowFollows, Advance
<1>13. CASE r # "raise" /\ ~over
  <2>1. l = th[t] /\ c = s /\ d = <<>>
    BY <1>2, <1>13
  <2>2. CheckInv(l, c, d, g', layout')
    BY <1>2, <1>5, <1>7, <2>1 DEF CheckInv
  <2> HIDE DEF l, c, d
  <2> QED BY <1>1, <1>2, <1>3, <1>5, <1>6, <1>8, <2>1, <2>2, Advance
<1>14. CASE r # "raise" /\ over /\ failed
  <2>1. l = Reply(th[t], "error") /\ c = NoScan /\ d = <<>>
    BY <1>2, <1>14
  <2>2. CheckInv(l, c, d, g', layout')
    BY <2>1, ReplyFollows DEF CheckInv
  <2> HIDE DEF l, c, d
  <2> QED BY <1>1, <1>2, <1>3, <1>6, <2>1, <2>2, ReplyFollows, Advance
<1>15. CASE r # "raise" /\ over /\ ~failed
  <2>1. l = m /\ c = NoScan /\ d = assigns
    BY <1>2, <1>15
  <2>2. ASSUME th[t].op = "at_check", th[t].alone PROVE WillPublish(assigns, g, layout)
    <3>1. s.usim >= 0
      BY <1>10, <1>15, <2>2
    <3>2. ScanTrue(s, layout)
      BY <1>5, <1>7, <2>2
    <3> QED BY <1>1, <1>5, <1>9, <2>2, <3>1, <3>2, ClearedFoundEnds
  <2>3. CheckInv(l, c, d, g', layout')
    BY <1>2, <1>4, <1>7, <2>1, <2>2 DEF CheckInv, Follows
  <2> HIDE DEF l, c, d
  <2> QED BY <1>1, <1>2, <1>3, <1>4, <1>6, <1>11, <2>1, <2>3, Advance
<1> QED BY <1>12, <1>13, <1>14, <1>15

\* Making an assignment, or going on after the last one.
LEMMA AssignServerInv ==
  ASSUME ServerInv, NEW t \in Threads, Assign(t)
  PROVE  ServerInv'
<1>1. /\ Shape(th[t]) /\ CheckInv(th[t], scan[t], todo[t], g, layout) /\ g \in Held
      /\ th[t].pc = "assign" /\ scan[t] = NoScan /\ todo[t] \in Seq(Assignments)
  BY DEF ServerInv, ShapeInv, Assign
<1>2. /\ scan' = [scan EXCEPT ![t] = NoScan] /\ NoScan \in ScanRecord /\ layout' = layout
  BY <1>1 DEF ServerInv, ShapeInv, Assign, cardVars, NoScan, ScanRecord
<1>3. CASE todo[t] = <<>>
  <2> DEFINE l == AfterAssigning(th[t])
             n == [th[t] EXCEPT !.pc = IF th[t].session = NoSession THEN "probe" ELSE "hangup"]
  <2>1. th' = [th EXCEPT ![t] = l] /\ g' = g /\ todo' = [todo EXCEPT ![t] = <<>>]
    BY <1>1, <1>3 DEF Assign, Become, ServerInv, ShapeInv
  <2>2. Follows(th[t], n) /\ n.pc \in {"probe", "hangup"}
    BY <1>1, ShapeFacts DEF Follows, Shape
  <2>3. l = IF th[t].op # "isim_fallback" THEN Reply(th[t], "ok") ELSE n
    BY DEF AfterAssigning
  <2> HIDE DEF l, n
  <2>4. Follows(th[t], l) /\ l.pc # "scan"
    BY <2>2, <2>3, ReplyFollows
  <2>5. CheckInv(l, NoScan, <<>>, g', layout')
    <3>1. CASE th[t].op = "at_check"
      <4>1. l = Reply(th[t], "ok")
        BY <2>3, <3>1
      <4>2. l.alone => WillPublish(<<>>, g', layout')
        BY <1>1, <1>2, <1>3, <2>1, <3>1, <2>4 DEF CheckInv, Follows
      <4> QED BY <4>1, <4>2, ReplyFollows DEF CheckInv
    <3>2. CASE th[t].op # "at_check"
      BY <2>4, <3>2 DEF CheckInv, Follows
    <3> QED BY <3>1, <3>2
  <2>6. <<>> \in Seq(Assignments) /\ g' \in Held
    BY <1>1, <2>1
  <2> QED BY <1>1, <1>2, <2>1, <2>4, <2>5, <2>6, Advance
<1>4. CASE todo[t] # <<>>
  <2>1. /\ todo' = [todo EXCEPT ![t] = Tail(todo[t])] /\ th' = th
        /\ g' = Made(g, Head(todo[t]))
    BY <1>4 DEF Assign, Made
  <2>2. Tail(todo[t]) \in Seq(Assignments) /\ Head(todo[t]) \in Assignments
    BY <1>1, <1>4
  <2>3. g' \in Held
    <3>1. \A a \in Assignments : Made(g, a) \in Held
      BY <1>1 DEF Made, Held, Assignments
    <3> QED BY <2>1, <2>2, <3>1
  <2>4. th' = [th EXCEPT ![t] = th[t]] /\ Follows(th[t], th[t])
    BY <1>1, <2>1 DEF ServerInv, ShapeInv, Follows
  <2>5. \A n \in Names : \A v : EndsAs(Tail(todo[t]), g', n, v) => EndsAs(todo[t], g, n, v)
    BY <1>1, <1>4, <2>1, AssignEnds
  <2>6. WillPublish(todo[t], g, layout) => WillPublish(Tail(todo[t]), g', layout)
    BY <2>5, Zenon DEF WillPublish, Names
  <2>7. CheckInv(th[t], NoScan, Tail(todo[t]), g', layout')
    BY <1>1, <1>2, <2>6 DEF CheckInv
  <2> QED BY <1>1, <1>2, <2>1, <2>2, <2>3, <2>4, <2>7, Advance
<1> QED BY <1>3, <1>4

\* Every step keeps it.
LEMMA NextServerInv == ServerInv /\ [ServerNext]_serverVars => ServerInv'
<1> SUFFICES ASSUME ServerInv, [ServerNext]_serverVars PROVE ServerInv'
  OBVIOUS
<1>1. CASE UNCHANGED serverVars
  BY <1>1 DEF serverVars, vars, cardVars, ServerInv, ShapeInv, LoneInv, CheckInv
<1>2. ASSUME NEW t \in Threads, (Request(t) \/ Step(t)) /\ UNCHANGED localVars PROVE ServerInv'
  BY <1>2, BeginServerInv, FileStepServerInv
<1>3. ASSUME NEW t \in Threads, ServerRequest(t) PROVE ServerInv'
  BY <1>3, RequestServerInv
<1>4. ASSUME NEW t \in Threads, ServerStep(t) PROVE ServerInv'
  BY <1>4, PlainServerInv, FallbackServerInv, ScanServerInv, AssignServerInv DEF ServerStep
<1> QED BY <1>1, <1>2, <1>3, <1>4 DEF ServerNext

\* Whoever runs besides it, an at_check that nothing overlaps and that succeeds leaves
\* globals that lead to the applications its scan found, and nothing of a fallback.
THEOREM ScanPublishes == ServerSpec => []ScanPublishesWhatItFound
<1>1. ServerInv => ScanPublishesWhatItFound
  <2>1. SUFFICES ASSUME ServerInv, NEW t \in Threads,
                        th[t].pc = "idle", th[t].op = "at_check", th[t].alone, th[t].resp = "ok"
                 PROVE  /\ g.usim_lchan # 0 => layout[g.usim_lchan] = "USIM"
                        /\ g.isim_lchan # -1 => layout[g.isim_lchan] = "ISIM"
                        /\ ~g.isim_ccho
                        /\ g.isim_aid <=> g.isim_lchan # -1
    BY DEF ScanPublishesWhatItFound
  <2>2. todo[t] = <<>> /\ g \in Held
    BY <2>1 DEF ServerInv, ShapeInv
  <2>3. WillPublish(<<>>, g, layout)
    BY <2>1, <2>2 DEF ServerInv, CheckInv
  <2>4. /\ g.usim_lchan \in Int /\ g.isim_lchan \in Int
        /\ g.isim_ccho \in BOOLEAN /\ g.isim_aid \in BOOLEAN
    BY <2>2 DEF Held
  <2>5. /\ g.usim_lchan = 0 \/ layout[g.usim_lchan] = "USIM"
        /\ g.isim_lchan # -1 => layout[g.isim_lchan] = "ISIM" /\ g.isim_aid # FALSE
        /\ g.isim_lchan = -1 => g.isim_aid # TRUE
        /\ g.isim_ccho # TRUE
    BY <2>3, <2>4, NothingToDo DEF WillPublish
  <2> QED BY <2>4, <2>5
<1> QED BY <1>1, InitServerInv, NextServerInv, PTL DEF ServerSpec

-----------------------------------------------------------------------------
\* What the other requests assign, one client at a time.

\* What disconnect assigns ends in globals that agree.
LEMMA ForgetsAgrees ==
  ASSUME NEW h
  PROVE  WillAgree(Forgets, h)
<1>1. /\ Len(Forgets) = 5 /\ Forgets[1] = <<"isim_aid", FALSE>> /\ Forgets[2] = <<"usim_lchan", 0>>
      /\ Forgets[3] = <<"isim_lchan", -1>> /\ Forgets[4] = <<"isim_ccho", FALSE>>
      /\ Forgets[5] = <<"adm_keys", {}>>
  BY DEF Forgets
<1>2. \A j \in 1..5 : j = 1 \/ j = 2 \/ j = 3 \/ j = 4 \/ j = 5
  OBVIOUS
<1>3. ASSUME NEW v, EndsAs(Forgets, h, "isim_lchan", v) PROVE v = -1
  <2>1. \A j \in 1..Len(Forgets) : j > 3 => Forgets[j][1] # "isim_lchan"
    BY <1>1, <1>2
  <2>2. 3 \in Nat /\ 1 <= 3 /\ 3 <= Len(Forgets)
    BY <1>1
  <2> QED BY <1>1, <1>3, <2>1, <2>2, ForgetsType, EndsAsLast
<1>4. ~EndsAs(Forgets, h, "isim_ccho", TRUE)
  <2>1. \A j \in 1..Len(Forgets) : j > 4 => Forgets[j][1] # "isim_ccho"
    BY <1>1, <1>2
  <2>2. 4 \in Nat /\ 1 <= 4 /\ 4 <= Len(Forgets)
    BY <1>1
  <2>3. \A v, w : EndsAs(Forgets, h, "isim_ccho", v) /\ Forgets[4] = <<"isim_ccho", w>> => v = w
    BY <2>1, <2>2, ForgetsType, EndsAsLast
  <2> QED BY <1>1, <2>3, Zenon
<1>5. \A k \in Int : EndsAs(Forgets, h, "isim_lchan", k) => ~(k >= 0)
  BY <1>3
<1> QED BY <1>4, <1>5, Zenon DEF WillAgree

\* The AID found in EF.DIR.
LEMMA AidAgrees ==
  ASSUME NEW h \in Held, WillAgree(<<>>, h)
  PROVE  WillAgree(<<<<"isim_aid", TRUE>>>>, h)
<1> DEFINE s == <<<<"isim_aid", TRUE>>>>
<1>1. Len(s) = 1 /\ s[1] = <<"isim_aid", TRUE>> /\ s \in Seq(Assignments)
  <2>1. TRUE \in BOOLEAN
    OBVIOUS
  <2>2. <<"isim_aid", TRUE>> \in Assignments
    BY <2>1, AssignmentFacts
  <2>3. s \in Seq(Assignments)
    BY <2>2
  <2> QED BY <2>3
<1> HIDE DEF s
<1>2. \A j \in 1..Len(s) : j = 1
  BY <1>1
<1>3. \A v : EndsAs(s, h, "isim_lchan", v) => v = h.isim_lchan
  BY <1>1, <1>2, EndsAsHeld
<1>4. \A v : EndsAs(s, h, "isim_ccho", v) => v = h.isim_ccho
  BY <1>1, <1>2, EndsAsHeld
<1>5. ~EndsAs(s, h, "isim_aid", FALSE)
  <2>1. 1 \in Nat /\ 1 <= 1 /\ 1 <= Len(s) /\ \A j \in 1..Len(s) : ~(j > 1)
    BY <1>1
  <2>2. \A v, w : EndsAs(s, h, "isim_aid", v) /\ s[1] = <<"isim_aid", w>> => v = w
    BY <1>1, <2>1, EndsAsLast
  <2> QED BY <1>1, <2>2, Zenon
<1>6. h.isim_lchan \in Int /\ (h.isim_lchan < 0 => h.isim_ccho # TRUE)
  BY NothingToDo DEF Held, WillAgree
<1>7. \A k \in Int : EndsAs(s, h, "isim_lchan", k) /\ k < 0 => ~EndsAs(s, h, "isim_ccho", TRUE)
  BY <1>3, <1>4, <1>6
<1>8. WillAgree(s, h)
  BY <1>5, <1>7, Zenon DEF WillAgree
<1> QED BY <1>8 DEF s

\* The session that the fallback opened, with the AID it knew.
LEMMA SessionAgrees ==
  ASSUME NEW h \in Held, h.isim_aid, NEW n \in Nat
  PROVE  WillAgree(<<<<"isim_ccho", TRUE>>, <<"isim_lchan", n>>>>, h)
<1> DEFINE s == <<<<"isim_ccho", TRUE>>, <<"isim_lchan", n>>>>
<1>1. Len(s) = 2 /\ s[1] = <<"isim_ccho", TRUE>> /\ s[2] = <<"isim_lchan", n>> /\ s \in Seq(Assignments)
  <2>1. TRUE \in BOOLEAN /\ n \in Int
    OBVIOUS
  <2>2. <<"isim_ccho", TRUE>> \in Assignments /\ <<"isim_lchan", n>> \in Assignments
    BY <2>1, AssignmentFacts
  <2>3. s \in Seq(Assignments)
    BY <2>2
  <2> QED BY <2>3
<1> HIDE DEF s
<1>2. \A j \in 1..Len(s) : j = 1 \/ j = 2
  BY <1>1
<1>3. \A v : EndsAs(s, h, "isim_aid", v) => v = h.isim_aid
  <2>1. s[1][1] = "isim_ccho" /\ s[2][1] = "isim_lchan"
    BY <1>1
  <2>2. \A j \in 1..Len(s) : s[j][1] # "isim_aid"
    BY <1>2, <2>1
  <2> QED BY <2>2, EndsAsHeld
<1>4. \A v : EndsAs(s, h, "isim_lchan", v) => v = n
  <2>1. 2 \in Nat /\ 1 <= 2 /\ 2 <= Len(s) /\ \A j \in 1..Len(s) : ~(j > 2)
    BY <1>1
  <2> QED BY <1>1, <2>1, EndsAsLast
<1>5. \A k \in Int : EndsAs(s, h, "isim_lchan", k) => ~(k < 0)
  BY <1>4
<1>6. ~EndsAs(s, h, "isim_aid", FALSE)
  BY <1>3
<1>7. WillAgree(s, h)
  BY <1>5, <1>6, Zenon DEF WillAgree
<1> QED BY <1>7 DEF s

\* Step by step, while p is the only client.
LEMMA NextAgrees ==
  ASSUME NEW p, Threads = {p}, ServerInv, WillAgree(todo[p], g), [ServerNext]_serverVars
  PROVE  WillAgree(todo'[p], g')
<1>1. /\ g \in Held /\ todo \in [Threads -> Seq(Assignments)] /\ p \in Threads
      /\ scan[p] \in ScanRecord
      /\ th[p].pc # "assign" => todo[p] = <<>>
  BY DEF ServerInv, ShapeInv
<1>2. CASE g' = g /\ todo' = todo
  BY <1>2
<1>3. ASSUME Request(p) \/ Step(p), UNCHANGED localVars PROVE g' = g /\ todo' = todo
  <2>1. Step(p) => g' = g
    BY <1>1, FileStep DEF ServerInv, ShapeInv
  <2>2. Request(p) => g' = g
    BY DEF Request, Begin
  <2> QED BY <1>3, <2>1, <2>2 DEF localVars
<1>4. ASSUME ServerRequest(p) PROVE WillAgree(todo'[p], g')
  <2>1. CASE Disconnect(p)
    <3>1. g' = g /\ todo'[p] = Forgets
      BY <1>1, <2>1 DEF Disconnect, Forgets
    <3> QED BY <3>1, ForgetsAgrees
  <2>2. CASE ~Disconnect(p)
    <3>1. g' = g /\ todo' = todo
      BY <1>4, <2>2 DEF ServerRequest, Connect, Call, localVars
    <3> QED BY <1>2, <3>1
  <2> QED BY <2>1, <2>2
<1>5. ASSUME NEW r \in Results, NEW x \in BOOLEAN, NEW answer \in Statuses,
             ScanChannel(p, r, x, answer)
      PROVE  WillAgree(todo'[p], g')
  <2> DEFINE s == Scanned(scan[p], answer)
             over == answer = "6E00" \/ (s.usim >= 0 /\ s.isim >= 0) \/ s.next = 20
             failed == th[p].op = "at_check" /\ (~s.csim_ok \/ s.usim = -1)
             assigns == (IF th[p].op = "at_check" THEN Cleared ELSE <<>>) \o Found(s)
  <2>1. th[p].pc = "scan" /\ g' = g
        /\ todo' = [todo EXCEPT ![p] = IF over /\ ~failed /\ r # "raise" THEN assigns ELSE todo[p]]
    BY <1>5 DEF ScanChannel
  <2>2. s \in ScanRecord
    BY <1>1, ScannedFacts
  <2> HIDE DEF s
  <2>3. WillAgree(assigns, g)
    <3>1. todo[p] = <<>>
      BY <1>1, <2>1
    <3>2. CASE th[p].op = "at_check"
      BY <1>1, <2>2, <3>2, ClearedFoundEnds
    <3>3. CASE th[p].op # "at_check"
      <4>1. Found(s) \in Seq(Assignments) /\ WillAgree(Found(s), g)
        BY <1>1, <2>2, <3>1, FoundAgrees
      <4>2. <<>> \o Found(s) = Found(s)
        BY <4>1, ConcatEmptySeq
      <4> QED BY <3>3, <4>1, <4>2
    <3> QED BY <3>2, <3>3
  <2> HIDE DEF assigns
  <2>4. todo'[p] = assigns \/ todo'[p] = todo[p]
    BY <1>1, <2>1
  <2> QED BY <2>1, <2>3, <2>4
<1>6. ASSUME Assign(p) PROVE WillAgree(todo'[p], g')
  <2>1. CASE todo[p] = <<>>
    BY <1>2, <1>6, <2>1 DEF Assign
  <2>2. CASE todo[p] # <<>>
    <3>1. todo'[p] = Tail(todo[p]) /\ g' = Made(g, Head(todo[p]))
      BY <1>1, <1>6, <2>2 DEF Assign, Made
    <3>2. \A n \in Names : \A v : EndsAs(todo'[p], g', n, v) => EndsAs(todo[p], g, n, v)
      BY <1>1, <2>2, <3>1, AssignEnds
    <3> QED BY <3>2, Zenon DEF WillAgree, Names
  <2> QED BY <2>1, <2>2
<1>7. ASSUME NEW r \in Results, NEW found \in BOOLEAN, ReadDir(p, r, found)
      PROVE  WillAgree(todo'[p], g')
  <2>1. g' = g /\ todo[p] = <<>>
        /\ todo'[p] = IF found THEN <<<<"isim_aid", TRUE>>>> ELSE todo[p]
    BY <1>1, <1>7 DEF ReadDir
  <2>2. WillAgree(<<<<"isim_aid", TRUE>>>>, g)
    BY <1>1, <2>1, AidAgrees
  <2> QED BY <2>1, <2>2
<1>8. ASSUME NEW r \in Results, NEW x \in BOOLEAN, NEW n \in SessionIds, ProbeIsim(p, r, x, n)
      PROVE  WillAgree(todo'[p], g')
  <2>1. CASE g.isim_aid /\ r = "ok"
    <3>1. g' = g /\ todo'[p] = <<<<"isim_ccho", TRUE>>, <<"isim_lchan", n>>>> /\ n \in Nat
      BY <1>1, <1>8, <2>1, FileRequestsAssumption DEF ProbeIsim
    <3> QED BY <1>1, <2>1, <3>1, SessionAgrees
  <2>2. CASE ~(g.isim_aid /\ r = "ok")
    <3>1. g' = g /\ todo'[p] = todo[p]
      BY <1>1, <1>8, <2>2 DEF ProbeIsim
    <3> QED BY <3>1
  <2> QED BY <2>1, <2>2
<1>9. ASSUME ServerStep(p) PROVE WillAgree(todo'[p], g')
  <2>1. CASE \/ \E r \in Results, x \in BOOLEAN, answer \in Statuses : ScanChannel(p, r, x, answer)
             \/ Assign(p)
             \/ \E r \in Results, found \in BOOLEAN : ReadDir(p, r, found)
             \/ \E r \in Results, x \in BOOLEAN, n \in SessionIds : ProbeIsim(p, r, x, n)
    BY <1>5, <1>6, <1>7, <1>8, <2>1
  <2>2. CASE \/ \E opened \in BOOLEAN : OpenPort(p, opened)
             \/ \E r \in Results : Hello(p, r) \/ VerifyAt(p, r) \/ Poll(p, r)
             \/ \E r \in Results, x \in BOOLEAN : SelectDir(p, r, x) \/ HangUp(p, r, x) \/ Cfun(p, r, x)
             \/ \E r \in Results, key \in AdmTypes, accepted \in BOOLEAN :
                  VerifyAdm(p, r, key, accepted)
    <3>1. g' = g /\ todo' = todo
      BY <2>2 DEF OpenPort, Hello, VerifyAt, Poll, SelectDir, HangUp, Cfun, VerifyAdm, localVars
    <3> QED BY <1>2, <3>1
  <2> QED BY <1>9, <2>1, <2>2 DEF ServerStep
<1>10. CASE UNCHANGED serverVars
  BY <1>2, <1>10 DEF serverVars, vars, localVars
<1>11. CASE ServerNext
  BY <1>2, <1>3, <1>4, <1>9, <1>11 DEF ServerNext
<1> QED BY <1>10, <1>11

\* One client, whatever it calls and wherever a request breaks off, finds globals
\* about the ISIM that agree whenever it is idle.
THEOREM OneClientAgrees ==
  ASSUME NEW p, Threads = {p}
  PROVE  ServerSpec => []GlobalsAgree
<1> DEFINE Inv == ServerInv /\ WillAgree(todo[p], g)
<1>1. ServerInit => Inv
  <2>1. SUFFICES ASSUME ServerInit PROVE WillAgree(todo[p], g)
    BY InitServerInv
  <2>2. todo[p] = <<>> /\ g.isim_lchan = -1 /\ g.isim_ccho = FALSE
    BY <2>1 DEF ServerInit
  <2>3. \A k \in Int : EndsAs(todo[p], g, "isim_lchan", k) => ~(k >= 0)
    BY <2>2, NothingToDo
  <2>4. ~EndsAs(todo[p], g, "isim_ccho", TRUE)
    <3>1. \A v : EndsAs(todo[p], g, "isim_ccho", v) => v = FALSE
      BY <2>2, NothingToDo
    <3> QED BY <3>1, Zenon
  <2> QED BY <2>3, <2>4, Zenon DEF WillAgree
<1>2. Inv /\ [ServerNext]_serverVars => Inv'
  <2>1. SUFFICES ASSUME ServerInv, WillAgree(todo[p], g), [ServerNext]_serverVars
                 PROVE  ServerInv' /\ WillAgree(todo'[p], g')
    OBVIOUS
  <2> QED BY <2>1, NextServerInv, NextAgrees
<1>3. Inv => GlobalsAgree
  <2>1. SUFFICES ASSUME ServerInv, WillAgree(todo[p], g), Quiet
                 PROVE  (g.isim_lchan >= 0 => g.isim_aid) /\ (g.isim_ccho => g.isim_lchan >= 0)
    BY DEF GlobalsAgree
  <2>2. todo[p] = <<>> /\ g \in Held
    BY <2>1 DEF ServerInv, ShapeInv, Quiet
  <2>3. g.isim_lchan \in Int /\ g.isim_ccho \in BOOLEAN /\ g.isim_aid \in BOOLEAN
    BY <2>2 DEF Held
  <2>4. /\ g.isim_lchan >= 0 => g.isim_aid # FALSE
        /\ g.isim_lchan < 0 => g.isim_ccho # TRUE
    <3>1. WillAgree(<<>>, g)
      BY <2>1, <2>2
    <3> QED BY <2>2, <3>1, NothingToDo DEF Held, WillAgree
  <2>5. g.isim_lchan < 0 \/ g.isim_lchan >= 0
    BY <2>3
  <2> QED BY <2>3, <2>4, <2>5, Zenon
<1> QED BY <1>1, <1>2, <1>3, PTL DEF ServerSpec

=============================================================================
