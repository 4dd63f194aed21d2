--------------------------- MODULE WebClientProofs ---------------------------
(***************************************************************************)
(* The page's cache and its pane, for a user who lets a write end before   *)
(* the next click, with any files and cards and for any number of clicks   *)
(* and of requests that fail.                                              *)
(***************************************************************************)
EXTENDS WebClient, TLAPS

\* What an entry, a coroutine and the page's state may be.
Names == Files \cup {Nobody}
Entries ==
  [st : {"none", "ok", "err", "reading"}, of : Names, card : Cards \cup {Nobody}, ver : Nat]
Pcs ==
  Asks \cup {"idle", "clear", "tree", "poll", "wait", "last"}
Tasks ==
  [pc : Pcs, how : {"none", "write", "tlv"}, file : Names,
   resp : {"none", "ok", "error", "lost", "notfound"}, data : Entries,
   lost : {"no", "poll", "ports", "done"}]

Types ==
  /\ card \in Cards /\ content \in [Cards -> [Files -> Nat]]
  /\ cache \in [Files -> Entries] /\ pane \in Entries
  /\ selected \in Names /\ pending \in Names
  /\ reading \in BOOLEAN /\ mixed \in BOOLEAN /\ open \in BOOLEAN /\ tree \in BOOLEAN
  /\ task \in [Kinds -> Tasks]
  /\ torn \subseteq Files

\* Where each coroutine may be, and that _isReading says whether one reads.
Places ==
  /\ task["conn"].pc \notin {"read", "poll", "write", "wait", "reread", "last", "disconnect"}
  /\ task["disc"].pc \in {"idle", "disconnect", "clear"}
  /\ task["read"].pc \in {"idle", "read", "poll"}
  /\ task["write"].pc \in {"idle", "write", "poll", "wait", "reread", "last"}
  /\ reading = Running("read")
  /\ Running("read") => task["read"].file \in Files

\* A patient user's write is alone with the reading one, and its file stays selected.
WriteAlone ==
  Running("write") =>
    /\ ~Running("conn") /\ ~Running("disc")
    /\ task["write"].file = selected /\ selected \in Files

\* Once connected and until the tree shows, no file can be clicked.
NotYetShown ==
  task["conn"].pc \notin {"idle", "connect"} => ~tree /\ (~mixed => ~Running("read"))

\* What the coroutines carry.
Current(e, f) == e = Entry(f, card, content[card][f])
Carried ==
  /\ Running("read") /\ task["read"].resp = "ok" =>
       task["read"].data.st = "ok" /\ task["read"].data.of = task["read"].file
  /\ task["conn"].pc = "arr" /\ task["conn"].resp = "ok" => Current(task["conn"].data, ArrFile)
  /\ Running("write") =>
       \/ task["write"].data = NoEntry
       \/ /\ Current(task["write"].data, task["write"].file)
          /\ ~(task["write"].pc = "write" /\ task["write"].resp = "none")

\* The file that is read, and the one that waits, have no value in the cache, and
\* no write is under way to them.
ReadsWhatIsMissing ==
  reading /\ ~mixed =>
    /\ cache[task["read"].file].st # "ok"
    /\ pending # Nobody => cache[pending].st # "ok"
    /\ Running("write") => task["write"].file \notin {task["read"].file, pending}

PaneIsSelected == PaneOfSelected /\ (pane.st = "ok" => selected # Nobody)

\* Between the server's new connection and the page's knowing of it.
Unknowing == task["conn"].pc = "connect" /\ task["conn"].resp = "ok"

OfThisCard ==
  ~mixed /\ ~Unknowing =>
    /\ \A f \in Files : cache[f].st = "ok" => cache[f].card = card
    /\ Running("read") /\ task["read"].resp = "ok" => task["read"].data.card = card

\* Between the server's having written a file and the page's knowing of it.
Overwritten(f) ==
  /\ task["write"].pc \in {"write", "poll"} /\ task["write"].resp = "ok"
  /\ f = task["write"].file

AsOnCard ==
  ~mixed =>
    /\ \A f \in Files \ torn :
         cache[f].st = "ok" /\ ~Overwritten(f) =>
           cache[f].card \in Cards /\ cache[f].ver = content[cache[f].card][f]
    /\ Running("read") /\ task["read"].resp = "ok" /\ task["read"].file \notin torn =>
         /\ task["read"].data.card \in Cards
         /\ task["read"].data.ver = content[task["read"].data.card][task["read"].file]

PageInv ==
  /\ Types /\ Places /\ WriteAlone /\ NotYetShown /\ Carried /\ ReadsWhatIsMissing
  /\ CacheOfItsFile /\ PaneIsSelected /\ OfThisCard /\ AsOnCard

-----------------------------------------------------------------------------
\* Each coroutine's steps keep the invariant.

USE DEF Kinds

\* A coroutine that goes on is one of its kind.
LEMMA GoOn ==
  ASSUME NEW t \in Tasks, NEW pc \in Pcs
  PROVE  /\ Go(t, pc) \in Tasks /\ Go(t, pc).pc = pc /\ Go(t, pc).resp = "none"
         /\ Go(t, pc).file = t.file /\ Go(t, pc).data = t.data /\ Go(t, pc).how = t.how
BY DEF Go, Tasks

\* The same of any of its places.
LEMMA Goes ==
  \A t \in Tasks, pc \in Pcs :
    Go(t, pc) \in Tasks /\ Go(t, pc).resp = "none" /\ Go(t, pc).pc = pc
BY GoOn

\* So is one that has ended.
LEMMA GoFacts ==
  /\ NoEntry \in Entries /\ NoEntry.st = "none"
  /\ Idle \in Tasks /\ Idle.resp = "none" /\ Idle.pc = "idle"
  /\ \A t \in Tasks, pc \in Pcs :
       /\ [t EXCEPT !.pc = pc] \in Tasks
       /\ LET g == Go(t, pc) IN /\ g \in Tasks /\ g.pc = pc /\ g.resp = "none" /\ g.file = t.file
                               /\ g.data = t.data /\ g.how = t.how
<1>1. NoEntry \in Entries /\ NoEntry.st = "none"
  BY DEF NoEntry, Entries, Names
<1>2. Idle \in Tasks /\ Idle.resp = "none" /\ Idle.pc = "idle"
  BY <1>1 DEF Idle, Tasks, Pcs, Names
<1>3. ASSUME NEW t \in Tasks, NEW pc \in Pcs PROVE [t EXCEPT !.pc = pc] \in Tasks
  BY DEF Tasks
<1>4. ASSUME NEW t \in Tasks, NEW pc \in Pcs
      PROVE  LET g == Go(t, pc) IN /\ g \in Tasks /\ g.pc = pc /\ g.resp = "none" /\ g.file = t.file
                                  /\ g.data = t.data /\ g.how = t.how
  BY GoOn
<1> QED BY <1>1, <1>2, <1>3, <1>4

\* The page starts so.
LEMMA InitPage == Init => PageInv
<1> SUFFICES ASSUME Init PROVE PageInv
  OBVIOUS
<1>1. NoEntry \in Entries /\ Idle \in Tasks
  BY DEF NoEntry, Entries, Idle, Tasks, Pcs, Names
<1>2. Types
  BY <1>1 DEF Init, Types, Names
<1>3. Places /\ WriteAlone /\ NotYetShown /\ Carried /\ ReadsWhatIsMissing /\ CacheOfItsFile
      /\ PaneIsSelected /\ OfThisCard /\ AsOnCard
  BY DEF Init, Places, WriteAlone, NotYetShown, Carried, ReadsWhatIsMissing, CacheOfItsFile,
         PaneIsSelected, PaneOfSelected, OfThisCard, AsOnCard, Running, Idle, NoEntry
<1> QED BY <1>2, <1>3 DEF PageInv

\* The reading coroutine: the file that waited is read next only if it is still selected.
LEMMA ReadStepKeeps == ASSUME PageInv, ReadStep PROVE PageInv'
<1> USE DEF PageInv, shown, Others, server, Running
<1>1. ASSUME ReadAnswered PROVE PageInv'
  <2>1. task' = [task EXCEPT !["read"].pc = "poll"] /\ task["read"].pc = "read"
        /\ UNCHANGED <<shown, Others>>
    BY <1>1 DEF ReadAnswered, Awaited
  <2>2. Types'
    BY <2>1, GoFacts DEF Types, Pcs
  <2>3. Places' /\ WriteAlone' /\ NotYetShown' /\ Carried'
    BY <2>1 DEF Types, Places, WriteAlone, NotYetShown, Carried, Current, Entry
  <2>4. ReadsWhatIsMissing' /\ CacheOfItsFile' /\ PaneIsSelected' /\ OfThisCard' /\ AsOnCard'
    BY <2>1 DEF Types, ReadsWhatIsMissing, CacheOfItsFile, PaneIsSelected, PaneOfSelected,
                OfThisCard, AsOnCard, Overwritten, Unknowing
  <2> QED BY <2>2, <2>3, <2>4
<1>2. ASSUME ReadDone PROVE PageInv'
  <2> DEFINE l == task["read"]
             entry == IF l.resp = "ok" THEN l.data ELSE Failed(l.file)
             next == pending # Nobody /\ pending # l.file /\ selected = pending
  <2>1. /\ l.pc = "poll" /\ l.file \in Files /\ l \in Tasks
        /\ cache' = [cache EXCEPT ![l.file] = entry]
        /\ UNCHANGED <<ui, tree, selected, Others>>
    BY <1>2 DEF ReadDone, Awaited, CachedUnder, Places, Types
  <2>4. /\ entry \in Entries
        /\ entry.st = "ok" => l.resp = "ok" /\ entry = l.data /\ entry.of = l.file
        /\ l.resp = "ok" => entry = l.data
    BY <2>1 DEF Tasks, Entries, Failed, NoEntry, Carried, Names
  <2> HIDE DEF entry
  <2>2. CASE next
    <3>1. /\ reading' = TRUE /\ pending' = Nobody /\ pane' = Reading(pending)
          /\ task' = [task EXCEPT !["read"] = [Idle EXCEPT !.pc = "read", !.file = pending]]
      BY <1>2, <2>2 DEF ReadDone, StartReading, Types
    <3>2. pending \in Files /\ [Idle EXCEPT !.pc = "read", !.file = pending] \in Tasks
          /\ Reading(pending) \in Entries /\ Reading(pending).st = "reading"
      BY <2>2 DEF Types, Names, Reading, NoEntry, Idle, Tasks, Entries, Pcs, Asks
    <3>3. Types'
      BY <2>1, <2>4, <3>1, <3>2 DEF Types, Names
    <3>4. Places' /\ WriteAlone' /\ NotYetShown' /\ Carried'
      BY <2>1, <3>1, <3>2 DEF Types, Places, WriteAlone, NotYetShown, Carried, Current, Entry, Idle
    <3>5. ReadsWhatIsMissing'
      <4>1. task'["read"].file = pending /\ task'["write"] = task["write"]
            /\ cache'[pending] = cache[pending] /\ reading /\ mixed' = mixed
        BY <2>1, <2>2, <3>1, <3>2 DEF Types, Idle, Places
      <4> QED BY <2>1, <2>2, <3>1, <4>1, WebClientAssumption DEF ReadsWhatIsMissing, WriteAlone
    <3>6. CacheOfItsFile' /\ PaneIsSelected' /\ OfThisCard' /\ AsOnCard'
      BY <2>1, <2>4, <3>1, <3>2 DEF Types, CacheOfItsFile, PaneIsSelected, PaneOfSelected,
                OfThisCard, AsOnCard, Overwritten, Unknowing, Idle, Places
    <3> QED BY <3>3, <3>4, <3>5, <3>6
  <2>3. CASE ~next
    <3>1. /\ reading' = FALSE /\ pending' \in {Nobody, pending}
          /\ pane' = IF l.file = selected THEN entry ELSE pane
          /\ task' = [task EXCEPT !["read"] = Idle]
          /\ pending = selected => pending' = pending
      BY <1>2, <2>3 DEF ReadDone, ReadingAfter, ShowIf, StillSelected, Ends, entry
    <3>2. Idle \in Tasks
      BY DEF Idle, Tasks, Entries, Pcs, Names, NoEntry
    <3>3. Types'
      BY <2>1, <2>4, <3>1, <3>2 DEF Types, Names
    <3>4. Places' /\ WriteAlone' /\ NotYetShown' /\ Carried' /\ ReadsWhatIsMissing'
      BY <2>1, <3>1, <3>2 DEF Types, Places, WriteAlone, NotYetShown, Carried, Current, Entry, Idle,
           ReadsWhatIsMissing
    <3>6. CacheOfItsFile' /\ OfThisCard' /\ AsOnCard'
      BY <2>1, <2>4, <3>1, <3>2 DEF Types, CacheOfItsFile, 
                OfThisCard, AsOnCard, Overwritten, Unknowing, Idle, Places
    <3>7. PaneIsSelected'
      <4>1. CASE l.file = selected
        BY <2>1, <2>4, <3>1, <4>1, WebClientAssumption DEF Types, PaneIsSelected, PaneOfSelected
      <4>2. CASE l.file # selected
        <5>1. pane' = pane /\ selected' = selected
          BY <2>1, <3>1, <4>2
        <5>2. ASSUME pane.st = "ok", pending = selected PROVE FALSE
          BY <2>3, <4>2, <5>2 DEF PaneIsSelected
        <5> QED BY <5>1, <5>2 DEF PaneIsSelected, PaneOfSelected
      <4> QED BY <4>1, <4>2
    <3> QED BY <3>3, <3>4, <3>6, <3>7
  <2> QED BY <2>2, <2>3
<1> QED BY <1>1, <1>2 DEF ReadStep

\* The writing one stays with its file: nobody selects another meanwhile.
LEMMA WriteStepKeeps == ASSUME PageInv, WriteStep PROVE PageInv'
<1> USE DEF PageInv, shown, Others, server, Running
<1> DEFINE l == task["write"]
<1>1. l.pc # "idle" => Target(l) = l.file /\ l.file \in Files /\ l.file # Nobody
      /\ l.file = selected
  BY WebClientAssumption DEF WriteAlone, Target
<1>2. ASSUME WriteAnswered PROVE PageInv'
  <2>1. task' = [task EXCEPT !["write"].pc = "poll"] /\ l.pc = "write"
        /\ UNCHANGED <<shown, Others>>
    BY <1>2 DEF WriteAnswered, Awaited
  <2>2. Types'
    BY <2>1, GoFacts DEF Types, Pcs
  <2>3. Places' /\ WriteAlone' /\ NotYetShown' /\ Carried'
    BY <2>1 DEF Types, Places, WriteAlone, NotYetShown, Carried, Current, Entry
  <2>4. ReadsWhatIsMissing' /\ CacheOfItsFile' /\ PaneIsSelected' /\ OfThisCard' /\ AsOnCard'
    BY <2>1 DEF Types, ReadsWhatIsMissing, CacheOfItsFile, PaneIsSelected, PaneOfSelected,
                OfThisCard, AsOnCard, Overwritten, Unknowing
  <2> QED BY <2>2, <2>3, <2>4
<1>3. ASSUME Reread PROVE PageInv'
  <2>1. task' = [task EXCEPT !["write"].pc = "last"] /\ l.pc = "reread"
        /\ UNCHANGED <<shown, Others>>
    BY <1>3 DEF Reread, Awaited
  <2>2. Types'
    BY <2>1, GoFacts DEF Types, Pcs
  <2>3. Places' /\ WriteAlone' /\ NotYetShown' /\ Carried'
    BY <2>1 DEF Types, Places, WriteAlone, NotYetShown, Carried, Current, Entry
  <2>4. ReadsWhatIsMissing' /\ CacheOfItsFile' /\ PaneIsSelected' /\ OfThisCard' /\ AsOnCard'
    BY <2>1 DEF Types, ReadsWhatIsMissing, CacheOfItsFile, PaneIsSelected, PaneOfSelected,
                OfThisCard, AsOnCard, Overwritten, Unknowing
  <2> QED BY <2>2, <2>3, <2>4
<1>4. ASSUME WritePolled, l.resp = "ok" PROVE PageInv'
  <2>1. /\ task' = [task EXCEPT !["write"] = Go(l, "wait")] /\ l.pc = "poll"
        /\ cache' = [cache EXCEPT ![l.file] = NoEntry]
        /\ UNCHANGED <<ui, tree, selected, pane, reading, pending, Others>>
    BY <1>1, <1>4 DEF WritePolled, Awaited, Drop, NextPc
  <2>2. NoEntry \in Entries /\ NoEntry.st = "none" /\ Go(l, "wait") \in Tasks
    BY GoFacts DEF Types, Pcs, Asks
  <2>3. Types'
    BY <1>1, <2>1, <2>2 DEF Types
  <2>4. Places' /\ WriteAlone' /\ NotYetShown' /\ Carried'
    BY <2>1 DEF Types, Tasks, Places, WriteAlone, NotYetShown, Carried, Current, Entry, Go
  <2>5. ReadsWhatIsMissing' /\ CacheOfItsFile' /\ PaneIsSelected' /\ OfThisCard' /\ AsOnCard'
    BY <1>1, <2>1, <2>2
       DEF Types, Tasks, ReadsWhatIsMissing, CacheOfItsFile, PaneIsSelected, PaneOfSelected,
                OfThisCard, AsOnCard, Overwritten, Unknowing, Go, Places
  <2> QED BY <2>3, <2>4, <2>5
<1>5. ASSUME WritePolled, l.resp # "ok" PROVE PageInv'
  <2>1. /\ task' = [task EXCEPT !["write"] = Idle] /\ l.pc = "poll" /\ UNCHANGED <<shown, Others>>
    BY <1>5 DEF WritePolled, Awaited, Ends
  <2>2. Idle \in Tasks
    BY DEF Idle, Tasks, Entries, Pcs, Names, NoEntry
  <2>3. Types'
    BY <2>1, <2>2 DEF Types
  <2>4. Places' /\ WriteAlone' /\ NotYetShown' /\ Carried'
    BY <2>1 DEF Types, Tasks, Places, WriteAlone, NotYetShown, Carried, Current, Entry, Idle
  <2>5. ReadsWhatIsMissing' /\ CacheOfItsFile' /\ PaneIsSelected' /\ OfThisCard' /\ AsOnCard'
    BY <1>1, <1>5, <2>1
       DEF Types, Tasks, ReadsWhatIsMissing, CacheOfItsFile, PaneIsSelected, PaneOfSelected,
                OfThisCard, AsOnCard, Overwritten, Unknowing, Idle, Places
  <2> QED BY <2>3, <2>4, <2>5
<1>6. ASSUME WriteWaited PROVE PageInv'
  <2> DEFINE t == [Go(l, "reread") EXCEPT !.file = l.file]
  <2>1. /\ task' = [task EXCEPT !["write"] = t] /\ l.pc = "wait" /\ UNCHANGED <<shown, Others>>
    BY <1>1, <1>6 DEF WriteWaited, Awaited
  <2>2. t \in Tasks /\ t.pc = "reread" /\ t.file = l.file /\ t.resp = "none" /\ t.data = l.data
    <3> DEFINE g == Go(l, "reread")
    <3>1. l \in Tasks /\ "reread" \in Pcs
      BY DEF Types, Pcs, Asks
    <3>2. g \in Tasks /\ g.pc = "reread" /\ g.file = l.file /\ g.resp = "none" /\ g.data = l.data
      BY <3>1, GoOn
    <3>3. t = [g EXCEPT !.file = l.file] /\ l.file \in Names
      BY <3>1 DEF Tasks
    <3> HIDE DEF g, t
    <3> QED BY <3>2, <3>3 DEF Tasks
  <2> HIDE DEF t
  <2>3. Types'
    BY <2>1, <2>2 DEF Types
  <2>4. Places' /\ WriteAlone' /\ NotYetShown' /\ Carried'
    BY <2>1, <2>2 DEF Types, Tasks, Places, WriteAlone, NotYetShown, Carried, Current, Entry
  <2>5. ReadsWhatIsMissing' /\ CacheOfItsFile' /\ PaneIsSelected' /\ OfThisCard' /\ AsOnCard'
    BY <1>1, <2>1, <2>2
       DEF Types, Tasks, ReadsWhatIsMissing, CacheOfItsFile, PaneIsSelected, PaneOfSelected,
                OfThisCard, AsOnCard, Overwritten, Unknowing, Places
  <2> QED BY <2>3, <2>4, <2>5
<1>7. ASSUME WriteDone PROVE PageInv'
  <2>1. l.pc = "last" /\ task' = [task EXCEPT !["write"] = Idle]
        /\ UNCHANGED <<ui, tree, selected, reading, pending, Others>>
    BY <1>7 DEF WriteDone, Awaited, Ends
  <2>2. \/ UNCHANGED <<cache, pane>>
        \/ /\ Current(l.data, l.file)
           /\ cache' = [cache EXCEPT ![l.file] = l.data] /\ pane' = l.data
    BY <1>1, <1>7, <2>1 DEF WriteDone, Stored, Carried
  <2>3. Idle \in Tasks /\ l \in Tasks
    BY DEF Idle, Types, Tasks, Entries, Pcs, Names, NoEntry
  <2>4. Types'
    BY <1>1, <2>1, <2>2, <2>3 DEF Types, Tasks
  <2>5. Places' /\ WriteAlone' /\ NotYetShown' /\ Carried'
    BY <2>1 DEF Types, Tasks, Places, WriteAlone, NotYetShown, Carried, Current, Entry, Idle
  <2>8. ReadsWhatIsMissing'
    <3>1. /\ task'["read"] = task["read"] /\ ~Running("write")' /\ pending \in Names
          /\ \A f \in Files \ {l.file} : cache'[f] = cache[f]
      BY <2>1, <2>2 DEF Types, Idle
    <3>2. reading => task["read"].file \in Files
      BY DEF Places
    <3> QED BY <1>1, <2>1, <3>1, <3>2 DEF ReadsWhatIsMissing, Names
  <2>6. CacheOfItsFile' /\ PaneIsSelected'
    BY <1>1, <2>1, <2>2 DEF Types, CacheOfItsFile, PaneIsSelected, PaneOfSelected, Current, Entry
  <2>7. OfThisCard' /\ AsOnCard'
    BY SMTT(30), <1>1, <2>1, <2>2 DEF Types, Tasks, 
                OfThisCard, AsOnCard, Overwritten, Unknowing, Idle, Places, Current, Entry
  <2> QED BY <2>4, <2>5, <2>6, <2>7, <2>8
<1> QED BY <1>2, <1>3, <1>4, <1>5, <1>6, <1>7 DEF WriteStep

\* Disconnecting empties the cache under a read that may go on.
LEMMA DiscStepKeeps == ASSUME PageInv, DiscStep PROVE PageInv'
<1> USE DEF PageInv, shown, Others, server, Running
<1>1. NoEntry \in Entries /\ NoEntry.st = "none" /\ Idle \in Tasks
      /\ Go(task["disc"], "clear") \in Tasks
  BY GoFacts DEF Types, Pcs
<1>2. ASSUME Disconnected PROVE PageInv'
  <2>1. /\ task' = [task EXCEPT !["disc"] = Go(task["disc"], "clear")]
        /\ task["disc"].pc = "disconnect"
        /\ cache' = [f \in Files |-> NoEntry] /\ selected' = Nobody /\ tree' = FALSE /\ pane' = NoEntry
        /\ UNCHANGED <<reading, pending, Others>>
    BY <1>2 DEF Disconnected, Awaited, ResetData, NextPc
  <2>2. Types'
    BY <1>1, <2>1 DEF Types, Names
  <2>3. Places' /\ WriteAlone' /\ NotYetShown' /\ Carried'
    BY <2>1 DEF Types, Tasks, Places, WriteAlone, NotYetShown, Carried, Current, Entry, Go
  <2>4. ReadsWhatIsMissing' /\ CacheOfItsFile' /\ PaneIsSelected' /\ OfThisCard' /\ AsOnCard'
    BY <1>1, <2>1
       DEF Types, Tasks, ReadsWhatIsMissing, CacheOfItsFile, PaneIsSelected, PaneOfSelected,
                OfThisCard, AsOnCard, Overwritten, Unknowing, Places, WriteAlone, Names, Go
  <2> QED BY <2>2, <2>3, <2>4
<1>3. ASSUME DisconnectEnds PROVE PageInv'
  <2>1. /\ task' = [task EXCEPT !["disc"] = Idle] /\ task["disc"].pc = "clear"
        /\ UNCHANGED <<shown, Others>>
    BY <1>3 DEF DisconnectEnds, Awaited, Ends
  <2>2. Types'
    BY <1>1, <2>1 DEF Types
  <2>3. Places' /\ WriteAlone' /\ NotYetShown' /\ Carried'
    BY <2>1 DEF Types, Tasks, Places, WriteAlone, NotYetShown, Carried, Current, Entry, Idle
  <2>4. ReadsWhatIsMissing' /\ CacheOfItsFile' /\ PaneIsSelected' /\ OfThisCard' /\ AsOnCard'
    BY <2>1 DEF Types, Tasks, ReadsWhatIsMissing, CacheOfItsFile, PaneIsSelected, PaneOfSelected,
                OfThisCard, AsOnCard, Overwritten, Unknowing
  <2> QED BY <2>2, <2>3, <2>4
<1> QED BY <1>2, <1>3 DEF DiscStep

\* A lost port changes the button only.
LEMMA LossStepKeeps ==
  ASSUME PageInv, NEW k \in Kinds, LossStep(k) PROVE PageInv'
<1> USE DEF PageInv, shown, Others, server, Running
<1>1. PICK v \in {"done", "poll", "ports"} :
        /\ task' = [task EXCEPT ![k].lost = v]
        /\ UNCHANGED <<server, tree, selected, cache, pane, reading, pending, torn, mixed>>
  BY DEF LossStep, PortLostBegin, PortLostUi, PortLostEnd
<1>2. /\ \A j \in Kinds : /\ task'[j].pc = task[j].pc /\ task'[j].file = task[j].file
                          /\ task'[j].resp = task[j].resp /\ task'[j].data = task[j].data
      /\ task' \in [Kinds -> Tasks]
  BY <1>1 DEF Types, Tasks
<1>3. Types'
  BY <1>1, <1>2 DEF Types
<1>4. Places' /\ WriteAlone' /\ NotYetShown' /\ Carried'
  BY <1>1, <1>2 DEF Places, WriteAlone, NotYetShown, Carried, Current
<1>5. ReadsWhatIsMissing' /\ CacheOfItsFile' /\ PaneIsSelected' /\ OfThisCard' /\ AsOnCard'
  BY <1>1, <1>2 DEF ReadsWhatIsMissing, CacheOfItsFile, PaneIsSelected, PaneOfSelected,
                    OfThisCard, AsOnCard, Overwritten, Unknowing
<1> QED BY <1>3, <1>4, <1>5

\* A turn of the connecting coroutine that only goes on, or ends.
LEMMA ConnGoesOn ==
  ASSUME PageInv,
         NEW t \in {Go(task["conn"], pc) : pc \in {"check", "reset", "fallback", "cfun", "arr", "info", "tree"}}
                   \cup {Idle},
         task' = [task EXCEPT !["conn"] = t],
         task["conn"].pc \notin {"idle", "connect", "tree"},
         UNCHANGED <<tree, selected, cache, pane, reading, pending, Others>>
  PROVE  PageInv'
<1> USE DEF PageInv, Others, server, Running
<1>1. t \in Tasks /\ t.resp = "none"
      /\ t.pc \in {"check", "reset", "fallback", "cfun", "arr", "info", "tree", "idle"}
  <2>1. Idle \in Tasks /\ Idle.resp = "none" /\ Idle.pc = "idle"
    BY GoFacts
  <2>2. \A pc \in {"check", "reset", "fallback", "cfun", "arr", "info", "tree"} :
          LET g == Go(task["conn"], pc) IN g \in Tasks /\ g.resp = "none" /\ g.pc = pc
    <3>1. {"check", "reset", "fallback", "cfun", "arr", "info", "tree"} \subseteq Pcs
          /\ task["conn"] \in Tasks
      BY DEF Types, Pcs, Asks
    <3> QED BY <3>1, Goes, Zenon
  <2> QED BY <2>1, <2>2
<1>2. Types'
  BY <1>1 DEF Types
<1>3. Places' /\ WriteAlone' /\ NotYetShown' /\ Carried'
  BY <1>1 DEF Types, Places, WriteAlone, NotYetShown, Carried, Current, Entry
<1>4. ReadsWhatIsMissing' /\ CacheOfItsFile' /\ PaneIsSelected' /\ OfThisCard' /\ AsOnCard'
  BY <1>1 DEF Types, ReadsWhatIsMissing, CacheOfItsFile, PaneIsSelected, PaneOfSelected,
                OfThisCard, AsOnCard, Overwritten, Unknowing
<1> QED BY <1>2, <1>3, <1>4

\* Connecting: mixed says whether another coroutine goes on across it.
LEMMA ConnStepKeeps == ASSUME PageInv, ConnStep PROVE PageInv'
<1> USE DEF PageInv, shown, Others, server, Running
<1> DEFINE l == task["conn"]
<1>1. ASSUME Connected, l.resp = "ok" PROVE PageInv'
  <2>1. /\ l.pc = "connect" /\ task' = [task EXCEPT !["conn"] = Go(l, "clear")]
        /\ cache' = [f \in Files |-> NoEntry] /\ selected' = Nobody /\ tree' = FALSE /\ pane' = NoEntry
        /\ UNCHANGED <<reading, pending, server>> /\ torn' = {}
        /\ mixed' = (Running("read") \/ Running("write") \/ Running("disc"))
    BY <1>1 DEF Connected, Awaited, ResetData, NextPc
  <2>2. NoEntry \in Entries /\ NoEntry.st = "none" /\ Go(l, "clear") \in Tasks
    BY GoFacts DEF Types, Pcs, Asks
  <2>3. Types'
    BY <2>1, <2>2 DEF Types, Names
  <2>4. Places' /\ WriteAlone' /\ NotYetShown' /\ Carried'
    BY <2>1 DEF Types, Tasks, Places, WriteAlone, NotYetShown, Carried, Current, Entry, Go
  <2>5. ReadsWhatIsMissing' /\ CacheOfItsFile' /\ PaneIsSelected' /\ OfThisCard' /\ AsOnCard'
    BY <2>1, <2>2
       DEF Types, Tasks, ReadsWhatIsMissing, CacheOfItsFile, PaneIsSelected, PaneOfSelected,
                OfThisCard, AsOnCard, Overwritten, Unknowing, Places, WriteAlone, Names, Go
  <2> QED BY <2>3, <2>4, <2>5
<1>2. ASSUME Connected, l.resp # "ok" PROVE PageInv'
  <2>1. /\ l.pc = "connect" /\ task' = [task EXCEPT !["conn"] = Idle]
        /\ UNCHANGED <<tree, selected, cache, pane, reading, pending, server, mixed, torn>>
    BY <1>2 DEF Connected, Awaited, Ends
  <2>2. Idle \in Tasks
    BY DEF NoEntry, Entries, Tasks, Pcs, Names, Idle
  <2>3. Types'
    BY <2>1, <2>2 DEF Types
  <2>4. Places' /\ WriteAlone' /\ NotYetShown' /\ Carried'
    BY <2>1 DEF Types, Tasks, Places, WriteAlone, NotYetShown, Carried, Current, Entry, Idle
  <2>5. ReadsWhatIsMissing' /\ CacheOfItsFile' /\ PaneIsSelected' /\ OfThisCard' /\ AsOnCard'
    BY <1>2, <2>1, <2>2
       DEF Types, Tasks, ReadsWhatIsMissing, CacheOfItsFile, PaneIsSelected, PaneOfSelected,
                OfThisCard, AsOnCard, Overwritten, Unknowing, Idle
  <2> QED BY <2>3, <2>4, <2>5
<1>3. ASSUME AppleReset PROVE PageInv'
  BY <1>3, ConnGoesOn DEF AppleReset, Awaited, NextPc, Ends
<1>4. ASSUME NEW next \in {"check", "reset", "fallback", "cfun", "arr", "idle"}, Checked(next)
      PROVE  PageInv'
  BY <1>4, ConnGoesOn DEF Checked, Awaited, NextPc, Ends
<1>5. ASSUME NEW next \in {"check", "reset", "fallback", "cfun", "arr", "idle"}, FellBack(next)
      PROVE  PageInv'
  BY <1>5, ConnGoesOn DEF FellBack, Awaited, NextPc, Ends
<1>6. ASSUME Welcome PROVE PageInv'
  BY <1>6, ConnGoesOn DEF Welcome, Awaited, NextPc
<1>7. ASSUME ArrLoaded, l.resp # "ok" PROVE PageInv'
  BY <1>7, ConnGoesOn DEF ArrLoaded, Awaited, NextPc
<1>8. ASSUME ArrLoaded, l.resp = "ok" PROVE PageInv'
  <2>1. /\ l.pc = "arr" /\ task' = [task EXCEPT !["conn"] = Go(l, "info")]
        /\ Current(l.data, ArrFile)
        /\ cache' = [cache EXCEPT ![ArrFile] = l.data]
        /\ UNCHANGED <<ui, tree, selected, pane, reading, pending, Others>>
    BY <1>8 DEF ArrLoaded, Awaited, NextPc, Carried
  <2>2. Go(l, "info") \in Tasks /\ l \in Tasks /\ ArrFile \in Files
    BY GoFacts, WebClientAssumption DEF Types, Pcs, Asks
  <2>3. Types'
    BY <2>1, <2>2 DEF Types, Tasks
  <2>4. Places' /\ WriteAlone' /\ NotYetShown' /\ Carried'
    BY <2>1 DEF Types, Tasks, Places, WriteAlone, NotYetShown, Carried, Current, Entry, Go
  <2>5. CacheOfItsFile' /\ PaneIsSelected'
    BY <2>1, <2>2 DEF Types, CacheOfItsFile, PaneIsSelected, PaneOfSelected, Current, Entry
  <2>6. ~mixed => ~reading /\ ~Running("read")
    BY <2>1 DEF NotYetShown, Places
  <2>7. ReadsWhatIsMissing'
    BY <2>1, <2>6 DEF ReadsWhatIsMissing
  <2>8. OfThisCard' /\ AsOnCard'
    BY <2>1, <2>2, <2>6
       DEF Types, Tasks, OfThisCard, AsOnCard, Overwritten, Unknowing, Current, Entry, Go
  <2> QED BY <2>3, <2>4, <2>5, <2>7, <2>8
<1>9. ASSUME TreeLoaded PROVE PageInv'
  <2>1. /\ l.pc = "tree" /\ task' = [task EXCEPT !["conn"] = Idle] /\ tree' = TRUE
        /\ UNCHANGED <<ui, selected, cache, pane, reading, pending, Others>>
    BY <1>9 DEF TreeLoaded, Awaited, Ends
  <2>2. Idle \in Tasks
    BY DEF NoEntry, Entries, Tasks, Pcs, Names, Idle
  <2>3. Types'
    BY <2>1, <2>2 DEF Types
  <2>4. Places' /\ WriteAlone' /\ NotYetShown' /\ Carried'
    BY <2>1 DEF Types, Tasks, Places, WriteAlone, NotYetShown, Carried, Current, Entry, Idle
  <2>5. ReadsWhatIsMissing' /\ CacheOfItsFile' /\ PaneIsSelected' /\ OfThisCard' /\ AsOnCard'
    BY <2>1, <2>2
       DEF Types, Tasks, ReadsWhatIsMissing, CacheOfItsFile, PaneIsSelected, PaneOfSelected,
                OfThisCard, AsOnCard, Overwritten, Unknowing, Idle
  <2> QED BY <2>3, <2>4, <2>5
<1> QED BY <1>1, <1>2, <1>3, <1>4, <1>5, <1>6, <1>7, <1>8, <1>9 DEF ConnStep

\* What the patient user clicks.
LEMMA UserKeeps == ASSUME PageInv, Patient, User PROVE PageInv'
<1> USE DEF PageInv, shown, server, Running
<1>1. ASSUME PressConnect PROVE PageInv'
  <2>1. /\ task["conn"].pc = "idle" /\ task["write"].pc = "idle"
        /\ task' = [task EXCEPT !["conn"] = Go(task["conn"], "connect")]
        /\ UNCHANGED <<server, tree, selected, cache, pane, reading, pending, mixed, torn>>
    BY <1>1 DEF PressConnect, Acts, NextPc
  <2>2. Go(task["conn"], "connect") \in Tasks
    BY GoFacts DEF Types, Pcs, Asks
  <2>3. Types'
    BY <2>1, <2>2 DEF Types
  <2>4. Places' /\ WriteAlone' /\ NotYetShown' /\ Carried'
    BY <2>1 DEF Types, Tasks, Places, WriteAlone, NotYetShown, Carried, Current, Entry, Go
  <2>5. ReadsWhatIsMissing' /\ CacheOfItsFile' /\ PaneIsSelected' /\ OfThisCard' /\ AsOnCard'
    BY <2>1 DEF Types, Tasks, ReadsWhatIsMissing, CacheOfItsFile, PaneIsSelected, PaneOfSelected,
                OfThisCard, AsOnCard, Overwritten, Unknowing, Go
  <2> QED BY <2>3, <2>4, <2>5
<1>2. ASSUME PressRefresh PROVE PageInv'
  <2>1. /\ task["disc"].pc = "idle" /\ task["write"].pc = "idle"
        /\ task' = [task EXCEPT !["disc"] = Go(task["disc"], "disconnect")]
        /\ UNCHANGED <<server, shown, mixed, torn>>
    BY <1>2 DEF PressRefresh, Acts, NextPc
  <2>2. Go(task["disc"], "disconnect") \in Tasks
    BY GoFacts DEF Types, Pcs, Asks
  <2>3. Types'
    BY <2>1, <2>2 DEF Types
  <2>4. Places' /\ WriteAlone' /\ NotYetShown' /\ Carried'
    BY <2>1 DEF Types, Tasks, Places, WriteAlone, NotYetShown, Carried, Current, Entry, Go
  <2>5. ReadsWhatIsMissing' /\ CacheOfItsFile' /\ PaneIsSelected' /\ OfThisCard' /\ AsOnCard'
    BY <2>1 DEF Types, Tasks, ReadsWhatIsMissing, CacheOfItsFile, PaneIsSelected, PaneOfSelected,
                OfThisCard, AsOnCard, Overwritten, Unknowing, Go
  <2> QED BY <2>3, <2>4, <2>5
<1>3. ASSUME NEW f \in Files, Click(f) PROVE PageInv'
  <2>1. /\ tree /\ task["write"].pc = "idle" /\ selected' = f
        /\ UNCHANGED <<server, ui, tree, cache, mixed, torn>>
        /\ f # Nobody /\ f \in Names
    BY <1>3, WebClientAssumption DEF Click, Acts, Names
  <2>2. CASE cache[f].st = "ok"
    <3>1. pane' = cache[f] /\ UNCHANGED <<reading, pending, task>>
      BY <1>3, <2>2 DEF Click
    <3>2. Types' /\ Places' /\ WriteAlone' /\ NotYetShown' /\ Carried'
      BY <2>1, <3>1 DEF Types, Places, WriteAlone, NotYetShown, Carried, Current
    <3>3. ReadsWhatIsMissing' /\ CacheOfItsFile' /\ PaneIsSelected' /\ OfThisCard' /\ AsOnCard'
      BY <2>1, <3>1 DEF ReadsWhatIsMissing, CacheOfItsFile, PaneIsSelected, PaneOfSelected,
                OfThisCard, AsOnCard, Overwritten, Unknowing
    <3> QED BY <3>2, <3>3
  <2>3. CASE cache[f].st # "ok" /\ reading
    <3>1. pending' = f /\ UNCHANGED <<reading, pane, task>>
      BY <1>3, <2>3 DEF Click
    <3>2. Types' /\ Places' /\ WriteAlone' /\ NotYetShown' /\ Carried'
      BY <2>1, <3>1 DEF Types, Places, WriteAlone, NotYetShown, Carried, Current
    <3>3. ReadsWhatIsMissing' /\ CacheOfItsFile' /\ PaneIsSelected' /\ OfThisCard' /\ AsOnCard'
      BY <2>1, <2>3, <3>1 DEF ReadsWhatIsMissing, CacheOfItsFile, PaneIsSelected, PaneOfSelected,
                OfThisCard, AsOnCard, Overwritten, Unknowing
    <3> QED BY <3>2, <3>3
  <2>4. CASE cache[f].st # "ok" /\ ~reading
    <3> DEFINE t == [Idle EXCEPT !.pc = "read", !.file = f]
    <3>1. /\ reading' = TRUE /\ pending' = Nobody /\ pane' = Reading(f)
          /\ task' = [task EXCEPT !["read"] = t]
      BY <1>3, <2>4 DEF Click, StartReading
    <3>2. t \in Tasks /\ t.pc = "read" /\ t.file = f /\ t.resp = "none"
          /\ Reading(f) \in Entries /\ Reading(f).st = "reading"
      BY <2>1 DEF Reading, NoEntry, Idle, Tasks, Entries, Pcs, Asks, Names
    <3> HIDE DEF t
    <3>3. Types'
      BY <2>1, <3>1, <3>2 DEF Types, Names
    <3>4. Places' /\ WriteAlone' /\ NotYetShown' /\ Carried'
      BY <2>1, <3>1, <3>2 DEF Types, Places, WriteAlone, NotYetShown, Carried, Current, Entry
    <3>5. ReadsWhatIsMissing' /\ CacheOfItsFile' /\ PaneIsSelected' /\ OfThisCard' /\ AsOnCard'
      BY <2>1, <2>4, <3>1, <3>2 DEF Types, ReadsWhatIsMissing, CacheOfItsFile, PaneIsSelected,
                PaneOfSelected, OfThisCard, AsOnCard, Overwritten, Unknowing
    <3> QED BY <3>3, <3>4, <3>5
  <2> QED BY <2>2, <2>3, <2>4
<1>4. ASSUME NEW how \in Writers, Submit(how) PROVE PageInv'
  <2> DEFINE t == [Idle EXCEPT !.pc = "write", !.how = how, !.file = selected]
  <2>1. /\ task["write"].pc = "idle" /\ task["conn"].pc = "idle" /\ task["disc"].pc = "idle"
        /\ selected \in Files /\ cache[selected].st = "ok"
        /\ task' = [task EXCEPT !["write"] = t]
        /\ UNCHANGED <<server, shown, mixed, torn>>
    BY <1>4 DEF Submit, Acts, Types, Names
  <2>2. t \in Tasks /\ t.pc = "write" /\ t.file = selected /\ t.resp = "none" /\ t.data = NoEntry
    BY WebClientAssumption DEF Types, NoEntry, Idle, Tasks, Entries, Pcs, Asks, Names
  <2> HIDE DEF t
  <2>3. Types'
    BY <2>1, <2>2 DEF Types
  <2>4. Places' /\ WriteAlone' /\ NotYetShown' /\ Carried'
    BY <2>1, <2>2 DEF Types, Places, WriteAlone, NotYetShown, Carried, Current, Entry
  <2>5. ReadsWhatIsMissing' /\ CacheOfItsFile' /\ PaneIsSelected' /\ OfThisCard' /\ AsOnCard'
    BY <2>1, <2>2, WebClientAssumption
       DEF Types, ReadsWhatIsMissing, CacheOfItsFile, PaneIsSelected, PaneOfSelected,
           OfThisCard, AsOnCard, Overwritten, Unknowing
  <2> QED BY <2>3, <2>4, <2>5
<1> QED BY <1>1, <1>2, <1>3, <1>4 DEF User

-----------------------------------------------------------------------------
\* The server's part of a request.

\* A request is answered: with the file's content, or by changing the card or its content.
LEMMA ServeKeeps == ASSUME PageInv, NEW k \in Kinds, Serve(k) PROVE PageInv'
<1> USE DEF PageInv, shown, server, Running
<1> DEFINE l == task[k]
           file == IF l.pc = "arr" THEN ArrFile ELSE l.file
           reads == l.pc \in {"read", "reread", "arr"}
<1>1. /\ l.pc \in Asks /\ l.resp = "none" /\ UNCHANGED <<shown, mixed>>
      /\ l \in Tasks /\ (reads \/ l.pc = "write" => file \in Files)
      /\ l.pc \in {"read", "reread", "write"} => file = l.file
      /\ l.pc = "read" <=> k = "read" 
      /\ l.pc \in {"write", "reread"} <=> k = "write"
      /\ l.pc = "disconnect" <=> k = "disc"
      /\ card \in Cards /\ content[card] \in [Files -> Nat]
  BY WebClientAssumption DEF Serve, Types, Places, WriteAlone, Asks
<1>2. ASSUME NEW r \in {"ok", "error", "lost", "notfound"}, NEW d \in Entries, Respond(k, r, d)
      PROVE  /\ task' \in [Kinds -> Tasks]
             /\ \A j \in Kinds : task'[j].pc = task[j].pc /\ task'[j].file = task[j].file
             /\ \A j \in Kinds \ {k} : task'[j] = task[j]
             /\ task'[k].resp = r /\ task'[k].data = d
  BY <1>2, <1>1 DEF Types, Tasks, Respond
<1>3. \A f \in Files : Data(f) \in Entries
  BY <1>1 DEF Data, Entry, Entries, Names
<1>4. Kept(k) \in Entries
  BY <1>1 DEF Tasks, Kept
<1> HIDE DEF l, file, reads
\* The card and its content stay.
<1>5. ASSUME NEW r \in {"ok", "error", "lost", "notfound"}, NEW d \in Entries, Respond(k, r, d),
             UNCHANGED <<card, content, torn>>, open' \in BOOLEAN,
             d = IF r = "ok" /\ reads THEN Data(file) ELSE Kept(k),
             r = "ok" => l.pc \notin {"connect", "write"}
      PROVE  PageInv'
  <2>1. Types'
    BY <1>1, <1>2, <1>5 DEF Types
  <2>2. Places' /\ WriteAlone' /\ NotYetShown'
    BY <1>1, <1>2, <1>5 DEF Places, WriteAlone, NotYetShown
  <2>3. Carried'
    BY SMTT(30), <1>1, <1>2, <1>5 DEF Carried, Current, Entry, Data, Kept, Places, l, file, reads
  <2>4. ReadsWhatIsMissing' /\ CacheOfItsFile' /\ PaneIsSelected'
    BY <1>1, <1>2, <1>5 DEF ReadsWhatIsMissing, CacheOfItsFile, PaneIsSelected, PaneOfSelected
  <2>5. OfThisCard'
    BY <1>1, <1>2, <1>5 DEF OfThisCard, Unknowing, Data, Entry, Kept, Places, l, file, reads
  <2>6. AsOnCard'
    BY SMTT(30), <1>1, <1>2, <1>5 DEF AsOnCard, Overwritten, Data, Entry, Kept, Places, l, file, reads
  <2> QED BY <2>1, <2>2, <2>3, <2>4, <2>5, <2>6
\* A connection to any card.
<1>6. ASSUME l.pc = "connect", card' \in Cards, open' = TRUE, Respond(k, "ok", Kept(k)),
             UNCHANGED <<content, torn>>
      PROVE  PageInv'
  <2>0. k = "conn"
    BY <1>1, <1>6 DEF Places, l
  <2>1. Types'
    BY <1>1, <1>2, <1>4, <1>6 DEF Types
  <2>2. Places' /\ WriteAlone' /\ NotYetShown'
    BY <1>1, <1>2, <1>4, <1>6 DEF Places, WriteAlone, NotYetShown
  <2>3. Carried'
    BY <1>1, <1>2, <1>4, <1>6, <2>0 DEF Carried, Current, Entry, WriteAlone, Places, l
  <2>4. ReadsWhatIsMissing' /\ CacheOfItsFile' /\ PaneIsSelected'
    BY <1>1, <1>2, <1>4, <1>6 DEF ReadsWhatIsMissing, CacheOfItsFile, PaneIsSelected, PaneOfSelected
  <2>5. OfThisCard'
    BY <1>1, <1>2, <1>4, <1>6, <2>0 DEF OfThisCard, Unknowing, l
  <2>6. AsOnCard'
    BY <1>1, <1>2, <1>4, <1>6, <2>0 DEF AsOnCard, Overwritten
  <2> QED BY <2>1, <2>2, <2>3, <2>4, <2>5, <2>6
\* A write, done or failed half-way.
<1>7. ASSUME NEW r \in {"ok", "error", "lost", "notfound"}, NEW d \in Entries, Respond(k, r, d),
             l.pc = "write", content' = [content EXCEPT ![card][file] = @ + 1], card' = card,
             open' \in BOOLEAN,
             IF r = "ok" THEN d = Entry(file, card, content'[card][file]) /\ torn' = torn
                         ELSE d = Kept(k) /\ torn' = torn \cup {file}
      PROVE  PageInv'
  <2>0. k = "write" /\ file = l.file /\ file \in Files
    BY <1>1, <1>7
  <2>1. Types'
    BY <1>1, <1>2, <1>7, <2>0 DEF Types
  <2>2. Places' /\ WriteAlone' /\ NotYetShown'
    BY <1>1, <1>2, <1>7 DEF Places, WriteAlone, NotYetShown
  <2>3. Carried'
    <3>1. task'["conn"].pc = "idle" /\ task'["read"] = task["read"] /\ task'["write"].file = file
      BY <1>1, <1>2, <1>7, <2>0 DEF WriteAlone, l
    <3>2. r # "ok" => task'["write"].data = NoEntry
      BY <1>1, <1>2, <1>7, <2>0 DEF Carried, Kept, l
    <3>3. r = "ok" => task'["write"].data = Entry(file, card', content'[card'][file])
          /\ task'["write"].resp = "ok"
      BY <1>2, <1>7, <2>0
    <3> QED BY <3>1, <3>2, <3>3 DEF Carried, Current
  <2>4. ReadsWhatIsMissing' /\ CacheOfItsFile' /\ PaneIsSelected'
    BY <1>1, <1>2, <1>7 DEF ReadsWhatIsMissing, CacheOfItsFile, PaneIsSelected, PaneOfSelected
  <2>5. OfThisCard'
    BY <1>1, <1>2, <1>7, <2>0 DEF OfThisCard, Unknowing
  <2>6. AsOnCard'
    <3> SUFFICES ASSUME ~mixed PROVE AsOnCard'
      BY <1>1 DEF AsOnCard
    <3>1. /\ \A c \in Cards, f \in Files : c # card \/ f # file => content'[c][f] = content[c][f]
          /\ torn \subseteq torn'
      BY <1>7, <2>0 DEF Types
    <3>2. ASSUME NEW f \in Files \ torn', cache[f].st = "ok", ~Overwritten(f)'
          PROVE  cache[f].card \in Cards /\ cache[f].ver = content'[cache[f].card][f]
      <4>1. f # file
        BY <1>1, <1>2, <1>7, <2>0, <3>2 DEF Overwritten, l
      <4>2. ~Overwritten(f) /\ f \in Files \ torn
        BY <2>0, <3>1, <3>2, <4>1 DEF Overwritten, l
      <4> QED BY <3>1, <3>2, <4>1, <4>2 DEF AsOnCard
    <3>3. ASSUME Running("read"), task["read"].resp = "ok", task["read"].file \notin torn'
          PROVE  /\ task["read"].data.card \in Cards
                 /\ task["read"].data.ver = content'[task["read"].data.card][task["read"].file]
      <4>1. task["read"].file # file /\ task["read"].file \in Files
        BY <1>1, <1>7, <2>0, <3>3 DEF ReadsWhatIsMissing, Places, l
      <4> QED BY <3>1, <3>3, <4>1 DEF AsOnCard
    <3>4. cache' = cache /\ task'["read"] = task["read"]
      BY <1>1, <1>2, <1>7, <2>0
    <3> QED BY <3>2, <3>3, <3>4 DEF AsOnCard
  <2> QED BY <2>1, <2>2, <2>3, <2>4, <2>5, <2>6
<1>8. CASE l.pc = "connect" /\ open' = TRUE /\ card' \in Cards /\ Respond(k, "ok", Kept(k))
           /\ UNCHANGED <<content, torn>>
  BY <1>6, <1>8
<1>9. CASE l.pc = "write" /\ open /\ content' = [content EXCEPT ![card][file] = @ + 1]
           /\ Respond(k, "ok", Entry(file, card, content'[card][file])) /\ UNCHANGED <<open, card, torn>>
  <2>1. Entry(file, card, content'[card][file]) \in Entries
    BY <1>1, <1>9 DEF Types, Entry, Entries, Names
  <2> QED BY <1>7, <1>9, <2>1 DEF Types
<1>10. CASE \E r \in {"error", "lost", "notfound"} :
              /\ Respond(k, r, Kept(k))
              /\ open' \in BOOLEAN /\ card' = card
              /\ \/ UNCHANGED <<content, torn>>
                 \/ /\ l.pc = "write" /\ content' = [content EXCEPT ![card][file] = @ + 1]
                    /\ torn' = torn \cup {file}
  <2>1. PICK r \in {"error", "lost", "notfound"} :
              /\ Respond(k, r, Kept(k))
              /\ open' \in BOOLEAN /\ card' = card
              /\ \/ UNCHANGED <<content, torn>>
                 \/ /\ l.pc = "write" /\ content' = [content EXCEPT ![card][file] = @ + 1]
                    /\ torn' = torn \cup {file}
    BY <1>10
  <2>2. CASE UNCHANGED <<content, torn>>
    BY <1>4, <1>5, <2>1, <2>2
  <2>3. CASE l.pc = "write" /\ content' = [content EXCEPT ![card][file] = @ + 1]
             /\ torn' = torn \cup {file}
    BY <1>4, <1>7, <2>1, <2>3
  <2> QED BY <2>1, <2>2, <2>3
<1>11. CASE \E r \in {"ok", "error"} :
              /\ Respond(k, r, IF r = "ok" /\ reads THEN Data(file) ELSE Kept(k))
              /\ open' \in BOOLEAN /\ UNCHANGED <<card, content, torn>>
              /\ r = "ok" => l.pc \notin {"connect", "write"}
  <2>1. \A r : (IF r = "ok" /\ reads THEN Data(file) ELSE Kept(k)) \in Entries
    BY <1>1, <1>3, <1>4
  <2> QED BY <1>5, <1>11, <2>1
<1>12. open \in BOOLEAN
  BY DEF Types
<1> QED BY <1>8, <1>9, <1>10, <1>11, <1>12 DEF Serve, l, file, reads

\* One step of the page, the server or the user.
LEMMA PageKeeps == Patient /\ PageInv /\ [Next]_vars => PageInv'
<1>1. ASSUME PageInv, UNCHANGED vars PROVE PageInv'
  <2>1. UNCHANGED <<server, shown, task, mixed, torn>>
    BY <1>1 DEF vars
  <2>2. Types' /\ Places' /\ WriteAlone' /\ NotYetShown' /\ Carried'
    BY <1>1, <2>1
       DEF PageInv, server, shown, Types, Places, WriteAlone, NotYetShown, Carried, Current, Running
  <2>3. ReadsWhatIsMissing' /\ CacheOfItsFile' /\ PaneIsSelected' /\ OfThisCard' /\ AsOnCard'
    BY <1>1, <2>1 DEF PageInv, server, shown, ReadsWhatIsMissing, CacheOfItsFile, PaneIsSelected,
                      PaneOfSelected, OfThisCard, AsOnCard, Overwritten, Unknowing, Running
  <2> QED BY <2>2, <2>3 DEF PageInv
<1> QED BY <1>1, ServeKeeps, LossStepKeeps, ConnStepKeeps, ReadStepKeeps, WriteStepKeeps,
           DiscStepKeeps, UserKeeps DEF Next

\* The invariant holds for a user who is Patient: lets a write or a disconnection end before
\* the next click, and writes nothing while the page connects.  The page enforces none of it.
LEMMA PageCorrect == ASSUME Patient PROVE Spec => []PageInv
<1> QED BY InitPage, PageKeeps, PTL DEF Spec

\* For such a user every value in the cache is that of its file, whatever is read, written,
\* lost and connected in between (what tlvWrite files otherwise is WebClient_tlv's trace).
THEOREM CachesItsFile == ASSUME Patient PROVE Spec => []CacheOfItsFile
<1>1. PageInv => CacheOfItsFile
  BY DEF PageInv
<1> QED BY <1>1, PageCorrect, PTL

\* For such a user the pane shows no other file's data for the selected file, but while that
\* one waits to be read.  One who clicks another file during a write sees the written file's
\* data under the other's name: submitWrite shows what it has read again without asking what
\* is selected by then.
THEOREM PaneShowsSelected == ASSUME Patient PROVE Spec => []PaneOfSelected
<1>1. PageInv => PaneOfSelected
  BY DEF PageInv, PaneIsSelected
<1> QED BY <1>1, PageCorrect, PTL

\* For such a user what the cache holds is of the connected card, and what that card holds, as
\* far as no request of the last connection was still under way at this one.
THEOREM CachedIsCurrent == ASSUME Patient PROVE Spec => []CacheIsCurrent
<1>1. PageInv => CacheIsCurrent
  <2> SUFFICES ASSUME PageInv, open, ~mixed PROVE CacheIsCurrent
    BY DEF CacheIsCurrent
  <2>1. ASSUME ~Running("conn"), NEW f \in Files, cache[f].st = "ok" PROVE cache[f].card = card
    BY <2>1 DEF PageInv, OfThisCard, Unknowing, Running
  <2>2. ASSUME NEW f \in Files \ torn, cache[f].st = "ok", cache[f].card = card,
               ~(Running("write") /\ f \in {task["write"].file, selected})
        PROVE  cache[f].ver = content[card][f]
    BY <2>2 DEF PageInv, AsOnCard, Overwritten, Running
  <2> QED BY <2>1, <2>2 DEF CacheIsCurrent
<1> QED BY <1>1, PageCorrect, PTL

-----------------------------------------------------------------------------
\* Users who do not wait, on a card without BER-TLV files.

\* Every coroutine carries data of its own file: submitWrite never asks selectedFile again.
OwnTask(k, t) ==
  CASE k = "read" ->
         /\ t.pc \in {"idle", "read", "poll"}
         /\ t.pc # "idle" => t.file \in Files /\ (t.resp = "ok" => t.data.of = t.file)
    [] k = "write" ->
         /\ t.pc \in {"idle", "write", "poll", "wait", "reread", "last"}
         /\ t.pc # "idle" =>
              t.how = "write" /\ t.file \in Files /\ (t.data.st = "ok" => t.data.of = t.file)
    [] k = "conn" ->
         /\ t.pc \notin {"read", "poll", "write", "wait", "reread", "last", "disconnect"}
         /\ t.pc = "arr" /\ t.resp = "ok" => t.data.of = ArrFile
    [] k = "disc" -> t.pc \in {"idle", "disconnect", "clear"}

OwnFiles == Types /\ (\A k \in Kinds : OwnTask(k, task[k])) /\ CacheOfItsFile

\* The variables that the coroutines share.
SharedTypes ==
  /\ card \in Cards /\ content \in [Cards -> [Files -> Nat]]
  /\ cache \in [Files -> Entries] /\ pane \in Entries
  /\ selected \in Names /\ pending \in Names
  /\ reading \in BOOLEAN /\ mixed \in BOOLEAN /\ open \in BOOLEAN /\ tree \in BOOLEAN
  /\ torn \subseteq Files

\* A step of one coroutine to a state with data of its own file.
LEMMA OwnStep ==
  ASSUME OwnFiles, NEW k \in Kinds, NEW t \in Tasks, task' = [task EXCEPT ![k] = t],
         OwnTask(k, t), SharedTypes', CacheOfItsFile'
  PROVE  OwnFiles'
<1>1. task \in [Kinds -> Tasks]
  BY DEF OwnFiles, Types
<1>2. task' \in [Kinds -> Tasks] /\ \A j \in Kinds : task'[j] = IF j = k THEN t ELSE task[j]
  BY <1>1
<1>3. \A j \in Kinds : OwnTask(j, task'[j])
  BY <1>2, Zenon DEF OwnFiles
<1>4. Types'
  BY <1>2 DEF Types, SharedTypes
<1>5. (\A j \in Kinds : OwnTask(j, task[j]))'
  BY <1>3 DEF OwnTask
<1> QED BY <1>4, <1>5 DEF OwnFiles

\* The state that an ended or a restarted coroutine is in.
LEMMA IdleFacts ==
  /\ NoEntry \in Entries /\ NoEntry.st = "none"
  /\ Idle \in Tasks /\ \A k \in Kinds : OwnTask(k, Idle)
  /\ \A t \in Tasks, pc \in Pcs :
       LET g == Go(t, pc) IN /\ g \in Tasks /\ g.pc = pc /\ g.resp = "none" /\ g.file = t.file
                             /\ g.data = t.data /\ g.how = t.how
<1>1. \A k \in Kinds : OwnTask(k, Idle)
  BY GoFacts DEF OwnTask
<1> QED BY <1>1, GoFacts

\* A read files its answer under its own file, and the next one has its own.
LEMMA ReadKeepsOwn == ASSUME OwnFiles, ReadStep PROVE OwnFiles'
<1> USE DEF shown, Others, server
<1> DEFINE l == task["read"]
<1>1. l \in Tasks /\ SharedTypes /\ OwnTask("read", l) /\ CacheOfItsFile
  BY DEF OwnFiles, Types, SharedTypes
<1>2. CASE ReadAnswered
  <2>1. task' = [task EXCEPT !["read"] = [l EXCEPT !.pc = "poll"]] /\ l.pc = "read"
        /\ UNCHANGED <<shown, Others>>
    BY <1>2 DEF ReadAnswered, Awaited, OwnFiles, Types
  <2>2. [l EXCEPT !.pc = "poll"] \in Tasks /\ OwnTask("read", [l EXCEPT !.pc = "poll"])
    BY <1>1, <2>1 DEF Tasks, Pcs, OwnTask
  <2> QED BY <1>1, <2>1, <2>2, OwnStep DEF SharedTypes, CacheOfItsFile
<1>3. CASE ReadDone
  <2> DEFINE entry == IF l.resp = "ok" THEN l.data ELSE Failed(l.file)
             next == pending # Nobody /\ pending # l.file
  <2>1. /\ l.pc = "poll" /\ l.file \in Files
        /\ cache' = [cache EXCEPT ![l.file] = entry]
        /\ UNCHANGED <<ui, tree, selected, Others>>
    BY <1>1, <1>3 DEF ReadDone, Awaited, CachedUnder, OwnTask
  <2>2. entry \in Entries /\ (entry.st = "ok" => entry.of = l.file)
    BY <1>1, <2>1 DEF Tasks, Entries, Failed, NoEntry, OwnTask, Names
  <2>3. CacheOfItsFile'
    BY <1>1, <2>1, <2>2 DEF CacheOfItsFile, SharedTypes
  <2>4. PICK t \in Tasks : task' = [task EXCEPT !["read"] = t] /\ OwnTask("read", t)
    <3>1. CASE next /\ selected = pending
      <4>1. task' = [[task EXCEPT !["read"] = Idle] EXCEPT !["read"] = [Idle EXCEPT !.pc = "read", !.file = pending]]
        BY <1>3, <3>1 DEF ReadDone, StartReading
      <4>2. task' = [task EXCEPT !["read"] = [Idle EXCEPT !.pc = "read", !.file = pending]]
        BY <4>1 DEF OwnFiles, Types
      <4>3. pending \in Files
        BY <1>1, <3>1 DEF SharedTypes, Names
      <4>4. [Idle EXCEPT !.pc = "read", !.file = pending] \in Tasks
            /\ OwnTask("read", [Idle EXCEPT !.pc = "read", !.file = pending])
        BY <4>3, IdleFacts DEF Tasks, Pcs, Asks, Names, OwnTask, Idle
      <4> QED BY <4>2, <4>4
    <3>2. CASE ~(next /\ selected = pending)
      <4>1. task' = [task EXCEPT !["read"] = Idle]
        BY <1>3, <3>2 DEF ReadDone, Ends
      <4> QED BY <4>1, IdleFacts
    <3> QED BY <3>1, <3>2
  <2>5. Reading(pending) \in Entries
    BY <1>1 DEF SharedTypes, Reading, NoEntry, Entries, Names
  <2>6. pane' \in Entries /\ pending' \in Names /\ reading' \in BOOLEAN
    BY <1>1, <1>3, <2>2, <2>5
       DEF ReadDone, StartReading, ReadingAfter, ShowIf, StillSelected, SharedTypes, Names
  <2>7. SharedTypes'
    BY <1>1, <2>1, <2>2, <2>6 DEF SharedTypes
  <2> QED BY <2>3, <2>4, <2>7, OwnStep
<1> QED BY <1>2, <1>3 DEF ReadStep

\* submitWrite drops, reads again and stores the entry of one file.
LEMMA WriteKeepsOwn == ASSUME OwnFiles, WriteStep PROVE OwnFiles'
<1> USE DEF shown, Others, server
<1> DEFINE l == task["write"]
<1>1. l \in Tasks /\ SharedTypes /\ OwnTask("write", l) /\ CacheOfItsFile
  BY DEF OwnFiles, Types, SharedTypes
<1>2. l.pc \in {"idle", "write", "poll", "wait", "reread", "last"}
      /\ (l.pc # "idle" => /\ l.how = "write" /\ l.file \in Files /\ Target(l) = l.file
                           /\ (l.data.st = "ok" => l.data.of = l.file))
  BY <1>1 DEF OwnTask, Target
<1>3. PICK t \in Tasks : task' = [task EXCEPT !["write"] = t] /\ OwnTask("write", t)
  <2>1. \A pc \in {"poll", "last"} :
          l.pc # "idle" => [l EXCEPT !.pc = pc] \in Tasks /\ OwnTask("write", [l EXCEPT !.pc = pc])
    BY <1>1, <1>2, GoFacts DEF Pcs, OwnTask, Tasks
  <2>2. l.pc # "idle" => Go(l, "wait") \in Tasks /\ OwnTask("write", Go(l, "wait"))
    <3>1. LET g == Go(l, "wait") IN /\ g \in Tasks /\ g.pc = "wait" /\ g.file = l.file
                                   /\ g.data = l.data /\ g.how = l.how
      BY <1>1, GoFacts DEF Pcs
    <3> QED BY <1>1, <1>2, <3>1 DEF OwnTask
  <2>3. l.pc # "idle" => [Go(l, "reread") EXCEPT !.file = l.file] \in Tasks
                         /\ OwnTask("write", [Go(l, "reread") EXCEPT !.file = l.file])
    <3> DEFINE g == Go(l, "reread")
               t == [g EXCEPT !.file = l.file]
    <3>0. l \in Tasks /\ "reread" \in Pcs /\ l.file \in Names
      BY <1>1 DEF Pcs, Asks, Tasks
    <3>1. /\ g \in Tasks /\ g.pc = "reread" /\ g.file = l.file /\ g.data = l.data /\ g.how = l.how
          /\ l.file \in Names
      BY <3>0, GoOn
    <3> HIDE DEF g
    <3>2. t \in Tasks /\ t.pc = "reread" /\ t.file = l.file /\ t.data = l.data /\ t.how = l.how
      BY <3>1 DEF Tasks
    <3>3. l.pc # "idle" => OwnTask("write", t)
      <4> HIDE DEF t
      <4> QED BY <1>1, <1>2, <3>2 DEF OwnTask
    <3> QED BY <3>2, <3>3 DEF g
  <2>4. CASE WriteAnswered
    BY <2>1, <2>4 DEF WriteAnswered, Awaited, OwnFiles, Types
  <2>5. CASE Reread
    BY <2>1, <2>5 DEF Reread, Awaited, OwnFiles, Types
  <2>6. CASE WritePolled
    BY <2>2, <2>6, IdleFacts DEF WritePolled, Awaited, NextPc, Ends
  <2>7. CASE WriteWaited
    BY <1>2, <2>3, <2>7, IdleFacts DEF WriteWaited, Awaited, Ends
  <2>8. CASE WriteDone
    BY <2>8, IdleFacts DEF WriteDone, Ends
  <2> QED BY <2>4, <2>5, <2>6, <2>7, <2>8 DEF WriteStep
<1>4. /\ UNCHANGED <<ui, tree, selected, reading, pending, Others>>
      /\ \/ UNCHANGED <<cache, pane>>
         \/ cache' = [cache EXCEPT ![l.file] = NoEntry] /\ pane' = pane
         \/ /\ l.data \in Entries /\ l.file \in Files /\ (l.data.st = "ok" => l.data.of = l.file)
            /\ cache' = [cache EXCEPT ![l.file] = l.data] /\ pane' = l.data
  <2>1. CASE WriteAnswered \/ Reread \/ WriteWaited
    BY <2>1 DEF WriteAnswered, Reread, WriteWaited
  <2>2. CASE WritePolled
    BY <1>2, <2>2 DEF WritePolled, Awaited, Drop
  <2>3. CASE WriteDone
    BY <1>1, <1>2, <2>3 DEF WriteDone, Awaited, Stored, Tasks
  <2> QED BY <2>1, <2>2, <2>3 DEF WriteStep
<1>5. SharedTypes' /\ CacheOfItsFile'
  BY <1>1, <1>4, IdleFacts DEF SharedTypes, CacheOfItsFile
<1> QED BY <1>3, <1>5, OwnStep

\* Connecting stores the access rules only, as theirs.
LEMMA ConnKeepsOwn == ASSUME OwnFiles, ConnStep PROVE OwnFiles'
<1> USE DEF shown, Others, server
<1> DEFINE l == task["conn"]
<1>1. l \in Tasks /\ SharedTypes /\ OwnTask("conn", l) /\ CacheOfItsFile /\ ArrFile \in Files
  BY WebClientAssumption DEF OwnFiles, Types, SharedTypes
<1>2. PICK t \in Tasks : task' = [task EXCEPT !["conn"] = t] /\ OwnTask("conn", t)
  <2>1. \A pc \in {"clear", "check", "reset", "fallback", "cfun", "arr", "info", "tree"} :
          Go(l, pc) \in Tasks /\ OwnTask("conn", Go(l, pc))
    <3> SUFFICES ASSUME NEW pc \in {"clear", "check", "reset", "fallback", "cfun", "arr", "info", "tree"}
                 PROVE  Go(l, pc) \in Tasks /\ OwnTask("conn", Go(l, pc))
      OBVIOUS
    <3>1. pc \in Pcs
      BY DEF Pcs, Asks
    <3> QED BY <1>1, <3>1, IdleFacts DEF OwnTask
  <2>2. \/ task' = [task EXCEPT !["conn"] = Idle]
        \/ \E pc \in {"clear", "check", "reset", "fallback", "cfun", "arr", "info", "tree"} :
             task' = [task EXCEPT !["conn"] = Go(l, pc)]
    BY DEF ConnStep, Connected, AppleReset, ArrLoaded, Welcome, TreeLoaded, Checked, FellBack,
           NextPc, Ends
  <2> QED BY <2>1, <2>2, IdleFacts
<1>3. /\ server' = server /\ torn' \subseteq torn /\ mixed' \in BOOLEAN /\ tree' \in BOOLEAN
      /\ reading' = reading /\ pending' = pending
      /\ \/ UNCHANGED <<cache, pane, selected>>
         \/ cache' = [f \in Files |-> NoEntry] /\ pane' = NoEntry /\ selected' = Nobody
         \/ /\ l.data \in Entries /\ l.data.of = ArrFile /\ UNCHANGED <<pane, selected>>
            /\ cache' = [cache EXCEPT ![ArrFile] = l.data]
  <2>1. CASE Connected
    BY <1>1, <2>1 DEF Connected, ResetData, SharedTypes
  <2>2. CASE ArrLoaded
    BY <1>1, <2>2 DEF ArrLoaded, Awaited, SharedTypes, OwnTask, Tasks
  <2>3. CASE AppleReset \/ Welcome \/ TreeLoaded
    BY <1>1, <2>3 DEF AppleReset, Welcome, TreeLoaded, SharedTypes
  <2>4. CASE \E next \in {"check", "reset", "fallback", "cfun", "arr", "idle"} : Checked(next) \/ FellBack(next)
    BY <1>1, <2>4 DEF Checked, FellBack, SharedTypes
  <2> QED BY <2>1, <2>2, <2>3, <2>4 DEF ConnStep
<1>4. SharedTypes' /\ CacheOfItsFile'
  BY <1>1, <1>3, IdleFacts DEF SharedTypes, CacheOfItsFile, Names
<1> QED BY <1>2, <1>4, OwnStep

\* Disconnecting stores nothing.
LEMMA DiscKeepsOwn == ASSUME OwnFiles, DiscStep PROVE OwnFiles'
<1> USE DEF shown, Others, server
<1> DEFINE l == task["disc"]
<1>1. l \in Tasks /\ SharedTypes /\ OwnTask("disc", l) /\ CacheOfItsFile
  BY DEF OwnFiles, Types, SharedTypes
<1>2. PICK t \in Tasks : task' = [task EXCEPT !["disc"] = t] /\ OwnTask("disc", t)
  <2>1. Go(l, "clear") \in Tasks /\ OwnTask("disc", Go(l, "clear"))
    BY <1>1, GoFacts DEF Pcs, OwnTask
  <2> QED BY <2>1, IdleFacts DEF DiscStep, Disconnected, DisconnectEnds, NextPc, Ends
<1>3. SharedTypes' /\ CacheOfItsFile'
  <2>1. CASE Disconnected
    BY <1>1, <2>1, IdleFacts DEF Disconnected, ResetData, SharedTypes, CacheOfItsFile, Names
  <2>2. CASE DisconnectEnds
    BY <1>1, <2>2 DEF DisconnectEnds, SharedTypes, CacheOfItsFile
  <2> QED BY <2>1, <2>2 DEF DiscStep
<1> QED BY <1>2, <1>3, OwnStep

\* Nor does a lost port.
LEMMA LossKeepsOwn == ASSUME OwnFiles, NEW k \in Kinds, LossStep(k) PROVE OwnFiles'
<1> USE DEF shown, Others, server
<1>1. PICK v \in {"done", "poll", "ports"} :
        /\ task' = [task EXCEPT ![k] = [task[k] EXCEPT !.lost = v]]
        /\ UNCHANGED <<server, tree, selected, cache, pane, reading, pending, torn, mixed>>
  BY DEF LossStep, PortLostBegin, PortLostUi, PortLostEnd, OwnFiles, Types
<1>2. task[k] \in Tasks /\ OwnTask(k, task[k])
  BY DEF OwnFiles, Types
<1>3. [task[k] EXCEPT !.lost = v] \in Tasks /\ OwnTask(k, [task[k] EXCEPT !.lost = v])
  BY <1>2 DEF Tasks, OwnTask
<1>4. SharedTypes' /\ CacheOfItsFile'
  BY <1>1 DEF OwnFiles, Types, SharedTypes, CacheOfItsFile
<1> QED BY <1>1, <1>3, <1>4, OwnStep

\* A click starts a coroutine for the file clicked, or for the one selected.
LEMMA UserKeepsOwn == ASSUME OwnFiles, Writers \subseteq {"write"}, User PROVE OwnFiles'
<1> USE DEF shown, server
<1>1. task \in [Kinds -> Tasks] /\ SharedTypes /\ CacheOfItsFile
  BY DEF OwnFiles, Types, SharedTypes
<1>2. CASE PressConnect
  <2>1. task' = [task EXCEPT !["conn"] = Go(task["conn"], "connect")] /\ SharedTypes'
        /\ CacheOfItsFile'
    BY <1>1, <1>2 DEF PressConnect, NextPc, SharedTypes, CacheOfItsFile
  <2>2. Go(task["conn"], "connect") \in Tasks /\ OwnTask("conn", Go(task["conn"], "connect"))
    <3> DEFINE l == task["conn"]
               g == Go(l, "connect")
    <3>1. l \in Tasks /\ "connect" \in Pcs
      BY <1>1 DEF Pcs, Asks
    <3> HIDE DEF l
    <3>2. g \in Tasks /\ g.pc = "connect" /\ g.resp = "none"
      BY <3>1, GoOn
    <3> QED BY <3>2 DEF OwnTask, l
  <2> QED BY <2>1, <2>2, OwnStep
<1>3. CASE PressRefresh
  <2>1. task' = [task EXCEPT !["disc"] = Go(task["disc"], "disconnect")] /\ SharedTypes'
        /\ CacheOfItsFile'
    BY <1>1, <1>3 DEF PressRefresh, NextPc, SharedTypes, CacheOfItsFile
  <2>2. Go(task["disc"], "disconnect") \in Tasks /\ OwnTask("disc", Go(task["disc"], "disconnect"))
    <3> DEFINE l == task["disc"]
               g == Go(l, "disconnect")
    <3>1. l \in Tasks /\ "disconnect" \in Pcs
      BY <1>1 DEF Pcs, Asks
    <3> HIDE DEF l
    <3>2. g \in Tasks /\ g.pc = "disconnect" /\ g.resp = "none"
      BY <3>1, GoOn
    <3> QED BY <3>2 DEF OwnTask, l
  <2> QED BY <2>1, <2>2, OwnStep
<1>4. ASSUME NEW f \in Files, Click(f) PROVE OwnFiles'
  <2>1. selected' = f /\ UNCHANGED <<server, tree, cache, mixed, torn>>
    BY <1>4 DEF Click
  <2>2. PICK t \in Tasks : task' = [task EXCEPT !["read"] = t] /\ OwnTask("read", t)
    <3>1. [Idle EXCEPT !.pc = "read", !.file = f] \in Tasks
          /\ OwnTask("read", [Idle EXCEPT !.pc = "read", !.file = f])
      BY IdleFacts DEF Tasks, Pcs, Asks, Names, OwnTask, Idle
    <3>2. task["read"] \in Tasks /\ OwnTask("read", task["read"])
          /\ task = [task EXCEPT !["read"] = task["read"]]
      BY <1>1 DEF OwnFiles
    <3>3. task' \in {task, [task EXCEPT !["read"] = [Idle EXCEPT !.pc = "read", !.file = f]]}
      BY <1>1, <1>4 DEF Click, StartReading, SharedTypes
    <3> QED BY <3>1, <3>2, <3>3
  <2>3. Reading(f) \in Entries
    BY DEF Reading, NoEntry, Entries, Names
  <2>4. pane' \in Entries /\ pending' \in Names /\ reading' \in BOOLEAN
    BY <1>1, <1>4, <2>3 DEF Click, StartReading, SharedTypes, Names
  <2>5. SharedTypes' /\ CacheOfItsFile'
    BY <1>1, <2>1, <2>4 DEF SharedTypes, CacheOfItsFile, Names
  <2> QED BY <2>2, <2>5, OwnStep
<1>5. ASSUME NEW how \in Writers, Submit(how) PROVE OwnFiles'
  <2> DEFINE t == [Idle EXCEPT !.pc = "write", !.how = how, !.file = selected]
  <2>1. task' = [task EXCEPT !["write"] = t] /\ SharedTypes' /\ CacheOfItsFile'
        /\ selected \in Files
    BY <1>1, <1>5 DEF Submit, SharedTypes, CacheOfItsFile, Names
  <2>2. how = "write"
    OBVIOUS
  <2>3. t \in Tasks /\ OwnTask("write", t)
    <3>1. Idle \in Tasks /\ Idle.data = NoEntry /\ NoEntry.st = "none"
      BY GoFacts DEF Idle
    <3>2. "write" \in Pcs /\ selected \in Names
      BY <2>1 DEF Pcs, Asks, Names
    <3>3. t \in Tasks /\ t.pc = "write" /\ t.how = "write" /\ t.file = selected /\ t.data = NoEntry
      BY <2>2, <3>1, <3>2 DEF Tasks
    <3> HIDE DEF t
    <3> QED BY <2>1, <3>1, <3>3 DEF OwnTask
  <2> HIDE DEF t
  <2> QED BY <2>1, <2>3, OwnStep
<1> QED BY <1>2, <1>3, <1>4, <1>5 DEF User

\* An answer holds the file that was asked for.
LEMMA ServeKeepsOwn == ASSUME OwnFiles, NEW k \in Kinds, Serve(k) PROVE OwnFiles'
<1> USE DEF shown, server
<1> DEFINE l == task[k]
           file == IF l.pc = "arr" THEN ArrFile ELSE l.file
<1>1. l \in Tasks /\ SharedTypes /\ OwnTask(k, l) /\ CacheOfItsFile /\ ArrFile \in Files
      /\ l.pc \in Asks /\ l.resp = "none" /\ UNCHANGED <<shown, mixed>>
  BY WebClientAssumption DEF OwnFiles, Types, SharedTypes, Serve
<1>2. /\ (k = "conn" => l.pc \notin {"read", "write", "reread", "disconnect"})
      /\ (k = "read" => l.pc = "read") /\ (k = "write" => l.pc \in {"write", "reread"})
      /\ (k = "disc" => l.pc = "disconnect") /\ k \in {"conn", "read", "write", "disc"}
  BY <1>1 DEF OwnTask, Asks
<1>3. l.pc \in {"read", "reread", "write", "arr"} => file \in Files
  BY <1>1, <1>2 DEF OwnTask, Asks
<1> HIDE DEF l, file
<1>4. open' \in BOOLEAN /\ card' \in Cards /\ content' \in [Cards -> [Files -> Nat]]
      /\ torn' \subseteq Files
  <2>1. open' \in BOOLEAN /\ card' \in Cards
    BY <1>1 DEF Serve, SharedTypes
  <2>2. \/ UNCHANGED <<content, torn>>
        \/ /\ l.pc = "write" /\ content' = [content EXCEPT ![card][file] = @ + 1]
           /\ torn' \in {torn, torn \cup {file}}
    BY DEF Serve, l, file
  <2> QED BY <1>1, <1>3, <2>1, <2>2 DEF SharedTypes
<1>5. SharedTypes' /\ CacheOfItsFile'
  BY <1>1, <1>4 DEF SharedTypes, CacheOfItsFile
\* What it answers: data of the coroutine's own file, or none.
<1>6. ASSUME NEW r \in {"ok", "error", "lost", "notfound"}, NEW v \in Nat,
             NEW d \in {Kept(k), Entry(file, card, v)}, Respond(k, r, d),
             r = "ok" /\ l.pc \in {"read", "arr"} => d = Entry(file, card, v),
             l.pc \notin {"read", "reread", "write", "arr"} => d = Kept(k)
      PROVE  OwnFiles'
  <2> DEFINE t == [l EXCEPT !.resp = r, !.data = d]
  <2>1. task' = [task EXCEPT ![k] = t]
    BY <1>6 DEF Respond, OwnFiles, Types, l
  <2>2. d \in Entries /\ (d = Entry(file, card, v) => d.of = file)
    <3>1. Kept(k) \in Entries
      BY <1>1 DEF Kept, l, Tasks
    <3>2. l.pc \in {"read", "reread", "write", "arr"} => Entry(file, card, v) \in Entries
      BY <1>1, <1>3 DEF Entry, Entries, Names, SharedTypes
    <3> QED BY <1>6, <3>1, <3>2 DEF Entry
  <2>3. t \in Tasks /\ t.resp = r /\ t.data = d /\ t.pc = l.pc /\ t.file = l.file /\ t.how = l.how
    BY <1>1, <2>2 DEF Tasks
  <2> HIDE DEF t
  <2>4. OwnTask(k, t)
    BY <1>1, <1>2, <1>6, <2>2, <2>3 DEF OwnTask, Kept, l, file, Asks
  <2> QED BY <1>5, <2>1, <2>3, <2>4, OwnStep
<1>7. \A c \in Cards, f \in Files : content[c][f] \in Nat /\ content[c][f] + 1 \in Nat
  BY <1>1 DEF SharedTypes
<1>8. card \in Cards /\ 0 \in Nat
  BY <1>1 DEF SharedTypes
<1>9. CASE \E r \in {"ok", "error", "lost", "notfound"} :
             Respond(k, r, Kept(k)) /\ ~(r = "ok" /\ l.pc \in {"read", "arr"})
  BY <1>6, <1>8, <1>9
<1>10. CASE l.pc \in {"read", "reread", "arr"} /\ Respond(k, "ok", Data(file))
  BY <1>3, <1>6, <1>7, <1>8, <1>10 DEF Data
<1>11. CASE l.pc = "write" /\ Respond(k, "ok", Entry(file, card, content'[card][file]))
            /\ content' = [content EXCEPT ![card][file] = @ + 1]
  <2>1. content'[card][file] \in Nat
    BY <1>1, <1>3, <1>7, <1>8, <1>11 DEF SharedTypes
  <2> QED BY <1>6, <1>11, <2>1
<1> QED BY <1>9, <1>10, <1>11 DEF Serve, l, file

\* One step of the page, the server or the user.
LEMMA PageKeepsOwn == Writers \subseteq {"write"} /\ OwnFiles /\ [Next]_vars => OwnFiles'
<1>1. ASSUME OwnFiles, UNCHANGED vars PROVE OwnFiles'
  <2>1. UNCHANGED <<server, shown, task, mixed, torn>>
    BY <1>1 DEF vars
  <2>2. Types' /\ CacheOfItsFile'
    BY <1>1, <2>1 DEF OwnFiles, server, shown, Types, CacheOfItsFile
  <2>3. (\A k \in Kinds : OwnTask(k, task[k]))'
    <3>1. \A k \in Kinds : OwnTask(k, task'[k])
      BY <1>1, <2>1, Zenon DEF OwnFiles
    <3> QED BY <3>1 DEF OwnTask
  <2> QED BY <2>2, <2>3 DEF OwnFiles
<1> QED BY <1>1, ServeKeepsOwn, LossKeepsOwn, ConnKeepsOwn, ReadKeepsOwn, WriteKeepsOwn,
           DiscKeepsOwn, UserKeepsOwn DEF Next

\* However impatient the user: as long as tlvWrite is not used, every value in the cache is that
\* of its file.
THEOREM CachesItsFileWithoutTlv ==
  ASSUME Writers \subseteq {"write"} PROVE Spec => []CacheOfItsFile
<1>1. Init => OwnFiles
  <2> SUFFICES ASSUME Init PROVE OwnFiles
    OBVIOUS
  <2>2. Types /\ CacheOfItsFile
    BY InitPage DEF PageInv
  <2>3. task = [k \in Kinds |-> Idle]
    BY DEF Init
  <2>4. \A k \in Kinds : OwnTask(k, task[k])
    BY <2>3, IdleFacts, Zenon
  <2> QED BY <2>2, <2>4 DEF OwnFiles
<1>2. OwnFiles => CacheOfItsFile
  BY DEF OwnFiles
<1> QED BY <1>1, <1>2, PageKeepsOwn, PTL DEF Spec

=============================================================================
