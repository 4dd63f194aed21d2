----------------------------- MODULE WebClient -----------------------------
(***************************************************************************)
(* The page of src/src/templates/index.html, in one browser tab.  Its      *)
(* functions are coroutines on one thread: each runs alone up to its next  *)
(* await, and there the others, the user and the server go on.  What they  *)
(* share is selectedFile, readCache, _isReading and the buttons, and those *)
(* may be other than before when an await returns.                         *)
(*                                                                         *)
(* There is one coroutine of a kind at most: the connecting one            *)
(* (doConnect), the one behind Refresh (doDisconnect), the one that reads  *)
(* (doRead) and the one that writes (submitWrite or tlvWrite).             *)
(***************************************************************************)
EXTENDS Integers

CONSTANTS
  Files,      \* files in the tree
  ArrFile,    \* the one that connecting reads and caches itself
  Cards,      \* cards that may be behind the port
  Writers,    \* the writing functions in use: "write" (submitWrite), "tlv" (tlvWrite)
  Patient,    \* the user lets a write or a disconnection end before the next click,
              \* and does not write while the page connects
  MaxActions, \* bound: clicks of the user
  MaxFaults   \* bound: requests that do not succeed

Nobody == "nobody"

ASSUME WebClientAssumption ==
  /\ ArrFile \in Files
  /\ Nobody \notin Files
  /\ Cards # {}
  /\ Writers \subseteq {"write", "tlv"}
  /\ Patient \in BOOLEAN
  /\ MaxActions \in Nat /\ MaxFaults \in Nat

VARIABLES
  open,       \* the server: the port is open
  card,       \* the card behind it
  content,    \* the cards: the version of each file
  ui,         \* the Connect button: "off" (enabled), "connecting", "on"
  tree,       \* the tree of files is on show
  selected,   \* selectedFile
  cache,      \* readCache
  pane,       \* what the detail pane shows
  reading,    \* _isReading
  pending,    \* _pendingRead
  handling,   \* _portLostHandled
  task,       \* the coroutines
  actions, faults,
  torn,       \* history: files that a write which failed may have changed
  mixed,      \* history: this connection began with requests of the last one under way
  reported    \* history: a request said that the port was lost, and none was connecting

server == <<open, card, content>>
shown == <<ui, tree, selected, cache, pane, reading, pending>>
vars == <<server, shown, handling, task, actions, faults, torn, mixed, reported>>

Kinds == {"conn", "disc", "read", "write"}
NoEntry == [st |-> "none", of |-> Nobody, card |-> Nobody, ver |-> 0]
Entry(f, c, v) == [st |-> "ok", of |-> f, card |-> c, ver |-> v]
Failed(f) == [NoEntry EXCEPT !.st = "err", !.of = f]
Reading(f) == [NoEntry EXCEPT !.st = "reading", !.of = f]

Idle == [pc |-> "idle", how |-> "none", file |-> Nobody, resp |-> "none", data |-> NoEntry, lost |-> "no"]

\* What a coroutine waits for: an answer of the server, or just another turn.
Asks == {"connect", "check", "reset", "fallback", "cfun", "arr", "info",
         "disconnect", "read", "write", "reread"}
Go(l, pc) == [l EXCEPT !.pc = pc, !.resp = "none", !.lost = "no"]
Running(k) == task[k].pc # "idle"

Init ==
  /\ open = FALSE
  /\ card \in Cards
  /\ content = [c \in Cards |-> [f \in Files |-> 0]]
  /\ ui = "off" /\ tree = FALSE
  /\ selected = Nobody
  /\ cache = [f \in Files |-> NoEntry]
  /\ pane = NoEntry
  /\ reading = FALSE /\ pending = Nobody
  /\ handling = FALSE
  /\ task = [k \in Kinds |-> Idle]
  /\ actions = 0 /\ faults = 0
  /\ torn = {} /\ mixed = FALSE /\ reported = FALSE

-----------------------------------------------------------------------------
\* The server's side of a request, at one moment between its sending and the
\* page's next turn.  FileRequests and SimServer hold what it does in detail.

Fault == faults < MaxFaults /\ faults' = faults + 1

Respond(k, r, d) == task' = [task EXCEPT ![k].resp = r, ![k].data = d]
Kept(k) == task[k].data

Data(f) == Entry(f, card, content[card][f])

Serve(k) ==
  LET l == task[k]
      file == IF l.pc = "arr" THEN ArrFile ELSE l.file
      reads == l.pc \in {"read", "reread", "arr"}
  IN /\ l.pc \in Asks /\ l.resp = "none"
     /\ \/ /\ l.pc = "connect"
           /\ open' = TRUE /\ card' \in Cards
           /\ Respond(k, "ok", Kept(k)) /\ UNCHANGED <<content, faults, torn>>
        \/ /\ l.pc = "disconnect"
           /\ open' = FALSE
           /\ Respond(k, "ok", Kept(k)) /\ UNCHANGED <<card, content, faults, torn>>
        \/ /\ l.pc \notin {"connect", "disconnect"} /\ ~open
           /\ Respond(k, "error", Kept(k)) /\ UNCHANGED <<server, faults, torn>>
        \/ /\ l.pc \notin {"connect", "disconnect", "write"} /\ open
           /\ Respond(k, "ok", IF reads THEN Data(file) ELSE Kept(k))
           /\ UNCHANGED <<server, faults, torn>>
        \/ /\ l.pc = "write" /\ open
           /\ content' = [content EXCEPT ![card][file] = @ + 1]
           /\ Respond(k, "ok", Entry(file, card, content'[card][file])) /\ UNCHANGED <<open, card, faults, torn>>
        \* It fails: a write perhaps half-way, connecting with the port closed again.
        \/ /\ l.pc # "disconnect" /\ Fault
           /\ \E r \in {"error", "lost", "notfound"} :
                /\ r = "lost" => l.pc # "connect" /\ open
                /\ r = "notfound" => l.pc = "check"
                /\ Respond(k, r, Kept(k))
                /\ open' = (open /\ r # "lost" /\ l.pc # "connect")
           /\ \/ UNCHANGED <<content, torn>>
              \/ /\ l.pc = "write" /\ open
                 /\ content' = [content EXCEPT ![card][file] = @ + 1]
                 /\ torn' = torn \cup {file}
           /\ UNCHANGED card
     /\ UNCHANGED <<shown, handling, actions, mixed, reported>>

-----------------------------------------------------------------------------
\* The page.

\* api(): an answer that says "disconnected" runs _onPortLost before the caller
\* sees it, unless another one is being dealt with.
PortLostBegin(k) ==
  /\ task[k].resp = "lost" /\ task[k].lost = "no"
  /\ IF handling
     THEN task' = [task EXCEPT ![k].lost = "done"] /\ UNCHANGED handling
     ELSE task' = [task EXCEPT ![k].lost = "poll"] /\ handling' = TRUE
  /\ reported' = (reported \/ ~Running("conn"))
  /\ UNCHANGED <<server, shown, actions, faults, torn, mixed>>

\* _resetConnectionUI: the Connect button is enabled again.
ResetUiNot == UNCHANGED ui
ResetUi == ui' = "off"

\* After a poll _resetConnectionUI, and after refreshPorts the flag is cleared.
PortLostUi(k) ==
  /\ task[k].lost = "poll"
  /\ ResetUi
  /\ task' = [task EXCEPT ![k].lost = "ports"]
  /\ UNCHANGED <<server, tree, selected, cache, pane, reading, pending, handling,
                 actions, faults, torn, mixed, reported>>

PortLostEndStillHandling(k) ==
  /\ task[k].lost = "ports"
  /\ task' = [task EXCEPT ![k].lost = "done"]
  /\ UNCHANGED <<server, shown, handling, actions, faults, torn, mixed, reported>>
PortLostEnd(k) ==
  /\ task[k].lost = "ports"
  /\ handling' = FALSE
  /\ task' = [task EXCEPT ![k].lost = "done"]
  /\ UNCHANGED <<server, shown, actions, faults, torn, mixed, reported>>

\* The await of coroutine k at this place is over.
Awaited(k, pc) ==
  /\ task[k].pc = pc
  /\ pc \in Asks => task[k].resp # "none"
  /\ task[k].resp = "lost" => task[k].lost = "done"

Others == <<server, handling, actions, faults, torn, mixed, reported>>
NextPc(k, pc) == task' = [task EXCEPT ![k] = Go(@, pc)]
Ends(k) == task' = [task EXCEPT ![k] = Idle]

\* _resetData.  Neither _isReading nor a read under way is touched.
ResetData ==
  /\ cache' = [f \in Files |-> NoEntry]
  /\ selected' = Nobody /\ tree' = FALSE /\ pane' = NoEntry
  /\ UNCHANGED <<reading, pending>>

\* doConnect and doPostConnect.  From here on every answer but the first checks
\* is taken as it comes: what fails is reported in the console and left out.
Connected ==
  /\ Awaited("conn", "connect")
  /\ IF task["conn"].resp = "ok"
     THEN /\ ResetData /\ UNCHANGED ui
          /\ NextPc("conn", "clear")
          /\ mixed' = (Running("read") \/ Running("write") \/ Running("disc"))
          /\ torn' = {} /\ reported' = FALSE
     ELSE /\ ResetUi /\ Ends("conn")
          /\ UNCHANGED <<tree, selected, cache, pane, reading, pending, mixed, torn, reported>>
  /\ UNCHANGED <<server, handling, actions, faults>>

\* The scan: the fallback, the power cycle or neither follows it, and on a phone
\* that calls for it a reset and then the same again.
Checked(next) ==
  /\ Awaited("conn", "clear") \/ Awaited("conn", "check")
  /\ \/ task["conn"].pc = "clear" /\ next = "check" /\ NextPc("conn", next) /\ UNCHANGED ui
     \/ /\ task["conn"].resp = "ok" /\ next \in {"fallback", "cfun", "arr"}
        /\ NextPc("conn", next) /\ UNCHANGED ui
     \/ task["conn"].resp = "notfound" /\ next = "reset" /\ NextPc("conn", next) /\ UNCHANGED ui
     \/ task["conn"].pc = "check" /\ next = "idle" /\ Ends("conn") /\ ResetUi
  /\ UNCHANGED <<tree, selected, cache, pane, reading, pending, Others>>

AppleReset ==
  /\ Awaited("conn", "reset")
  /\ IF task["conn"].resp = "ok" THEN NextPc("conn", "check") /\ UNCHANGED ui
     ELSE Ends("conn") /\ ResetUi
  /\ UNCHANGED <<tree, selected, cache, pane, reading, pending, Others>>

FellBack(next) ==
  /\ \/ Awaited("conn", "fallback") /\ next \in {"cfun", "arr"}
     \/ Awaited("conn", "cfun") /\ next = "arr"
  /\ NextPc("conn", next)
  /\ UNCHANGED <<shown, Others>>

\* loadArrData fills the cache.
ArrLoaded ==
  /\ Awaited("conn", "arr")
  /\ cache' = IF task["conn"].resp = "ok" THEN [cache EXCEPT ![ArrFile] = task["conn"].data] ELSE cache
  /\ NextPc("conn", "info")
  /\ UNCHANGED <<ui, tree, selected, pane, reading, pending, Others>>

\* The button says "Connected" whatever read_info answered.
Welcome ==
  /\ Awaited("conn", "info")
  /\ ui' = "on"
  /\ NextPc("conn", "tree")
  /\ UNCHANGED <<tree, selected, cache, pane, reading, pending, Others>>

TreeLoaded ==
  /\ Awaited("conn", "tree")
  /\ tree' = TRUE
  /\ Ends("conn")
  /\ UNCHANGED <<ui, selected, cache, pane, reading, pending, Others>>

\* doDisconnect.
Disconnected ==
  /\ Awaited("disc", "disconnect")
  /\ ResetUi /\ ResetData
  /\ NextPc("disc", "clear")
  /\ UNCHANGED Others
DisconnectEnds ==
  /\ Awaited("disc", "clear") /\ Ends("disc")
  /\ UNCHANGED <<shown, Others>>

\* doRead, up to its await: f is the file it works on.
StartReading(f, tasks) ==
  /\ reading' = TRUE /\ pending' = Nobody
  /\ pane' = Reading(f)
  /\ task' = [tasks EXCEPT !["read"] = [Idle EXCEPT !.pc = "read", !.file = f]]

ReadAnswered ==
  /\ Awaited("read", "read")
  /\ task' = [task EXCEPT !["read"].pc = "poll"]
  /\ UNCHANGED <<shown, Others>>

\* After its second await: the pane changes only if f is still the selected file.
StillSelected(f) == f = selected
ShownAnyway(f) == TRUE
ShowIf(f) == StillSelected(f)

\* The entry goes under the file that was read, and _isReading is cleared.
CachedUnderSelected(l) == selected
CachedUnder(l) == l.file
ReadingAfterError(l) == l.resp # "ok"
ReadingAfter(l) == FALSE

ReadDone ==
  LET l == task["read"]
      entry == IF l.resp = "ok" THEN l.data ELSE Failed(l.file)
      next == pending # Nobody /\ pending # l.file
  IN /\ Awaited("read", "poll")
     /\ cache' = [cache EXCEPT ![CachedUnder(l)] = entry]
     /\ IF next /\ selected = pending
        THEN StartReading(pending, [task EXCEPT !["read"] = Idle])
        ELSE /\ reading' = ReadingAfter(l)
             /\ pending' = IF next THEN Nobody ELSE pending
             /\ pane' = IF ShowIf(l.file) THEN entry ELSE pane
             /\ Ends("read")
     /\ UNCHANGED <<ui, tree, selected, Others>>

\* submitWrite holds its file; tlvWrite asks selectedFile again after each await
\* and fails with a TypeError when there is none.
Target(l) == IF l.how = "tlv" THEN selected ELSE l.file

WriteAnswered ==
  /\ Awaited("write", "write")
  /\ task' = [task EXCEPT !["write"].pc = "poll"]
  /\ UNCHANGED <<shown, Others>>

\* A success drops the cached value and, a second later, reads the file again; a
\* failure leaves the cached value in place.
DropNothing(f) == cache
Drop(f) == [cache EXCEPT ![f] = NoEntry]

WritePolled ==
  LET l == task["write"] IN
  /\ Awaited("write", "poll")
  /\ IF l.resp = "ok" /\ Target(l) # Nobody
     THEN /\ cache' = Drop(Target(l))
          /\ NextPc("write", "wait")
     ELSE Ends("write") /\ UNCHANGED cache
  /\ UNCHANGED <<ui, tree, selected, pane, reading, pending, Others>>

WriteWaited ==
  LET l == task["write"] IN
  /\ Awaited("write", "wait")
  /\ IF Target(l) = Nobody THEN Ends("write")
     ELSE task' = [task EXCEPT !["write"] = [Go(l, "reread") EXCEPT !.file = Target(l)]]
  /\ UNCHANGED <<shown, Others>>

Reread ==
  /\ Awaited("write", "reread")
  /\ task' = [task EXCEPT !["write"].pc = "last"]
  /\ UNCHANGED <<shown, Others>>

\* What is stored: what was read again or, failing that, what submitWrite sent.
Stored(l) == IF l.resp = "ok" \/ l.how = "write" THEN l.data ELSE NoEntry

WriteDone ==
  LET l == task["write"] IN
  /\ Awaited("write", "last")
  /\ IF Target(l) # Nobody /\ Stored(l) # NoEntry
     THEN cache' = [cache EXCEPT ![Target(l)] = Stored(l)] /\ pane' = Stored(l)
     ELSE UNCHANGED <<cache, pane>>
  /\ Ends("write")
  /\ UNCHANGED <<ui, tree, selected, reading, pending, Others>>

-----------------------------------------------------------------------------
\* The user.

Acts ==
  /\ actions < MaxActions /\ actions' = actions + 1
  /\ Patient => ~Running("write") /\ ~Running("disc")

PressConnect ==
  /\ Acts /\ ui = "off" /\ ~Running("conn")
  /\ ui' = "connecting"
  /\ NextPc("conn", "connect")
  /\ UNCHANGED <<server, tree, selected, cache, pane, reading, pending, handling,
                 faults, torn, mixed, reported>>

\* Refresh disconnects first when the Connect button is disabled.
PressRefresh ==
  /\ Acts /\ ui # "off" /\ ~Running("disc")
  /\ NextPc("disc", "disconnect")
  /\ UNCHANGED <<server, shown, handling, faults, torn, mixed, reported>>

\* selectFile: a cached value is shown, anything else is read, after the read
\* that may be under way.
Click(f) ==
  /\ Acts /\ tree
  /\ selected' = f
  /\ CASE cache[f].st = "ok" -> pane' = cache[f] /\ UNCHANGED <<reading, pending, task>>
       [] cache[f].st # "ok" /\ reading -> pending' = f /\ UNCHANGED <<pane, reading, task>>
       [] cache[f].st # "ok" /\ ~reading -> StartReading(f, task)
  /\ UNCHANGED <<server, ui, tree, cache, handling, faults, torn, mixed, reported>>

\* The Write button is enabled for a value on show; the popup knows its file.
Submit(how) ==
  /\ Acts /\ ~Running("write") /\ (Patient => ~Running("conn"))
  /\ selected # Nobody /\ cache[selected].st = "ok" /\ pane.st = "ok"
  /\ task' = [task EXCEPT !["write"] = [Idle EXCEPT !.pc = "write", !.how = how, !.file = selected]]
  /\ UNCHANGED <<server, shown, handling, faults, torn, mixed, reported>>

-----------------------------------------------------------------------------
ConnStep ==
  \/ Connected \/ AppleReset \/ ArrLoaded \/ Welcome \/ TreeLoaded
  \/ \E next \in {"check", "reset", "fallback", "cfun", "arr", "idle"} : Checked(next) \/ FellBack(next)
ReadStep == ReadAnswered \/ ReadDone
WriteStep == WriteAnswered \/ WritePolled \/ WriteWaited \/ Reread \/ WriteDone
DiscStep == Disconnected \/ DisconnectEnds
LossStep(k) == PortLostBegin(k) \/ PortLostUi(k) \/ PortLostEnd(k)

User == PressConnect \/ PressRefresh \/ (\E f \in Files : Click(f)) \/ (\E how \in Writers : Submit(how))

Next ==
  \/ \E k \in Kinds : Serve(k) \/ LossStep(k)
  \/ ConnStep \/ ReadStep \/ WriteStep \/ DiscStep
  \/ User

\* Every request is answered and every coroutine whose await is over gets its
\* turn; nothing is assumed of the user.
Fairness ==
  /\ \A k \in Kinds : WF_vars(Serve(k)) /\ WF_vars(LossStep(k))
  /\ WF_vars(ConnStep) /\ WF_vars(ReadStep) /\ WF_vars(WriteStep) /\ WF_vars(DiscStep)

Spec == Init /\ [][Next]_vars /\ Fairness

-----------------------------------------------------------------------------
\* Properties.

\* A green dot's value is the value of that file: no coroutine files what it has
\* read under a file selected since.
CacheOfItsFile == \A f \in Files : cache[f].st = "ok" => cache[f].of = f

\* Data on show belongs to the file named above it, except while that file waits
\* for the read of another to end.
PaneOfSelected ==
  pane.st = "ok" => pane.of = selected \/ (reading /\ pending = selected)

\* Connecting to another card leaves nothing of the last one in the cache, if
\* nothing was under way when the connection was made; and a cached value is what
\* the card holds, but for a file being written and one that a failed write may have
\* changed.
CacheIsCurrent ==
  open /\ ~mixed =>
    /\ ~Running("conn") /\ ~Running("disc") /\ ui = "on" =>
         \A f \in Files : cache[f].st = "ok" => cache[f].card = card
    /\ \A f \in Files \ torn :
         cache[f].st = "ok" /\ cache[f].card = card
           /\ ~(Running("write") /\ f \in {task["write"].file, selected})
           => cache[f].ver = content[card][f]

\* A lost port that a request has reported ends in a page that offers Connect
\* again, unless the page was still connecting, or had been connected while the
\* loss before was being dealt with.
LossShown == reported /\ ~mixed ~> ui # "on"

\* The Connect button does not say "Connecting..." for ever, as long as the modem
\* is not reset in vain again and again.
ConnectingEnds == ui = "connecting" ~> ui # "connecting"

\* _isReading, which blocks every other read, is cleared again.
ReadingEnds == reading ~> ~reading

=============================================================================
