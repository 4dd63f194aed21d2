---------------------------- MODULE FileRequests ----------------------------
(***************************************************************************)
(* The requests of src/src/app.py that read and write files of the SIM.    *)
(*                                                                         *)
(* Flask serves every request on a thread of its own and app.py takes no   *)
(* lock, so the steps below of different threads interleave freely.  A     *)
(* step is one AT exchange (ATModem._send) together with the code up to    *)
(* the next one; requests that overlap may take each other's answers. The  *)
(* card keeps one selected file for each logical channel of AT+CSIM and    *)
(* for each session of AT+CCHO/AT+CGLA: a SELECT and the commands that     *)
(* follow it are separate exchanges, and nothing but that selected file    *)
(* connects them.                                                          *)
(***************************************************************************)
EXTENDS Integers, Sequences, FiniteSets

CONSTANTS
  Threads,     \* the server's request threads
  SessionIds,  \* session numbers the modem hands out for AT+CCHO
  Layouts,     \* what the basic channels of the card may show
  Files,       \* the files a request may name
  Ops,         \* the endpoints called
  MaxPieces,   \* bound: data commands of one transfer
  MaxFaults    \* bound: AT exchanges that fail or raise

Channels == 0..19
NoSession == -1

FileOps == {"read", "write", "write_tlv", "read_info", "read_arr"}
Batches == {"read_info", "read_arr"}

\* A file of the card: the application it belongs to and its identifier.
File(a, f) == [app |-> a, fid |-> f]
NoFile == File("none", "none")

\* The files the two batch requests go through, in the code's order.
Batch == [read_info |-> <<File("MF", "2FE2"), File("USIM", "6F07"), File("USIM", "6F40")>>,
          read_arr  |-> <<File("MF", "2F06"), File("USIM", "6F06"), File("ISIM", "6F06")>>]

BatchFiles == {Batch[o][i] : o \in Batches, i \in 1..3}
FileIds == {p.fid : p \in Files} \cup {"none", "2F00", "2F06", "2FE2", "6F06", "6F07", "6F40"}

ASSUME FileRequestsAssumption ==
  /\ SessionIds \subseteq Nat
  /\ Layouts \subseteq [Channels -> {"USIM", "ISIM", "MF", "closed", "unsupported"}]
  /\ Files \subseteq [app : {"MF", "USIM", "ISIM"}, fid : STRING]
  /\ Ops \subseteq FileOps
  /\ MaxPieces \in Nat \ {0}
  /\ MaxFaults \in Nat

VARIABLES
  connected,  \* ATModem.is_connected
  g,          \* the globals of app.py that say how to reach an application
  layout,     \* the card: the application current on each channel
  cur,        \* the card: the file selected on each channel or session
  sessions,   \* the card: the sessions AT+CCHO has opened and AT+CCHC not closed
  adrift,     \* sessions whose number no request has read from the link
  lost,       \* sessions whose closing was lost on the link
  faults,     \* exchanges that went wrong so far
  th          \* the request each thread is serving

cardVars == <<layout, cur, sessions, adrift, lost>>
vars == <<connected, g, cardVars, faults, th>>

Handles == ({"csim"} \X Channels) \cup ({"cgla"} \X SessionIds)
Csim(ch) == <<"csim", ch>>
Cgla(s) == <<"cgla", s>>

\* The channel that the class byte made for number n addresses: -1, which the
\* globals use for "none", wraps to channel 3.
ChannelOf(n) == IF n <= 3 THEN n % 4 ELSE 4 + ((n - 4) % 16)

AppAt(h) == IF h[1] = "cgla" THEN "ISIM" ELSE layout[h[2]]

\* The globals lead to the applications the card has on its channels.
InSync ==
  /\ g.usim_lchan \in Channels /\ layout[g.usim_lchan] = "USIM"
  /\ \/ g.isim_lchan = -1
     \/ g.isim_ccho
     \/ g.isim_lchan \in Channels /\ layout[g.isim_lchan] = "ISIM"

-----------------------------------------------------------------------------
\* A thread's record and how control moves through it.

IdleThread ==
  [pc |-> "idle", op |-> "none", path |-> NoFile, n |-> 1, lchan |-> -1,
   session |-> NoSession, own |-> TRUE, left |-> 0, exc |-> "none", resp |-> "none",
   alone |-> FALSE, raised |-> FALSE]

Reply(l, a) ==
  [IdleThread EXCEPT !.op = l.op, !.resp = a, !.alone = l.alone, !.raised = l.raised]

\* A file is done: a batch goes on to its next file, and always answers.
JobOverAfterTwo(l, a) ==
  IF l.op \in Batches /\ l.n < 2
  THEN [l EXCEPT !.pc = "route", !.n = l.n + 1, !.path = Batch[l.op][l.n + 1],
                 !.session = NoSession, !.left = 0, !.exc = "none", !.resp = "none"]
  ELSE Reply(l, IF l.op \in Batches THEN "ok" ELSE a)
JobOver(l, a) ==
  IF l.op \in Batches /\ l.n < 3
  THEN [l EXCEPT !.pc = "route", !.n = l.n + 1, !.path = Batch[l.op][l.n + 1],
                 !.session = NoSession, !.left = 0, !.exc = "none", !.resp = "none"]
  ELSE Reply(l, IF l.op \in Batches THEN "ok" ELSE a)

\* "return" inside the try block that holds a session runs its finally first.
LeaveWithoutClosing(l, a) == JobOver(l, a)
Leave(l, a) ==
  IF l.session = NoSession THEN JobOver(l, a) ELSE [l EXCEPT !.pc = "close", !.resp = a]

\* read_info wraps each file, read_arr its ISIM part, in "except Exception".
Swallows(l) == l.op = "read_info" \/ (l.op = "read_arr" /\ l.path.app = "ISIM")

\* An exception leaves the handler: _serial_safe answers the serial ones.
CaughtByFlask(l, kind) ==
  IF Swallows(l) THEN JobOver(l, "ok") ELSE Reply(l, "error500")
Caught(l, kind) ==
  IF Swallows(l) THEN JobOver(l, "ok")
  ELSE Reply(l, IF kind = "serial" THEN "disconnected" ELSE "error500")

Kind == IF connected THEN "serial" ELSE "runtime"

Throw(l) ==
  LET m == [l EXCEPT !.raised = l.raised \/ connected] IN
  IF l.session # NoSession /\ l.pc # "close"
  THEN [m EXCEPT !.pc = "close", !.exc = Kind]
  ELSE Caught(m, Kind)

\* How one AT exchange ends: with the card's answer, with an error or a lost
\* answer, or with an exception; x says whether the card acted on it.  _send takes
\* no lock: of two requests that overlap, one may read the answer to the other.
Exchange(l, r, x) ==
  \/ connected /\ r = "ok" /\ x /\ UNCHANGED faults
  \/ connected /\ r \in {"fail", "raise"} /\ faults < MaxFaults /\ faults' = faults + 1
  \/ connected /\ ~l.alone /\ r = "ok" /\ ~x /\ faults < MaxFaults /\ faults' = faults + 1
  \/ ~connected /\ r = "raise" /\ ~x /\ UNCHANGED faults

\* The thread's next record; its answer "disconnected" follows modem.disconnect().
Become(t, l) ==
  /\ th' = [th EXCEPT ![t] = l]
  /\ connected' = (connected /\ l.resp # "disconnected")

-----------------------------------------------------------------------------
\* Which channel or session a step addresses.

SelectOnUsimChannel(l) == Csim(ChannelOf(g.usim_lchan))
SelectHandle(l) ==
  IF l.session # NoSession THEN Cgla(l.session)
  ELSE Csim(ChannelOf(IF l.path.app = "ISIM" THEN g.isim_lchan ELSE g.usim_lchan))

DataOnChannel0(l) == IF l.session # NoSession THEN Cgla(l.session) ELSE Csim(0)
DataHandle(l) ==
  IF l.session # NoSession THEN Cgla(l.session)
  ELSE IF l.op # "read_arr" THEN Csim(ChannelOf(l.lchan))
  ELSE Csim(IF l.path.app = "ISIM" THEN ChannelOf(g.isim_lchan) ELSE 0)

\* SELECT by path from 7FFF stays in the application the channel shows.
CanSelect(h, p) ==
  \/ AppAt(h) \in {"USIM", "ISIM"}
  \/ AppAt(h) = "MF" /\ p.app = "MF"
Selected(h, p) == IF p.app = "MF" THEN p ELSE File(AppAt(h), p.fid)

-----------------------------------------------------------------------------
\* The server after a connection has been set up: the globals lead to the card.
Init ==
  /\ connected = TRUE
  /\ layout \in Layouts
  /\ g \in [usim_lchan : Channels, isim_lchan : {-1} \cup Channels \cup SessionIds,
            isim_ccho : BOOLEAN, isim_aid : BOOLEAN]
  /\ InSync
  /\ g.isim_ccho => g.isim_lchan \in SessionIds
  /\ g.isim_lchan >= 0 => g.isim_aid
  /\ cur = [h \in Handles |-> NoFile]
  /\ sessions = {}
  /\ adrift = {}
  /\ lost = {}
  /\ faults = 0
  /\ th = [t \in Threads |-> IdleThread]

\* Thread t takes up a request, which overlaps those of the busy threads.
Arrive(t, l) ==
  /\ th[t].pc = "idle"
  /\ th' = [u \in Threads |->
       IF u = t
       THEN [l EXCEPT !.alone = \A v \in Threads \ {t} : th[v].pc = "idle"]
       ELSE [th[u] EXCEPT !.alone = FALSE]]

\* A request for files.  read_info takes its channel once, for all three files.
Begin(t, o, p) ==
  /\ connected
  /\ o \in Batches => p = Batch[o][1]
  /\ Arrive(t, [IdleThread EXCEPT !.pc = "route", !.op = o, !.path = p,
                  !.lchan = IF o = "read_info" THEN g.usim_lchan ELSE -1])
  /\ UNCHANGED <<connected, g, cardVars, faults>>

\* Choose the way to the file: a session for ISIM under CCHO, else a channel,
\* whose number the single-file requests keep from here on.
Route(t) ==
  LET l == th[t]
      isim == l.path.app = "ISIM"
      unavailable == isim /\ g.isim_lchan < 0 /\ l.op \in {"read", "read_arr"}
      keeps == l.op \notin Batches
      next == IF isim /\ g.isim_ccho THEN "open" ELSE "select"
      ch == IF isim THEN g.isim_lchan ELSE g.usim_lchan
  IN /\ l.pc = "route"
     /\ Become(t, IF unavailable \/ (isim /\ l.op = "read_arr" /\ ~g.isim_aid)
                  THEN JobOver(l, "error")
                  ELSE [l EXCEPT !.pc = next,
                          !.lchan = IF keeps /\ next = "select" THEN ch ELSE @])
     /\ UNCHANGED <<g, cardVars, faults>>

\* AT+CCHO.  The modem refuses when it has no session left or no AID is known.
\* The answer of another request's AT+CCHO names a session that one has not read.
CchoOpen(l, r, x, s) ==
  /\ \/ Exchange(l, r, x) /\ (x => g.isim_aid /\ s \notin sessions) /\ (r = "ok" => x)
     \/ connected /\ ~l.alone /\ r = "ok" /\ ~x /\ s \in adrift /\ UNCHANGED faults
     \/ connected /\ r = "fail" /\ ~x /\ (~g.isim_aid \/ SessionIds \subseteq sessions)
        /\ UNCHANGED faults
  /\ sessions' = IF x THEN sessions \cup {s} ELSE sessions
  /\ cur' = IF x THEN [cur EXCEPT ![Cgla(s)] = NoFile] ELSE cur
  /\ adrift' = IF r = "ok" THEN adrift \ {s} ELSE IF x THEN adrift \cup {s} ELSE adrift
  /\ UNCHANGED lost

\* AT+CCHC.
CchoClose(l, r, x, s) ==
  /\ Exchange(l, r, x)
  /\ sessions' = IF x THEN sessions \ {s} ELSE sessions
  /\ lost' = IF x THEN lost ELSE lost \cup {s}
  /\ UNCHANGED adrift

\* Open the session a request works on.  read_arr tests the number itself
\* ("if session:"), so it drops session 0.
Open(t, r, x, s) ==
  LET l == th[t] IN
  /\ l.pc = "open"
  /\ CchoOpen(l, r, x, s)
  /\ Become(t, CASE r = "raise" -> Throw(l)
                 [] r = "fail" -> JobOver(l, "error")
                 [] r = "ok" /\ l.op = "read_arr" /\ s = 0 -> JobOver(l, "ok")
                 [] OTHER -> [l EXCEPT !.session = s, !.pc = "select"])
  /\ UNCHANGED <<g, layout>>

\* _select_file_chain, or SELECT over AT+CGLA.  The channel is read from the
\* globals again.  What was selected stays selected when the card refuses, even
\* if the request takes another's answer for its own and goes on.
Select(t, r, x, k) ==
  LET l == th[t]
      h == SelectHandle(l)
      missing == l.session = NoSession /\ l.path.app = "ISIM" /\ g.isim_lchan < 0
      data == IF l.op = "write_tlv" THEN "delete" ELSE "access"
  IN /\ l.pc = "select"
     /\ \/ ~missing /\ Exchange(l, r, x) /\ (x => CanSelect(h, l.path))
        \/ r = "fail" /\ ~x /\ (missing \/ (connected /\ ~CanSelect(h, l.path)))
           /\ UNCHANGED faults
     /\ cur' = IF x THEN [cur EXCEPT ![h] = Selected(h, l.path)] ELSE cur
     /\ Become(t, CASE r = "raise" -> Throw(l)
                    [] r = "fail" -> Leave(l, "error")
                    [] r = "ok" -> [l EXCEPT !.pc = data, !.left = k, !.own = x])
     /\ UNCHANGED <<g, layout, sessions, adrift, lost>>

\* write_tlv: DELETE DATA, its answer ignored; SET DATA follows if there is a value.
Delete(t, r, value) ==
  LET l == th[t] IN
  /\ l.pc = "delete"
  /\ Exchange(l, r, r = "ok")
  /\ Become(t, IF r = "raise" THEN Throw(l)
               ELSE IF value THEN [l EXCEPT !.pc = "access", !.left = 1]
               ELSE Leave(l, "ok"))
  /\ UNCHANGED <<g, cardVars>>

\* Further data commands follow this one.
MoreByOne(l) == l.left >= 0
More(l) == l.left > 1

\* One READ or UPDATE.  A write stops at the first error.  A read stops or goes
\* on, by the structure of the file, and answers success if it has some data.
Access(t, r, a) ==
  LET l == th[t]
      further == [l EXCEPT !.left = l.left - 1]
  IN /\ l.pc = "access"
     /\ Exchange(l, r, r = "ok")
     /\ \/ r = "raise" /\ Become(t, Throw(l))
        \/ r = "ok" /\ Become(t, IF More(l) THEN further ELSE Leave(l, "ok"))
        \/ r = "fail" /\ l.op \in {"write", "write_tlv"} /\ Become(t, Leave(l, "error"))
        \/ r = "fail" /\ l.op \notin {"write", "write_tlv"}
           /\ Become(t, IF More(l) /\ a = "next" THEN further
                        ELSE Leave(l, IF a = "error" THEN "error" ELSE "ok"))
     /\ UNCHANGED <<g, cardVars>>

\* The finally clause closes the session, and ignores how that ended.
Close(t, r, x) ==
  LET l == th[t] IN
  /\ l.pc = "close"
  /\ CchoClose(l, r, x, l.session)
  /\ Become(t, IF r = "raise" THEN Throw(l)
               ELSE IF l.exc = "none" THEN JobOver(l, l.resp)
               ELSE Caught(l, l.exc))
  /\ UNCHANGED <<g, layout, cur>>

Results == {"ok", "fail", "raise"}

Step(t) ==
  \/ Route(t)
  \/ \E r \in Results, x \in BOOLEAN, s \in SessionIds : Open(t, r, x, s)
  \/ \E r \in Results, x \in BOOLEAN, k \in 1..MaxPieces : Select(t, r, x, k)
  \/ \E r \in Results, value \in BOOLEAN : Delete(t, r, value)
  \/ \E r \in Results, a \in {"next", "ok", "error"} : Access(t, r, a)
  \/ \E r \in Results, x \in BOOLEAN : Close(t, r, x)

Request(t) == \E o \in Ops, p \in Files \cup BatchFiles :
                (o \in Batches \/ p \in Files) /\ Begin(t, o, p)

Next == \E t \in Threads : Request(t) \/ Step(t)

Spec == Init /\ [][Next]_vars

-----------------------------------------------------------------------------
\* Properties.

Points == {"idle", "route", "open", "select", "delete", "access", "close"}
OpNames == FileOps \cup {"none"}
Paths == Files \cup BatchFiles \cup {NoFile}
Numbers == {-1} \cup Channels \cup SessionIds
Holdings == {NoSession} \cup SessionIds
Pieces == 0..MaxPieces
Exceptions == {"none", "serial", "runtime"}
Answers == {"none", "ok", "error", "disconnected", "error500"}

ThreadType ==
  [pc : Points, op : OpNames, path : Paths, n : 1..3, lchan : Numbers,
   session : Holdings, own : BOOLEAN, left : Pieces, exc : Exceptions, resp : Answers,
   alone : BOOLEAN, raised : BOOLEAN]

Globals == [usim_lchan : Channels, isim_lchan : Numbers, isim_ccho : BOOLEAN, isim_aid : BOOLEAN]

\* Every variable keeps the shape the code gives it.
TypeOK ==
  /\ connected \in BOOLEAN
  /\ g \in Globals
  /\ layout \in [Channels -> {"USIM", "ISIM", "MF", "closed", "unsupported"}]
  /\ cur \in [Handles -> [app : {"none", "MF", "USIM", "ISIM"}, fid : FileIds]]
  /\ sessions \in SUBSET SessionIds
  /\ adrift \in SUBSET SessionIds
  /\ lost \in SUBSET SessionIds
  /\ faults \in 0..MaxFaults
  /\ th \in [Threads -> ThreadType]

AboutToAccess(l) == l.pc \in {"delete", "access"}

\* read_arr reads the MF and USIM rules on channel 0 wherever it selected them.
ReadsWhereItSelects(l) ==
  l.op = "read_arr" /\ l.session = NoSession /\ l.path.app # "ISIM" => g.usim_lchan = 0

\* A request that no other request overlaps reads, updates and deletes the file
\* it was asked for: between its SELECT and its last data command that file
\* stays selected on the channel or session those commands go to, whatever
\* fails on the way, so long as the globals lead to the card's applications.
IsolatedRequestsHitTarget ==
  \A t \in Threads :
    th[t].alone /\ AboutToAccess(th[t]) /\ InSync /\ ReadsWhereItSelects(th[t])
      => cur[DataHandle(th[t])] = th[t].path

\* A request that works on an AT+CCHO session never acts on another file than its
\* own, under any overlap with other requests and whosever answers it takes:
\* nothing else selects on its session or is given its number.  If the answer to
\* its SELECT was its own, the file is selected there until its last command; if
\* not, its commands may find no file selected.
SessionRequestsHitTarget ==
  \A t \in Threads :
    th[t].session # NoSession /\ AboutToAccess(th[t])
      => /\ cur[DataHandle(th[t])] \in {NoFile, th[t].path}
         /\ th[t].own => cur[DataHandle(th[t])] = th[t].path

\* The same for every request, as write_file's docstring has it.
RequestsHitTarget ==
  \A t \in Threads :
    AboutToAccess(th[t]) /\ InSync /\ ReadsWhereItSelects(th[t])
      => cur[DataHandle(th[t])] = th[t].path

\* Every open session is held by a request still running, which will close it,
\* unless no request has read its number or the link lost the command that closes it.
NoSessionLeak == sessions \subseteq {th[t].session : t \in Threads} \cup adrift \cup lost

\* A lone request whose exchange raised a serial error answers "disconnected"
\* and leaves the port closed, except where the code swallows exceptions.
PortLossReported ==
  \A t \in Threads :
    /\ th[t].pc = "idle"
    /\ th[t].alone
    /\ th[t].raised
    /\ th[t].op \notin Batches
    => th[t].resp = "disconnected" /\ ~connected

-----------------------------------------------------------------------------
\* The file endpoints implement FileServer.  A request's commands go to its own file when they go
\* over a session and its SELECT was answered by the card, or when no other request overlaps it; of
\* other requests the promise claims the stages only, and the mapping leaves their target out.

Itinerary(l) ==
  IF l.pc = "idle" THEN <<>> ELSE IF l.op \in Batches THEN Batch[l.op] ELSE <<l.path>>

\* A request is there from its SELECT to its last command, and while it closes
\* the session behind a success.
Stage(l) ==
  CASE l.pc = "idle" -> "idle"
    [] AboutToAccess(l) -> "there"
    [] l.pc = "close" /\ l.exc = "none" /\ l.resp = "ok" -> "there"
    [] OTHER -> "routing"

Protected(l) ==
  (l.session # NoSession /\ l.own) \/ (l.alone /\ InSync /\ ReadsWhereItSelects(l))

Target(l) ==
  IF Stage(l) # "there" THEN {}
  ELSE {IF AboutToAccess(l) /\ Protected(l) THEN cur[DataHandle(l)] ELSE l.path}

Promise == INSTANCE FileServer WITH
  Clients <- Threads,
  Itineraries <- {Batch[o] : o \in Batches} \cup {<<p>> : p \in Files},
  Failures <- Answers \ {"none", "ok"},
  trip <- [t \in Threads |-> Itinerary(th[t])],
  at <- [t \in Threads |-> th[t].n],
  stage <- [t \in Threads |-> Stage(th[t])],
  target <- [t \in Threads |-> Target(th[t])],
  answer <- [t \in Threads |-> IF th[t].pc = "idle" THEN th[t].resp ELSE "none"]

\* Every behaviour of the file endpoints is one the promise allows: files in
\* order, commands on the file that was asked for, no "ok" without it.
KeepsPromise == Promise!Spec

=============================================================================
