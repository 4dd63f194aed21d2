------------------------------ MODULE SimServer ------------------------------
(***************************************************************************)
(* The whole server of src/src/app.py: the file requests of FileRequests   *)
(* together with the requests that open the port, find the applications on *)
(* the card's channels, reset the modem and drop the connection.  Those    *)
(* write the globals the file requests read, one assignment at a time and  *)
(* with no lock, and the reset changes the card under everybody.  The page *)
(* may send the requests in any order.                                     *)
(***************************************************************************)
EXTENDS FileRequests

CONSTANTS
  ServerOps,  \* the endpoints called besides Ops
  AdmTypes    \* the administrative keys a user may verify

ServerEndpoints == {"connect", "disconnect", "at_check", "isim_fallback",
                    "cfun_reset", "apple_reset", "verify_adm"}

ASSUME SimServerAssumption == ServerOps \subseteq ServerEndpoints

VARIABLES
  scan,      \* what scan_channels has found so far, for each thread
  todo,      \* the assignments to globals a thread has yet to make
  adm_keys   \* the keys verified on this card

serverVars == <<vars, scan, todo, adm_keys>>
localVars == <<scan, todo, adm_keys>>

NoScan == [next |-> 0, usim |-> -1, isim |-> -1, csim_ok |-> FALSE]

\* The tool just started: no port, the globals as the module sets them.
ServerInit ==
  /\ connected = FALSE
  /\ layout \in Layouts
  /\ g = [usim_lchan |-> 0, isim_lchan |-> -1, isim_ccho |-> FALSE, isim_aid |-> FALSE]
  /\ cur = [h \in Handles |-> NoFile]
  /\ sessions = {} /\ adrift = {} /\ lost = {} /\ faults = 0
  /\ th = [t \in Threads |-> IdleThread]
  /\ scan = [t \in Threads |-> NoScan]
  /\ todo = [t \in Threads |-> <<>>]
  /\ adm_keys = {}

Starting(o, pc) == [IdleThread EXCEPT !.op = o, !.pc = pc]

-----------------------------------------------------------------------------
\* connect: ATModem.connect closes an open port, opens the port, sends AT.  Its
\* own except clauses answer for every failure, and the port stays open when
\* only the AT failed.
Connect(t) ==
  /\ Arrive(t, Starting("connect", "port"))
  /\ UNCHANGED <<connected, g, cardVars, faults, localVars>>

OpenPort(t, opened) ==
  /\ th[t].pc = "port"
  /\ IF opened THEN UNCHANGED faults ELSE faults < MaxFaults /\ faults' = faults + 1
  /\ connected' = opened
  /\ th' = [th EXCEPT ![t] = IF opened THEN [@ EXCEPT !.pc = "hello"] ELSE Reply(@, "error")]
  /\ UNCHANGED <<g, cardVars, localVars>>

Hello(t, r) ==
  /\ th[t].pc = "hello"
  /\ Exchange(th[t], r, r = "ok")
  /\ Become(t, Reply(th[t], IF r = "ok" THEN "ok" ELSE "error"))
  /\ UNCHANGED <<g, cardVars, localVars>>

\* disconnect closes the port at once and then resets the globals.
Disconnect(t) ==
  /\ Arrive(t, Starting("disconnect", "assign"))
  /\ connected' = FALSE
  /\ todo' = [todo EXCEPT ![t] =
       <<<<"isim_aid", FALSE>>, <<"usim_lchan", 0>>, <<"isim_lchan", -1>>,
         <<"isim_ccho", FALSE>>, <<"adm_keys", {}>>>>]
  /\ UNCHANGED <<g, cardVars, faults, scan, adm_keys>>

-----------------------------------------------------------------------------
\* Requests that need the port: where each begins.
FirstStep == [at_check |-> "at", isim_fallback |-> "dir", cfun_reset |-> "cfun",
              apple_reset |-> "cfun", verify_adm |-> "verify"]

Call(t, o) ==
  /\ connected
  /\ Arrive(t, Starting(o, FirstStep[o]))
  /\ UNCHANGED <<connected, g, cardVars, faults, localVars>>

\* at_check: AT first.
VerifyAt(t, r) ==
  /\ th[t].pc = "at"
  /\ Exchange(th[t], r, r = "ok")
  /\ Become(t, CASE r = "raise" -> Throw(th[t])
                 [] r = "fail" -> Reply(th[t], "error")
                 [] r = "ok" -> [th[t] EXCEPT !.pc = "scan"])
  /\ UNCHANGED <<g, cardVars, localVars>>

\* STATUS reports the AID of the channel's current directory: none while the MF is.
Status(ch) ==
  CASE layout[ch] = "unsupported" -> "6E00"
    [] layout[ch] = "closed" -> "error"
    [] layout[ch] = "MF" \/ cur[Csim(ch)].app = "MF" -> "noaid"
    [] OTHER -> layout[ch]

Statuses == {"6E00", "error", "noaid", "USIM", "ISIM"}

Scanned(s, answer) ==
  [next |-> s.next + 1,
   usim |-> IF s.usim = -1 /\ (answer = "USIM" \/ (answer = "noaid" /\ s.next = 0))
            THEN s.next ELSE s.usim,
   isim |-> IF s.isim = -1 /\ answer = "ISIM" THEN s.next ELSE s.isim,
   csim_ok |-> s.csim_ok \/ answer \in {"noaid", "USIM", "ISIM"}]

\* What at_check and cfun_reset then do with the channels found.
Found(s) ==
  (IF s.usim >= 0 THEN <<<<"usim_lchan", s.usim>>>> ELSE <<>>)
  \o (IF s.isim >= 0 THEN <<<<"isim_lchan", s.isim>>, <<"isim_aid", TRUE>>>> ELSE <<>>)

ClearedButFallback == <<<<"isim_aid", FALSE>>, <<"usim_lchan", 0>>, <<"isim_lchan", -1>>>>
ClearedButIsim == <<<<"isim_aid", FALSE>>, <<"usim_lchan", 0>>, <<"isim_ccho", FALSE>>>>
Cleared == <<<<"isim_aid", FALSE>>, <<"usim_lchan", 0>>, <<"isim_lchan", -1>>, <<"isim_ccho", FALSE>>>>

\* One STATUS of scan_channels, and what follows the last one.  The answer to
\* another request's command says nothing about the channel.
ScanChannel(t, r, x, answer) ==
  LET s == Scanned(scan[t], answer)
      over == answer = "6E00" \/ (s.usim >= 0 /\ s.isim >= 0) \/ s.next = 20
      failed == th[t].op = "at_check" /\ (~s.csim_ok \/ s.usim = -1)
      assigns == (IF th[t].op = "at_check" THEN Cleared ELSE <<>>) \o Found(s)
  IN /\ th[t].pc = "scan"
     /\ Exchange(th[t], r, x)
     /\ r # "ok" => answer = "error"
     /\ r = "ok" /\ x => answer = Status(scan[t].next)
     /\ Become(t, CASE r = "raise" -> Throw(th[t])
                    [] r # "raise" /\ ~over -> th[t]
                    [] r # "raise" /\ over /\ failed -> Reply(th[t], "error")
                    [] OTHER -> [th[t] EXCEPT !.pc = "assign"])
     /\ scan' = [scan EXCEPT ![t] = IF over \/ r = "raise" THEN NoScan ELSE s]
     /\ todo' = [todo EXCEPT ![t] = IF over /\ ~failed /\ r # "raise" THEN assigns ELSE @]
     /\ UNCHANGED <<g, cardVars, adm_keys>>

\* Where a request goes on after its last assignment.
AfterAssigning(l) ==
  IF l.op # "isim_fallback" THEN Reply(l, "ok")
  ELSE [l EXCEPT !.pc = IF l.session = NoSession THEN "probe" ELSE "hangup"]

\* The next assignment to a global.
Assign(t) ==
  LET name == Head(todo[t])[1]
      value == Head(todo[t])[2]
  IN /\ th[t].pc = "assign"
     /\ IF todo[t] = <<>>
        THEN Become(t, AfterAssigning(th[t])) /\ UNCHANGED <<g, adm_keys, todo>>
        ELSE /\ todo' = [todo EXCEPT ![t] = Tail(@)]
             /\ g' = IF name = "adm_keys" THEN g ELSE [g EXCEPT ![name] = value]
             /\ adm_keys' = IF name = "adm_keys" THEN value ELSE adm_keys
             /\ UNCHANGED <<connected, th>>
     /\ UNCHANGED <<cardVars, faults, scan>>

-----------------------------------------------------------------------------
\* isim_fallback: EF.DIR is selected and read on channel 0.
SelectDir(t, r, x) ==
  LET h == Csim(0) IN
  /\ th[t].pc = "dir"
  /\ \/ Exchange(th[t], r, x) /\ (x => CanSelect(h, File("MF", "2F00")))
     \/ connected /\ r = "fail" /\ ~x /\ ~CanSelect(h, File("MF", "2F00")) /\ UNCHANGED faults
  /\ cur' = IF x THEN [cur EXCEPT ![h] = File("MF", "2F00")] ELSE cur
  /\ Become(t, CASE r = "raise" -> Throw(th[t])
                 [] r = "fail" -> [th[t] EXCEPT !.pc = "assign"]
                 [] r = "ok" -> [th[t] EXCEPT !.pc = "dirrec"])
  /\ UNCHANGED <<g, layout, sessions, adrift, lost, localVars>>

\* Its records may hold the ISIM AID.
ReadDir(t, r, found) ==
  /\ th[t].pc = "dirrec"
  /\ Exchange(th[t], r, r = "ok")
  /\ found => r = "ok"
  /\ Become(t, IF r = "raise" THEN Throw(th[t]) ELSE [th[t] EXCEPT !.pc = "assign"])
  /\ todo' = [todo EXCEPT ![t] = IF found THEN <<<<"isim_aid", TRUE>>>> ELSE @]
  /\ UNCHANGED <<g, cardVars, scan, adm_keys>>

\* Try AT+CCHO with the AID known by now; the session's number is kept as the channel.
ProbeIsim(t, r, x, s) ==
  /\ th[t].pc = "probe"
  /\ IF ~g.isim_aid
     THEN /\ Become(t, Reply(th[t], "ok"))
          /\ UNCHANGED <<cur, sessions, adrift, lost, faults, todo>>
     ELSE /\ CchoOpen(th[t], r, x, s)
          /\ Become(t, CASE r = "raise" -> Throw(th[t])
                         [] r = "fail" -> Reply(th[t], "ok")
                         [] r = "ok" -> [th[t] EXCEPT !.pc = "assign", !.session = s])
          /\ todo' = [todo EXCEPT ![t] =
               IF r = "ok" THEN <<<<"isim_ccho", TRUE>>, <<"isim_lchan", s>>>> ELSE @]
  /\ UNCHANGED <<g, layout, scan, adm_keys>>

HangUp(t, r, x) ==
  LET l == th[t] IN
  /\ l.pc = "hangup"
  /\ CchoClose(l, r, x, l.session)
  /\ Become(t, IF r = "raise" THEN Caught([l EXCEPT !.raised = connected], Kind)
               ELSE Reply(l, "ok"))
  /\ UNCHANGED <<g, layout, cur, localVars>>

-----------------------------------------------------------------------------
\* AT+CFUN 0 and 1, whose answers nobody looks at: the card starts afresh.
Cfun(t, r, x) ==
  /\ th[t].pc = "cfun"
  /\ Exchange(th[t], r, x)
  /\ IF x
     THEN /\ layout' \in Layouts
          /\ cur' = [h \in Handles |-> NoFile]
          /\ sessions' = {} /\ adrift' = {} /\ lost' = {}
     ELSE UNCHANGED cardVars
  /\ Become(t, IF r = "raise" THEN Throw(th[t]) ELSE [th[t] EXCEPT !.pc = "poll"])
  /\ UNCHANGED <<g, localVars>>

\* Poll AT until the modem answers ("ok") or 30 polls have failed ("fail").
\* cfun_reset scans in either case.
Poll(t, r) ==
  /\ th[t].pc = "poll"
  /\ Exchange(th[t], r, r = "ok")
  /\ Become(t, CASE r = "raise" -> Throw(th[t])
                 [] r # "raise" /\ th[t].op = "cfun_reset" -> [th[t] EXCEPT !.pc = "scan"]
                 [] OTHER -> Reply(th[t], IF r = "ok" THEN "ok" ELSE "error"))
  /\ UNCHANGED <<g, cardVars, localVars>>

\* verify_adm remembers a key the card accepts.
VerifyAdm(t, r, key, accepted) ==
  /\ th[t].pc = "verify"
  /\ Exchange(th[t], r, r = "ok")
  /\ Become(t, IF r = "raise" THEN Throw(th[t])
               ELSE Reply(th[t], IF r = "ok" /\ accepted THEN "ok" ELSE "error"))
  /\ adm_keys' = IF r = "ok" /\ accepted THEN adm_keys \cup {key} ELSE adm_keys
  /\ UNCHANGED <<g, cardVars, scan, todo>>

-----------------------------------------------------------------------------
ServerStep(t) ==
  \/ \E opened \in BOOLEAN : OpenPort(t, opened)
  \/ \E r \in Results : Hello(t, r) \/ VerifyAt(t, r) \/ Poll(t, r)
  \/ \E r \in Results, x \in BOOLEAN, answer \in Statuses : ScanChannel(t, r, x, answer)
  \/ Assign(t)
  \/ \E r \in Results, x \in BOOLEAN : SelectDir(t, r, x) \/ HangUp(t, r, x) \/ Cfun(t, r, x)
  \/ \E r \in Results, found \in BOOLEAN : ReadDir(t, r, found)
  \/ \E r \in Results, x \in BOOLEAN, s \in SessionIds : ProbeIsim(t, r, x, s)
  \/ \E r \in Results, key \in AdmTypes, accepted \in BOOLEAN : VerifyAdm(t, r, key, accepted)

ServerRequest(t) ==
  \/ "connect" \in ServerOps /\ Connect(t)
  \/ "disconnect" \in ServerOps /\ Disconnect(t)
  \/ \E o \in ServerOps \ {"connect", "disconnect"} : Call(t, o)

ServerNext ==
  \E t \in Threads :
    \/ (Request(t) \/ Step(t)) /\ UNCHANGED localVars
    \/ ServerRequest(t)
    \/ ServerStep(t)

ServerSpec == ServerInit /\ [][ServerNext]_serverVars

-----------------------------------------------------------------------------
\* Properties.

Quiet == \A t \in Threads : th[t].pc = "idle"

\* Between requests, whatever sequence of requests came before and wherever they
\* broke off, the globals about the ISIM agree: a channel or session number is
\* never recorded without the AID to open it, nor the fallback without a number.
GlobalsAgree ==
  Quiet => /\ g.isim_lchan >= 0 => g.isim_aid
           /\ g.isim_ccho => g.isim_lchan >= 0

\* After a lone at_check that succeeds, the recorded ISIM channel shows the ISIM,
\* the USIM channel the USIM unless it is the assumed channel 0, and nothing is
\* left of an earlier fallback.
ScanPublishesWhatItFound ==
  \A t \in Threads :
    th[t].pc = "idle" /\ th[t].op = "at_check" /\ th[t].alone /\ th[t].resp = "ok"
      => /\ g.usim_lchan # 0 => layout[g.usim_lchan] = "USIM"
         /\ g.isim_lchan # -1 => layout[g.isim_lchan] = "ISIM"
         /\ ~g.isim_ccho
         /\ g.isim_aid <=> g.isim_lchan # -1

=============================================================================
