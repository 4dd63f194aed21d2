------------------------------ MODULE CardLink ------------------------------
(***************************************************************************)
(* pySim/transport/__init__.py: a command APDU over T=0 (GET RESPONSE, 6C)  *)
(* and the FETCH / TERMINAL RESPONSE loop of send_apdu_checksw.            *)
(*                                                                         *)
(* A response is the sequence of its pieces; a status word is its class:   *)
(* "9000", "91" (proactive command waiting), "61" (more to get; 9F of SIM  *)
(* cards is the same), "62" (a warning, 62xx or 63xx), "6C", "6F" (other). *)
(***************************************************************************)
EXTENDS Naturals, Sequences, SequencesExt

CONSTANTS
  MaxPieces,     \* into how many pieces a card cuts a response
  MaxProactive,  \* bound: proactive commands the card has in all
  MaxCommands    \* bound: commands of the application

VARIABLES
  apdu,     \* the command of the application, and where its exchange stands
  tpdu,     \* the T=0 exchange under way: command, data received, last status
  uicc,     \* the card
  handler,  \* what the proactive handler makes of a command
  sends     \* commands so far

linkVars == <<apdu, tpdu, uicc, handler, sends>>

NoApdu == [pc |-> "idle", checked |-> FALSE, case |-> 1, strict |-> TRUE, pieces |-> 0,
           end |-> "9000", amid |-> FALSE, rdata |-> <<>>, rsw |-> "none", result |-> "none"]
NoTpdu == [cmd |-> "none", data |-> <<>>, sw |-> "none"]

\* The card: response pieces not yet fetched, the status after them, proactive
\* commands it has and whether it announced one, whether it awaits a terminal
\* response, and how often it executed the application's command.
LinkInit ==
  /\ apdu = NoApdu
  /\ tpdu = NoTpdu
  /\ uicc = [out |-> <<>>, end |-> "9000", queue |-> 0, announced |-> FALSE,
             awaits |-> FALSE, done |-> 0]
  /\ handler = "list"
  /\ sends = 0

-----------------------------------------------------------------------------
\* The card.

\* A command that went well ends in 91xx when a proactive command waits and no
\* other one is being worked on.
Ending(c, end) == IF end = "9000" /\ c.queue > 0 /\ ~c.awaits THEN "91" ELSE end
Ended(c, end) == [c EXCEPT !.announced = @ \/ Ending(c, end) = "91"]

\* A piece of the response, 61xx as long as there are more.
Piece(c) ==
  LET rest == Tail(c.out) IN
  [data |-> <<Head(c.out)>>,
   sw |-> IF rest = <<>> THEN Ending(c, c.end) ELSE "61",
   card |-> IF rest = <<>> THEN Ended([c EXCEPT !.out = <<>>], c.end) ELSE [c EXCEPT !.out = rest]]

\* Its answer to the application's command: to case 2 the response itself, or 6C
\* and nothing done when Le is not the length; to the other cases 61xx first.
Execute(c, a) ==
  LET did == [c EXCEPT !.done = @ + 1, !.out = [i \in 1..a.pieces |-> i], !.end = a.end] IN
  IF a.pieces = 0 THEN [data |-> <<>>, sw |-> Ending(did, a.end), card |-> Ended(did, a.end)]
  ELSE IF a.case = 2 THEN Piece(did)
  ELSE [data |-> <<>>, sw |-> "61", card |-> did]

\* GET RESPONSE with nothing to get is refused.
AnswerGetResponse(c) ==
  IF c.out = <<>> THEN [data |-> <<>>, sw |-> "6F", card |-> c] ELSE Piece(c)

-----------------------------------------------------------------------------
\* __send_apdu_T0.

\* What has been received so far, and the card after it.
Forget(t, x) == [t EXCEPT !.data = x.data, !.sw = x.sw]
Receive(t, x) == [t EXCEPT !.data = @ \o x.data, !.sw = x.sw]

GetsResponse(sw) == sw \in {"61", "62"}

\* The application calls send_apdu or send_apdu_checksw.
Call(checked, case, strict, pieces, end, wrongLe, news) ==
  LET a == [NoApdu EXCEPT !.pc = "t0", !.checked = checked, !.case = case, !.strict = strict,
                          !.pieces = pieces, !.end = end, !.amid = uicc.awaits]
      c == [uicc EXCEPT !.done = 0, !.out = <<>>, !.queue = @ + news]
  IN /\ apdu.pc = "idle" /\ sends < MaxCommands
     /\ uicc.queue + news <= MaxProactive
     /\ (pieces > 0 => case # 1) /\ (case = 2 => pieces = 1)
     /\ wrongLe => case = 2
     /\ sends' = sends + 1
     /\ apdu' = a
     /\ LET x == IF wrongLe THEN [data |-> <<>>, sw |-> "6C", card |-> c] ELSE Execute(c, a)
        IN tpdu' = [cmd |-> "app", data |-> x.data, sw |-> x.sw] /\ uicc' = x.card
     /\ UNCHANGED handler

\* While 61, 9F, 62 or 63: GET RESPONSE, its data appended.
GetResponse ==
  /\ apdu.pc = "t0" /\ GetsResponse(tpdu.sw)
  /\ LET x == AnswerGetResponse(uicc) IN tpdu' = Receive(tpdu, x) /\ uicc' = x.card
  /\ UNCHANGED <<apdu, handler, sends>>

\* Then 6C: the last TPDU again with the length the card names, its data alone kept.
Resend ==
  /\ apdu.pc = "t0" /\ tpdu.sw = "6C"
  /\ LET x == Execute(uicc, apdu) IN tpdu' = Forget(tpdu, x) /\ uicc' = x.card
  /\ apdu' = [apdu EXCEPT !.pc = "t0_end"]
  /\ UNCHANGED <<handler, sends>>

-----------------------------------------------------------------------------
\* send_apdu and send_apdu_checksw.

Announced(sw) == sw = "91"
Finish(a, result) == [a EXCEPT !.pc = "idle", !.result = result]

\* The exchange is over.  send_apdu refuses data its caller did not ask for;
\* send_apdu_checksw goes on to the proactive command, or checks the status.
AppDone ==
  LET a == [apdu EXCEPT !.rdata = tpdu.data, !.rsw = tpdu.sw] IN
  /\ tpdu.cmd = "app"
  /\ apdu.pc = "t0_end" \/ (apdu.pc = "t0" /\ ~GetsResponse(tpdu.sw) /\ tpdu.sw # "6C")
  /\ apdu' = IF tpdu.data # <<>> /\ apdu.case \in {1, 3} /\ apdu.strict THEN Finish(a, "raised")
             ELSE IF ~apdu.checked THEN Finish(a, "returned")
             ELSE IF Announced(tpdu.sw) THEN [a EXCEPT !.pc = "fetch", !.rsw = "9000"]
             ELSE Finish(a, IF tpdu.sw = "9000" THEN "returned" ELSE "raised")
  /\ tpdu' = NoTpdu
  /\ UNCHANGED <<uicc, handler, sends>>

\* FETCH, checked as the application's command is; a failure raises out of it.
Fetch(works) ==
  /\ apdu.pc = "fetch"
  /\ IF works
     THEN /\ uicc' = [uicc EXCEPT !.queue = @ - 1, !.announced = FALSE, !.awaits = TRUE]
          /\ apdu' = [apdu EXCEPT !.pc = "handle"]
     ELSE /\ uicc' = uicc
          /\ apdu' = Finish(apdu, "raised")
  /\ UNCHANGED <<tpdu, handler, sends>>

\* The handler's list is the response.  When it returns nothing, the response is
\* built with the result 'FIXME', which Result cannot encode; when there is no
\* handler, the "else" branch calls one all the same: both raise.
Handle(h) ==
  /\ apdu.pc = "handle"
  /\ handler' = h
  /\ apdu' = IF h = "list" THEN [apdu EXCEPT !.pc = "respond"] ELSE Finish(apdu, "raised")
  /\ UNCHANGED <<tpdu, uicc, sends>>

\* TERMINAL RESPONSE.  Its status only says whether there is another command.
Again(a, sw) == IF Announced(sw) THEN [a EXCEPT !.pc = "fetch"] ELSE Finish(a, "returned")
Respond(end) ==
  LET c == [uicc EXCEPT !.awaits = FALSE]
  IN /\ apdu.pc = "respond"
     /\ uicc' = Ended(c, end)
     /\ apdu' = Again(apdu, Ending(c, end))
     /\ UNCHANGED <<tpdu, handler, sends>>

LinkNext ==
  \/ \E checked \in BOOLEAN, case \in 1..4, strict \in BOOLEAN, pieces \in 0..MaxPieces,
        end \in {"9000", "62", "6F"}, wrongLe \in BOOLEAN, news \in 0..1 :
       Call(checked, case, strict, pieces, end, wrongLe, news)
  \/ GetResponse \/ Resend \/ AppDone
  \/ \E works \in BOOLEAN : Fetch(works)
  \/ \E h \in {"list", "nothing", "absent"} : Handle(h)
  \/ \E end \in {"9000", "6F"} : Respond(end)

LinkSpec == LinkInit /\ [][LinkNext]_linkVars

-----------------------------------------------------------------------------
\* Properties.

LinkAtRest == apdu.pc = "idle" /\ sends > 0

\* What the caller gets back is the whole response, every piece once and in
\* order, however the card cut it and however often it had to be asked.
ResponseWhole ==
  LinkAtRest /\ apdu.result = "returned" => apdu.rdata = [i \in 1..apdu.pieces |-> i]

\* The status the caller sees is the one the card ended the command with, and
\* 9000 in the place of 91xx after the loop.  A warning gets through only after
\* 6C: else GET RESPONSE follows it, and the refusal of that takes its place.
StatusReaches ==
  LinkAtRest /\ apdu.result = "returned" =>
    CASE apdu.end = "62" -> apdu.rsw = "6F" \/ (apdu.rsw = "62" /\ apdu.case = 2)
      [] apdu.end = "9000" -> apdu.rsw = "9000" \/ (apdu.rsw = "91" /\ ~apdu.checked)
      [] OTHER -> apdu.rsw = apdu.end

\* A command that returned was executed once: neither 6C, GET RESPONSE nor the
\* proactive loop repeats it.
ExecutedOnce == LinkAtRest /\ apdu.result = "returned" => uicc.done = 1

\* When send_apdu_checksw returns, every proactive command it fetched has had its
\* terminal response and none that the card announced is left waiting, unless the
\* call before it broke off between the two.
NothingLeftToFetch ==
  LinkAtRest /\ apdu.checked /\ apdu.result = "returned" /\ ~apdu.amid =>
    ~uicc.awaits /\ ~uicc.announced

\* Together: a command that send_apdu returned from was done once, its answer is
\* whole, and the card waits for nothing more.
CommandDoneOnce == ResponseWhole /\ StatusReaches /\ ExecutedOnce /\ NothingLeftToFetch

=============================================================================
