----------------------------- MODULE FileServer -----------------------------
(***************************************************************************)
(* What the file endpoints of src/src/app.py promise, without the modem,   *)
(* the channels and the sessions: a request has an itinerary of files (one *)
(* for a read or a write, three for the batch requests), goes through it   *)
(* in order, acts on the file it has reached and on no other, and says     *)
(* "ok" only when it got there.                                            *)
(***************************************************************************)
EXTENDS Naturals, Sequences

CONSTANTS
  Clients,      \* who may have a request in progress
  Itineraries,  \* the sequences of files that a request may be for
  Failures      \* the answers that are not "ok"

VARIABLES
  trip,    \* the itinerary of each client's request, empty without one
  at,      \* how far along it the request is
  stage,   \* "idle", "routing" to the file, or "there"
  target,  \* the set of files its commands act on at this moment
  answer   \* the last answer

vars == <<trip, at, stage, target, answer>>

Init ==
  /\ trip = [c \in Clients |-> <<>>]
  /\ at = [c \in Clients |-> 1]
  /\ stage = [c \in Clients |-> "idle"]
  /\ target = [c \in Clients |-> {}]
  /\ answer = [c \in Clients |-> "none"]

\* A request comes in.
Accept(c, i) ==
  /\ stage[c] = "idle"
  /\ trip' = [trip EXCEPT ![c] = i]
  /\ at' = [at EXCEPT ![c] = 1]
  /\ stage' = [stage EXCEPT ![c] = "routing"]
  /\ answer' = [answer EXCEPT ![c] = "none"]
  /\ UNCHANGED target

\* It reaches the file it is about, and from here on acts on that one.
Reach(c) ==
  /\ stage[c] = "routing"
  /\ stage' = [stage EXCEPT ![c] = "there"]
  /\ target' = [target EXCEPT ![c] = {trip[c][at[c]]}]
  /\ UNCHANGED <<trip, at, answer>>

\* It gives up what it was doing there.
GiveUp(c) ==
  /\ stage[c] = "there"
  /\ stage' = [stage EXCEPT ![c] = "routing"]
  /\ target' = [target EXCEPT ![c] = {}]
  /\ UNCHANGED <<trip, at, answer>>

\* It is done with this file, well or badly, and goes on to the next.
Advance(c) ==
  /\ stage[c] # "idle"
  /\ at[c] < Len(trip[c])
  /\ at' = [at EXCEPT ![c] = @ + 1]
  /\ stage' = [stage EXCEPT ![c] = "routing"]
  /\ target' = [target EXCEPT ![c] = {}]
  /\ UNCHANGED <<trip, answer>>

\* It answers.  One file: "ok" only from there.  A batch says "ok" whatever
\* became of its files, but only after the last of them.
MaySayOk(c) ==
  IF Len(trip[c]) = 1 THEN stage[c] = "there" ELSE at[c] = Len(trip[c])

Answer(c, a) ==
  /\ stage[c] # "idle"
  /\ a = "ok" => MaySayOk(c)
  /\ trip' = [trip EXCEPT ![c] = <<>>]
  /\ at' = [at EXCEPT ![c] = 1]
  /\ stage' = [stage EXCEPT ![c] = "idle"]
  /\ target' = [target EXCEPT ![c] = {}]
  /\ answer' = [answer EXCEPT ![c] = a]

Next ==
  \E c \in Clients :
    \/ \E i \in Itineraries : Accept(c, i)
    \/ Reach(c)
    \/ GiveUp(c)
    \/ Advance(c)
    \/ \E a \in Failures \cup {"ok"} : Answer(c, a)

Spec == Init /\ [][Next]_vars

=============================================================================
