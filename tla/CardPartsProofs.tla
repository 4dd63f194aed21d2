-------------------------- MODULE CardPartsProofs --------------------------
(***************************************************************************)
(* Proofs about the parts of pySim, one section for each part: an          *)
(* inductive invariant of the part's own variables, which a step of any    *)
(* other part leaves alone.                                                *)
(***************************************************************************)
EXTENDS CardParts, SequenceTheorems, FiniteSetTheorems, TLAPS

-----------------------------------------------------------------------------
\* send_apdu.

\* A response's pieces, and those that are left when the first k were fetched.
All(n) == [i \in 1..n |-> i]
After(k, n) == [i \in 1..(n - k) |-> k + i]

Ends == {"9000", "62", "6F"}
Statuses == Ends \cup {"none", "91", "61", "6C"}
ApduType ==
  [pc : {"idle", "t0", "t0_end", "fetch", "handle", "respond"}, checked : BOOLEAN, case : 1..4,
   strict : BOOLEAN, pieces : Nat, end : Ends, amid : BOOLEAN, rdata : Seq(Nat), rsw : Statuses,
   result : {"none", "returned", "raised"}]
TpduType == [cmd : {"none", "app"}, data : Seq(Nat), sw : Statuses]
UiccType ==
  [out : Seq(Nat), end : Ends, queue : Nat, announced : BOOLEAN, awaits : BOOLEAN, done : Nat]

\* The status word of an answer that ends in the card's own status.
Status(a, c, sw) ==
  /\ a.end = "62" => sw \in {"62", "6F"}
  /\ a.end = "9000" => sw \in {"9000", "91"}
  /\ a.end = "6F" => sw = "6F"
  /\ sw = "9000" => c.queue = 0 \/ c.awaits
  /\ sw = "91" => a.end = "9000" /\ c.announced /\ ~c.awaits

\* What was received is the beginning of the response, and the card has the rest.
Received(a, t, c) ==
  /\ c.done = 1 /\ c.end = a.end
  /\ \E k \in 0..a.pieces :
       /\ t.data = All(k) /\ c.out = After(k, a.pieces)
       /\ IF k < a.pieces THEN t.sw = "61" ELSE Status(a, c, t.sw)

Exchanging(a, t, c) ==
  /\ t.cmd = "app" /\ a.amid = c.awaits /\ a.result = "none"
  /\ IF t.sw = "6C" THEN a.pc = "t0" /\ a.case = 2 /\ a.pieces = 1 /\ c.done = 0 /\ t.data = <<>>
     ELSE Received(a, t, c)
  /\ a.pc = "t0_end" => a.case = 2 /\ t.sw # "61"

Answering(a, c) ==
  /\ a.rdata = All(a.pieces) /\ a.end = "9000" /\ a.rsw = "9000" /\ c.done = 1 /\ a.checked
  /\ IF a.pc = "fetch" THEN c.announced /\ ~c.awaits ELSE c.awaits /\ ~c.announced

Returned(a, c) ==
  /\ a.rdata = All(a.pieces) /\ c.done = 1
  /\ a.end = "62" => a.rsw = "6F" \/ (a.rsw = "62" /\ a.case = 2)
  /\ a.end = "9000" => a.rsw = "9000" \/ (a.rsw = "91" /\ ~a.checked)
  /\ a.end = "6F" => a.rsw = "6F"
  /\ a.checked /\ ~a.amid => ~c.awaits /\ ~c.announced

LinkTypes == apdu \in ApduType /\ tpdu \in TpduType /\ uicc \in UiccType
LinkInv ==
  /\ LinkTypes
  /\ uicc.announced => uicc.queue > 0
  /\ apdu.pc \in {"t0", "t0_end"} => Exchanging(apdu, tpdu, uicc)
  /\ apdu.pc \in {"fetch", "handle", "respond"} => Answering(apdu, uicc)
  /\ apdu.pc = "idle" /\ apdu.result = "returned" => Returned(apdu, uicc)

\* Pieces, one after the other.
LEMMA Pieces ==
  ASSUME NEW n \in Nat, NEW k \in 0..n
  PROVE  /\ All(n) \in Seq(Nat) /\ After(k, n) \in Seq(Nat) /\ All(0) = <<>>
         /\ After(k, n) = <<>> <=> k = n
         /\ All(n) = After(0, n)
<1>1. All(n) \in Seq(Nat) /\ After(k, n) \in Seq(Nat) /\ All(0) = <<>>
  BY DEF All, After
<1>2. Len(After(k, n)) = n - k
  BY DEF After
<1>3. After(k, n) = <<>> <=> k = n
  BY <1>1, <1>2, EmptySeq
<1>4. All(n) = After(0, n)
  BY DEF All, After
<1> QED BY <1>1, <1>3, <1>4

LEMMA NextPiece ==
  ASSUME NEW n \in Nat, NEW k \in 0..n, k < n
  PROVE  /\ Head(After(k, n)) = k + 1 /\ Tail(After(k, n)) = After(k + 1, n)
         /\ All(k) \o <<k + 1>> = All(k + 1)
<1>1. After(k, n) \in Seq(Nat) /\ Len(After(k, n)) = n - k
  BY DEF After
<1>2. Head(After(k, n)) = k + 1
  BY <1>1 DEF After
<1>3. Tail(After(k, n)) = After(k + 1, n)
  BY <1>1 DEF After
<1>4. All(k) \o <<k + 1>> = All(k + 1)
  BY DEF All
<1> QED BY <1>2, <1>3, <1>4

\* What the card answers.
LEMMA EndingFacts ==
  ASSUME NEW c \in UiccType, NEW e \in Ends, NEW a, a.end = e,
         c.announced => c.queue > 0
  PROVE  /\ Link!Ended(c, e) \in UiccType
         /\ Link!Ended(c, e) = [c EXCEPT !.announced = Link!Ended(c, e).announced]
         /\ Link!Ended(c, e).announced => c.queue > 0
         /\ Link!Ending(c, e) \in Ends \cup {"91"}
         /\ Link!Ending(c, e) # "91" => Link!Ended(c, e) = c
         /\ Status(a, Link!Ended(c, e), Link!Ending(c, e))
<1> DEFINE sw == Link!Ending(c, e)
           b == c.announced \/ sw = "91"
           d == [c EXCEPT !.announced = b]
<1>1. Link!Ended(c, e) = d
  BY DEF Link!Ended
<1>2. /\ sw \in Ends \cup {"91"}
      /\ sw = "91" <=> e = "9000" /\ c.queue > 0 /\ ~c.awaits
      /\ sw # "91" => sw = e
  BY DEF Link!Ending, Ends
<1>3. b \in BOOLEAN /\ (sw # "91" => b = c.announced)
  BY DEF UiccType
<1> HIDE DEF sw, b
<1>4. d \in UiccType /\ d.announced = b /\ d.queue = c.queue /\ d.awaits = c.awaits
  BY <1>3 DEF UiccType
<1>5. sw # "91" => d = c
  BY <1>3 DEF UiccType
<1>6. b => c.queue > 0
  BY <1>2 DEF b
<1>7. Status(a, d, sw)
  BY <1>2, <1>4 DEF Status, b, UiccType
<1> QED BY <1>1, <1>2, <1>4, <1>5, <1>6, <1>7 DEF sw

Announcing(c) == c.announced => c.queue > 0

\* A piece, when some are left.
LEMMA PieceFacts ==
  ASSUME NEW a \in ApduType, NEW c \in UiccType, Announcing(c), c.end = a.end,
         NEW k \in 0..a.pieces, k < a.pieces, c.out = After(k, a.pieces),
         NEW x, x = Link!Piece(c)
  PROVE  /\ x.card \in UiccType /\ Announcing(x.card)
         /\ x.card.done = c.done /\ x.card.end = c.end /\ x.card.awaits = c.awaits
         /\ x.data = <<k + 1>> /\ x.card.out = After(k + 1, a.pieces)
         /\ IF k + 1 < a.pieces THEN x.sw = "61" ELSE Status(a, x.card, x.sw)
         /\ x.sw \in Statuses \ {"6C"}
<1> DEFINE n == a.pieces
           rest == Tail(c.out)
           u == [c EXCEPT !.out = rest]
           e == c.end
<1>1. n \in Nat /\ k + 1 \in 0..n
  BY DEF ApduType
<1>2. rest = After(k + 1, n) /\ Head(c.out) = k + 1
  BY <1>1, NextPiece
<1>3. rest \in Seq(Nat) /\ (rest = <<>> <=> k + 1 = n)
  BY <1>1, <1>2, Pieces
<1> HIDE DEF rest
<1>4. u \in UiccType /\ u.out = rest /\ e \in Ends
      /\ u.done = c.done /\ u.end = e /\ u.awaits = c.awaits
      /\ u.queue = c.queue /\ u.announced = c.announced
  BY <1>3 DEF UiccType
<1>5. Announcing(u)
  BY <1>4 DEF Announcing
<1> HIDE DEF u
<1>6. CASE rest = <<>>
  <2> DEFINE d == Link!Ended(u, e)
  <2>1. x = [data |-> <<k + 1>>, sw |-> Link!Ending(c, e), card |-> d]
    BY <1>2, <1>6 DEF Link!Piece, u, rest
  <2>2. Link!Ending(c, e) = Link!Ending(u, e)
    BY <1>4 DEF Link!Ending
  <2>3. /\ d \in UiccType /\ d = [u EXCEPT !.announced = d.announced]
        /\ d.announced => u.queue > 0
        /\ Link!Ending(u, e) \in Ends \cup {"91"} /\ Status(a, d, Link!Ending(u, e))
    BY <1>4, <1>5, EndingFacts DEF Announcing
  <2> HIDE DEF d
  <2>4. d.out = rest /\ d.done = c.done /\ d.end = e /\ d.awaits = c.awaits /\ d.queue = c.queue
    BY <2>3, <1>4 DEF UiccType
  <2>5. /\ x.card = d /\ x.data = <<k + 1>> /\ x.sw = Link!Ending(u, e)
    BY <2>1, <2>2
  <2>6. Announcing(d)
    BY <2>3, <2>4, <1>4 DEF Announcing
  <2>7. x.sw \in Statuses \ {"6C"}
    BY <2>3, <2>5 DEF Statuses, Ends
  <2>8. ~(k + 1 < a.pieces) /\ x.card.out = After(k + 1, a.pieces)
    BY <1>1, <1>2, <1>3, <1>6, <2>4, <2>5
  <2> QED BY <2>3, <2>4, <2>5, <2>6, <2>7, <2>8
<1>7. CASE rest # <<>>
  <2>1. x = [data |-> <<k + 1>>, sw |-> "61", card |-> u]
    BY <1>2, <1>7 DEF Link!Piece, u, rest
  <2>2. x.card = u /\ x.data = <<k + 1>> /\ x.sw = "61"
    BY <2>1
  <2>3. k + 1 < a.pieces /\ x.card.out = After(k + 1, a.pieces)
    BY <1>1, <1>2, <1>3, <1>4, <1>7, <2>2
  <2> QED BY <1>4, <1>5, <2>2, <2>3 DEF Statuses
<1> QED BY <1>6, <1>7

\* GET RESPONSE brings the next piece, or its refusal.
LEMMA GetResponseFacts ==
  ASSUME NEW a \in ApduType, NEW t \in TpduType, NEW c \in UiccType, Announcing(c),
         Received(a, t, c), t.sw \in {"61", "62"},
         NEW x, x = Link!AnswerGetResponse(c), NEW u, u = Link!Receive(t, x)
  PROVE  /\ x.card \in UiccType /\ Announcing(x.card) /\ x.card.awaits = c.awaits
         /\ u \in TpduType /\ u.cmd = t.cmd /\ u.sw # "6C" /\ Received(a, u, x.card)
<1> DEFINE n == a.pieces
<1>1. PICK k \in 0..n : /\ t.data = All(k) /\ c.out = After(k, n)
                        /\ IF k < n THEN t.sw = "61" ELSE Status(a, c, t.sw)
  BY DEF Received
<1>2. n \in Nat /\ k \in Nat /\ a.end \in Ends
  BY DEF ApduType
<1> HIDE DEF n
<1>3. (c.out = <<>> <=> k = n) /\ All(k) \in Seq(Nat) /\ c.done = 1 /\ c.end = a.end
  <2>1. After(k, n) = <<>> <=> k = n
    BY <1>2, Pieces
  <2>2. k \in 0..k
    BY <1>2
  <2>3. All(k) \in Seq(Nat)
    BY <1>2, <2>2, Pieces
  <2> QED BY <1>1, <2>1, <2>3 DEF Received
<1>4. u = [t EXCEPT !.data = t.data \o x.data, !.sw = x.sw]
  BY DEF Link!Receive
<1>5. CASE k < n
  <2>1. x = Link!Piece(c)
    BY <1>1, <1>2, <1>3, <1>5 DEF Link!AnswerGetResponse
  <2>2. /\ x.card \in UiccType /\ Announcing(x.card)
        /\ x.card.done = c.done /\ x.card.end = c.end /\ x.card.awaits = c.awaits
        /\ x.data = <<k + 1>> /\ x.card.out = After(k + 1, n)
        /\ IF k + 1 < n THEN x.sw = "61" ELSE Status(a, x.card, x.sw)
        /\ x.sw \in Statuses \ {"6C"}
    BY <1>1, <1>3, <1>5, <2>1, PieceFacts DEF n
  <2>3. t.data \o x.data = All(k + 1) /\ k + 1 \in 0..n
    <3>1. All(k) \o <<k + 1>> = All(k + 1)
      BY <1>2, <1>5, NextPiece
    <3> QED BY <1>1, <1>2, <1>5, <2>2, <3>1
  <2>4. All(k + 1) \in Seq(Nat)
    BY <1>2, <2>3, Pieces
  <2>5. u \in TpduType /\ u.cmd = t.cmd /\ u.sw = x.sw /\ u.data = All(k + 1)
    BY <1>4, <2>2, <2>3, <2>4 DEF TpduType
  <2> QED BY <1>3, <2>2, <2>3, <2>5 DEF Received, n
<1>6. CASE k = n
  <2>1. x = [data |-> <<>>, sw |-> "6F", card |-> c]
    BY <1>3, <1>6 DEF Link!AnswerGetResponse
  <2>2. Status(a, c, t.sw)
    BY <1>1, <1>2, <1>6
  <2>3. a.end = "62"
    BY <1>2, <2>2 DEF Status, Ends
  <2>4. Status(a, c, "6F")
    BY <2>3 DEF Status
  <2>5. t.data \in Seq(Nat) /\ t.data \o <<>> = t.data
    BY <1>1, <1>3
  <2>6. x.card = c /\ x.data = <<>> /\ x.sw = "6F"
    BY <2>1
  <2>7. u \in TpduType /\ u.cmd = t.cmd /\ u.sw = "6F" /\ u.data = t.data
    BY <1>4, <2>5, <2>6 DEF TpduType, Statuses, Ends
  <2> QED BY <1>1, <1>2, <1>3, <1>6, <2>4, <2>6, <2>7 DEF Received, n
<1> QED BY <1>1, <1>2, <1>5, <1>6

\* The card has done the command and has its response.
Did(c, s, e) == [c EXCEPT !.done = 1, !.out = s, !.end = e]
LEMMA DidFacts ==
  ASSUME NEW c \in UiccType, NEW s \in Seq(Nat), NEW e \in Ends
  PROVE  /\ Did(c, s, e) \in UiccType
         /\ Did(c, s, e).done = 1 /\ Did(c, s, e).out = s /\ Did(c, s, e).end = e
         /\ Did(c, s, e).awaits = c.awaits /\ Did(c, s, e).queue = c.queue
         /\ Did(c, s, e).announced = c.announced
BY DEF UiccType, Did

\* The card's answer to the command itself.
LEMMA ExecuteFacts ==
  ASSUME NEW a \in ApduType, NEW c \in UiccType, Announcing(c), c.done = 0,
         a.case = 2 => a.pieces = 1,
         NEW t \in TpduType, t.cmd = "app",
         NEW x, x = Link!Execute(c, a), NEW u, u = Link!Forget(t, x)
  PROVE  /\ x.card \in UiccType /\ Announcing(x.card) /\ x.card.awaits = c.awaits
         /\ x.data \in Seq(Nat)
         /\ u \in TpduType /\ u.cmd = "app" /\ u.data = x.data /\ u.sw = x.sw
         /\ u.sw # "6C" /\ Received(a, u, x.card)
         /\ a.case = 2 => u.sw # "61"
<1> DEFINE n == a.pieces
           did == [c EXCEPT !.done = @ + 1, !.out = [i \in 1..n |-> i], !.end = a.end]
<1>1. n \in Nat /\ a.end \in Ends /\ 0 \in 0..n
  BY DEF ApduType
<1> HIDE DEF n
<1>2. All(n) \in Seq(Nat) /\ All(n) = After(0, n) /\ All(0) = <<>> /\ <<>> \in Seq(Nat)
  <2>1. All(n) \in Seq(Nat) /\ All(n) = After(0, n) /\ All(0) = <<>>
    BY <1>1, Pieces
  <2> QED BY <2>1
<1> DEFINE e == Did(c, All(n), a.end)
<1>3. did = e
  BY c.done + 1 = 1 DEF All, Did
<1>4. x = IF n = 0 THEN [data |-> <<>>, sw |-> Link!Ending(e, a.end), card |-> Link!Ended(e, a.end)]
          ELSE IF a.case = 2 THEN Link!Piece(e)
          ELSE [data |-> <<>>, sw |-> "61", card |-> e]
  BY <1>3 DEF Link!Execute, n
<1> HIDE DEF did
<1>5. /\ e \in UiccType /\ e.done = 1 /\ e.out = After(0, n) /\ e.end = a.end
      /\ e.awaits = c.awaits /\ e.queue = c.queue /\ e.announced = c.announced
  BY <1>1, <1>2, DidFacts
<1> HIDE DEF e
<1>6. Announcing(e)
  BY <1>5 DEF Announcing
<1>7. u = [t EXCEPT !.data = x.data, !.sw = x.sw]
  BY DEF Link!Forget
<1>8. ASSUME x.data \in Seq(Nat), x.sw \in Statuses
      PROVE  u \in TpduType /\ u.cmd = "app" /\ u.data = x.data /\ u.sw = x.sw
  BY <1>7, <1>8 DEF TpduType
<1>9. CASE n = 0
  <2> DEFINE d == Link!Ended(e, a.end)
  <2>1. /\ d \in UiccType /\ d = [e EXCEPT !.announced = d.announced]
        /\ d.announced => e.queue > 0
        /\ Link!Ending(e, a.end) \in Ends \cup {"91"} /\ Status(a, d, Link!Ending(e, a.end))
    BY <1>1, <1>5, <1>6, EndingFacts DEF Announcing
  <2>2. x.card = d /\ x.data = <<>> /\ x.sw = Link!Ending(e, a.end)
    BY <1>4, <1>9
  <2> HIDE DEF d
  <2>3. d.out = After(0, n) /\ d.done = 1 /\ d.end = a.end /\ d.awaits = c.awaits /\ d.queue = e.queue
    BY <2>1, <1>5 DEF UiccType
  <2>4. Announcing(d)
    BY <2>1, <2>3 DEF Announcing
  <2>5. x.sw \in Statuses /\ x.sw \notin {"6C", "61"}
    BY <2>1, <2>2 DEF Statuses, Ends
  <2>6. u \in TpduType /\ u.cmd = "app" /\ u.data = x.data /\ u.sw = x.sw
    BY <1>2, <1>8, <2>2, <2>5
  <2>7. Received(a, u, d)
    BY <1>1, <1>2, <1>9, <2>1, <2>2, <2>3, <2>6 DEF Received, n
  <2> QED BY <1>2, <2>1, <2>2, <2>3, <2>4, <2>5, <2>6, <2>7
<1>10. CASE n # 0 /\ a.case = 2
  <2>1. n = 1 /\ x = Link!Piece(e) /\ 0 < n
    BY <1>4, <1>10 DEF n
  <2>2. /\ x.card \in UiccType /\ Announcing(x.card)
        /\ x.card.done = 1 /\ x.card.end = a.end /\ x.card.awaits = c.awaits
        /\ x.data = <<1>> /\ x.card.out = After(1, n)
        /\ Status(a, x.card, x.sw)
        /\ x.sw \in Statuses \ {"6C"}
    BY <1>1, <1>5, <1>6, <2>1, PieceFacts DEF n
  <2>3. <<1>> = All(1) /\ <<1>> \in Seq(Nat)
    BY DEF All
  <2>4. u \in TpduType /\ u.cmd = "app" /\ u.data = x.data /\ u.sw = x.sw
    BY <1>8, <2>2, <2>3
  <2>5. Received(a, u, x.card)
    BY <2>1, <2>2, <2>3, <2>4 DEF Received, n
  <2>6. x.sw # "61"
    BY <1>1, <2>2 DEF Status, Ends
  <2> QED BY <2>2, <2>3, <2>4, <2>5, <2>6
<1>11. CASE n # 0 /\ a.case # 2
  <2>1. x.card = e /\ x.data = <<>> /\ x.sw = "61"
    BY <1>4, <1>11
  <2>2. u \in TpduType /\ u.cmd = "app" /\ u.data = x.data /\ u.sw = x.sw
    BY <1>2, <1>8, <2>1 DEF Statuses
  <2>3. Received(a, u, e)
    BY <1>1, <1>2, <1>5, <1>11, <2>1, <2>2 DEF Received, n
  <2> QED BY <1>2, <1>5, <1>6, <1>11, <2>1, <2>2, <2>3
<1> QED BY <1>9, <1>10, <1>11

\* The application's command: the apdu it makes, and the card before it.
Asked(d, b, k, s, n, e, m) ==
  [d EXCEPT !.pc = "t0", !.checked = b, !.case = k, !.strict = s, !.pieces = n, !.end = e,
            !.amid = m]
Before(c, q) == [c EXCEPT !.done = 0, !.out = <<>>, !.queue = q]
Askable(d, b, k, s, n, e, m) ==
  /\ d \in ApduType /\ b \in BOOLEAN /\ k \in 1..4 /\ s \in BOOLEAN /\ n \in Nat /\ e \in Ends
  /\ m \in BOOLEAN
LEMMA AskedFacts ==
  ASSUME NEW d, NEW b, NEW k, NEW s, NEW n, NEW e, NEW m, Askable(d, b, k, s, n, e, m),
         NEW a, a = Asked(d, b, k, s, n, e, m)
  PROVE  a \in ApduType /\ a.pc = "t0" /\ a.case = k /\ a.pieces = n /\ a.result = d.result
BY DEF Asked, ApduType, Askable
LEMMA AskedAmid ==
  ASSUME NEW d \in ApduType, NEW b, NEW k, NEW s, NEW n, NEW e, NEW m,
         NEW a, a = Asked(d, b, k, s, n, e, m)
  PROVE  a.amid = m
BY DEF Asked, ApduType
LEMMA NoApduFacts == Link!NoApdu \in ApduType /\ Link!NoApdu.result = "none"
<1>1. <<>> \in Seq(Nat)
  OBVIOUS
<1> QED BY <1>1 DEF Link!NoApdu, ApduType, Statuses, Ends
LEMMA BeforeFacts ==
  ASSUME NEW c \in UiccType, Announcing(c), NEW q \in Nat, q >= c.queue, NEW d, d = Before(c, q)
  PROVE  d \in UiccType /\ Announcing(d) /\ d.done = 0 /\ d.awaits = c.awaits
<1>1. <<>> \in Seq(Nat)
  OBVIOUS
<1>2. d \in UiccType /\ d.done = 0 /\ d.awaits = c.awaits /\ d.announced = c.announced
      /\ d.queue = q
  BY <1>1 DEF UiccType, Before
<1>3. Announcing(d)
  BY <1>2 DEF Announcing, UiccType
<1> QED BY <1>2, <1>3

NewTpdu == [cmd |-> "app", data |-> <<>>, sw |-> "none"]
LEMMA LinkCall ==
  ASSUME LinkInv,
         NEW checked \in BOOLEAN, NEW ofCase \in 1..4, NEW strict \in BOOLEAN,
         NEW pieces \in 0..MaxPieces, NEW e \in Ends, NEW wrongLe \in BOOLEAN, NEW news \in 0..1,
         Link!Call(checked, ofCase, strict, pieces, e, wrongLe, news)
  PROVE  LinkInv'
<1> DEFINE a == Asked(Link!NoApdu, checked, ofCase, strict, pieces, e, uicc.awaits)
           q == uicc.queue + news
           c == Before(uicc, q)
           x == IF wrongLe THEN [data |-> <<>>, sw |-> "6C", card |-> c] ELSE Link!Execute(c, a)
           t == NewTpdu
<1>1. /\ uicc \in UiccType /\ uicc.awaits \in BOOLEAN /\ Announcing(uicc) /\ pieces \in Nat
      /\ q \in Nat /\ q >= uicc.queue
      /\ ofCase = 2 => pieces = 1
      /\ wrongLe => ofCase = 2
  BY LinkAssumption DEF LinkInv, LinkTypes, UiccType, Announcing, Link!Call
<1>2. apdu' = a /\ tpdu' = [cmd |-> "app", data |-> x.data, sw |-> x.sw] /\ uicc' = x.card
  BY DEF Link!Call, Asked, Before
<1>3. /\ a \in ApduType /\ a.pc = "t0" /\ a.case = ofCase /\ a.pieces = pieces
      /\ a.amid = uicc.awaits /\ a.result = "none"
  <2> DEFINE w == uicc.awaits
             d == Link!NoApdu
  <2>1. a = Asked(d, checked, ofCase, strict, pieces, e, w) /\ w \in BOOLEAN
    BY <1>1
  <2>2. d \in ApduType /\ d.result = "none"
    BY NoApduFacts
  <2> HIDE DEF a, w, d
  <2>3. /\ a \in ApduType /\ a.pc = "t0" /\ a.case = ofCase /\ a.pieces = pieces
        /\ a.result = d.result
    <3>1. Askable(d, checked, ofCase, strict, pieces, e, w)
      BY <1>1, <2>1, <2>2 DEF Askable
    <3> QED BY <3>1, <2>1, AskedFacts
  <2>4. a.amid = w
    BY <2>1, <2>2, AskedAmid
  <2> QED BY <2>2, <2>3, <2>4 DEF w
<1>4. c \in UiccType /\ Announcing(c) /\ c.done = 0 /\ c.awaits = uicc.awaits
  <2> HIDE DEF q
  <2> QED BY <1>1, BeforeFacts
<1> HIDE DEF a, c
<1>5. t \in TpduType /\ t.cmd = "app"
  BY DEF TpduType, Statuses, NewTpdu
<1>6. CASE wrongLe
  <2>1. uicc' = c /\ tpdu' = [cmd |-> "app", data |-> <<>>, sw |-> "6C"]
    BY <1>2, <1>6
  <2>2. tpdu' \in TpduType /\ tpdu'.cmd = "app" /\ tpdu'.sw = "6C" /\ tpdu'.data = <<>>
    BY <2>1 DEF TpduType, Statuses
  <2>3. Exchanging(a, tpdu', c)
    BY <1>1, <1>3, <1>4, <1>6, <2>2 DEF Exchanging
  <2> QED BY <1>2, <1>3, <1>4, <2>1, <2>2, <2>3 DEF LinkInv, LinkTypes, Announcing
<1>7. CASE ~wrongLe
  <2> DEFINE u == Link!Forget(t, x)
  <2>1. x = Link!Execute(c, a)
    BY <1>7
  <2> HIDE DEF x, u, t
  <2>2. /\ x.card \in UiccType /\ Announcing(x.card) /\ x.card.awaits = c.awaits
        /\ x.data \in Seq(Nat) /\ u.data = x.data /\ u.sw = x.sw /\ u \in TpduType
        /\ u.sw # "6C" /\ Received(a, u, x.card)
    BY <1>1, <1>3, <1>4, <1>5, <2>1, ExecuteFacts DEF u
  <2>3. tpdu'.cmd = "app" /\ tpdu'.data = u.data /\ tpdu'.sw = u.sw /\ tpdu' \in TpduType
    BY <1>2, <2>2 DEF TpduType
  <2>4. Received(a, tpdu', x.card)
    BY <2>2, <2>3 DEF Received
  <2>5. Exchanging(a, tpdu', x.card)
    BY <1>3, <1>4, <2>2, <2>3, <2>4 DEF Exchanging
  <2> QED BY <1>2, <1>3, <2>2, <2>3, <2>5 DEF LinkInv, LinkTypes, Announcing
<1> QED BY <1>6, <1>7

LEMMA LinkGetResponse ==
  ASSUME LinkInv, Link!GetResponse
  PROVE  LinkInv'
<1> DEFINE x == Link!AnswerGetResponse(uicc)
           u == Link!Receive(tpdu, x)
<1>1. /\ apdu \in ApduType /\ tpdu \in TpduType /\ uicc \in UiccType /\ Announcing(uicc)
      /\ apdu.pc = "t0" /\ tpdu.sw \in {"61", "62"} /\ Exchanging(apdu, tpdu, uicc)
  BY DEF LinkInv, LinkTypes, Announcing, Link!GetResponse, Link!GetsResponse
<1>2. apdu' = apdu /\ tpdu' = u /\ uicc' = x.card
  BY DEF Link!GetResponse
<1>3. Received(apdu, tpdu, uicc) /\ tpdu.cmd = "app" /\ apdu.amid = uicc.awaits
      /\ apdu.result = "none"
  BY <1>1 DEF Exchanging
<1> HIDE DEF u
<1>4. /\ x.card \in UiccType /\ Announcing(x.card) /\ x.card.awaits = uicc.awaits
      /\ u \in TpduType /\ u.cmd = "app" /\ u.sw # "6C" /\ Received(apdu, u, x.card)
  BY <1>1, <1>3, GetResponseFacts DEF u
<1> HIDE DEF x
<1>5. Exchanging(apdu, u, x.card)
  BY <1>1, <1>3, <1>4 DEF Exchanging
<1> QED BY <1>1, <1>2, <1>4, <1>5 DEF LinkInv, LinkTypes, Announcing

LEMMA LinkResend ==
  ASSUME LinkInv, Link!Resend
  PROVE  LinkInv'
<1> DEFINE x == Link!Execute(uicc, apdu)
           u == Link!Forget(tpdu, x)
           a == [apdu EXCEPT !.pc = "t0_end"]
<1>1. /\ apdu \in ApduType /\ tpdu \in TpduType /\ uicc \in UiccType /\ Announcing(uicc)
      /\ apdu.pc = "t0" /\ tpdu.sw = "6C" /\ Exchanging(apdu, tpdu, uicc)
  BY DEF LinkInv, LinkTypes, Announcing, Link!Resend
<1>2. apdu' = a /\ tpdu' = u /\ uicc' = x.card
  BY DEF Link!Resend
<1>3. apdu.case = 2 /\ apdu.pieces = 1 /\ uicc.done = 0 /\ tpdu.cmd = "app"
      /\ apdu.amid = uicc.awaits /\ apdu.result = "none"
  BY <1>1 DEF Exchanging
<1>4. /\ a \in ApduType /\ a.pc = "t0_end" /\ a.case = 2 /\ a.pieces = apdu.pieces
      /\ a.end = apdu.end /\ a.amid = apdu.amid /\ a.result = "none"
  BY <1>1, <1>3 DEF ApduType
<1> HIDE DEF u, a
<1>5. /\ x.card \in UiccType /\ Announcing(x.card) /\ x.card.awaits = uicc.awaits
      /\ u \in TpduType /\ u.cmd = "app" /\ u.sw # "6C" /\ u.sw # "61"
      /\ Received(apdu, u, x.card)
  BY <1>1, <1>3, ExecuteFacts DEF u
<1> HIDE DEF x
<1>6. Received(a, u, x.card)
  BY <1>4, <1>5 DEF Received, Status
<1>7. Exchanging(a, u, x.card)
  BY <1>3, <1>4, <1>5, <1>6 DEF Exchanging
<1> QED BY <1>1, <1>2, <1>4, <1>5, <1>7 DEF LinkInv, LinkTypes, Announcing

\* The exchange is over.
LEMMA ExchangeOver ==
  ASSUME LinkInv, Link!AppDone
  PROVE  /\ tpdu.data = All(apdu.pieces) /\ tpdu.data \in Seq(Nat) /\ tpdu.sw \in Statuses
         /\ uicc.done = 1 /\ Status(apdu, uicc, tpdu.sw)
         /\ apdu.amid = uicc.awaits /\ apdu.result = "none"
         /\ tpdu.sw = "62" => apdu.case = 2
<1>1. apdu \in ApduType /\ tpdu \in TpduType /\ Exchanging(apdu, tpdu, uicc)
  BY DEF LinkInv, LinkTypes, Link!AppDone
<1>2. tpdu.sw # "6C" /\ tpdu.sw # "61" /\ (tpdu.sw = "62" => apdu.case = 2)
  BY <1>1 DEF Link!AppDone, Link!GetsResponse, Exchanging
<1>3. Received(apdu, tpdu, uicc)
  BY <1>1, <1>2 DEF Exchanging
<1>4. PICK k \in 0..apdu.pieces : /\ tpdu.data = All(k)
                                  /\ IF k < apdu.pieces THEN tpdu.sw = "61"
                                     ELSE Status(apdu, uicc, tpdu.sw)
  BY <1>3 DEF Received
<1>5. k = apdu.pieces
  BY <1>1, <1>2, <1>4 DEF ApduType
<1> QED BY <1>1, <1>2, <1>3, <1>4, <1>5 DEF Received, Exchanging, TpduType, ApduType

LEMMA LinkAppDone ==
  ASSUME LinkInv, Link!AppDone
  PROVE  LinkInv'
<1> DEFINE a == [apdu EXCEPT !.rdata = tpdu.data, !.rsw = tpdu.sw]
<1>1. /\ apdu \in ApduType /\ tpdu \in TpduType /\ uicc \in UiccType /\ Announcing(uicc)
  BY DEF LinkInv, LinkTypes, Announcing
<1>2. /\ tpdu.data = All(apdu.pieces) /\ tpdu.data \in Seq(Nat) /\ tpdu.sw \in Statuses
      /\ uicc.done = 1 /\ Status(apdu, uicc, tpdu.sw)
      /\ apdu.amid = uicc.awaits /\ apdu.result = "none"
      /\ tpdu.sw = "62" => apdu.case = 2
  BY ExchangeOver
<1>3. /\ a \in ApduType /\ a.rdata = tpdu.data /\ a.rsw = tpdu.sw
      /\ a.pieces = apdu.pieces /\ a.end = apdu.end /\ a.case = apdu.case
      /\ a.checked = apdu.checked /\ a.amid = apdu.amid /\ a.result = "none"
  BY <1>1, <1>2 DEF ApduType
<1>4. uicc' = uicc /\ tpdu' = Link!NoTpdu /\ Link!NoTpdu \in TpduType
  BY DEF Link!AppDone, Link!NoTpdu, TpduType, Statuses
<1>5. \/ apdu' = Link!Finish(a, "raised")
      \/ ~a.checked /\ apdu' = Link!Finish(a, "returned")
      \/ a.checked /\ tpdu.sw = "91" /\ apdu' = [a EXCEPT !.pc = "fetch", !.rsw = "9000"]
      \/ a.checked /\ tpdu.sw = "9000" /\ apdu' = Link!Finish(a, "returned")
  BY <1>3 DEF Link!AppDone, Link!Announced
<1> HIDE DEF a
<1>6. CASE apdu' = Link!Finish(a, "raised")
  <2>1. apdu' \in ApduType /\ apdu'.pc = "idle" /\ apdu'.result = "raised"
    BY <1>3, <1>6 DEF Link!Finish, ApduType
  <2> QED BY <1>1, <1>4, <2>1 DEF LinkInv, LinkTypes, Announcing
<1>7. CASE /\ apdu' = Link!Finish(a, "returned")
           /\ ~a.checked \/ tpdu.sw = "9000"
  <2>1. /\ apdu' \in ApduType /\ apdu'.pc = "idle" /\ apdu'.rdata = a.rdata /\ apdu'.rsw = a.rsw
        /\ apdu'.pieces = a.pieces /\ apdu'.end = a.end /\ apdu'.case = a.case
        /\ apdu'.checked = a.checked /\ apdu'.amid = a.amid
    BY <1>3, <1>7 DEF Link!Finish, ApduType
  <2>2. Returned(apdu', uicc)
    BY <1>1, <1>2, <1>3, <1>7, <2>1 DEF Returned, Status, Announcing, ApduType, UiccType
  <2> QED BY <1>1, <1>4, <2>1, <2>2 DEF LinkInv, LinkTypes, Announcing
<1>8. CASE a.checked /\ tpdu.sw = "91" /\ apdu' = [a EXCEPT !.pc = "fetch", !.rsw = "9000"]
  <2>1. /\ apdu' \in ApduType /\ apdu'.pc = "fetch" /\ apdu'.rdata = a.rdata /\ apdu'.rsw = "9000"
        /\ apdu'.pieces = a.pieces /\ apdu'.end = a.end /\ apdu'.checked = a.checked
    BY <1>3, <1>8 DEF ApduType, Statuses, Ends
  <2>2. Answering(apdu', uicc)
    BY <1>2, <1>3, <1>8, <2>1 DEF Answering, Status
  <2> QED BY <1>1, <1>4, <2>1, <2>2 DEF LinkInv, LinkTypes, Announcing
<1> QED BY <1>5, <1>6, <1>7, <1>8

LEMMA LinkFetch ==
  ASSUME LinkInv, NEW works \in BOOLEAN, Link!Fetch(works)
  PROVE  LinkInv'
<1>1. /\ apdu \in ApduType /\ tpdu \in TpduType /\ uicc \in UiccType /\ Announcing(uicc)
      /\ Answering(apdu, uicc) /\ apdu.pc = "fetch" /\ tpdu' = tpdu
  BY DEF LinkInv, LinkTypes, Announcing, Link!Fetch
<1>2. CASE works
  <2> DEFINE q == uicc.queue - 1
  <2>1. uicc' = [uicc EXCEPT !.queue = q, !.announced = FALSE, !.awaits = TRUE]
        /\ apdu' = [apdu EXCEPT !.pc = "handle"]
    BY <1>2 DEF Link!Fetch
  <2>2. q \in Nat /\ uicc.done = 1
    BY <1>1 DEF Answering, Announcing, UiccType
  <2> HIDE DEF q
  <2>3. /\ uicc' \in UiccType /\ uicc'.awaits /\ ~uicc'.announced /\ uicc'.done = 1
    BY <1>1, <2>1, <2>2 DEF UiccType
  <2>4. /\ apdu' \in ApduType /\ apdu'.pc = "handle" /\ apdu'.rdata = apdu.rdata
        /\ apdu'.pieces = apdu.pieces /\ apdu'.end = apdu.end /\ apdu'.rsw = apdu.rsw
        /\ apdu'.checked = apdu.checked
    BY <1>1, <2>1 DEF ApduType
  <2>5. Answering(apdu', uicc')
    BY <1>1, <2>3, <2>4 DEF Answering
  <2> QED BY <1>1, <2>3, <2>4, <2>5 DEF LinkInv, LinkTypes
<1>3. CASE ~works
  <2>1. uicc' = uicc /\ apdu' = Link!Finish(apdu, "raised")
    BY <1>3 DEF Link!Fetch
  <2>2. apdu' \in ApduType /\ apdu'.pc = "idle" /\ apdu'.result = "raised"
    BY <1>1, <2>1 DEF Link!Finish, ApduType
  <2> QED BY <1>1, <2>1, <2>2 DEF LinkInv, LinkTypes, Announcing
<1> QED BY <1>2, <1>3

LEMMA LinkHandle ==
  ASSUME LinkInv, NEW h, Link!Handle(h)
  PROVE  LinkInv'
<1>1. /\ apdu \in ApduType /\ tpdu \in TpduType /\ uicc \in UiccType /\ Announcing(uicc)
      /\ Answering(apdu, uicc) /\ apdu.pc = "handle" /\ tpdu' = tpdu /\ uicc' = uicc
  BY DEF LinkInv, LinkTypes, Announcing, Link!Handle
<1>2. CASE h = "list"
  <2>1. apdu' = [apdu EXCEPT !.pc = "respond"]
    BY <1>2 DEF Link!Handle
  <2>2. /\ apdu' \in ApduType /\ apdu'.pc = "respond" /\ apdu'.rdata = apdu.rdata
        /\ apdu'.pieces = apdu.pieces /\ apdu'.end = apdu.end /\ apdu'.rsw = apdu.rsw
        /\ apdu'.checked = apdu.checked
    BY <1>1, <2>1 DEF ApduType
  <2>3. Answering(apdu', uicc)
    BY <1>1, <2>2 DEF Answering
  <2> QED BY <1>1, <2>2, <2>3 DEF LinkInv, LinkTypes, Announcing
<1>3. CASE h # "list"
  <2>1. apdu' = Link!Finish(apdu, "raised")
    BY <1>3 DEF Link!Handle
  <2>2. apdu' \in ApduType /\ apdu'.pc = "idle" /\ apdu'.result = "raised"
    BY <1>1, <2>1 DEF Link!Finish, ApduType
  <2> QED BY <1>1, <2>2 DEF LinkInv, LinkTypes, Announcing
<1> QED BY <1>2, <1>3

LEMMA LinkRespond ==
  ASSUME LinkInv, NEW e \in Ends, Link!Respond(e)
  PROVE  LinkInv'
<1> DEFINE c == [uicc EXCEPT !.awaits = FALSE]
           d == Link!Ended(c, e)
           sw == Link!Ending(c, e)
<1>1. /\ apdu \in ApduType /\ tpdu \in TpduType /\ uicc \in UiccType /\ Announcing(uicc)
      /\ Answering(apdu, uicc) /\ apdu.pc = "respond" /\ tpdu' = tpdu
  BY DEF LinkInv, LinkTypes, Announcing, Link!Respond
<1>2. uicc' = d /\ apdu' = Link!Again(apdu, sw)
  BY DEF Link!Respond
<1>3. c \in UiccType /\ ~c.awaits /\ ~c.announced /\ c.done = 1 /\ Announcing(c)
  BY <1>1 DEF UiccType, Answering, Announcing
<1> HIDE DEF c
<1>4. /\ d \in UiccType /\ d = [c EXCEPT !.announced = d.announced]
      /\ d.announced => c.queue > 0
      /\ sw \in Ends \cup {"91"} /\ (sw # "91" => d = c)
      /\ Status([apdu EXCEPT !.end = e], d, sw)
  <2>1. [apdu EXCEPT !.end = e].end = e
    BY <1>1 DEF ApduType
  <2> QED BY <1>3, <2>1, EndingFacts DEF Announcing
<1> HIDE DEF d, sw
<1>5. d.done = 1 /\ d.queue = c.queue /\ ~d.awaits /\ Announcing(d)
  BY <1>3, <1>4 DEF UiccType, Announcing
<1>6. CASE sw = "91"
  <2>1. apdu' = [apdu EXCEPT !.pc = "fetch"] /\ d.announced
    BY <1>2, <1>4, <1>6 DEF Link!Again, Link!Announced, Status
  <2>2. /\ apdu' \in ApduType /\ apdu'.pc = "fetch" /\ apdu'.rdata = apdu.rdata
        /\ apdu'.pieces = apdu.pieces /\ apdu'.end = apdu.end /\ apdu'.rsw = apdu.rsw
        /\ apdu'.checked = apdu.checked
    BY <1>1, <2>1 DEF ApduType
  <2>3. Answering(apdu', d)
    BY <1>1, <1>5, <2>1, <2>2 DEF Answering
  <2> QED BY <1>1, <1>2, <1>4, <1>5, <2>2, <2>3 DEF LinkInv, LinkTypes, Announcing
<1>7. CASE sw # "91"
  <2>1. apdu' = Link!Finish(apdu, "returned") /\ ~d.announced
    BY <1>2, <1>3, <1>4, <1>7 DEF Link!Again, Link!Announced
  <2>2. /\ apdu' \in ApduType /\ apdu'.pc = "idle" /\ apdu'.rdata = apdu.rdata
        /\ apdu'.pieces = apdu.pieces /\ apdu'.end = apdu.end /\ apdu'.rsw = apdu.rsw
        /\ apdu'.checked = apdu.checked
    BY <1>1, <2>1 DEF ApduType, Link!Finish
  <2>3. Returned(apdu', d)
    BY <1>1, <1>5, <2>1, <2>2 DEF Answering, Returned
  <2> QED BY <1>1, <1>2, <1>4, <1>5, <2>2, <2>3 DEF LinkInv, LinkTypes, Announcing
<1> QED BY <1>6, <1>7

LEMMA LinkStarts == Link!LinkInit => LinkInv
<1> SUFFICES ASSUME Link!LinkInit PROVE LinkInv
  OBVIOUS
<1>1. <<>> \in Seq(Nat)
  OBVIOUS
<1>2. apdu \in ApduType /\ apdu.pc = "idle" /\ apdu.result = "none"
  BY NoApduFacts DEF Link!LinkInit, Link!NoApdu
<1>3. tpdu \in TpduType
  BY <1>1 DEF Link!LinkInit, Link!NoTpdu, TpduType, Statuses
<1>4. uicc \in UiccType /\ ~uicc.announced
  BY <1>1 DEF Link!LinkInit, UiccType, Ends
<1> QED BY <1>2, <1>3, <1>4 DEF LinkInv, LinkTypes

LEMMA LinkKeeps ==
  ASSUME LinkInv, [Link!LinkNext]_linkVars
  PROVE  LinkInv'
<1>1. CASE UNCHANGED linkVars
  BY <1>1 DEF LinkInv, LinkTypes, linkVars, Exchanging, Received, Answering, Returned, Status
<1>2. CASE Link!LinkNext
  BY <1>2, LinkCall, LinkGetResponse, LinkResend, LinkAppDone, LinkFetch, LinkHandle, LinkRespond
     DEF Link!LinkNext, Ends
<1> QED BY <1>1, <1>2

\* A command that send_apdu returned from was done once, its answer is whole, and the card
\* waits for nothing more.
LEMMA LinkGives == LinkInv => Link!CommandDoneOnce
<1> SUFFICES ASSUME LinkInv PROVE Link!CommandDoneOnce
  OBVIOUS
<1>1. Link!ResponseWhole /\ Link!ExecutedOnce /\ Link!NothingLeftToFetch
  BY DEF LinkInv, LinkTypes, Returned, All, Link!ResponseWhole, Link!ExecutedOnce,
     Link!NothingLeftToFetch, Link!LinkAtRest
<1>2. Link!StatusReaches
  <2> SUFFICES ASSUME Link!LinkAtRest, apdu.result = "returned"
               PROVE  CASE apdu.end = "62" -> apdu.rsw = "6F" \/ (apdu.rsw = "62" /\ apdu.case = 2)
                        [] apdu.end = "9000" -> apdu.rsw = "9000" \/ (apdu.rsw = "91" /\ ~apdu.checked)
                        [] OTHER -> apdu.rsw = apdu.end
    BY Zenon DEF Link!StatusReaches
  <2>1. apdu.end \in {"62", "9000", "6F"}
    BY DEF LinkInv, LinkTypes, ApduType, Ends
  <2>2. /\ apdu.end = "62" => apdu.rsw = "6F" \/ (apdu.rsw = "62" /\ apdu.case = 2)
        /\ apdu.end = "9000" => apdu.rsw = "9000" \/ (apdu.rsw = "91" /\ ~apdu.checked)
        /\ apdu.end = "6F" => apdu.rsw = apdu.end
    BY DEF LinkInv, Returned, Link!LinkAtRest
  <2>3. CASE apdu.end = "62"
    BY Zenon, <2>2, <2>3
  <2>4. CASE apdu.end = "9000"
    BY Zenon, <2>2, <2>4
  <2>5. CASE apdu.end = "6F"
    BY Zenon, <2>2, <2>5
  <2> QED BY <2>1, <2>3, <2>4, <2>5
<1> QED BY <1>1, <1>2 DEF Link!CommandDoneOnce


-----------------------------------------------------------------------------
\* bulk_script and pySim-prog.

Pcs == {"off", "get", "process", "sort", "halted", "crashed", "program", "record", "count",
        "save", "done", "error"}
BatchType ==
  [tool : {"none", "shell", "prog"}, auto : BOOLEAN, tries : Int, halt : BOOLEAN, pc : Pcs,
   first : BOOLEAN, try : Nat, rc : {0, 1}, num : Nat, success : Nat, fail : Nat, starts : Nat]
BinsType == [done : SUBSET Batch!Cards, error : SUBSET Batch!Cards, aside : SUBSET Batch!Cards]

BatchTypes ==
  /\ batch \in BatchType /\ pile \in Seq(Batch!Cards) /\ bay \in Batch!Cards \cup {0}
  /\ bins \in BinsType /\ identity \in [Batch!Cards -> Nat] /\ records \in Seq(Nat) /\ saved \in Nat

\* A card of the done bin does not come again.
Places ==
  /\ \A i, j \in DOMAIN pile : pile[i] = pile[j] => i = j
  /\ \A i \in DOMAIN pile : pile[i] # bay /\ pile[i] \notin bins.done
  /\ bay \notin bins.done

Unstarted == batch.tool = "none" => bins.done = {} /\ bins.error = {}

ShellInv ==
  batch.tool = "shell" =>
    /\ \A c \in bins.done : identity[c] # 0
    /\ batch.pc = "process" => bay # 0
    /\ batch.pc = "sort" => bay # 0 /\ (batch.rc = 0 => identity[bay] # 0)
    /\ batch.halt /\ batch.pc # "halted" => bins.error = {}

\* The number that the card in the reader was programmed from: opts.num goes up before the
\* card is put away.  A run that starts anew finds no state file only while the done bin is
\* empty.
Given == IF batch.pc \in {"save", "done"} THEN batch.num - 1 ELSE batch.num
OnRecord(n) == \E i \in DOMAIN records : records[i] = n
ProgInv ==
  batch.tool = "prog" =>
    /\ batch.num >= 1
    /\ \A c \in bins.done : identity[c] # 0 /\ OnRecord(identity[c])
    /\ \A c, d \in bins.done : c # d => identity[c] # identity[d]
    /\ batch.pc # "crashed" => \A c \in bins.done : identity[c] < Given
    /\ batch.pc \in {"record", "count", "save", "done"} => bay # 0 /\ identity[bay] = Given
    /\ batch.pc \in {"save", "done"} => batch.num >= 2
    /\ batch.pc \in {"count", "save", "done"} => OnRecord(Given)
    /\ batch.pc = "done" => saved # 0
    /\ saved = 0 => bins.done = {}

BatchInv == BatchTypes /\ Places /\ Unstarted /\ ShellInv /\ ProgInv

LEMMA BringFacts ==
  ASSUME BatchTypes, Places, Batch!Bring
  PROVE  /\ pile' \in Seq(Batch!Cards) /\ bay' \in Batch!Cards /\ bay' # 0 /\ bins' \in BinsType
         /\ Places' /\ bins'.done = bins.done /\ bins'.error = bins.error
<1> USE DEF BatchTypes
<1>1. CASE pile # <<>> /\ bay' = Head(pile) /\ pile' = Tail(pile)
           /\ bins' = [bins EXCEPT !.aside = @ \cup ({bay} \ {0})]
  <2>1. Len(pile) >= 1 /\ Head(pile) = pile[1] /\ Tail(pile) \in Seq(Batch!Cards)
        /\ pile[1] \in Batch!Cards
    BY <1>1
  <2>2. \A i \in DOMAIN Tail(pile) : i + 1 \in DOMAIN pile /\ Tail(pile)[i] = pile[i + 1] /\ i + 1 # 1
    BY <1>1
  <2>3. bins' \in BinsType /\ bins'.done = bins.done /\ bins'.error = bins.error
    <3> DEFINE s == bins.aside \cup ({bay} \ {0})
    <3>1. bins' = [bins EXCEPT !.aside = s] /\ s \in SUBSET Batch!Cards
      BY <1>1 DEF BinsType
    <3> HIDE DEF s
    <3> QED BY <3>1 DEF BinsType
  <2>4. 1 \in DOMAIN pile
    BY <2>1
  <2>5. bay' # 0
    BY <1>1, <2>1, BatchAssumption DEF Batch!Cards
  <2> QED BY <1>1, <2>1, <2>2, <2>3, <2>4, <2>5 DEF Places
<1>2. CASE bay # 0 /\ UNCHANGED <<bay, pile, bins>>
  BY <1>2 DEF Places
<1> QED BY <1>1, <1>2 DEF Batch!Bring

LEMMA SortFacts ==
  ASSUME BatchTypes, Places, NEW bin \in {"done", "error"}, Batch!Sort(bin), UNCHANGED pile
  PROVE  /\ bay' = 0 /\ bins' \in BinsType /\ Places'
         /\ bin = "done" /\ bay # 0 => bins'.done = bins.done \cup {bay} /\ bins'.error = bins.error
         /\ bin = "error" \/ bay = 0 => bins'.done = bins.done
         /\ bay = 0 => bins' = bins
<1> USE DEF BatchTypes
<1>1. bay' = 0 /\ \A i \in DOMAIN pile : pile[i] # 0
  BY BatchAssumption DEF Batch!Sort, Batch!Cards
<1>2. CASE bay = 0
  BY <1>1, <1>2 DEF Batch!Sort, Places
<1>3. CASE bay # 0 /\ bin = "done"
  <2> DEFINE s == bins.done \cup {bay}
  <2>1. bins' = [bins EXCEPT !.done = s] /\ s \in SUBSET Batch!Cards
    BY <1>3 DEF Batch!Sort, BinsType
  <2> HIDE DEF s
  <2>2. bins' \in BinsType /\ bins'.done = s /\ bins'.error = bins.error
    BY <2>1 DEF BinsType
  <2>3. 0 \notin s
    BY <2>1, BatchAssumption DEF Batch!Cards
  <2> QED BY <1>1, <1>3, <2>2, <2>3 DEF Places, s
<1>4. CASE bay # 0 /\ bin = "error"
  <2> DEFINE s == bins.error \cup {bay}
  <2>1. bins' = [bins EXCEPT !.error = s] /\ s \in SUBSET Batch!Cards
    BY <1>4 DEF Batch!Sort, BinsType
  <2> HIDE DEF s
  <2>2. bins' \in BinsType /\ bins'.done = bins.done
    BY <2>1 DEF BinsType
  <2>3. 0 \notin bins.done
    BY BatchAssumption DEF Batch!Cards, BinsType
  <2> QED BY <1>1, <1>4, <2>2, <2>3 DEF Places
<1> QED BY <1>2, <1>3, <1>4

LEMMA ToFacts ==
  ASSUME batch \in BatchType, NEW pc \in Pcs, Batch!To(pc)
  PROVE  /\ batch' \in BatchType /\ batch'.pc = pc /\ batch'.tool = batch.tool
         /\ batch'.num = batch.num /\ batch'.halt = batch.halt /\ batch'.rc = batch.rc
BY DEF BatchType, Batch!To

LEMMA NoBatchFacts ==
  /\ Batch!NoBatch \in BatchType /\ Batch!NoBatch.tool = "none" /\ Batch!NoBatch.num = 1
BY DEF Batch!NoBatch, BatchType, Pcs

\* What the shell and pySim-prog start with.
Shell(b, tries, auto, halt) ==
  [b EXCEPT !.tool = "shell", !.tries = tries, !.auto = auto, !.halt = halt, !.pc = "get", !.try = 1]
LEMMA ShellFacts ==
  ASSUME NEW b, NEW tries, NEW auto, NEW halt,
         b \in BatchType /\ tries \in Int /\ auto \in BOOLEAN /\ halt \in BOOLEAN,
         NEW x, x = Shell(b, tries, auto, halt)
  PROVE  x \in BatchType /\ x.tool = "shell" /\ x.pc = "get"
BY DEF BatchType, Shell, Pcs
LEMMA ResumeFacts ==
  ASSUME NEW auto \in BOOLEAN, NEW n \in Nat, NEW x, x = [Batch!Resume EXCEPT !.auto = auto, !.starts = n]
  PROVE  /\ x \in BatchType /\ x.tool = "prog" /\ x.num = 1
         /\ x.pc = IF saved # 0 THEN "crashed" ELSE "get"
<1>1. Batch!Resume \in BatchType /\ Batch!Resume.tool = "prog" /\ Batch!Resume.num = 1
      /\ Batch!Resume.pc = IF saved # 0 THEN "crashed" ELSE "get"
  <2> DEFINE b == Batch!NoBatch
             pc == IF saved # 0 THEN "crashed" ELSE "get"
  <2>1. Batch!Resume = [b EXCEPT !.tool = "prog", !.pc = pc] /\ pc \in Pcs
    BY DEF Batch!Resume, Pcs
  <2>2. b \in BatchType /\ b.num = 1
    BY NoBatchFacts
  <2> HIDE DEF b, pc
  <2>3. /\ Batch!Resume \in BatchType /\ Batch!Resume.tool = "prog" /\ Batch!Resume.num = 1
        /\ Batch!Resume.pc = pc
    BY <2>1, <2>2 DEF BatchType
  <2> QED BY <2>3 DEF pc
<1> QED BY <1>1 DEF BatchType

LEMMA BatchShellStart ==
  ASSUME BatchInv, NEW tries \in TriesSet, NEW auto \in BOOLEAN, NEW halt \in BOOLEAN,
         Batch!ShellStart(tries, auto, halt)
  PROVE  BatchInv'
<1>1. batch.tool = "none" /\ bins.done = {} /\ bins.error = {}
  BY NoBatchFacts DEF Batch!ShellStart, BatchInv, Unstarted
<1>2. batch' = Shell(Batch!NoBatch, tries, auto, halt)
  BY DEF Batch!ShellStart, Shell
<1>3. batch' \in BatchType /\ batch'.tool = "shell" /\ batch'.pc = "get"
  <2> DEFINE b == Batch!NoBatch
  <2>1. b \in BatchType /\ tries \in Int /\ auto \in BOOLEAN /\ halt \in BOOLEAN
    BY NoBatchFacts, BatchAssumption
  <2> HIDE DEF b
  <2> QED BY <1>2, <2>1, ShellFacts DEF b
<1>4. UNCHANGED <<pile, bay, bins, identity, records, saved>>
  BY DEF Batch!ShellStart
<1> QED BY <1>1, <1>3, <1>4 DEF BatchInv, BatchTypes, Places, Unstarted, ShellInv, ProgInv

LEMMA BatchShellGet ==
  ASSUME BatchInv, Batch!ShellGet
  PROVE  BatchInv'
<1>1. /\ batch' \in BatchType /\ batch'.pc = "process" /\ batch'.tool = "shell"
      /\ batch'.halt = batch.halt /\ batch.tool = "shell" /\ batch.pc = "get"
  BY ToFacts DEF Batch!ShellGet, Batch!At, BatchInv, BatchTypes, Pcs
<1>2. /\ pile' \in Seq(Batch!Cards) /\ bay' \in Batch!Cards /\ bay' # 0 /\ bins' \in BinsType
      /\ Places' /\ bins'.done = bins.done /\ bins'.error = bins.error
  BY BringFacts DEF BatchInv, Batch!ShellGet
<1>3. UNCHANGED <<identity, records, saved>>
  BY DEF Batch!ShellGet
<1> QED BY <1>1, <1>2, <1>3 DEF BatchInv, BatchTypes, Unstarted, ShellInv, ProgInv

LEMMA BatchShellGetFails ==
  ASSUME BatchInv, Batch!ShellGetFails
  PROVE  BatchInv'
<1>1. /\ batch' \in BatchType /\ batch'.pc \in {"off", "get"} /\ batch'.tool = "shell"
      /\ batch'.halt = batch.halt /\ batch.tool = "shell" /\ batch.pc = "get"
  <2> DEFINE fail == batch.fail + 1
  <2>1. batch \in BatchType /\ batch.tool = "shell" /\ batch.pc = "get" /\ fail \in Nat
    BY DEF Batch!ShellGetFails, Batch!At, BatchInv, BatchTypes, BatchType
  <2>2. \/ batch' = [batch EXCEPT !.pc = "off"]
        \/ batch' = [batch EXCEPT !.fail = fail, !.try = 1, !.first = FALSE]
    BY DEF Batch!ShellGetFails
  <2> HIDE DEF fail
  <2>3. CASE batch' = [batch EXCEPT !.pc = "off"]
    BY <2>1, <2>3 DEF BatchType, Pcs
  <2>4. CASE batch' = [batch EXCEPT !.fail = fail, !.try = 1, !.first = FALSE]
    BY <2>1, <2>4 DEF BatchType, Pcs
  <2> QED BY <2>2, <2>3, <2>4
<1>2. UNCHANGED <<pile, bay, bins, identity, records, saved>>
  BY DEF Batch!ShellGetFails
<1> QED BY <1>1, <1>2 DEF BatchInv, BatchTypes, Places, Unstarted, ShellInv, ProgInv

LEMMA BatchShellProcess ==
  ASSUME BatchInv, NEW good \in BOOLEAN, Batch!ShellProcess(good)
  PROVE  BatchInv'
<1> DEFINE rc == IF good THEN 0 ELSE 1
           success == IF good THEN batch.success + 1 ELSE batch.success
           fail == IF good THEN batch.fail ELSE batch.fail + 1
           try == batch.try + 1
           pc == IF good \/ batch.try = batch.tries THEN "sort" ELSE "get"
           v == IF good THEN 1 ELSE 0
<1>1. /\ batch \in BatchType /\ batch.tool = "shell" /\ batch.pc = "process" /\ bay # 0
      /\ bay \in Batch!Cards
  BY DEF BatchInv, BatchTypes, ShellInv, Batch!ShellProcess, Batch!At
<1>2. batch' = [batch EXCEPT !.rc = rc, !.success = success, !.fail = fail, !.try = try, !.pc = pc]
      /\ identity' = [identity EXCEPT ![bay] = v]
      /\ UNCHANGED <<pile, bay, bins, records, saved>>
  BY DEF Batch!ShellProcess
<1>3. /\ rc \in {0, 1} /\ success \in Nat /\ fail \in Nat /\ try \in Nat /\ pc \in {"sort", "get"}
      /\ v \in Nat /\ (rc = 0 => v # 0)
  BY <1>1 DEF BatchType
<1> HIDE DEF rc, success, fail, try, pc, v
<1>4. /\ batch' \in BatchType /\ batch'.pc = pc /\ batch'.tool = "shell" /\ batch'.rc = rc
      /\ batch'.halt = batch.halt
  BY <1>1, <1>2, <1>3 DEF BatchType, Pcs
<1>5. /\ identity' \in [Batch!Cards -> Nat] /\ identity'[bay] = v
      /\ \A c \in Batch!Cards : c # bay => identity'[c] = identity[c]
  BY <1>1, <1>2, <1>3 DEF BatchInv, BatchTypes
<1>6. \A c \in bins.done : identity'[c] # 0
  BY <1>1, <1>5 DEF BatchInv, BatchTypes, BinsType, Places, ShellInv
<1> QED BY <1>1, <1>2, <1>3, <1>4, <1>5, <1>6
        DEF BatchInv, BatchTypes, Places, Unstarted, ShellInv, ProgInv

LEMMA BatchShellSort ==
  ASSUME BatchInv, Batch!ShellSort
  PROVE  BatchInv'
<1> DEFINE pc == IF Batch!Halts(batch.rc) THEN "halted" ELSE "get"
           bin == Batch!Bin(batch.rc)
<1>1. /\ batch \in BatchType /\ batch.tool = "shell" /\ batch.pc = "sort" /\ bay # 0
      /\ bay \in Batch!Cards /\ batch.rc \in {0, 1}
  BY DEF BatchInv, BatchTypes, BatchType, ShellInv, Batch!ShellSort, Batch!At
<1>2. batch' = [batch EXCEPT !.pc = pc, !.try = 1, !.first = FALSE] /\ pc \in {"halted", "get"}
      /\ UNCHANGED <<pile, identity, records, saved>>
  BY DEF Batch!ShellSort
<1>3. /\ pc = "halted" <=> batch.halt /\ batch.rc # 0
      /\ bin = IF batch.rc = 0 THEN "done" ELSE "error"
  BY DEF Batch!Halts, Batch!Bin
<1> HIDE DEF pc, bin
<1>4. /\ batch' \in BatchType /\ batch'.pc = pc /\ batch'.tool = "shell" /\ batch'.halt = batch.halt
  BY <1>1, <1>2 DEF BatchType, Pcs
<1>5. /\ bay' = 0 /\ bins' \in BinsType /\ Places'
      /\ bin = "done" => bins'.done = bins.done \cup {bay} /\ bins'.error = bins.error
      /\ bin = "error" => bins'.done = bins.done
  <2>1. Batch!Sort(bin) /\ bin \in {"done", "error"}
    BY <1>3 DEF Batch!ShellSort, bin
  <2> QED BY <1>1, <1>2, <2>1, SortFacts DEF BatchInv
<1> QED BY <1>1, <1>2, <1>3, <1>4, <1>5
        DEF BatchInv, BatchTypes, Unstarted, ShellInv, ProgInv

LEMMA BatchShellSortFails ==
  ASSUME BatchInv, Batch!ShellSortFails
  PROVE  BatchInv'
<1>1. /\ batch' \in BatchType /\ batch'.pc = "off" /\ batch'.tool = "shell"
      /\ batch'.halt = batch.halt /\ batch.tool = "shell" /\ batch.pc = "sort"
  BY ToFacts DEF Batch!ShellSortFails, Batch!At, BatchInv, BatchTypes, Pcs
<1>2. UNCHANGED <<pile, bay, bins, identity, records, saved>>
  BY DEF Batch!ShellSortFails
<1> QED BY <1>1, <1>2 DEF BatchInv, BatchTypes, Places, Unstarted, ShellInv, ProgInv

\* A run that is resumed finds the state file that was saved, and ends; without one, nothing is
\* in the done bin yet.
LEMMA BatchProgStart ==
  ASSUME BatchInv, NEW auto \in BOOLEAN, Batch!ProgStart(auto)
  PROVE  BatchInv'
<1> DEFINE n == batch.starts + 1
<1>1. n \in Nat
  BY DEF BatchInv, BatchTypes, BatchType
<1>2. batch' = [Batch!Resume EXCEPT !.auto = auto, !.starts = n]
  BY DEF Batch!ProgStart
<1> HIDE DEF n
<1>3. /\ batch' \in BatchType /\ batch'.tool = "prog" /\ batch'.num = 1
      /\ batch'.pc = IF saved # 0 THEN "crashed" ELSE "get"
  BY <1>1, <1>2, ResumeFacts
<1>4. UNCHANGED <<pile, bay, bins, identity, records, saved>>
  BY DEF Batch!ProgStart
<1>5. CASE batch = Batch!NoBatch
  <2>1. bins.done = {} /\ bins.error = {}
    BY <1>5, NoBatchFacts DEF BatchInv, Unstarted
  <2> QED BY <1>3, <1>4, <2>1
          DEF BatchInv, BatchTypes, Places, Unstarted, ShellInv, ProgInv, OnRecord
<1>6. CASE Batch!At("prog", "off")
  BY <1>3, <1>4, <1>6
     DEF BatchInv, BatchTypes, Places, Unstarted, ShellInv, ProgInv, OnRecord, Batch!At
<1> QED BY <1>5, <1>6 DEF Batch!ProgStart

LEMMA BatchProgGet ==
  ASSUME BatchInv, Batch!ProgGet
  PROVE  BatchInv'
<1>1. /\ batch' \in BatchType /\ batch'.pc = "program" /\ batch'.tool = "prog"
      /\ batch'.num = batch.num /\ batch.tool = "prog" /\ batch.pc = "get"
  BY ToFacts DEF Batch!ProgGet, Batch!At, BatchInv, BatchTypes, Pcs
<1>2. /\ pile' \in Seq(Batch!Cards) /\ bay' \in Batch!Cards /\ bay' # 0 /\ bins' \in BinsType
      /\ Places' /\ bins'.done = bins.done /\ bins'.error = bins.error
  BY BringFacts DEF BatchInv, Batch!ProgGet
<1>3. UNCHANGED <<identity, records, saved>>
  BY DEF Batch!ProgGet
<1> QED BY <1>1, <1>2, <1>3
        DEF BatchInv, BatchTypes, Unstarted, ShellInv, ProgInv, Given, OnRecord

\* A failure leaves the card to the error bin, or ends the program; the number may have gone up.
LEMMA BatchProgBreaks ==
  ASSUME BatchInv, Batch!ProgFails \/ Batch!ProgEnds
  PROVE  BatchInv'
<1>1. /\ batch \in BatchType /\ batch.tool = "prog" /\ batch.pc # "crashed"
      /\ Batch!To("error") \/ Batch!To("off")
  BY DEF Batch!ProgFails, Batch!ProgEnds, BatchInv, BatchTypes
<1>2. /\ batch' \in BatchType /\ batch'.pc \in {"error", "off"} /\ batch'.tool = "prog"
      /\ batch'.num = batch.num
  BY <1>1, ToFacts DEF Pcs
<1>3. UNCHANGED <<pile, bay, bins, identity, records, saved>>
  BY DEF Batch!ProgFails, Batch!ProgEnds
<1>4. ProgInv'
  <2>1. \A c \in bins.done : identity[c] < batch.num
    BY <1>1 DEF BatchInv, BatchTypes, BinsType, BatchType, ProgInv, Given
  <2> QED BY <1>1, <1>2, <1>3, <2>1 DEF BatchInv, ProgInv, Given, OnRecord
<1> QED BY <1>1, <1>2, <1>3, <1>4
        DEF BatchInv, BatchTypes, Places, Unstarted, ShellInv

LEMMA BatchProgProgram ==
  ASSUME BatchInv, NEW whole \in BOOLEAN, Batch!ProgProgram(whole)
  PROVE  BatchInv'
<1>1. /\ batch \in BatchType /\ batch.tool = "prog" /\ batch.pc = "program" /\ bay # 0
      /\ bay \in Batch!Cards /\ batch.num \in Nat
      /\ Batch!To("record") \/ Batch!To("error")
  BY DEF Batch!ProgProgram, Batch!At, BatchInv, BatchTypes, BatchType
<1>2. /\ batch' \in BatchType /\ batch'.pc \in {"record", "error"} /\ batch'.tool = "prog"
      /\ batch'.num = batch.num
  BY <1>1, ToFacts DEF Pcs
<1>3. identity' = [identity EXCEPT ![bay] = batch.num] /\ UNCHANGED <<pile, bay, bins, records, saved>>
  BY DEF Batch!ProgProgram
<1>4. /\ identity' \in [Batch!Cards -> Nat] /\ identity'[bay] = batch.num
      /\ \A c \in bins.done : identity'[c] = identity[c]
  BY <1>1, <1>3 DEF BatchInv, BatchTypes, BinsType, Places
<1>5. ProgInv'
  BY <1>1, <1>2, <1>3, <1>4 DEF BatchInv, ProgInv, Given, OnRecord
<1> QED BY <1>1, <1>2, <1>3, <1>4, <1>5
        DEF BatchInv, BatchTypes, Places, Unstarted, ShellInv

LEMMA BatchProgRecord ==
  ASSUME BatchInv, Batch!ProgRecord
  PROVE  BatchInv'
<1>1. /\ batch' \in BatchType /\ batch'.pc = "count" /\ batch'.tool = "prog"
      /\ batch'.num = batch.num /\ batch.tool = "prog" /\ batch.pc = "record" /\ batch.num \in Nat
  BY ToFacts DEF Batch!ProgRecord, Batch!At, BatchInv, BatchTypes, BatchType, Pcs
<1>2. records' = Append(records, batch.num) /\ UNCHANGED <<pile, bay, bins, identity, saved>>
  BY DEF Batch!ProgRecord
<1>3. /\ records' \in Seq(Nat)
      /\ OnRecord(batch.num)'
      /\ \A n : OnRecord(n) => OnRecord(n)'
  <2>1. records \in Seq(Nat) /\ records' \in Seq(Nat) /\ Len(records') = Len(records) + 1
        /\ records'[Len(records) + 1] = batch.num
        /\ \A i \in 1..Len(records) : records'[i] = records[i]
    BY <1>1, <1>2 DEF BatchInv, BatchTypes
  <2>2. DOMAIN records = 1..Len(records) /\ DOMAIN records' = 1..(Len(records) + 1)
    BY <2>1
  <2>3. Len(records) \in Nat
    BY <2>1
  <2>4. OnRecord(batch.num)'
    <3>1. Len(records) + 1 \in DOMAIN records'
      BY <2>2, <2>3
    <3> QED BY <1>1, <2>1, <3>1 DEF OnRecord
  <2>5. ASSUME NEW n, OnRecord(n) PROVE OnRecord(n)'
    <3>1. PICK i \in DOMAIN records : records[i] = n
      BY <2>5 DEF OnRecord
    <3>2. i \in DOMAIN records' /\ records'[i] = n
      BY <2>1, <2>2, <2>3, <3>1
    <3> QED BY <3>2 DEF OnRecord
  <2> QED BY <2>1, <2>4, <2>5
<1>4. ProgInv'
  BY <1>1, <1>2, <1>3 DEF BatchInv, ProgInv, Given
<1> QED BY <1>1, <1>2, <1>3, <1>4
        DEF BatchInv, BatchTypes, Places, Unstarted, ShellInv

LEMMA BatchProgCount ==
  ASSUME BatchInv, Batch!ProgCount
  PROVE  BatchInv'
<1> DEFINE n == batch.num + 1
<1>1. /\ batch \in BatchType /\ batch.tool = "prog" /\ batch.pc = "count" /\ batch.num \in Nat
      /\ n \in Nat /\ n - 1 = batch.num
  BY DEF Batch!ProgCount, Batch!At, BatchInv, BatchTypes, BatchType
<1>2. batch' = [batch EXCEPT !.num = n, !.pc = "save"]
      /\ UNCHANGED <<pile, bay, bins, identity, records, saved>>
  BY DEF Batch!ProgCount, Batch!Count
<1> HIDE DEF n
<1>3. /\ batch' \in BatchType /\ batch'.pc = "save" /\ batch'.tool = "prog" /\ batch'.num = n
  BY <1>1, <1>2 DEF BatchType, Pcs
<1>4. ProgInv'
  <2>1. Given' = Given /\ n >= 2 /\ n >= 1
    BY <1>1, <1>3 DEF Given, BatchInv, ProgInv
  <2> QED BY <1>1, <1>2, <1>3, <2>1 DEF BatchInv, ProgInv, OnRecord
<1> QED BY <1>1, <1>2, <1>3, <1>4
        DEF BatchInv, BatchTypes, Places, Unstarted, ShellInv

LEMMA BatchProgSave ==
  ASSUME BatchInv, Batch!ProgSave
  PROVE  BatchInv'
<1>1. /\ batch' \in BatchType /\ batch'.pc = "done" /\ batch'.tool = "prog"
      /\ batch'.num = batch.num /\ batch.tool = "prog" /\ batch.pc = "save" /\ batch.num \in Nat
  BY ToFacts DEF Batch!ProgSave, Batch!At, BatchInv, BatchTypes, BatchType, Pcs
<1>2. saved' = batch.num /\ UNCHANGED <<pile, bay, bins, identity, records>>
  BY DEF Batch!ProgSave
<1>3. Given' = Given /\ saved' # 0
  BY <1>1, <1>2 DEF Given, BatchInv, ProgInv
<1>4. ProgInv'
  BY <1>1, <1>2, <1>3 DEF BatchInv, ProgInv, OnRecord
<1> QED BY <1>1, <1>2, <1>4
        DEF BatchInv, BatchTypes, Places, Unstarted, ShellInv

LEMMA BatchProgSort ==
  ASSUME BatchInv, Batch!ProgSort
  PROVE  BatchInv'
<1>1. /\ batch \in BatchType /\ batch.tool = "prog" /\ batch.pc \in {"done", "error"}
      /\ batch.num \in Nat /\ identity \in [Batch!Cards -> Nat] /\ bins.done \subseteq Batch!Cards
  BY DEF Batch!ProgSort, BatchInv, BatchTypes, BatchType, BinsType
<1>2. batch' = [batch EXCEPT !.pc = "get", !.first = FALSE]
      /\ UNCHANGED <<pile, identity, records, saved>>
  BY DEF Batch!ProgSort
<1>3. /\ batch' \in BatchType /\ batch'.pc = "get" /\ batch'.tool = "prog" /\ batch'.num = batch.num
  BY <1>1, <1>2 DEF BatchType, Pcs
<1>4. /\ bay' = 0 /\ bins' \in BinsType /\ Places'
      /\ batch.pc = "done" /\ bay # 0 => bins'.done = bins.done \cup {bay}
      /\ batch.pc = "error" => bins'.done = bins.done
  <2>1. Batch!Sort(batch.pc)
    BY DEF Batch!ProgSort
  <2> QED BY <1>1, <1>2, <2>1, SortFacts DEF BatchInv
<1>5. ProgInv'
  <2>1. CASE batch.pc = "error"
    BY <1>1, <1>2, <1>3, <1>4, <2>1 DEF BatchInv, ProgInv, Given, OnRecord
  <2>2. CASE batch.pc = "done"
    <3>1. /\ bay # 0 /\ identity[bay] = batch.num - 1 /\ batch.num >= 2
          /\ OnRecord(identity[bay]) /\ saved # 0 /\ bins'.done = bins.done \cup {bay}
          /\ \A c \in bins.done : identity[c] < identity[bay]
      BY <1>1, <1>4, <2>2 DEF BatchInv, ProgInv, Given
    <3>2. \A c \in bins'.done : identity[c] # 0 /\ OnRecord(identity[c]) /\ identity[c] < batch.num
      BY <1>1, <3>1, <2>2 DEF BatchInv, ProgInv
    <3>3. \A c, d \in bins'.done : c # d => identity[c] # identity[d]
      BY <1>1, <3>1, <2>2 DEF BatchInv, ProgInv
    <3> QED BY <1>1, <1>2, <1>3, <3>1, <3>2, <3>3 DEF ProgInv, Given, OnRecord
  <2> QED BY <1>1, <2>1, <2>2
<1> QED BY <1>1, <1>2, <1>3, <1>4, <1>5
        DEF BatchInv, BatchTypes, Unstarted, ShellInv

LEMMA BatchStarts == Batch!BatchInit => BatchInv
<1> SUFFICES ASSUME Batch!BatchInit PROVE BatchInv
  OBVIOUS
<1>1. batch = Batch!NoBatch /\ pile = [i \in 1..PileSize |-> i] /\ bay = 0
      /\ bins = [done |-> {}, error |-> {}, aside |-> {}]
      /\ identity = [c \in Batch!Cards |-> 0] /\ records = <<>> /\ saved = 0
  BY DEF Batch!BatchInit
<1>2. pile \in Seq(Batch!Cards) /\ DOMAIN pile = 1..PileSize
  BY <1>1, BatchAssumption DEF Batch!Cards
<1>3. bins \in BinsType /\ bins.done = {} /\ bins.error = {}
  BY <1>1 DEF BinsType
<1>4. records \in Seq(Nat)
  BY <1>1
<1>5. Places
  BY <1>1, <1>2, <1>3, BatchAssumption DEF Places
<1>6. batch \in BatchType /\ batch.tool = "none"
  BY <1>1, NoBatchFacts
<1> QED BY <1>1, <1>2, <1>3, <1>4, <1>5, <1>6
        DEF BatchInv, BatchTypes, Unstarted, ShellInv, ProgInv

LEMMA BatchKeeps ==
  ASSUME BatchInv, [Batch!BatchNext]_batchVars
  PROVE  BatchInv'
<1>1. CASE UNCHANGED batchVars
  BY <1>1 DEF BatchInv, BatchTypes, Places, Unstarted, ShellInv, ProgInv, Given, OnRecord, batchVars
<1>2. CASE Batch!BatchNext
  BY <1>2, BatchShellStart, BatchShellGet, BatchShellGetFails, BatchShellProcess, BatchShellSort,
     BatchShellSortFails, BatchProgStart, BatchProgGet, BatchProgBreaks, BatchProgProgram,
     BatchProgRecord, BatchProgCount, BatchProgSave, BatchProgSort
     DEF Batch!BatchNext
<1> QED BY <1>1, <1>2

\* The bins tell which cards are done, and no two of those are the same.
LEMMA BatchGives == BatchInv => Batch!BinsTrusted
<1> SUFFICES ASSUME BatchInv PROVE Batch!BinsTrusted
  OBVIOUS
<1>1. batch.tool \in {"none", "shell", "prog"}
  BY DEF BatchInv, BatchTypes, BatchType
<1> QED BY <1>1 DEF BatchInv, Unstarted, ShellInv, ProgInv, OnRecord, Batch!BinsTrusted,
           Batch!DoneBinIsDone, Batch!IdentitiesDistinct, Batch!HaltsAtError

-----------------------------------------------------------------------------
\* smpp-ota-tool.py and pySim-smpp2sim.py.

Stages == {"idle", "sent", "raised", "returned", "timed out"}
Refusals == {"undefined_security_error", "cntr_low"}
Reasons == Refusals \cup {"por_ok"}
Results == {<<>>} \cup {<<r>> : r \in Reasons}
ToolType ==
  [stage : Stages, len : Nat, spi : SpiType \cup {<<>>}, cntr : Nat,
   result : Results]
PacketType ==
  [from : Tools, len : Nat, spi : SpiType, cntr : Nat, cpl : Int, signed : Int, pad : Nat,
   padded : Nat]
DoneType == [from : Tools, len : Nat]
MsgType ==
  [to : Tools, of : Tools, status : Reasons \cup {"empty"}, bytes : {7, 16, 32},
   ciphered : BOOLEAN, signed : BOOLEAN]

OtaTypes ==
  /\ tools \in [Tools -> ToolType] /\ smsc \in Seq(PacketType) /\ deliver \in SUBSET MsgType
  /\ secured \in [cntr : Nat, done : Seq(DoneType)]

DidIt(t) == \E i \in DOMAIN secured.done : secured.done[i].from = t

\* A packet that waits for the card: as its tool encoded it, and the card has not seen it.
PacketOk(p) ==
  /\ tools[p.from].stage \in {"sent", "timed out"}
  /\ p.spi = tools[p.from].spi /\ p.len = tools[p.from].len
  /\ p.padded = p.len + p.pad
  /\ p.spi.ciphering => p.signed = p.cpl
  /\ ~DidIt(p.from)
  /\ \A m \in deliver : m.of # p.from

\* An answer on its way: its tool can read it, or refuses refusals, and it tells what the
\* card did.
Readable(m, spi) ==
  m.status = "por_ok" \/ (m.status \in Refusals /\ ~Ota!RefusesRefusals(spi)) =>
    Ota!Decodable(m, spi)
MsgOk(m) ==
  /\ m.to = m.of /\ tools[m.of].stage # "idle" /\ tools[m.of].spi \in SpiType
  /\ Readable(m, tools[m.of].spi)
  /\ m.status = "por_ok" => DidIt(m.of)
  /\ m.status \in Refusals => ~DidIt(m.of)

DoneOk(d) == tools[d.from].stage # "idle" /\ d.len = tools[d.from].len

ToolOk(t) ==
  /\ tools[t].stage = "returned" => DidIt(t)
  /\ tools[t].stage = "raised" =>
       /\ ~DidIt(t)
       /\ Ota!Encodes(tools[t].len, tools[t].spi) /\ ~Ota!RefusesRefusals(tools[t].spi) =>
            tools[t].result # <<>>

PacketsOk ==
  /\ \A i \in DOMAIN smsc : PacketOk(smsc[i])
  /\ \A i, j \in DOMAIN smsc : smsc[i].from = smsc[j].from => i = j
MessagesOk == \A m \in deliver : MsgOk(m)
CommandsOk ==
  /\ \A i \in DOMAIN secured.done : DoneOk(secured.done[i])
  /\ \A i, j \in DOMAIN secured.done : secured.done[i].from = secured.done[j].from => i = j
OtaInv == OtaTypes /\ PacketsOk /\ MessagesOk /\ CommandsOk /\ \A t \in Tools : ToolOk(t)

\* The padding makes whole blocks, which the cipher does not pad again: the length that is signed
\* is the one that is sent.
LEMMA PaddingFacts ==
  ASSUME NEW n \in Nat, NEW m \in {8, 16}
  PROVE  /\ Ota!Padding(n, m) \in Nat /\ (n + Ota!Padding(n, m)) % m = 0
         /\ n % m = 0 => Ota!Padding(n, m) = 0
<1>1. CASE m = 8
  BY <1>1 DEF Ota!Padding
<1>2. CASE m = 16
  BY <1>2 DEF Ota!Padding
<1> QED BY <1>1, <1>2

LEMMA SignedAsSent ==
  ASSUME NEW len \in Nat, NEW spi \in SpiType
  PROVE  /\ Ota!PadCnt(len, spi) \in Nat /\ Ota!SignedCpl(len, spi) \in Int
         /\ Ota!EncodedCpl(len, spi) \in Int
         /\ spi.ciphering => Ota!SignedCpl(len, spi) = Ota!EncodedCpl(len, spi)
<1> DEFINE sig == Ota!SigLen(spi)
           n == Ota!PartCnt + sig + len
           pad == Ota!Padding(n, spi.algo)
           body == n + Ota!PadCnt(len, spi)
           more == Ota!Padding(body, spi.algo)
<1>1. sig \in Nat /\ n \in Nat /\ spi.algo \in {8, 16} /\ spi.ciphering \in BOOLEAN
      /\ n = 6 + sig + len /\ Ota!PartHead = 8 /\ Ota!PartCnt = 6
  BY DEF Ota!SigLen, Ota!PartCnt, Ota!PartHead, SpiType
<1>2. Ota!PadCnt(len, spi) = IF spi.ciphering THEN pad ELSE 0
  BY DEF Ota!PadCnt
<1>3. pad \in Nat /\ (n + pad) % spi.algo = 0
  <2> HIDE DEF n
  <2> QED BY <1>1, PaddingFacts
<1>4. Ota!SignedCpl(len, spi) = 8 + n + Ota!PadCnt(len, spi)
  <2> HIDE DEF sig
  <2>1. Ota!SignedCpl(len, spi) = 8 + 6 + len + Ota!PadCnt(len, spi) + sig
    BY <1>1 DEF Ota!SignedCpl, sig
  <2> QED BY <1>1, <1>2, <1>3, <2>1
<1>5. Ota!EncodedCpl(len, spi) = IF spi.ciphering THEN 8 + body + more ELSE 6 + body
  <2>1. Ota!EncodedLen(len, spi) = IF spi.ciphering THEN 2 + 8 + body + more ELSE 8 + body
    BY <1>1 DEF Ota!EncodedLen
  <2>2. body \in Nat /\ more \in Nat
    <3>1. body \in Nat
      BY <1>1, <1>2, <1>3
    <3> HIDE DEF body
    <3> QED BY <1>1, <3>1, PaddingFacts
  <2> HIDE DEF body, more
  <2> QED BY <1>1, <2>1, <2>2 DEF Ota!EncodedCpl
<1>6. body \in Nat /\ more \in Nat /\ (spi.ciphering => more = 0)
  <2>1. body \in Nat /\ (spi.ciphering => body % spi.algo = 0)
    BY <1>1, <1>2, <1>3
  <2> HIDE DEF body
  <2> QED BY <1>1, <2>1, PaddingFacts
<1>7. body = n + Ota!PadCnt(len, spi) /\ Ota!PadCnt(len, spi) \in Nat
  BY <1>2, <1>3
<1> HIDE DEF sig, n, pad, body, more
<1> QED BY <1>1, <1>4, <1>5, <1>6, <1>7

\* An encoded command.
LEMMA PacketFacts ==
  ASSUME NEW t \in Tools, NEW len \in Nat, NEW spi \in SpiType, NEW cntr \in Nat,
         NEW p, p = Ota!Packet(t, len, spi, cntr)
  PROVE  /\ p \in PacketType /\ p.from = t /\ p.spi = spi /\ p.len = len
         /\ p.padded = p.len + p.pad
         /\ p.spi.ciphering => p.signed = p.cpl
<1> DEFINE pad == Ota!PadCnt(len, spi)
           cpl == Ota!EncodedCpl(len, spi)
           signed == Ota!SignedCpl(len, spi)
           padded == len + pad
<1>1. p = [from |-> t, len |-> len, spi |-> spi, cntr |-> cntr, cpl |-> cpl, signed |-> signed,
           pad |-> pad, padded |-> padded]
  BY DEF Ota!Packet
<1>2. pad \in Nat /\ signed \in Int /\ cpl \in Int /\ padded \in Nat /\ padded = len + pad
      /\ (spi.ciphering => signed = cpl)
  BY SignedAsSent
<1> HIDE DEF pad, cpl, signed, padded
<1> QED BY <1>1, <1>2 DEF PacketType

\* What a run that has not sent anything leaves no trace of.
LEMMA IdleTool ==
  ASSUME OtaInv, NEW t \in Tools, tools[t].stage = "idle"
  PROVE  /\ ~DidIt(t)
         /\ \A i \in DOMAIN smsc : smsc[i].from # t
         /\ \A m \in deliver : m.of # t
BY DEF OtaInv, PacketsOk, MessagesOk, CommandsOk, PacketOk, MsgOk, DoneOk, DidIt

\* What waits in each queue, one by one.
LEMMA OtaElements ==
  ASSUME OtaInv
  PROVE  /\ \A i \in DOMAIN smsc : /\ smsc[i] \in PacketType /\ smsc[i].from \in Tools
                                   /\ PacketOk(smsc[i])
         /\ \A m \in deliver : m \in MsgType /\ m.to \in Tools /\ m.of \in Tools /\ MsgOk(m)
         /\ \A i \in DOMAIN secured.done : /\ secured.done[i].from \in Tools
                                           /\ DoneOk(secured.done[i])
<1> DEFINE done == secured.done
<1>1. smsc \in Seq(PacketType) /\ deliver \in SUBSET MsgType /\ done \in Seq(DoneType)
  BY DEF OtaInv, OtaTypes
<1>2. \A i \in DOMAIN done : done[i].from \in Tools
  <2> HIDE DEF done
  <2>1. \A i \in DOMAIN done : done[i] \in DoneType
    BY <1>1
  <2> QED BY <2>1 DEF DoneType
<1>3. \A i \in DOMAIN smsc : smsc[i] \in PacketType /\ smsc[i].from \in Tools
  <2>1. \A i \in DOMAIN smsc : smsc[i] \in PacketType
    BY <1>1
  <2> QED BY <2>1 DEF PacketType
<1>4. \A m \in deliver : m \in MsgType /\ m.to \in Tools /\ m.of \in Tools
  BY <1>1 DEF MsgType
<1>5. /\ \A i \in DOMAIN smsc : PacketOk(smsc[i])
      /\ \A m \in deliver : MsgOk(m)
      /\ \A i \in DOMAIN secured.done : DoneOk(secured.done[i])
  BY DEF OtaInv, PacketsOk, MessagesOk, CommandsOk
<1> QED BY <1>2, <1>3, <1>4, <1>5

LEMMA OtaSend ==
  ASSUME OtaInv, NEW t \in Tools, NEW len \in ApduLengths, NEW spi \in Spis,
         NEW cntr \in Counters, Ota!Send(t, len, spi, cntr)
  PROVE  OtaInv'
<1> DEFINE stage == IF Ota!Encodes(len, spi) THEN "sent" ELSE "raised"
           p == Ota!Packet(t, len, spi, cntr)
           x == [tools[t] EXCEPT !.len = len, !.spi = spi, !.cntr = cntr, !.stage = stage]
<1>1. len \in Nat /\ spi \in SpiType /\ cntr \in Nat /\ stage \in {"sent", "raised"}
      /\ (stage = "raised" <=> ~Ota!Encodes(len, spi))
  BY OtaAssumption
<1>2. /\ tools[t].stage = "idle" /\ tools \in [Tools -> ToolType]
      /\ tools' = [tools EXCEPT ![t] = x]
      /\ smsc' = IF stage = "sent" THEN Append(smsc, p) ELSE smsc
      /\ deliver' = deliver /\ secured' = secured
  BY DEF Ota!Send, OtaInv, PacketsOk, MessagesOk, CommandsOk, OtaTypes
<1>3. /\ p \in PacketType /\ p.from = t /\ p.spi = spi /\ p.len = len
      /\ p.padded = p.len + p.pad
      /\ p.spi.ciphering => p.signed = p.cpl
  BY <1>1, PacketFacts
<1> HIDE DEF stage, p
<1>4. /\ x \in ToolType /\ x.len = len /\ x.spi = spi /\ x.stage = stage
  BY <1>1, <1>2 DEF ToolType, Stages
<1> HIDE DEF x
<1>5. /\ tools' \in [Tools -> ToolType] /\ tools'[t] = x
      /\ \A u \in Tools : u # t => tools'[u] = tools[u]
  BY <1>2, <1>4
<1>6. /\ ~DidIt(t) /\ (\A i \in DOMAIN smsc : smsc[i].from # t) /\ (\A m \in deliver : m.of # t)
  BY <1>2, IdleTool
<1>7. /\ smsc' \in Seq(PacketType)
      /\ \A i \in DOMAIN smsc' : \/ i \in DOMAIN smsc /\ smsc'[i] = smsc[i]
                                 \/ i = Len(smsc) + 1 /\ smsc'[i] = p /\ stage = "sent"
      /\ \A i \in DOMAIN smsc : i # Len(smsc) + 1
  BY <1>2, <1>3 DEF OtaInv, PacketsOk, MessagesOk, CommandsOk, OtaTypes
<1>8. OtaTypes'
  BY <1>2, <1>5, <1>7 DEF OtaInv, PacketsOk, MessagesOk, CommandsOk, OtaTypes
<1>9. \A i \in DOMAIN smsc' : PacketOk(smsc[i])'
  <2> TAKE i \in DOMAIN smsc'
  <2>1. CASE i \in DOMAIN smsc /\ smsc'[i] = smsc[i]
    <3>1. smsc[i].from \in Tools /\ smsc[i].from # t /\ PacketOk(smsc[i])
      BY <1>6, <2>1, OtaElements
    <3> QED BY <1>2, <1>5, <2>1, <3>1 DEF PacketOk, DidIt
  <2>2. CASE smsc'[i] = p /\ stage = "sent"
    BY <1>2, <1>3, <1>4, <1>5, <1>6, <2>2 DEF PacketOk, DidIt
  <2> QED BY <1>7, <2>1, <2>2
<1>10. \A i, j \in DOMAIN smsc' : smsc'[i].from = smsc'[j].from => i = j
  BY <1>3, <1>6, <1>7 DEF OtaInv, PacketsOk, MessagesOk, CommandsOk
<1>11. \A m \in deliver' : MsgOk(m)'
  BY <1>2, <1>5, <1>6, OtaElements DEF MsgOk, DidIt
<1>12. /\ \A i \in DOMAIN secured'.done : DoneOk(secured.done[i])'
       /\ \A i, j \in DOMAIN secured'.done : secured'.done[i].from = secured'.done[j].from => i = j
  <2>1. \A i \in DOMAIN secured.done : /\ secured.done[i].from \in Tools
                                          /\ secured.done[i].from # t /\ DoneOk(secured.done[i])
    BY <1>6, OtaElements DEF DidIt
  <2>2. \A i \in DOMAIN secured'.done : DoneOk(secured.done[i])'
    BY <1>2, <1>5, <2>1 DEF DoneOk
  <2> QED BY <1>2, <2>2 DEF OtaInv, CommandsOk
<1>13. \A u \in Tools : ToolOk(u)'
  <2> TAKE u \in Tools
  <2>1. CASE u = t
    BY <1>1, <1>2, <1>4, <1>5, <1>6, <2>1 DEF ToolOk, DidIt
  <2>2. CASE u # t
    BY <1>2, <1>5, <2>2 DEF OtaInv, PacketsOk, MessagesOk, CommandsOk, ToolOk, DidIt
  <2> QED BY <2>1, <2>2
<1> QED BY <1>8, <1>9, <1>10, <1>11, <1>12, <1>13 DEF OtaInv, PacketsOk, MessagesOk, CommandsOk

LEMMA OtaReceive ==
  ASSUME OtaInv, NEW t \in Tools, NEW m \in deliver, Ota!Receive(t, m)
  PROVE  OtaInv'
<1> DEFINE x == Ota!Heard(tools[t], m)
<1>1. /\ m \in MsgType /\ m.to = t /\ m.of = t /\ tools \in [Tools -> ToolType] /\ MsgOk(m)
      /\ deliver' = deliver \ {m} /\ smsc' = smsc /\ secured' = secured
  BY DEF Ota!Receive, OtaInv, PacketsOk, MessagesOk, CommandsOk, OtaTypes, MsgOk
<1>2. CASE tools' = tools
  <2>1. OtaTypes'
    BY <1>1, <1>2 DEF OtaInv, OtaTypes
  <2>2. PacketsOk'
    BY <1>1, <1>2 DEF OtaInv, PacketsOk, PacketOk, DidIt
  <2>3. MessagesOk'
    BY <1>1, <1>2 DEF OtaInv, MessagesOk, MsgOk, DidIt
  <2>4. CommandsOk'
    BY <1>1, <1>2 DEF OtaInv, CommandsOk, DoneOk
  <2>5. \A u \in Tools : ToolOk(u)'
    BY <1>1, <1>2 DEF OtaInv, ToolOk, DidIt
  <2> QED BY <2>1, <2>2, <2>3, <2>4, <2>5 DEF OtaInv
<1>3. CASE /\ tools[t].stage = "sent" /\ m.status # "empty"
           /\ tools' = [tools EXCEPT ![t] = x]
  <2> DEFINE clear == Ota!Decodable(m, tools[t].spi)
             stage == IF clear /\ m.status = "por_ok" THEN "returned" ELSE "raised"
             result == IF clear THEN <<m.status>> ELSE <<>>
  <2>1. /\ m.status \in Reasons /\ (m.status = "por_ok" => clear)
        /\ ~Ota!RefusesRefusals(tools[t].spi) => clear
    BY <1>1, <1>3 DEF MsgOk, MsgType, Readable, Reasons
  <2>2. x = [tools[t] EXCEPT !.stage = stage, !.result = result]
    BY DEF Ota!Heard
  <2> HIDE DEF clear
  <2>3. stage \in {"returned", "raised"} /\ (stage = "returned" <=> m.status = "por_ok")
        /\ result \in Results /\ (~Ota!RefusesRefusals(tools[t].spi) => result # <<>>)
    <3>1. <<m.status>> # <<>>
      OBVIOUS
    <3> QED BY <2>1, <3>1 DEF Results
  <2> HIDE DEF stage, result, x
  <2>4. /\ x \in ToolType /\ x.stage = stage /\ x.result = result
        /\ x.len = tools[t].len /\ x.spi = tools[t].spi
    BY <1>1, <2>2, <2>3 DEF ToolType, Stages
  <2>5. /\ tools' \in [Tools -> ToolType] /\ tools'[t] = x
        /\ \A u \in Tools : u # t => tools'[u] = tools[u]
    BY <1>1, <1>3, <2>4
  <2>6. \A i \in DOMAIN smsc : smsc[i] \in PacketType /\ PacketOk(smsc[i]) /\ smsc[i].from # t
    BY <1>1, OtaElements DEF PacketOk
  <2>7. OtaTypes'
    BY <1>1, <2>5 DEF OtaInv, PacketsOk, MessagesOk, CommandsOk, OtaTypes
  <2>8. \A i \in DOMAIN smsc' : PacketOk(smsc[i])'
    <3> TAKE i \in DOMAIN smsc'
    <3>1. smsc'[i] = smsc[i] /\ smsc[i].from \in Tools /\ smsc[i].from # t /\ PacketOk(smsc[i])
      BY <1>1, <2>6, OtaElements
    <3> QED BY <1>1, <2>5, <3>1 DEF PacketOk, DidIt
  <2>9. \A n \in deliver' : MsgOk(n)'
    <3> TAKE n \in deliver'
    <3>1. n \in MsgType /\ MsgOk(n)
      BY <1>1, OtaElements
    <3> QED BY <1>1, <2>3, <2>4, <2>5, <3>1 DEF MsgOk, MsgType, DidIt
  <2>10. \A i \in DOMAIN secured'.done : DoneOk(secured.done[i])'
    <3> TAKE i \in DOMAIN secured'.done
    <3>1. secured'.done[i] = secured.done[i] /\ secured.done[i].from \in Tools /\ DoneOk(secured.done[i])
      BY <1>1, OtaElements
    <3> QED BY <2>3, <2>4, <2>5, <3>1 DEF DoneOk
  <2>11. \A u \in Tools : ToolOk(u)'
    <3> TAKE u \in Tools
    <3>1. CASE u = t
      <4>1. stage = "returned" => DidIt(t)
        BY <1>1, <2>3 DEF MsgOk
      <4>2. stage = "raised" => ~DidIt(t)
        BY <1>1, <2>1, <2>3 DEF MsgOk, Reasons
      <4> QED BY <1>1, <2>3, <2>4, <2>5, <3>1, <4>1, <4>2 DEF ToolOk, DidIt
    <3>2. CASE u # t
      BY <1>1, <2>5, <3>2 DEF OtaInv, PacketsOk, MessagesOk, CommandsOk, ToolOk, DidIt
    <3> QED BY <3>1, <3>2
  <2> QED BY <1>1, <2>7, <2>8, <2>9, <2>10, <2>11 DEF OtaInv, PacketsOk, MessagesOk, CommandsOk
<1> QED BY <1>1, <1>2, <1>3 DEF Ota!Receive

LEMMA OtaTimeOut ==
  ASSUME OtaInv, NEW t \in Tools, Ota!TimeOutOta(t)
  PROVE  OtaInv'
<1> DEFINE x == [tools[t] EXCEPT !.stage = "timed out"]
<1>1. /\ tools \in [Tools -> ToolType] /\ tools' = [tools EXCEPT ![t] = x]
      /\ smsc' = smsc /\ deliver' = deliver /\ secured' = secured
  BY DEF Ota!TimeOutOta, OtaInv, PacketsOk, MessagesOk, CommandsOk, OtaTypes
<1>2. /\ x \in ToolType /\ x.stage = "timed out" /\ x.len = tools[t].len /\ x.spi = tools[t].spi
  BY <1>1 DEF ToolType, Stages
<1> HIDE DEF x
<1>3. /\ tools' \in [Tools -> ToolType]
      /\ \A u \in Tools : /\ u # t => tools'[u] = tools[u]
                          /\ tools'[u].len = tools[u].len /\ tools'[u].spi = tools[u].spi
      /\ tools'[t].stage = "timed out"
  BY <1>1, <1>2
<1>4. OtaTypes'
  BY <1>1, <1>3 DEF OtaInv, PacketsOk, MessagesOk, CommandsOk, OtaTypes
<1>5. \A i \in DOMAIN smsc' : PacketOk(smsc[i])'
  <2> TAKE i \in DOMAIN smsc'
  <2>1. smsc'[i] = smsc[i] /\ smsc[i].from \in Tools /\ PacketOk(smsc[i])
    BY <1>1, OtaElements
  <2> QED BY <1>1, <1>3, <2>1 DEF PacketOk, DidIt
<1>6. \A n \in deliver' : MsgOk(n)'
  <2> TAKE n \in deliver'
  <2>1. n \in MsgType /\ n.of \in Tools /\ MsgOk(n)
    BY <1>1, OtaElements
  <2> QED BY <1>1, <1>3, <2>1 DEF MsgOk, DidIt
<1>7. \A i \in DOMAIN secured'.done : DoneOk(secured.done[i])'
  <2> TAKE i \in DOMAIN secured'.done
  <2>1. secured'.done[i] = secured.done[i] /\ secured.done[i].from \in Tools /\ DoneOk(secured.done[i])
    BY <1>1, OtaElements
  <2> QED BY <1>3, <2>1 DEF DoneOk
<1>8. \A u \in Tools : ToolOk(u)'
  <2> TAKE u \in Tools
  <2>1. CASE u = t
    BY <1>3, <2>1 DEF ToolOk
  <2>2. CASE u # t
    BY <1>1, <1>3, <2>2 DEF OtaInv, ToolOk, DidIt
  <2> QED BY <2>1, <2>2
<1> QED BY <1>1, <1>4, <1>5, <1>6, <1>7, <1>8 DEF OtaInv, PacketsOk, MessagesOk, CommandsOk

LEMMA OtaSubmit ==
  ASSUME OtaInv, NEW busy \in BOOLEAN, Ota!SubmitSm(busy)
  PROVE  OtaInv'
<1> PICK p : p = Head(smsc)
  OBVIOUS
<1> DEFINE status == Ota!Status(p)
           m == Ota!Response(p)
           t == p.from
           len == p.padded - p.pad
           d == [from |-> t, len |-> len]
           done == secured.done
<1>1. /\ smsc # <<>> /\ smsc' = Tail(smsc) /\ smsc \in Seq(PacketType)
      /\ tools' = tools /\ tools \in [Tools -> ToolType]
  BY DEF Ota!SubmitSm, OtaInv, OtaTypes
<1>2. /\ smsc' \in Seq(PacketType) /\ 1 \in DOMAIN smsc /\ p = smsc[1]
      /\ \A i \in DOMAIN smsc' : i + 1 \in DOMAIN smsc /\ i + 1 # 1 /\ smsc'[i] = smsc[i + 1]
  BY <1>1
<1>3. /\ p \in PacketType /\ t \in Tools /\ PacketOk(p)
      /\ \A i \in DOMAIN smsc' : /\ smsc'[i].from \in Tools /\ smsc'[i].from # t
                                 /\ PacketOk(smsc'[i])
  <2>1. p \in PacketType /\ p.from \in Tools /\ PacketOk(p)
    BY <1>2, OtaElements
  <2>2. \A i \in DOMAIN smsc : i # 1 => smsc[i].from # p.from
    BY <1>2 DEF OtaInv, PacketsOk
  <2> QED BY <1>2, <2>1, <2>2, OtaElements
<1>4. \A i, j \in DOMAIN smsc' : smsc'[i].from = smsc'[j].from => i = j
  <2> TAKE i, j \in DOMAIN smsc'
  <2>1. smsc'[i].from = smsc'[j].from => i + 1 = j + 1
    BY <1>2 DEF OtaInv, PacketsOk
  <2>2. i \in Int /\ j \in Int
    BY <1>2
  <2> QED BY <2>1, <2>2
<1>5. CASE busy
  <2>1. deliver' = deliver /\ secured' = secured
    BY <1>5 DEF Ota!SubmitSm
  <2>2. OtaTypes'
    BY <1>1, <1>2, <2>1 DEF OtaInv, OtaTypes
  <2>3. PacketsOk'
    BY <1>1, <1>3, <1>4, <2>1 DEF PacketsOk, PacketOk, DidIt
  <2>4. MessagesOk' /\ CommandsOk'
    BY <1>1, <2>1 DEF OtaInv, MessagesOk, MsgOk, CommandsOk, DoneOk, DidIt
  <2>5. \A u \in Tools : ToolOk(u)'
    BY <1>1, <2>1 DEF OtaInv, ToolOk, DidIt
  <2> QED BY <2>2, <2>3, <2>4, <2>5 DEF OtaInv
<1>6. CASE ~busy
  <2>1. /\ deliver' = deliver \cup {m}
        /\ secured' = IF status = "por_ok" THEN Ota!Done(p) ELSE secured
    BY <1>6 DEF Ota!SubmitSm
  <2>2. status \in Reasons /\ p.spi \in SpiType /\ len = tools[t].len /\ len \in Nat
        /\ p.spi = tools[t].spi /\ tools[t].stage \in {"sent", "timed out"}
        /\ ~DidIt(t) /\ \A n \in deliver : n.of # t
    <3>1. p.spi \in SpiType /\ p.len \in Nat /\ p.pad \in Nat /\ p.padded = p.len + p.pad
          /\ p.spi = tools[t].spi /\ p.len = tools[t].len
          /\ (p.spi.ciphering => p.signed = p.cpl)
      BY <1>3 DEF PacketType, PacketOk
    <3>2. status \in Reasons
      BY <3>1 DEF Ota!Status, Reasons, Refusals
    <3>3. tools[t].stage \in {"sent", "timed out"} /\ ~DidIt(t) /\ \A n \in deliver : n.of # t
      BY <1>3 DEF PacketOk
    <3>4. len = tools[t].len /\ len \in Nat
      BY <3>1
    <3> QED BY <3>1, <3>2, <3>3, <3>4
  <2>3. /\ m \in MsgType /\ m.to = t /\ m.of = t /\ m.status \in {status, "empty"}
        /\ Readable(m, p.spi)
    <3> DEFINE ok == status = "por_ok"
               c == ok /\ p.spi.por_shall_be_ciphered
               g == ok /\ p.spi.por_rc_cc_ds = "cc"
               s == IF Ota!WantsPor(p) THEN status ELSE "empty"
               b == IF ok THEN 2 * p.spi.algo ELSE 7
    <3>1. m = [to |-> t, of |-> t, status |-> s, bytes |-> b, ciphered |-> c, signed |-> g]
      BY DEF Ota!Response
    <3>2. /\ s \in {status, "empty"} /\ c \in BOOLEAN /\ g \in BOOLEAN
          /\ (c <=> ok /\ p.spi.por_shall_be_ciphered) /\ (g <=> ok /\ p.spi.por_rc_cc_ds = "cc")
          /\ p.spi.por_shall_be_ciphered \in BOOLEAN /\ p.spi.por_rc_cc_ds \in {"no_rc_cc_ds", "cc"}
      BY <2>2 DEF SpiType
    <3>3. b \in {7, 16, 32} /\ (b % p.spi.algo = 0 <=> ok)
      <4>1. p.spi.algo \in {8, 16}
        BY <2>2 DEF SpiType
      <4> QED BY <4>1
    <3>4. s = "por_ok" => ok
      BY <3>2
    <3>5. s \in Refusals => ~ok
      BY <3>2 DEF Refusals
    <3> HIDE DEF ok, c, g, s, b, m, t, status
    <3>6. m \in MsgType /\ m.to = t /\ m.of = t /\ m.status = s /\ m.bytes = b
          /\ m.ciphered = c /\ m.signed = g
      BY <1>3, <2>2, <3>1, <3>2, <3>3 DEF MsgType
    <3>7. CASE ok
      BY <3>2, <3>3, <3>6, <3>7 DEF Readable, Ota!Decodable, Ota!DecodeResp
    <3>8. CASE ~ok
      BY <3>2, <3>3, <3>4, <3>6, <3>8
         DEF Readable, Ota!Decodable, Ota!DecodeResp, Ota!RefusesRefusals
    <3> QED BY <3>2, <3>6, <3>7, <3>8
  <2> HIDE DEF m, status
  <2>4. /\ done \in Seq(DoneType) /\ d \in DoneType /\ secured \in [cntr : Nat, done : Seq(DoneType)]
        /\ d.from = t /\ d.len = tools[t].len
    BY <1>3, <2>2 DEF OtaInv, OtaTypes, DoneType
  <2>5. /\ secured' \in [cntr : Nat, done : Seq(DoneType)]
        /\ \A i \in DOMAIN done : i \in DOMAIN secured'.done /\ secured'.done[i] = done[i]
        /\ \A i \in DOMAIN secured'.done :
             \/ i \in DOMAIN done /\ secured'.done[i] = done[i]
             \/ i = Len(done) + 1 /\ secured'.done[i] = d /\ status = "por_ok"
        /\ status = "por_ok" =>
             Len(done) + 1 \in DOMAIN secured'.done /\ secured'.done[Len(done) + 1] = d
    <3>1. CASE status = "por_ok"
      <4>1. secured' = [cntr |-> IF p.cntr > secured.cntr THEN p.cntr ELSE secured.cntr,
                        done |-> Append(done, d)]
        BY <2>1, <3>1 DEF Ota!Done
      <4>2. p.cntr \in Nat /\ secured.cntr \in Nat
        BY <1>3, <2>4 DEF PacketType
      <4> HIDE DEF d, done
      <4> QED BY <2>4, <3>1, <4>1, <4>2
    <3>2. CASE status # "por_ok"
      BY <2>1, <2>4, <3>2
    <3> QED BY <3>1, <3>2
  <2>6. /\ \A u \in Tools : u # t => (DidIt(u)' <=> DidIt(u))
        /\ DidIt(t)' <=> status = "por_ok"
    <3> DEFINE then == secured'.done
    <3>1. /\ \A u : DidIt(u) <=> \E i \in DOMAIN done : done[i].from = u
          /\ \A u : DidIt(u)' <=> \E i \in DOMAIN then : then[i].from = u
      BY DEF DidIt
    <3>2. /\ \A i \in DOMAIN done : i \in DOMAIN then /\ then[i] = done[i]
          /\ \A i \in DOMAIN then : \/ i \in DOMAIN done /\ then[i] = done[i]
                                    \/ then[i] = d /\ status = "por_ok"
          /\ status = "por_ok" => \E i \in DOMAIN then : then[i] = d
      BY <2>5
    <3>3. d.from = t /\ ~DidIt(t)
      BY <2>2, <2>4
    <3> HIDE DEF then, done, d, t
    <3> QED BY <3>1, <3>2, <3>3
  <2>7. OtaTypes'
    BY <1>1, <1>2, <2>1, <2>3, <2>5 DEF OtaInv, OtaTypes
  <2>8. PacketsOk'
    <3>1. ASSUME NEW i \in DOMAIN smsc'
          PROVE  PacketOk(smsc[i])'
      <4> PICK q : q = smsc'[i]
        OBVIOUS
      <4>1. q.from \in Tools /\ q.from # t /\ PacketOk(q)
        BY <1>3
      <4>2. \A n \in deliver' : n \in deliver \/ n.of = t
        BY <2>1, <2>3
      <4>3. ~DidIt(q.from)'
        BY <2>6, <4>1 DEF PacketOk
      <4>4. PacketOk(q)'
        BY <1>1, <4>1, <4>2, <4>3 DEF PacketOk
      <4> QED BY <4>4 DEF PacketOk, DidIt
    <3> QED BY <1>4, <3>1 DEF PacketsOk
  <2>9. MessagesOk'
    <3>1. ASSUME NEW n \in deliver'
          PROVE  MsgOk(n)'
      <4>1. CASE n \in deliver
        <5>1. n.of \in Tools /\ n.of # t /\ MsgOk(n)
          BY <2>2, <4>1, OtaElements
        <5> QED BY <1>1, <2>6, <5>1 DEF MsgOk
      <4>2. CASE n = m
        <5>1. /\ m.status = "por_ok" => DidIt(t)'
              /\ m.status \in Refusals => ~DidIt(t)'
          BY <2>3, <2>6 DEF Refusals
        <5>2. /\ n.to = t /\ n.of = t /\ tools'[t].stage # "idle" /\ tools'[t].spi = p.spi
              /\ p.spi \in SpiType /\ Readable(n, p.spi)
              /\ n.status = m.status
          BY <1>1, <2>2, <2>3, <4>2
        <5> HIDE DEF t
        <5> QED BY <5>1, <5>2 DEF MsgOk
      <4> QED BY <2>1, <4>1, <4>2
    <3> QED BY <3>1 DEF MessagesOk
  <2>10. CommandsOk'
    <3>1. ASSUME NEW i \in DOMAIN secured'.done
          PROVE  DoneOk(secured.done[i])'
      <4>1. CASE i \in DOMAIN done /\ secured'.done[i] = done[i]
        BY <1>1, <4>1, OtaElements DEF DoneOk
      <4>2. CASE secured'.done[i] = d
        BY <1>1, <2>2, <2>4, <4>2 DEF DoneOk
      <4> QED BY <2>5, <4>1, <4>2
    <3>2. \A i \in DOMAIN done : done[i].from # t
      BY <2>2 DEF DidIt
    <3>3. \A i, j \in DOMAIN secured'.done : secured'.done[i].from = secured'.done[j].from => i = j
      <4>1. \A i, j \in DOMAIN done : done[i].from = done[j].from => i = j
        BY DEF OtaInv, CommandsOk
      <4> HIDE DEF d, t
      <4> QED BY <2>4, <2>5, <3>2, <4>1
    <3> QED BY <3>1, <3>3 DEF CommandsOk
  <2>11. \A u \in Tools : ToolOk(u)'
    <3> TAKE u \in Tools
    <3>1. CASE u = t
      BY <1>1, <2>2, <3>1 DEF ToolOk
    <3>2. CASE u # t
      BY <1>1, <2>6, <3>2 DEF OtaInv, ToolOk
    <3> QED BY <3>1, <3>2
  <2> QED BY <2>7, <2>8, <2>9, <2>10, <2>11 DEF OtaInv
<1> QED BY <1>5, <1>6

LEMMA OtaStarts == Ota!OtaInit => OtaInv
<1> SUFFICES ASSUME Ota!OtaInit PROVE OtaInv
  OBVIOUS
<1>1. /\ tools = [t \in Tools |-> Ota!NoTool] /\ smsc = <<>> /\ deliver = {}
      /\ secured = [cntr |-> 0, done |-> <<>>]
  BY DEF Ota!OtaInit
<1>2. Ota!NoTool \in ToolType /\ Ota!NoTool.stage = "idle"
  BY DEF Ota!NoTool, ToolType, Stages, Results
<1>3. OtaTypes
  BY <1>1, <1>2 DEF OtaTypes
<1>4. PacketsOk /\ MessagesOk /\ CommandsOk
  BY <1>1 DEF PacketsOk, MessagesOk, CommandsOk
<1>5. \A t \in Tools : ToolOk(t)
  BY <1>1, <1>2 DEF ToolOk
<1> QED BY <1>3, <1>4, <1>5 DEF OtaInv

LEMMA OtaKeeps ==
  ASSUME OtaInv, [Ota!OtaNext]_otaVars
  PROVE  OtaInv'
<1>1. CASE UNCHANGED otaVars
  <2>1. OtaTypes' /\ PacketsOk'
    BY <1>1 DEF otaVars, OtaInv, OtaTypes, PacketsOk, PacketOk, DidIt
  <2>2. MessagesOk' /\ CommandsOk'
    BY <1>1 DEF otaVars, OtaInv, MessagesOk, MsgOk, CommandsOk, DoneOk, DidIt
  <2>3. \A u \in Tools : ToolOk(u)'
    BY <1>1 DEF otaVars, OtaInv, ToolOk, DidIt
  <2> QED BY <2>1, <2>2, <2>3 DEF OtaInv
<1>2. CASE Ota!OtaNext
  BY <1>2, OtaSend, OtaReceive, OtaTimeOut, OtaSubmit DEF Ota!OtaNext
<1> QED BY <1>1, <1>2

\* What a tool shows is what became of its own command.
LEMMA OtaGives == OtaInv => Ota!OtaTrusted
<1> SUFFICES ASSUME OtaInv PROVE Ota!OtaTrusted
  OBVIOUS
<1>1. Ota!EncodedAsSigned
  BY OtaElements DEF MsgType, Reasons, Refusals, Ota!EncodedAsSigned
<1>2. ASSUME NEW t \in Tools
      PROVE  /\ \A i, j \in Ota!DoneBy(t) : i = j
             /\ \A i \in Ota!DoneBy(t) : secured.done[i].len = tools[t].len
             /\ DidIt(t) <=> Ota!DoneBy(t) # {}
             /\ ToolOk(t)
  BY DEF OtaInv, CommandsOk, DoneOk, DidIt, Ota!DoneBy
<1>3. Ota!ReportIsTrue
  BY <1>2 DEF Ota!ReportIsTrue, ToolOk
<1> QED BY <1>1, <1>3 DEF Ota!OtaTrusted

-----------------------------------------------------------------------------
\* SCP02 and SCP03.

SecurityLevels == {0, 1, 3, 17, 19, 51}
Enciphers == {3, 19, 51}
HostType ==
  [open : BOOLEAN, proto : {2, 3}, level : SecurityLevels, s_mode : {8, 16}, lchan : Nat,
   chain : Seq(Nat), block_nr : Nat]
IsdType ==
  [open : BOOLEAN, level : SecurityLevels, lchan : Nat, chain : Seq(Nat), block_nr : Nat,
   done : Seq(Nat), key : Nat]
ExchType ==
  [n : Nat, wrapped : BOOLEAN, arrived : BOOLEAN, accepted : BOOLEAN,
   result : {"none", "returned", "raised"}, len : Nat, key : Nat]
FaultsType == [lost : BOOLEAN, late : BOOLEAN, ended : BOOLEAN]
SecureTypes == host \in HostType /\ isd \in IsdType /\ exch \in ExchType /\ faults \in FaultsType

\* A session that both sides have is the same one, and the card has chained what it took of what
\* the host has.
SameSession ==
  host.open /\ isd.open =>
    /\ isd.level = host.level /\ isd.lchan = host.lchan
    /\ Len(isd.chain) <= Len(host.chain)
    /\ faults.lost => Len(isd.chain) < Len(host.chain)
\* Until something goes wrong neither side is ahead.
InStep ==
  host.open /\ host.lchan = 0 /\ faults = Secure!NoFaults =>
    /\ isd.open /\ isd.chain = host.chain
    /\ host.proto = 3 /\ host.level \in Enciphers => isd.block_nr = host.block_nr
    /\ exch.arrived => exch.accepted
HostMade ==
  host.open => /\ host.proto = 2 => host.level \in {0, 1, 3} /\ host.block_nr = 0
               /\ host.proto = 3 => host.level # 0
               /\ host.level \notin Enciphers => host.block_nr = 0
\* The card has done no command that is still to come.
RisesTo(done, n) ==
  /\ \A i \in DOMAIN done : done[i] <= n
  /\ \A i, j \in DOMAIN done : i < j => done[i] < done[j]
DoneBefore == RisesTo(isd.done, exch.n)
ReturnedIsAccepted == exch.result = "returned" => exch.accepted

SecureInv ==
  /\ SecureTypes /\ SameSession /\ InStep /\ HostMade /\ DoneBefore /\ ReturnedIsAccepted
  /\ Secure!ChunksFit /\ Secure!KeyArrives

LEMMA LevelFacts ==
  ASSUME NEW l \in SecurityLevels
  PROVE  /\ Secure!Cmac(l) <=> l # 0
         /\ Secure!Cenc(l) <=> l \in Enciphers
<1>1. CASE l = 0
  BY <1>1 DEF Secure!Cmac, Secure!Cenc, Enciphers
<1>2. CASE l = 1
  BY <1>2 DEF Secure!Cmac, Secure!Cenc, Enciphers
<1>3. CASE l = 3
  BY <1>3 DEF Secure!Cmac, Secure!Cenc, Enciphers
<1>4. CASE l = 17
  BY <1>4 DEF Secure!Cmac, Secure!Cenc, Enciphers
<1>5. CASE l = 19
  BY <1>5 DEF Secure!Cmac, Secure!Cenc, Enciphers
<1>6. CASE l = 51
  BY <1>6 DEF Secure!Cmac, Secure!Cenc, Enciphers
<1> QED BY <1>1, <1>2, <1>3, <1>4, <1>5, <1>6 DEF SecurityLevels

LEMMA PaddedFacts ==
  ASSUME NEW len \in Nat, NEW bs \in {8, 16}
  PROVE  Secure!Padded(len, bs) \in Nat
<1>1. CASE bs = 8
  BY <1>1 DEF Secure!Padded
<1>2. CASE bs = 16
  BY <1>2 DEF Secure!Padded
<1> QED BY <1>1, <1>2

\* A key longer than whole blocks gets a length in front, and so the card tells the two forms apart.
LEMMA KeyBlocks ==
  ASSUME NEW klen \in Nat, NEW bs \in {8, 16}, Secure!KeyEnciphers(klen, bs)
  PROVE  Secure!KeyOfBlock(klen, bs) = klen /\ Secure!PutKeyLength(klen, bs) \in Nat
<1>1. CASE bs = 8
  BY <1>1 DEF Secure!KeyEnciphers, Secure!KeyOfBlock, Secure!EncryptKey, Secure!PutKeyLength
<1>2. CASE bs = 16
  BY <1>2 DEF Secure!KeyEnciphers, Secure!KeyOfBlock, Secure!EncryptKey, Secure!PutKeyLength
<1> QED BY <1>1, <1>2

\* What two instances of a session have in common.
Alike(g, h) ==
  /\ g \in HostType /\ g.open = h.open /\ g.proto = h.proto /\ g.level = h.level
  /\ g.s_mode = h.s_mode /\ g.lchan = h.lchan

\* A command that is chained.
LEMMA ChainedFacts ==
  ASSUME NEW h \in HostType, NEW n \in Nat, NEW g, g = Secure!Chained(h, n)
  PROVE  Alike(g, h) /\ g.chain = Append(h.chain, n) /\ g.block_nr = h.block_nr
<1> DEFINE c == Append(h.chain, n)
<1>1. c \in Seq(Nat) /\ g = [h EXCEPT !.chain = c]
  BY DEF HostType, Secure!Chained
<1> HIDE DEF c
<1>2. g.chain = c
  BY <1>1 DEF HostType
<1> QED BY <1>1, <1>2 DEF HostType, Alike, c

LEMMA CountedFacts ==
  ASSUME NEW h \in HostType, NEW len \in Nat, NEW g,
         g = [h EXCEPT !.block_nr = Secure!Counted(h, len)]
  PROVE  /\ Alike(g, h) /\ g.chain = h.chain
         /\ g.block_nr = IF h.level \in Enciphers THEN h.block_nr + 1 ELSE h.block_nr
<1> DEFINE b == Secure!Counted(h, len)
<1>1. h.level \in SecurityLevels /\ h.block_nr \in Nat
  BY DEF HostType
<1>2. b \in Nat /\ b = IF h.level \in Enciphers THEN h.block_nr + 1 ELSE h.block_nr
  BY <1>1, LevelFacts DEF Secure!Counted
<1>3. g = [h EXCEPT !.block_nr = b]
  OBVIOUS
<1> HIDE DEF b
<1> QED BY <1>2, <1>3 DEF HostType, Alike

\* What wrapping a command comes to: as it is, raised, or chained; and that a command cut to
\* max_cmd_len is not refused for its length.
AsItIs(w) == w.ok = TRUE /\ w.host = host /\ w.lchan = host.lchan
Raised(w, n) ==
  /\ w.ok = FALSE /\ Alike(w.host, host) /\ w.host.chain \in {host.chain, Append(host.chain, n)}
  /\ host.proto = 2 \/ host.level \notin Enciphers => w.host.block_nr = host.block_nr
IsWrapped(w, n) ==
  /\ w.ok = TRUE /\ Alike(w.host, host) /\ w.chain = Append(host.chain, n)
  /\ w.host.chain = w.chain /\ w.lchan = 0
  /\ host.proto = 3 /\ host.level \in Enciphers =>
       w.block = host.block_nr + 1 /\ w.host.block_nr = host.block_nr + 1
  /\ host.proto = 2 \/ host.level \notin Enciphers => w.block = 0 /\ w.host.block_nr = host.block_nr
Fits(len) == host.level \notin Enciphers /\ host.lchan = 0 /\ len <= Secure!MaxCmdLenOf(host)

LEMMA Wrap02Facts ==
  ASSUME host \in HostType, host.proto = 2, NEW n \in Nat, NEW len \in Nat,
         NEW w, w = Secure!Wrap02(host, n, len, host.lchan)
  PROVE  IsWrapped(w, n) \/ (Raised(w, n) /\ ~Fits(len))
<1> DEFINE lc == (IF Secure!Cenc(host.level) THEN Secure!Padded(len, 8) ELSE len) + 8
<1>a. PICK maced : maced = Secure!Chained(host, n)
  OBVIOUS
<1>1. w = IF host.lchan # 0 \/ len + 8 > 255 THEN Secure!RaisedAfter(host)
          ELSE IF lc > 255 THEN Secure!RaisedAfter(maced)
          ELSE [ok |-> TRUE, host |-> maced, chain |-> maced.chain, block |-> 0, lchan |-> 0]
  BY <1>a DEF Secure!Wrap02
<1>2. Alike(maced, host) /\ maced.chain = Append(host.chain, n) /\ maced.block_nr = host.block_nr
  BY <1>a, ChainedFacts
<1>3. host.level \notin Enciphers => lc = len + 8
  <2>1. host.level \in SecurityLevels
    BY DEF HostType
  <2> QED BY <2>1, LevelFacts
<1>4. Secure!MaxCmdLenOf(host) = 247
  BY DEF Secure!MaxCmdLenOf, Secure!Overhead
<1> HIDE DEF lc
<1>5. CASE host.lchan # 0 \/ len + 8 > 255
  <2>1. w = [ok |-> FALSE, host |-> host, chain |-> <<>>, block |-> 0, lchan |-> 0]
    BY <1>1, <1>5 DEF Secure!RaisedAfter
  <2>2. ~Fits(len)
    BY <1>4, <1>5 DEF Fits
  <2> QED BY <2>1, <2>2 DEF Raised, Alike
<1>6. CASE host.lchan = 0 /\ ~(len + 8 > 255) /\ lc > 255
  <2>1. w = [ok |-> FALSE, host |-> maced, chain |-> <<>>, block |-> 0, lchan |-> 0]
    BY <1>1, <1>6 DEF Secure!RaisedAfter
  <2>2. ~Fits(len)
    BY <1>3, <1>6 DEF Fits
  <2> QED BY <1>2, <2>1, <2>2 DEF Raised
<1>7. CASE host.lchan = 0 /\ ~(len + 8 > 255) /\ ~(lc > 255)
  <2>1. w = [ok |-> TRUE, host |-> maced, chain |-> maced.chain, block |-> 0, lchan |-> 0]
    BY <1>1, <1>7
  <2> QED BY <1>2, <2>1 DEF IsWrapped
<1> QED BY <1>5, <1>6, <1>7

LEMMA Wrap03Facts ==
  ASSUME host \in HostType, host.open, HostMade, host.proto = 3, NEW n \in Nat, NEW len \in Nat,
         NEW w, w = Secure!Wrap03(host, n, len)
  PROVE  IsWrapped(w, n) \/ (Raised(w, n) /\ ~Fits(len))
<1> DEFINE lc == IF Secure!Cenc(host.level) /\ len > 0 THEN Secure!Padded(len, 16) ELSE len
<1>a. PICK counted : counted = [host EXCEPT !.block_nr = Secure!Counted(host, len)]
  OBVIOUS
<1>b. PICK maced : maced = Secure!Chained(counted, n)
  OBVIOUS
<1>1. w = IF lc >= 256 THEN Secure!RaisedAfter(host)
          ELSE IF lc + host.s_mode >= 256 THEN Secure!RaisedAfter(counted)
          ELSE [ok |-> TRUE, host |-> maced, chain |-> maced.chain, block |-> maced.block_nr, lchan |-> 0]
  BY <1>a, <1>b DEF Secure!Wrap03
<1>2. /\ Alike(counted, host) /\ counted.chain = host.chain
      /\ counted.block_nr = IF host.level \in Enciphers THEN host.block_nr + 1 ELSE host.block_nr
  BY <1>a, CountedFacts
<1>3. host.level \notin Enciphers => lc = len
  <2>1. host.level \in SecurityLevels
    BY DEF HostType
  <2> QED BY <2>1, LevelFacts
<1>4. Secure!MaxCmdLenOf(host) = 255 - host.s_mode /\ host.s_mode \in {8, 16}
  BY DEF Secure!MaxCmdLenOf, Secure!Overhead, HostType
<1> HIDE DEF lc
<1>5. Alike(maced, host) /\ maced.chain = Append(host.chain, n) /\ maced.block_nr = counted.block_nr
  <2>1. counted \in HostType
    BY <1>2 DEF Alike
  <2>2. Alike(maced, counted) /\ maced.chain = Append(counted.chain, n) /\ maced.block_nr = counted.block_nr
    BY <1>b, <2>1, ChainedFacts
  <2> QED BY <1>2, <2>2 DEF Alike
<1>6. Fits(len) => lc < 256 /\ lc + host.s_mode < 256 /\ lc \in Nat
  <2> SUFFICES ASSUME Fits(len) PROVE lc < 256 /\ lc + host.s_mode < 256 /\ lc \in Nat
    OBVIOUS
  <2>1. len <= 255 - host.s_mode /\ lc = len
    BY <1>3, <1>4 DEF Fits
  <2>2. CASE host.s_mode = 8
    BY <2>1, <2>2
  <2>3. CASE host.s_mode = 16
    BY <2>1, <2>3
  <2> QED BY <1>4, <2>2, <2>3
<1>7. CASE lc >= 256
  <2>1. w = [ok |-> FALSE, host |-> host, chain |-> <<>>, block |-> 0, lchan |-> 0]
    BY <1>1, <1>7 DEF Secure!RaisedAfter
  <2>2. ~Fits(len)
    BY <1>6, <1>7
  <2>3. w.ok = FALSE /\ w.host = host
    BY <2>1
  <2>4. Alike(host, host)
    BY DEF Alike
  <2> QED BY <2>2, <2>3, <2>4 DEF Raised
<1>8. CASE ~(lc >= 256) /\ lc + host.s_mode >= 256
  <2>1. w = [ok |-> FALSE, host |-> counted, chain |-> <<>>, block |-> 0, lchan |-> 0]
    BY <1>1, <1>8 DEF Secure!RaisedAfter
  <2>2. ~Fits(len)
    <3> SUFFICES ASSUME Fits(len) PROVE FALSE
      OBVIOUS
    <3>1. lc + host.s_mode < 256 /\ lc + host.s_mode \in Nat
      BY <1>4, <1>6
    <3> QED BY <1>8, <3>1
  <2> QED BY <1>2, <2>1, <2>2 DEF Raised
<1>9. CASE ~(lc >= 256) /\ ~(lc + host.s_mode >= 256)
  <2>1. w = [ok |-> TRUE, host |-> maced, chain |-> maced.chain, block |-> maced.block_nr, lchan |-> 0]
    BY <1>1, <1>9
  <2>2. host.level \notin Enciphers => maced.block_nr = 0 /\ host.block_nr = 0
    BY <1>2, <1>5 DEF HostMade
  <2> QED BY <1>2, <1>5, <2>1, <2>2 DEF IsWrapped
<1> QED BY <1>7, <1>8, <1>9

LEMMA WrapFacts ==
  ASSUME host \in HostType, host.open, HostMade, NEW n \in Nat, NEW len \in Nat, NEW gp,
         NEW w, w = Secure!Wrap(host, n, len, host.lchan, gp)
  PROVE  IF ~gp \/ host.level = 0 THEN AsItIs(w) ELSE IsWrapped(w, n) \/ (Raised(w, n) /\ ~Fits(len))
<1>1. /\ host.proto \in {2, 3}
      /\ Secure!Cmac(host.level) <=> host.level # 0
  BY LevelFacts DEF HostType
<1>2. CASE ~gp \/ host.level = 0
  <2>1. w = [ok |-> TRUE, host |-> host, chain |-> <<>>, block |-> 0, lchan |-> host.lchan]
    BY <1>1, <1>2 DEF Secure!Wrap
  <2> QED BY <1>2, <2>1 DEF AsItIs
<1>3. CASE gp /\ host.level # 0 /\ host.proto = 2
  <2>1. w = Secure!Wrap02(host, n, len, host.lchan)
    BY <1>1, <1>3 DEF Secure!Wrap
  <2> QED BY <1>3, <2>1, Wrap02Facts
<1>4. CASE gp /\ host.level # 0 /\ host.proto = 3
  <2>1. w = Secure!Wrap03(host, n, len)
    BY <1>1, <1>4 DEF Secure!Wrap
  <2> QED BY <1>4, <2>1, Wrap03Facts
<1> QED BY <1>1, <1>2, <1>3, <1>4

\* What the card makes of a command that arrives: it refuses it and chains nothing, or does it.
SameDomain(d) ==
  /\ d \in IsdType /\ d.level = isd.level /\ d.lchan = isd.lchan /\ d.key = isd.key
  /\ d.open => isd.open
Refused(r) == r.accepted = FALSE /\ SameDomain(r.isd) /\ r.isd.chain = isd.chain /\ r.isd.done = isd.done
IsDone(r, a, n) ==
  /\ r.accepted = TRUE /\ SameDomain(r.isd) /\ r.isd.open /\ r.isd.done = Append(isd.done, n)
  /\ isd.level = 0 => r.isd.chain = isd.chain
  /\ isd.level # 0 => r.isd.chain = Append(isd.chain, n) /\ a.chain = r.isd.chain
  /\ isd.level \in Enciphers => r.isd.block_nr = isd.block_nr + 1
Understood(a, n) ==
  isd.open /\ a.lchan = isd.lchan /\ (isd.level = 0 \/ Secure!Verifies(isd, a, n))

LEMMA ReceiveFacts ==
  ASSUME isd \in IsdType, NEW n \in Nat, NEW a, NEW r, r = Secure!Receives(isd, a, n)
  PROVE  IF Understood(a, n) THEN IsDone(r, a, n) ELSE Refused(r)
<1>1. isd.level \in SecurityLevels /\ isd.block_nr \in Nat /\ isd.chain \in Seq(Nat) /\ isd.done \in Seq(Nat)
  BY DEF IsdType
<1>2. /\ Secure!Cmac(isd.level) <=> isd.level # 0
      /\ Secure!Cenc(isd.level) <=> isd.level \in Enciphers
  BY <1>1, LevelFacts
<1>3. CASE ~isd.open \/ a.lchan # isd.lchan
  <2>1. r = [accepted |-> FALSE, isd |-> isd]
    BY <1>3 DEF Secure!Receives
  <2> QED BY <1>3, <2>1 DEF Understood, Refused, SameDomain
<1>4. CASE Understood(a, n)
  <2> DEFINE c == IF isd.level # 0 THEN Append(isd.chain, n) ELSE isd.chain
             d == Append(isd.done, n)
             b == IF isd.level \in Enciphers THEN isd.block_nr + 1 ELSE isd.block_nr
             e == [isd EXCEPT !.chain = c, !.done = d, !.block_nr = b]
  <2>1. r = [accepted |-> TRUE, isd |-> e]
    BY <1>2, <1>4 DEF Understood, Secure!Receives, Secure!Executed
  <2>2. c \in Seq(Nat) /\ d \in Seq(Nat) /\ b \in Nat
    BY <1>1
  <2>3. isd.level # 0 => a.chain = Append(isd.chain, n)
    BY <1>4 DEF Understood, Secure!Verifies
  <2> HIDE DEF c, d, b
  <2>4. /\ e \in IsdType /\ e.chain = c /\ e.done = d /\ e.block_nr = b /\ e.open = isd.open
        /\ e.level = isd.level /\ e.lchan = isd.lchan /\ e.key = isd.key
    BY <2>2 DEF IsdType
  <2> HIDE DEF e
  <2>5. r.accepted = TRUE /\ r.isd = e
    BY <2>1
  <2>6. SameDomain(e) /\ e.open
    BY <1>4, <2>4 DEF SameDomain, Understood
  <2>7. isd.level = 0 => c = isd.chain
    BY DEF c
  <2>8. isd.level # 0 => c = Append(isd.chain, n) /\ a.chain = c
    BY <2>3 DEF c
  <2>9. isd.level \in Enciphers => b = isd.block_nr + 1
    BY DEF b
  <2>10. IsDone(r, a, n)
    BY <2>4, <2>5, <2>6, <2>7, <2>8, <2>9 DEF IsDone, d
  <2> QED BY <1>4, <2>10
<1>5. CASE isd.open /\ a.lchan = isd.lchan /\ isd.level # 0 /\ ~Secure!Verifies(isd, a, n)
  <2> DEFINE e == [isd EXCEPT !.open = FALSE]
  <2>1. r = [accepted |-> FALSE, isd |-> e]
    BY <1>2, <1>5 DEF Secure!Receives
  <2>2. /\ e \in IsdType /\ e.chain = isd.chain /\ e.done = isd.done /\ ~e.open
        /\ e.level = isd.level /\ e.lchan = isd.lchan /\ e.key = isd.key
    BY DEF IsdType
  <2> HIDE DEF e
  <2> QED BY <1>5, <2>1, <2>2 DEF Understood, Refused, SameDomain
<1> QED BY <1>3, <1>4, <1>5 DEF Understood

\* The field that PUT KEY changes.
LEMMA KeyedFacts ==
  ASSUME NEW d \in IsdType, NEW k \in Nat, NEW e, e = [d EXCEPT !.key = k]
  PROVE  /\ e \in IsdType /\ e.key = k /\ e.open = d.open /\ e.level = d.level /\ e.lchan = d.lchan
         /\ e.chain = d.chain /\ e.block_nr = d.block_nr /\ e.done = d.done
BY DEF IsdType

\* What becomes of a command: it does not arrive, it is outside the channel, or the card has it.
LEMMA ArrivalFacts ==
  ASSUME isd \in IsdType, NEW n \in Nat, NEW w, NEW gp, NEW fate, NEW r,
         r = IF ~w.ok \/ fate = "lost" THEN [accepted |-> FALSE, isd |-> isd]
             ELSE IF gp THEN Secure!Receives(isd, w, n) ELSE [accepted |-> TRUE, isd |-> isd]
  PROVE  IF ~w.ok \/ fate = "lost" THEN r.accepted = FALSE /\ r.isd = isd
         ELSE IF ~gp THEN r.accepted = TRUE /\ r.isd = isd
         ELSE IF Understood(w, n) THEN IsDone(r, w, n) ELSE Refused(r)
<1>1. CASE ~w.ok \/ fate = "lost"
  <2>1. r = [accepted |-> FALSE, isd |-> isd]
    BY <1>1
  <2> QED BY <1>1, <2>1
<1>2. CASE ~(~w.ok \/ fate = "lost") /\ ~gp
  <2>1. r = [accepted |-> TRUE, isd |-> isd]
    BY <1>2
  <2> QED BY <1>2, <2>1
<1>3. CASE ~(~w.ok \/ fate = "lost") /\ gp
  <2>1. r = Secure!Receives(isd, w, n)
    BY <1>3
  <2>2. IF Understood(w, n) THEN IsDone(r, w, n) ELSE Refused(r)
    BY <2>1, ReceiveFacts
  <2> QED BY <1>3, <2>2
<1> QED BY <1>1, <1>2, <1>3

\* What an exchange leaves, in terms of these: the facts about it that the invariant needs.
ExchangeOutcome(n, w, r, len, gp, data, klen, fate) ==
  /\ n \in Nat /\ n = exch.n + 1 /\ host.open /\ host' = w.host /\ w.ok \in BOOLEAN
  /\ ~w.ok => fate = "arrives"
  /\ IF ~gp \/ host.level = 0 THEN AsItIs(w) ELSE IsWrapped(w, n) \/ (Raised(w, n) /\ ~Fits(len))
  /\ IF ~w.ok \/ fate = "lost" THEN r.accepted = FALSE /\ r.isd = isd
     ELSE IF ~gp THEN r.accepted = TRUE /\ r.isd = isd
     ELSE IF Understood(w, n) THEN IsDone(r, w, n) ELSE Refused(r)
  /\ isd' = [r.isd EXCEPT !.key = IF klen # 0 /\ r.accepted THEN klen ELSE @]
  /\ exch' = [n |-> n, wrapped |-> w.ok, arrived |-> w.ok /\ fate # "lost",
              accepted |-> r.accepted, len |-> len, key |-> klen,
              result |-> IF w.ok /\ fate = "arrives" /\ r.accepted
                            /\ Secure!Unwraps(host, gp, r.accepted, data)
                         THEN "returned" ELSE "raised"]
  /\ faults' = [faults EXCEPT !.lost = @ \/ (fate = "lost" /\ gp /\ Secure!Cmac(host.level)),
                              !.late = @ \/ (~w.ok /\ w.host # host)]
LEMMA ExchangeIs ==
  ASSUME SecureInv, NEW len \in Nat, NEW gp, NEW data, NEW klen \in Nat,
         NEW fate \in {"arrives", "lost", "unanswered"}, Secure!Exchange(len, gp, data, klen, fate),
         klen # 0 => gp /\ Secure!KeyOfBlock(klen, Secure!BlockSize(host)) = klen
  PROVE  \E n, w, r : ExchangeOutcome(n, w, r, len, gp, data, klen, fate)
<1>a. PICK n : n = exch.n + 1
  OBVIOUS
<1>b. PICK w : w = Secure!Wrap(host, n, len, host.lchan, gp)
  OBVIOUS
<1>c. PICK r : r = IF ~w.ok \/ fate = "lost" THEN [accepted |-> FALSE, isd |-> isd]
                   ELSE IF gp THEN Secure!Receives(isd, w, n) ELSE [accepted |-> TRUE, isd |-> isd]
  OBVIOUS
<1>1. /\ host \in HostType /\ isd \in IsdType /\ HostMade /\ n \in Nat
  BY <1>a DEF SecureInv, SecureTypes, ExchType
<1>2. /\ host.open /\ host' = w.host
      /\ ~w.ok => fate = "arrives"
      /\ isd' = [r.isd EXCEPT !.key = IF klen # 0 /\ r.accepted
                                      THEN Secure!KeyOfBlock(klen, Secure!BlockSize(host)) ELSE @]
      /\ exch' = [n |-> n, wrapped |-> w.ok, arrived |-> w.ok /\ fate # "lost",
                  accepted |-> r.accepted, len |-> len, key |-> klen,
                  result |-> IF w.ok /\ fate = "arrives" /\ r.accepted
                                /\ Secure!Unwraps(host, gp, r.accepted, data)
                             THEN "returned" ELSE "raised"]
      /\ faults' = [faults EXCEPT !.lost = @ \/ (fate = "lost" /\ gp /\ Secure!Cmac(host.level)),
                                  !.late = @ \/ (~w.ok /\ w.host # host)]
  BY <1>a, <1>b, <1>c DEF Secure!Exchange
<1>3. IF ~gp \/ host.level = 0 THEN AsItIs(w) ELSE IsWrapped(w, n) \/ (Raised(w, n) /\ ~Fits(len))
  BY <1>1, <1>2, <1>b, WrapFacts
<1>4. w.ok \in BOOLEAN
  BY <1>3 DEF AsItIs, IsWrapped, Raised
<1>5. IF ~w.ok \/ fate = "lost" THEN r.accepted = FALSE /\ r.isd = isd
      ELSE IF ~gp THEN r.accepted = TRUE /\ r.isd = isd
      ELSE IF Understood(w, n) THEN IsDone(r, w, n) ELSE Refused(r)
  BY <1>1, <1>c, ArrivalFacts
<1>6. isd' = [r.isd EXCEPT !.key = IF klen # 0 /\ r.accepted THEN klen ELSE @]
  BY <1>2
<1>7. ExchangeOutcome(n, w, r, len, gp, data, klen, fate)
  BY <1>1, <1>2, <1>3, <1>4, <1>5, <1>6, <1>a DEF ExchangeOutcome
<1> QED BY <1>7

LEMMA OneMoreDone ==
  ASSUME NEW done \in Seq(Nat), NEW m \in Nat, NEW n, n = m + 1, NEW then \in {done, Append(done, n)},
         RisesTo(done, m)
  PROVE  RisesTo(then, n)
<1>1. Len(done) \in Nat /\ DOMAIN done = 1..Len(done) /\ \A i \in DOMAIN done : done[i] \in Nat
  OBVIOUS
<1>a. /\ \A i \in DOMAIN done : done[i] <= m
      /\ \A i, j \in DOMAIN done : i < j => done[i] < done[j]
  BY DEF RisesTo
<1>2. CASE then = done
  BY <1>1, <1>2, <1>a DEF RisesTo
<1>3. CASE then = Append(done, n)
  <2>1. DOMAIN then = 1..(Len(done) + 1)
    BY <1>3
  <2>2. \A i \in DOMAIN then : (i \in DOMAIN done /\ then[i] = done[i]) \/ (i = Len(done) + 1 /\ then[i] = n)
    BY <1>1, <1>3, <2>1
  <2>3. \A i \in DOMAIN then : then[i] <= n
    BY <1>1, <1>a, <2>2
  <2>4. ASSUME NEW i \in DOMAIN then, NEW j \in DOMAIN then, i < j
        PROVE  then[i] < then[j]
    <3>1. i \in DOMAIN done /\ then[i] = done[i]
      BY <1>1, <2>1, <2>2, <2>4
    <3>2. CASE j \in DOMAIN done /\ then[j] = done[j]
      BY <1>a, <2>4, <3>1, <3>2
    <3>3. CASE then[j] = n
      BY <1>1, <1>a, <3>1, <3>3
    <3> QED BY <2>2, <3>2, <3>3
  <2> QED BY <2>3, <2>4 DEF RisesTo
<1> QED BY <1>2, <1>3

LEMMA AppendSame ==
  ASSUME NEW s \in Seq(Nat), NEW t \in Seq(Nat), NEW e \in Nat, Append(s, e) = Append(t, e)
  PROVE  s = t
BY AppendInjective

\* A command over the channel, a key among them.
LEMMA ExchangeKeeps ==
  ASSUME SecureInv, NEW len \in Nat, NEW gp, NEW data, NEW klen \in Nat,
         NEW fate \in {"arrives", "lost", "unanswered"}, Secure!Exchange(len, gp, data, klen, fate),
         klen # 0 => gp /\ Secure!KeyOfBlock(klen, Secure!BlockSize(host)) = klen
  PROVE  SecureInv'
<1>b. PICK n, w, r : ExchangeOutcome(n, w, r, len, gp, data, klen, fate)
  BY ExchangeIs
<1>a. /\ n \in Nat /\ n = exch.n + 1 /\ host.open /\ host' = w.host /\ w.ok \in BOOLEAN
      /\ ~w.ok => fate = "arrives"
      /\ IF ~gp \/ host.level = 0 THEN AsItIs(w) ELSE IsWrapped(w, n) \/ (Raised(w, n) /\ ~Fits(len))
      /\ IF ~w.ok \/ fate = "lost" THEN r.accepted = FALSE /\ r.isd = isd
         ELSE IF ~gp THEN r.accepted = TRUE /\ r.isd = isd
         ELSE IF Understood(w, n) THEN IsDone(r, w, n) ELSE Refused(r)
      /\ isd' = [r.isd EXCEPT !.key = IF klen # 0 /\ r.accepted THEN klen ELSE @]
      /\ exch' = [n |-> n, wrapped |-> w.ok, arrived |-> w.ok /\ fate # "lost",
                  accepted |-> r.accepted, len |-> len, key |-> klen,
                  result |-> IF w.ok /\ fate = "arrives" /\ r.accepted
                                /\ Secure!Unwraps(host, gp, r.accepted, data)
                             THEN "returned" ELSE "raised"]
      /\ faults' = [faults EXCEPT !.lost = @ \/ (fate = "lost" /\ gp /\ Secure!Cmac(host.level)),
                                  !.late = @ \/ (~w.ok /\ w.host # host)]
  BY <1>b DEF ExchangeOutcome
<1> DEFINE k == IF klen # 0 /\ r.accepted THEN klen ELSE r.isd.key
           missing == ~w.ok \/ fate = "lost"
           plain == ~gp \/ host.level = 0
<1>1. /\ host \in HostType /\ isd \in IsdType /\ exch \in ExchType /\ faults \in FaultsType
      /\ SameSession /\ InStep /\ HostMade /\ DoneBefore
  BY DEF SecureInv, SecureTypes
<1>2. /\ host.level \in SecurityLevels /\ host.lchan \in Nat /\ host.chain \in Seq(Nat)
      /\ host.block_nr \in Nat /\ host.proto \in {2, 3} /\ exch.n \in Nat
      /\ isd.chain \in Seq(Nat) /\ isd.done \in Seq(Nat) /\ isd.key \in Nat
      /\ n \in Nat
      /\ Secure!Cmac(host.level) <=> host.level # 0
  BY <1>a, <1>1, LevelFacts DEF HostType, IsdType, ExchType
<1>3. Alike(w.host, host)
  <2>1. Alike(host, host)
    BY <1>1 DEF Alike
  <2> QED BY <1>a, <2>1 DEF AsItIs, IsWrapped, Raised
<1>4. r.accepted \in BOOLEAN /\ SameDomain(r.isd) /\ (r.accepted => ~missing)
  <2>1. SameDomain(isd)
    BY <1>1 DEF SameDomain
  <2> QED BY <1>a, <2>1 DEF IsDone, Refused
<1>5. /\ isd' \in IsdType /\ isd'.key = k /\ isd'.open = r.isd.open /\ isd'.level = isd.level
      /\ isd'.lchan = isd.lchan /\ isd'.chain = r.isd.chain /\ isd'.block_nr = r.isd.block_nr
      /\ isd'.done = r.isd.done
  <2>1. k \in Nat
    BY <1>2, <1>4 DEF SameDomain
  <2>2. isd' = [r.isd EXCEPT !.key = k]
    BY <1>a
  <2> HIDE DEF k
  <2> QED BY <1>4, <2>1, <2>2, KeyedFacts DEF SameDomain
<1>6. /\ exch' \in ExchType /\ exch'.n = n /\ exch'.wrapped = w.ok
      /\ exch'.arrived = ~missing
      /\ exch'.accepted = r.accepted /\ exch'.len = len /\ exch'.key = klen
      /\ exch'.result \in {"returned", "raised"}
      /\ exch'.result = "returned" => r.accepted
  <2> DEFINE unwrapped == Secure!Unwraps(host, gp, r.accepted, data)
             arrived == w.ok /\ fate # "lost"
             result == IF w.ok /\ fate = "arrives" /\ r.accepted /\ unwrapped THEN "returned" ELSE "raised"
  <2>1. arrived \in BOOLEAN /\ result \in {"returned", "raised"} /\ (result = "returned" => r.accepted)
    OBVIOUS
  <2>2. exch' = [n |-> n, wrapped |-> w.ok, arrived |-> arrived, accepted |-> r.accepted,
                 len |-> len, key |-> klen, result |-> result]
    BY <1>a
  <2>3. arrived = ~missing
    BY <1>a
  <2> HIDE DEF result, unwrapped, missing, arrived
  <2>4. /\ exch'.arrived = arrived /\ exch'.result = result /\ exch'.n = n /\ exch'.wrapped = w.ok
        /\ exch'.accepted = r.accepted /\ exch'.len = len /\ exch'.key = klen
    BY <2>2
  <2>5. exch' \in ExchType
    BY <1>a, <1>4, <2>1, <2>2 DEF ExchType
  <2> QED BY <2>1, <2>3, <2>4, <2>5
<1>7. /\ faults' \in FaultsType
      /\ faults'.lost <=> faults.lost \/ (fate = "lost" /\ ~plain)
      /\ faults' = Secure!NoFaults =>
           /\ faults = Secure!NoFaults /\ (~w.ok => w.host = host)
           /\ fate = "lost" => plain
  <2> DEFINE lost == faults.lost \/ (fate = "lost" /\ ~plain)
             late == faults.late \/ (~w.ok /\ w.host # host)
  <2>1. lost \in BOOLEAN /\ late \in BOOLEAN
    BY <1>1 DEF FaultsType
  <2>2. faults' = [faults EXCEPT !.lost = lost, !.late = late]
    BY <1>a, <1>2
  <2>3. lost = FALSE /\ late = FALSE =>
          /\ faults.lost = FALSE /\ faults.late = FALSE /\ (~w.ok => w.host = host)
          /\ fate = "lost" => plain
    BY <1>1 DEF FaultsType
  <2>4. lost <=> faults.lost \/ (fate = "lost" /\ ~plain)
    OBVIOUS
  <2> HIDE DEF lost, late, plain
  <2>5. /\ faults' \in FaultsType /\ faults'.lost = lost /\ faults'.late = late
        /\ faults'.ended = faults.ended
    BY <1>1, <2>1, <2>2 DEF FaultsType
  <2>6. faults' = Secure!NoFaults => lost = FALSE /\ late = FALSE /\ faults.ended = FALSE
    <3>1. faults' = Secure!NoFaults => faults'.lost = FALSE /\ faults'.late = FALSE /\ faults'.ended = FALSE
      BY DEF Secure!NoFaults
    <3> QED BY <2>5, <3>1
  <2>7. faults.lost = FALSE /\ faults.late = FALSE /\ faults.ended = FALSE => faults = Secure!NoFaults
    BY <1>1 DEF FaultsType, Secure!NoFaults
  <2> QED BY <2>3, <2>4, <2>5, <2>6, <2>7
<1>8. /\ plain => w.ok = TRUE /\ host' = host /\ w.lchan = host.lchan
      /\ ~plain => gp /\ host.level # 0
      /\ ~plain /\ w.ok => IsWrapped(w, n)
      /\ ~plain /\ ~w.ok => Raised(w, n) /\ ~Fits(len)
  <2>1. CASE plain
    BY <1>a, <2>1 DEF AsItIs
  <2>2. CASE ~plain
    BY <1>a, <2>2 DEF IsWrapped, Raised
  <2> QED BY <2>1, <2>2
<1>9. /\ ~r.accepted => r.isd.chain = isd.chain /\ r.isd.done = isd.done
      /\ r.accepted => w.ok /\ fate # "lost" /\ ((~gp /\ r.isd = isd) \/ (gp /\ IsDone(r, w, n)))
      /\ ~missing /\ ~gp => r.accepted /\ r.isd = isd
      /\ ~missing /\ gp /\ Understood(w, n) => IsDone(r, w, n)
      /\ missing => r.isd = isd
  <2>1. CASE missing
    BY <1>a, <2>1
  <2>2. CASE ~missing /\ ~gp
    BY <1>a, <2>2
  <2>3. CASE ~missing /\ gp
    BY <1>a, <2>3 DEF IsDone, Refused
  <2> QED BY <2>1, <2>2, <2>3
<1>10. w.ok = TRUE \/ w.ok = FALSE
  BY <1>a
<1>11. host' = w.host
  BY <1>a
<1>12. n \in Nat /\ n = exch.n + 1 /\ host.open
  BY <1>a
<1>13. /\ host' \in HostType /\ host'.open = host.open /\ host'.proto = host.proto
       /\ host'.level = host.level /\ host'.s_mode = host.s_mode /\ host'.lchan = host.lchan
  BY <1>3, <1>11 DEF Alike
<1> HIDE DEF k, missing, plain
<1>14. SecureTypes'
  BY <1>5, <1>6, <1>7, <1>13 DEF SecureTypes
<1>15. SameSession'
  <2> SUFFICES ASSUME isd'.open
               PROVE  /\ isd'.level = host'.level /\ isd'.lchan = host'.lchan
                      /\ Len(isd'.chain) <= Len(host'.chain)
                      /\ faults'.lost => Len(isd'.chain) < Len(host'.chain)
    BY DEF SameSession
  <2>1. isd.open
    BY <1>4, <1>5 DEF SameDomain
  <2>2. /\ isd.level = host.level /\ isd.lchan = host.lchan
        /\ Len(isd.chain) <= Len(host.chain)
        /\ faults.lost => Len(isd.chain) < Len(host.chain)
    BY <1>1, <1>12, <2>1 DEF SameSession
  <2>3. isd'.level = host'.level /\ isd'.lchan = host'.lchan
    BY <1>5, <1>13, <2>2
  <2>4. CASE plain
    <3>1. r.isd.chain = isd.chain
      <4>1. CASE ~r.accepted
        BY <1>9, <4>1
      <4>2. CASE r.accepted /\ ~gp
        BY <1>9, <4>2
      <4>3. CASE r.accepted /\ gp
        <5>1. host.level = 0
          BY <2>4, <4>3 DEF plain
        <5> QED BY <1>9, <2>2, <4>3, <5>1 DEF IsDone
      <4> QED BY <4>1, <4>2, <4>3
    <3>2. faults'.lost <=> faults.lost
      BY <1>7, <2>4
    <3> QED BY <1>5, <1>8, <2>2, <2>3, <2>4, <3>1, <3>2
  <2>5. CASE ~plain /\ r.accepted
    <3>1. gp /\ host.level # 0 /\ w.ok /\ fate # "lost" /\ IsWrapped(w, n) /\ IsDone(r, w, n)
      BY <1>8, <1>9, <2>5
    <3>2. /\ isd'.chain = host'.chain /\ Append(isd.chain, n) = Append(host.chain, n)
      BY <1>5, <1>11, <2>2, <3>1 DEF IsWrapped, IsDone
    <3>3. isd.chain = host.chain
      BY <1>2, <3>2, AppendSame
    <3>4. ~faults.lost /\ ~faults'.lost /\ Len(host'.chain) \in Nat
      <4>1. Len(host.chain) \in Nat /\ Len(host'.chain) \in Nat
        BY <1>2, <1>13 DEF HostType
      <4>2. ~faults.lost
        BY <2>2, <3>3, <4>1
      <4> QED BY <1>7, <3>1, <4>1, <4>2
    <3> QED BY <2>3, <3>2, <3>4
  <2>6. CASE ~plain /\ ~r.accepted
    <3>1. isd'.chain = isd.chain
      BY <1>5, <1>9, <2>6
    <3>2. Len(isd.chain) \in Nat /\ Len(host.chain) \in Nat
          /\ Len(Append(host.chain, n)) = Len(host.chain) + 1
      BY <1>2, <1>12
    <3>3. CASE w.ok
      <4>1. host'.chain = Append(host.chain, n)
        BY <1>8, <1>11, <2>6, <3>3 DEF IsWrapped
      <4> QED BY <2>2, <2>3, <3>1, <3>2, <4>1
    <3>4. CASE ~w.ok
      <4>1. faults'.lost <=> faults.lost
        BY <1>a, <1>7, <3>4
      <4>2. host'.chain \in {host.chain, Append(host.chain, n)}
        BY <1>8, <1>11, <2>6, <3>4 DEF Raised
      <4>3. Len(host'.chain) >= Len(host.chain) /\ Len(host'.chain) \in Nat
        BY <3>2, <4>2
      <4> QED BY <2>2, <2>3, <3>1, <3>2, <4>1, <4>3
    <3> QED BY <3>3, <3>4
  <2> QED BY <1>4, <2>4, <2>5, <2>6
<1>16. InStep'
  <2> SUFFICES ASSUME host'.open, host'.lchan = 0, faults' = Secure!NoFaults
               PROVE  /\ isd'.open /\ isd'.chain = host'.chain
                      /\ host'.proto = 3 /\ host'.level \in Enciphers => isd'.block_nr = host'.block_nr
                      /\ exch'.arrived => exch'.accepted
    BY DEF InStep
  <2>1. /\ isd.open /\ isd.chain = host.chain /\ host.lchan = 0
        /\ host.proto = 3 /\ host.level \in Enciphers => isd.block_nr = host.block_nr
        /\ isd.level = host.level /\ isd.lchan = host.lchan
        /\ ~w.ok => w.host = host
        /\ fate = "lost" => plain
    BY <1>1, <1>7, <1>12, <1>13 DEF InStep, SameSession
  <2>2. CASE missing \/ ~gp
    <3>1. host' = host
      BY <1>8, <1>10, <1>11, <2>1, <2>2 DEF plain, missing
    <3>2. r.isd = isd /\ (~missing => r.accepted)
      BY <1>9, <2>2
    <3> QED BY <1>5, <1>6, <2>1, <3>1, <3>2
  <2>3. CASE ~missing /\ gp /\ host.level = 0
    <3>1. plain
      BY <2>3 DEF plain
    <3>2. host' = host /\ Understood(w, n)
      BY <1>8, <2>1, <2>3, <3>1 DEF Understood
    <3>3. IsDone(r, w, n)
      BY <1>9, <2>3, <3>2
    <3>4. r.accepted /\ r.isd.open /\ r.isd.chain = isd.chain
      BY <2>1, <2>3, <3>3 DEF IsDone
    <3>5. host.level \notin Enciphers
      BY <2>3 DEF Enciphers
    <3> QED BY <1>5, <1>6, <2>1, <3>2, <3>4, <3>5
  <2>4. CASE ~missing /\ gp /\ host.level # 0
    <3>1. IsWrapped(w, n)
      BY <1>8, <2>4 DEF plain, missing
    <3>2. Understood(w, n)
      <4>1. w.chain = Append(isd.chain, n) /\ w.lchan = isd.lchan
        BY <2>1, <3>1 DEF IsWrapped
      <4>2. w.block # 0 => w.block = isd.block_nr + 1
        BY <1>2, <2>1, <3>1 DEF IsWrapped
      <4> QED BY <2>1, <4>1, <4>2 DEF Understood, Secure!Verifies
    <3>3. IsDone(r, w, n)
      BY <1>9, <2>4, <3>2
    <3>4. r.accepted /\ r.isd.open /\ r.isd.chain = host'.chain
      BY <1>11, <2>1, <2>4, <3>1, <3>3 DEF IsDone, IsWrapped
    <3>5. host'.proto = 3 /\ host'.level \in Enciphers => r.isd.block_nr = host'.block_nr
      <4> SUFFICES ASSUME host.proto = 3, host.level \in Enciphers PROVE r.isd.block_nr = host'.block_nr
        BY <1>13
      <4>1. w.host.block_nr = host.block_nr + 1
        BY <3>1 DEF IsWrapped
      <4>2. r.isd.block_nr = isd.block_nr + 1
        BY <2>1, <3>3 DEF IsDone
      <4> QED BY <1>11, <2>1, <4>1, <4>2
    <3> QED BY <1>5, <1>6, <3>4, <3>5
  <2> QED BY <2>2, <2>3, <2>4
<1>17. HostMade'
  <2>1. CASE plain
    BY <1>1, <1>8, <2>1 DEF HostMade
  <2>2. CASE ~plain
    <3>1. host.proto = 2 \/ host.level \notin Enciphers => w.host.block_nr = host.block_nr
      BY <1>8, <1>10, <2>2 DEF IsWrapped, Raised
    <3> QED BY <1>1, <1>11, <1>12, <1>13, <3>1 DEF HostMade
  <2> QED BY <2>1, <2>2
<1>18. DoneBefore'
  <2>1. r.isd.done \in {isd.done, Append(isd.done, n)}
    BY <1>9 DEF IsDone
  <2>2. RisesTo(isd.done, exch.n)
    BY <1>1 DEF DoneBefore
  <2>3. RisesTo(r.isd.done, n)
    BY <1>2, <1>12, <2>1, <2>2, OneMoreDone
  <2> QED BY <1>5, <1>6, <2>3 DEF DoneBefore
<1>19. ReturnedIsAccepted'
  BY <1>6 DEF ReturnedIsAccepted
<1>20. Secure!ChunksFit'
  <2>1. /\ Secure!Cenc(host'.level) <=> host.level \in Enciphers
        /\ Secure!MaxCmdLenOf(host') = Secure!MaxCmdLenOf(host)
    BY <1>2, <1>13, LevelFacts DEF Secure!MaxCmdLenOf, Secure!Overhead
  <2>2. w.ok \/ ~Fits(len)
    BY <1>8, <1>10
  <2> QED BY <1>6, <1>13, <2>1, <2>2 DEF Secure!ChunksFit, Fits
<1>21. Secure!KeyArrives'
  BY <1>5, <1>6 DEF Secure!KeyArrives, k
<1> QED BY <1>14, <1>15, <1>16, <1>17, <1>18, <1>19, <1>20, <1>21 DEF SecureInv

LEMMA NoneTypes ==
  /\ Secure!NoHost \in HostType /\ Secure!NoHost.open = FALSE
  /\ Secure!NoIsd \in IsdType /\ Secure!NoIsd.open = FALSE /\ Secure!NoIsd.done = <<>>
  /\ Secure!NoIsd.key = 0
  /\ Secure!NoFaults \in FaultsType /\ Secure!NoFaults.lost = FALSE
  /\ Secure!NoExch \in ExchType
BY DEF Secure!NoHost, Secure!NoIsd, Secure!NoFaults, Secure!NoExch, HostType, IsdType, FaultsType,
       ExchType, SecurityLevels

\* A channel that is established anew, on the card, in the shell, or not at all.
LEMMA EstablishKeeps ==
  ASSUME SecureInv, NEW proto \in {2, 3}, NEW kvn, NEW level \in SecurityLevels, NEW s_mode \in {8, 16},
         NEW lchan \in Nat, NEW good, Secure!Establish(proto, kvn, level, s_mode, lchan, good)
  PROVE  SecureInv'
<1> DEFINE chain == Secure!ExtAuth(proto, level)
           works == Secure!CryptogramVerifies(good) /\ chain # <<>>
<1>1. /\ level \in Secure!Levels(proto)
      /\ isd' = IF works
                THEN [Secure!NoIsd EXCEPT !.open = TRUE, !.level = level, !.lchan = lchan, !.chain = chain]
                ELSE Secure!NoIsd
      /\ host' = IF works /\ good = "yes"
                 THEN [open |-> TRUE, proto |-> proto, level |-> level, s_mode |-> s_mode,
                       lchan |-> lchan, chain |-> chain, block_nr |-> 0]
                 ELSE Secure!NoHost
      /\ exch' = [Secure!NoExch EXCEPT !.n = exch.n]
      /\ faults' = Secure!NoFaults
  BY DEF Secure!Establish
<1>2. /\ chain \in Seq(Nat)
      /\ chain # <<>> => (proto = 2 => level \in {0, 1, 3}) /\ (proto = 3 => level # 0)
  <2>1. CASE proto = 2
    BY <1>1, <2>1 DEF Secure!Levels, Secure!ExtAuth, Secure!ExtAuth02
  <2>2. CASE proto = 3
    BY <2>2, LevelFacts DEF Secure!ExtAuth, Secure!ExtAuth03
  <2> QED BY <2>1, <2>2
<1>3. exch.n \in Nat
  BY DEF SecureInv, SecureTypes, ExchType
<1> HIDE DEF chain
<1>4. /\ exch' \in ExchType /\ exch'.n = exch.n /\ exch'.result = "none" /\ exch'.key = 0
      /\ exch'.arrived = FALSE
  BY <1>1, <1>3 DEF Secure!NoExch, ExchType
<1>5. /\ isd' \in IsdType /\ isd'.done = <<>>
      /\ works => isd'.open = TRUE /\ isd'.level = level /\ isd'.lchan = lchan /\ isd'.chain = chain
                    /\ isd'.block_nr = 0
      /\ ~works => isd'.open = FALSE
  <2>1. CASE works
    <3>1. isd' = [Secure!NoIsd EXCEPT !.open = TRUE, !.level = level, !.lchan = lchan, !.chain = chain]
      BY <1>1, <2>1
    <3>2. isd' = [open |-> TRUE, level |-> level, lchan |-> lchan, chain |-> chain, block_nr |-> 0,
                  done |-> <<>>, key |-> 0]
      BY <3>1 DEF Secure!NoIsd
    <3> HIDE DEF works
    <3>3. isd' \in IsdType
      BY <1>2, <3>2 DEF IsdType
    <3>4. isd'.open = TRUE /\ isd'.level = level /\ isd'.lchan = lchan
      BY <3>2
    <3>5. isd'.chain = chain /\ isd'.block_nr = 0 /\ isd'.done = <<>>
      BY <3>2
    <3> QED BY <2>1, <3>3, <3>4, <3>5
  <2>2. CASE ~works
    BY <1>1, <2>2, NoneTypes
  <2> QED BY <2>1, <2>2
<1>6. /\ host' \in HostType
      /\ IF works /\ good = "yes"
         THEN host'.open = TRUE /\ host'.level = level /\ host'.lchan = lchan /\ host'.chain = chain
                /\ host'.block_nr = 0 /\ host'.proto = proto
         ELSE host'.open = FALSE
  <2>1. CASE works /\ good = "yes"
    <3>1. host' = [open |-> TRUE, proto |-> proto, level |-> level, s_mode |-> s_mode,
                   lchan |-> lchan, chain |-> chain, block_nr |-> 0]
      BY <1>1, <2>1
    <3> QED BY <1>2, <2>1, <3>1 DEF HostType
  <2>2. CASE ~(works /\ good = "yes")
    BY <1>1, <2>2, NoneTypes
  <2> QED BY <2>1, <2>2
<1>7. faults' \in FaultsType /\ faults'.lost = FALSE
  BY <1>1, NoneTypes
<1>8. works => chain # <<>>
  OBVIOUS
<1> HIDE DEF works
<1>9. SecureTypes'
  BY <1>4, <1>5, <1>6, <1>7 DEF SecureTypes
<1>10. SameSession' /\ InStep'
  <2>1. Len(chain) <= Len(chain)
    BY <1>2
  <2> QED BY <1>4, <1>5, <1>6, <1>7, <2>1 DEF SameSession, InStep
<1>11. HostMade'
  BY <1>2, <1>6, <1>8 DEF HostMade
<1>12. DoneBefore'
  BY <1>5 DEF DoneBefore, RisesTo
<1>13. ReturnedIsAccepted' /\ Secure!ChunksFit' /\ Secure!KeyArrives'
  BY <1>4 DEF ReturnedIsAccepted, Secure!ChunksFit, Secure!KeyArrives
<1> QED BY <1>9, <1>10, <1>11, <1>12, <1>13 DEF SecureInv

LEMMA CommandKeeps ==
  ASSUME SecureInv, NEW len \in Nat, NEW gp, NEW data, NEW fate \in {"arrives", "lost", "unanswered"},
         Secure!Command(len, gp, data, fate)
  PROVE  SecureInv'
BY ExchangeKeeps DEF Secure!Command

LEMMA PutKeyKeeps ==
  ASSUME SecureInv, NEW klen \in Nat, NEW fate \in {"arrives", "lost", "unanswered"},
         Secure!PutKey(klen, fate)
  PROVE  SecureInv'
<1> DEFINE bs == Secure!BlockSize(host)
           len == Secure!PutKeyLength(klen, bs)
<1>1. bs \in {8, 16}
  BY DEF Secure!BlockSize
<1>2. Secure!KeyEnciphers(klen, bs) /\ Secure!Exchange(len, TRUE, TRUE, klen, fate)
  BY DEF Secure!PutKey
<1> HIDE DEF bs, len
<1>3. Secure!KeyOfBlock(klen, bs) = klen /\ len \in Nat
  BY <1>1, <1>2, KeyBlocks DEF len
<1>4. klen # 0 => TRUE /\ Secure!KeyOfBlock(klen, Secure!BlockSize(host)) = klen
  BY <1>3 DEF bs
<1> QED BY <1>2, <1>3, <1>4, ExchangeKeeps

LEMMA ReleaseKeeps ==
  ASSUME SecureInv, Secure!ReleaseScp
  PROVE  SecureInv'
<1>1. host' = Secure!NoHost /\ UNCHANGED <<isd, exch, faults>>
  BY DEF Secure!ReleaseScp, Secure!Release
<1>2. host' \in HostType /\ host'.open = FALSE
  BY <1>1, NoneTypes
<1>3. SecureTypes' /\ SameSession' /\ InStep' /\ HostMade'
  BY <1>1, <1>2 DEF SecureInv, SecureTypes, SameSession, InStep, HostMade
<1>4. DoneBefore' /\ ReturnedIsAccepted'
  BY <1>1 DEF SecureInv, DoneBefore, ReturnedIsAccepted
<1>5. Secure!ChunksFit' /\ Secure!KeyArrives'
  BY <1>1, <1>2 DEF SecureInv, Secure!ChunksFit, Secure!KeyArrives
<1> QED BY <1>3, <1>4, <1>5 DEF SecureInv

LEMMA ResetKeeps ==
  ASSUME SecureInv, Secure!ResetBoth
  PROVE  SecureInv'
<1>1. host' = Secure!NoHost /\ isd' = Secure!NoIsd /\ UNCHANGED <<exch, faults>>
  BY DEF Secure!ResetBoth, Secure!Release
<1>2. host' \in HostType /\ host'.open = FALSE /\ isd' \in IsdType /\ isd'.done = <<>> /\ isd'.key = 0
  BY <1>1, NoneTypes
<1>3. SecureTypes' /\ SameSession' /\ InStep' /\ HostMade'
  BY <1>1, <1>2 DEF SecureInv, SecureTypes, SameSession, InStep, HostMade
<1>4. DoneBefore' /\ ReturnedIsAccepted'
  BY <1>1, <1>2 DEF SecureInv, DoneBefore, RisesTo, ReturnedIsAccepted
<1>5. Secure!ChunksFit' /\ Secure!KeyArrives'
  BY <1>1, <1>2 DEF SecureInv, Secure!ChunksFit, Secure!KeyArrives
<1> QED BY <1>3, <1>4, <1>5 DEF SecureInv

LEMMA SelectOtherKeeps ==
  ASSUME SecureInv, Secure!SelectOther
  PROVE  SecureInv'
<1>1. isd' = Secure!NoIsd /\ faults' = [faults EXCEPT !.ended = TRUE] /\ UNCHANGED <<host, exch>>
  BY DEF Secure!SelectOther
<1>2. isd' \in IsdType /\ isd'.open = FALSE /\ isd'.done = <<>> /\ isd'.key = 0
  BY <1>1, NoneTypes
<1>3. faults' \in FaultsType /\ faults'.ended = TRUE /\ faults' # Secure!NoFaults
  <2>1. faults \in FaultsType
    BY DEF SecureInv, SecureTypes
  <2>2. faults' \in FaultsType /\ faults'.ended = TRUE
    BY <1>1, <2>1 DEF FaultsType
  <2>3. Secure!NoFaults.ended = FALSE
    BY DEF Secure!NoFaults
  <2> QED BY <2>2, <2>3
<1>4. SecureTypes' /\ SameSession' /\ InStep' /\ HostMade'
  BY <1>1, <1>2, <1>3 DEF SecureInv, SecureTypes, SameSession, InStep, HostMade
<1>5. DoneBefore' /\ ReturnedIsAccepted'
  BY <1>1, <1>2 DEF SecureInv, DoneBefore, RisesTo, ReturnedIsAccepted
<1>6. Secure!ChunksFit' /\ Secure!KeyArrives'
  BY <1>1, <1>2 DEF SecureInv, Secure!ChunksFit, Secure!KeyArrives
<1> QED BY <1>4, <1>5, <1>6 DEF SecureInv

LEMMA SecureStarts == Secure!SecureInit => SecureInv
<1> SUFFICES ASSUME Secure!SecureInit PROVE SecureInv
  OBVIOUS
<1>1. host = Secure!NoHost /\ isd = Secure!NoIsd /\ exch = Secure!NoExch /\ faults = Secure!NoFaults
  BY DEF Secure!SecureInit
<1>2. SecureTypes /\ SameSession /\ InStep /\ HostMade
  BY <1>1, NoneTypes DEF SecureTypes, SameSession, InStep, HostMade
<1>3. DoneBefore
  BY <1>1, NoneTypes DEF DoneBefore, RisesTo
<1>4. ReturnedIsAccepted /\ Secure!ChunksFit /\ Secure!KeyArrives
  BY <1>1 DEF Secure!NoExch, ReturnedIsAccepted, Secure!ChunksFit, Secure!KeyArrives
<1> QED BY <1>2, <1>3, <1>4 DEF SecureInv

LEMMA SecureKeeps ==
  ASSUME SecureInv, [Secure!SecureNext]_secureVars
  PROVE  SecureInv'
<1>1. CASE UNCHANGED secureVars
  <2>1. UNCHANGED <<host, isd, exch, faults>>
    BY <1>1 DEF secureVars
  <2>2. SecureTypes' /\ SameSession' /\ InStep' /\ HostMade' /\ DoneBefore' /\ ReturnedIsAccepted'
    BY <2>1 DEF SecureInv, SecureTypes, SameSession, InStep, HostMade, DoneBefore, ReturnedIsAccepted
  <2>3. Secure!ChunksFit' /\ Secure!KeyArrives'
    BY <2>1 DEF SecureInv, Secure!ChunksFit, Secure!KeyArrives
  <2> QED BY <2>2, <2>3 DEF SecureInv
<1>2. CASE Secure!SecureNext
  <2>1. ASSUME NEW proto \in {2, 3}, NEW kvn \in {0, 32, 48, 64}, NEW level \in {0, 1, 3, 17, 19, 51},
               NEW s_mode \in {8, 16}, NEW lchan \in SecureChans,
               NEW good \in {"yes", "wrong", "unanswered"},
               Secure!Establish(proto, kvn, level, s_mode, lchan, good)
        PROVE  SecureInv'
    <3>1. lchan \in Nat /\ level \in SecurityLevels
      BY SecureAssumption DEF SecurityLevels
    <3> HIDE DEF SecurityLevels
    <3> QED BY <2>1, <3>1, EstablishKeeps
  <2>2. ASSUME NEW len \in DataLengths, NEW gp \in BOOLEAN, NEW data \in BOOLEAN,
               NEW fate \in {"arrives", "lost", "unanswered"}, Secure!Command(len, gp, data, fate)
        PROVE  SecureInv'
    BY <2>2, CommandKeeps, SecureAssumption
  <2>3. ASSUME NEW klen \in KeyLengths, NEW fate \in {"arrives", "lost", "unanswered"},
               Secure!PutKey(klen, fate)
        PROVE  SecureInv'
    BY <2>3, PutKeyKeeps, SecureAssumption
  <2> QED BY <1>2, <2>1, <2>2, <2>3, ReleaseKeeps, ResetKeeps, SelectOtherKeeps DEF Secure!SecureNext
<1> QED BY <1>1, <1>2

\* What passes over a secure channel is what was meant to.
LEMMA SecureGives == SecureInv => Secure!ChannelTrusted
<1> SUFFICES ASSUME SecureInv PROVE Secure!ChannelTrusted
  OBVIOUS
<1>1. Secure!StaysInStep
  BY DEF SecureInv, InStep, Secure!StaysInStep
<1>2. Secure!DoneInOrder
  BY DEF SecureInv, DoneBefore, RisesTo, ReturnedIsAccepted, Secure!DoneInOrder
<1>3. Secure!LossNoticed
  BY DEF SecureInv, SameSession, Secure!LossNoticed
<1> QED BY <1>1, <1>2, <1>3 DEF SecureInv, Secure!ChannelTrusted

-----------------------------------------------------------------------------
\* Commands to security domains and eUICCs.

Unit == {"C4"} \cup Content!ToSet(Content!OrderOfLoadFile)
CodeOf(c) == Content!GetLoadFile(CapFiles[c])
EntriesOf(r) == Content!SetToSeq(DOMAIN r.files) \o Content!SetToSeq(DOMAIN r.apps)

\* What the card holds: the code of whole files, and applications of them; and of a load file as many
\* blocks as have numbers.
LoadingOk(l) ==
  /\ DOMAIN l = {"aid", "got", "next", "total"}
  /\ l.next \in Nat /\ l.next < BlockNumbers /\ l.got \in Seq(Unit)
  /\ l.next = 0 => l.got = <<>>
RegistryOk(r) ==
  /\ DOMAIN r = {"files", "apps", "locked", "keys", "loading", "meant", "data"}
  /\ IsFiniteSet(DOMAIN r.files) /\ IsFiniteSet(DOMAIN r.apps)
  /\ \A f \in DOMAIN r.files : \E c \in DOMAIN CapFiles : r.files[f] = CodeOf(c)
  /\ \A a \in DOMAIN r.apps : r.apps[a] \in DOMAIN r.files
  /\ LoadingOk(r.loading)

\* The command under way, and how far it is.
NameOf(t) ==
  CASE t.pc = "none" -> {"none"}
    [] t.pc = "for_load" -> {"install_cap", "install_for_load"}
    [] t.pc = "load" -> {"install_cap", "load"}
    [] t.pc = "for_install" -> {"install_cap", "install_for_install"}
    [] t.pc = "for_perso" -> {"install_for_personalization"}
    [] t.pc = "store" -> {"store_data"}
    [] t.pc = "delete" -> {"delete_card_content"}
    [] t.pc = "delete_key" -> {"delete_key"}
    [] t.pc = "set_status" -> {"set_status"}
    [] t.pc \in {"first", "next"} -> {"get_status"}
    [] OTHER -> {}

\* LOAD: what the card has got and what is left make the file, and it has as many blocks as were sent.
LoadedSoFar(l, t, c) ==
  /\ t.nr \in Nat /\ t.left \in Seq(Unit) /\ t.left # <<>>
  /\ IF t.nr = 0 THEN t.left = Content!Contents(c)
     ELSE /\ l.next = t.nr /\ l.got \o t.left = Content!Contents(c)
          /\ Len(l.got) = ChunkLen * t.nr /\ l.total = Len(Content!Contents(c))
  /\ t.name = "install_cap" => c = t.cap /\ l.aid = t.aid /\ l.next = t.nr
\* STORE DATA: what the application has got and what is left make the data.
StoredSoFar(r, t, s) ==
  /\ t.nr \in Nat /\ t.left \in Seq(Nat) /\ s.list \in Seq(Nat) /\ s.aid = r.meant
  /\ IF t.nr = 0 THEN t.left = s.list
     ELSE s.aid \in DOMAIN r.data /\ r.data[s.aid] \in Seq(Nat) /\ r.data[s.aid] \o t.left = s.list
\* GET STATUS: the list so far is the registry's first entries.
ListedSoFar(r, t) ==
  LET from == IF t.pc = "first" THEN 0 ELSE t.nr IN
  from \in 0..Len(EntriesOf(r)) /\ t.list = SubSeq(EntriesOf(r), 1, from)

CapMeant(t, s) ==
  IF t.name = "install_cap"
  THEN /\ t.cap \in DOMAIN CapFiles /\ s.cap = t.cap
       /\ t.aid = CapFiles[t.cap].aid /\ t.app = Head(CapFiles[t.cap].applets)
  ELSE t.cap = "none"
TaskOk(r, t, s) ==
  /\ DOMAIN t = {"name", "pc", "cap", "aid", "app", "left", "nr", "list"} /\ t.name \in NameOf(t)
  /\ t.name # "none" => s.name = t.name /\ s.how = "under_way"
  /\ CapMeant(t, s)
  /\ t.pc = "for_load" => t.nr = 0
  /\ t.pc = "load" => \E c \in DOMAIN CapFiles : LoadedSoFar(r.loading, t, c)
  /\ t.pc = "for_install" /\ t.name = "install_cap" => t.aid \in DOMAIN r.files /\ r.files[t.aid] = CodeOf(t.cap)
  /\ t.pc = "store" => StoredSoFar(r, t, s)
  /\ t.pc = "delete_key" => t.list = <<s.cap, s.aid>>
  /\ t.pc \in {"first", "next"} => ListedSoFar(r, t)

ProfilesOk(p) ==
  /\ \A i \in DOMAIN p : DOMAIN p[i] = {"state", "nickname"}
  /\ \A i, j \in DOMAIN p : p[i].state = "enabled" /\ p[j].state = "enabled" => i = j

\* What a command that has returned says.
InstalledSaid(r, s) ==
  s.name = "install_cap" =>
    LET cap == CapFiles[s.cap] IN
    /\ cap.aid \in DOMAIN r.files /\ r.files[cap.aid] = CodeOf(s.cap)
    /\ Head(cap.applets) \in DOMAIN r.apps /\ r.apps[Head(cap.applets)] = cap.aid
StoredSaid(r, s) ==
  s.name = "store_data" /\ s.list # <<>> => s.aid \in DOMAIN r.data /\ r.data[s.aid] = s.list
KeysSaid(r, s) == s.name = "delete_key" => Content!Matching(s.cap, s.aid) \cap r.keys = {}
ListSaid(r, s) ==
  s.name = "get_status" => Content!IsPrefix(s.list, EntriesOf(r)) /\ (s.whole => s.list = EntriesOf(r))
ProfileSaid(p, s) ==
  /\ s.name = "enable" => p[s.aid].state = "enabled"
  /\ s.name = "disable" => p[s.aid].state = "disabled"
  /\ s.name = "delete" => s.aid \notin DOMAIN p
  /\ s.name = "nickname" => p[s.aid].nickname = s.cap
ReportOk(r, p, s) ==
  /\ DOMAIN s = {"name", "how", "cap", "aid", "list", "whole"}
  /\ s.how = "ok" => InstalledSaid(r, s) /\ StoredSaid(r, s) /\ KeysSaid(r, s) /\ ListSaid(r, s) /\ ProfileSaid(p, s)

ContentInv ==
  /\ RegistryOk(registry) /\ TaskOk(registry, task, report) /\ ProfilesOk(profiles)
  /\ ReportOk(registry, profiles, report)

\* The first units and the others.
LEMMA ChunkAndRest ==
  ASSUME NEW S, NEW units \in Seq(S), NEW len \in Nat
  PROVE  /\ Content!Chunk(units, len) \in Seq(S) /\ Content!Rest(units, len) \in Seq(S)
         /\ Content!Chunk(units, len) \o Content!Rest(units, len) = units
         /\ Content!Rest(units, len) = <<>> => Content!Chunk(units, len) = units
         /\ Content!Rest(units, len) # <<>> => Len(Content!Chunk(units, len)) = len
<1> DEFINE chunk == Content!Chunk(units, len)
           rest == Content!Rest(units, len)
           k == IF Len(units) < len THEN Len(units) ELSE len
<1>1. Len(units) \in Nat /\ k \in 0..Len(units)
  BY LenProperties
<1>2. chunk = SubSeq(units, 1, k)
  BY DEF Content!Chunk
<1> HIDE DEF k, chunk
<1>3. \A i \in 1..Len(units) : units[i] \in S
  BY ElementOfSeq
<1>4. chunk \in Seq(S) /\ Len(chunk) = k
  BY <1>1, <1>2, <1>3, SubSeqProperties
<1>5. rest = SubSeq(units, k + 1, Len(units))
  BY <1>4 DEF Content!Rest, chunk
<1> HIDE DEF rest
<1>6. rest \in Seq(S) /\ Len(rest) = Len(units) - k
  BY <1>1, <1>3, <1>5, SubSeqProperties
<1>7. chunk \o rest = units
  <2>1. 1 \in 1..Len(units) + 1 /\ k \in 1 - 1..Len(units) /\ Len(units) \in k..Len(units)
    BY <1>1
  <2>2. SubSeq(units, 1, k) \o SubSeq(units, k + 1, Len(units)) = SubSeq(units, 1, Len(units))
    BY <2>1, ConcatAdjacentSubSeq
  <2> QED BY <1>2, <1>5, <2>2, SubSeqFull
<1>8. rest = <<>> => chunk = units
  BY <1>4, <1>6, <1>7, ConcatEmptySeq
<1>9. rest # <<>> => Len(rest) # 0
  BY <1>6, EmptySeq
<1> QED BY <1>1, <1>4, <1>6, <1>7, <1>8, <1>9 DEF k, chunk, rest

\* The entries of a registry are a sequence.
LEMMA SetAsSeq ==
  ASSUME NEW S, IsFiniteSet(S), NEW T, S \subseteq T
  PROVE  Content!SetToSeq(S) \in Seq(T)
<1> DEFINE n == Cardinality(S)
<1>1. n \in Nat /\ ExistsBijection(1..n, S)
  BY FS_CardinalityType
<1>2. \E f \in [1..n -> S] : Content!IsInjective(f)
  BY <1>1 DEF ExistsBijection, Bijection, Injection, IsInjective, Content!IsInjective
<1>3. Content!SetToSeq(S) \in [1..n -> S]
  <2> HIDE DEF n
  <2>1. Content!SetToSeq(S) = CHOOSE f \in [1..n -> S] : Content!IsInjective(f)
    BY DEF Content!SetToSeq, Content!Cardinality, Cardinality, n
  <2> QED BY <1>2, <2>1
<1>4. Content!SetToSeq(S) \in Seq(S)
  BY <1>1, <1>3, SeqDef
<1> QED BY <1>4, SeqMonotonic

LEMMA EntriesFacts ==
  ASSUME NEW r, RegistryOk(r)
  PROVE  \E S : EntriesOf(r) \in Seq(S)
<1> DEFINE S == DOMAIN r.files \cup DOMAIN r.apps
<1>1. Content!SetToSeq(DOMAIN r.files) \in Seq(S) /\ Content!SetToSeq(DOMAIN r.apps) \in Seq(S)
  BY SetAsSeq DEF RegistryOk
<1>2. EntriesOf(r) \in Seq(S)
  BY <1>1, ConcatProperties DEF EntriesOf
<1> QED BY <1>2

-----------------------------------------------------------------------------
\* A command that ends, and one that begins.
LEMMA NoTask ==
  ASSUME NEW r, NEW s
  PROVE  TaskOk(r, Content!NoContentJob, s) /\ Content!NoContentJob.name = "none"
BY DEF TaskOk, NameOf, CapMeant, Content!NoContentJob

\* What fails leaves the registry sound, and says nothing.
LEMMA FailingKeeps ==
  ASSUME ContentInv, RegistryOk(registry'), UNCHANGED profiles,
         NEW how, how # "ok", Content!Ends(how)
  PROVE  ContentInv'
<1>1. task' = Content!NoContentJob /\ report' = [report EXCEPT !.how = how]
  BY DEF Content!Ends
<1>2. TaskOk(registry', task', report')
  BY <1>1, NoTask
<1>3. ReportOk(registry', profiles', report')
  <2>1. DOMAIN report = {"name", "how", "cap", "aid", "list", "whole"}
    BY DEF ContentInv, ReportOk
  <2>2. DOMAIN report' = DOMAIN report /\ report'.how = how
    BY <1>1, <2>1
  <2> QED BY <2>1, <2>2 DEF ReportOk
<1>4. ProfilesOk(profiles')
  BY DEF ContentInv
<1> QED BY <1>2, <1>3, <1>4 DEF ContentInv

\* What a command begins with.
LEMMA BeginningKeeps ==
  ASSUME ContentInv, NEW next, NEW said, Content!Free(next, said),
         DOMAIN said = {"name", "how", "cap", "aid", "list", "whole"}, said.how # "ok",
         said.how = "under_way" => TaskOk(registry, [next EXCEPT !.name = said.name], said)
  PROVE  ContentInv'
<1>1. UNCHANGED <<registry, profiles>> /\ report' = said
  BY DEF Content!Free
<1>2. TaskOk(registry, task', said)
  BY NoTask DEF Content!Free
<1>3. ReportOk(registry, profiles, said)
  BY DEF ReportOk
<1> QED BY <1>1, <1>2, <1>3 DEF ContentInv

LEMMA SayingFacts ==
  ASSUME NEW name, NEW cap, NEW aid, NEW how, NEW s, s = Content!Saying(name, cap, aid, how)
  PROVE  /\ DOMAIN s = {"name", "how", "cap", "aid", "list", "whole"}
         /\ s.name = name /\ s.cap = cap /\ s.aid = aid /\ s.how = how /\ s.list = <<>>
BY DEF Content!Saying, Content!NoReport

\* A command that is no installation of a file, and whose first step needs nothing.
LEMMA PlainBeginning ==
  ASSUME NEW t, NEW r, NEW s, DOMAIN t = DOMAIN Content!NoContentJob, t.name = s.name, s.how = "under_way",
         t.name \in NameOf(t), t.name # "install_cap", t.cap = "none",
         t.pc \notin {"load", "store", "delete_key", "first", "next"}, t.pc = "for_load" => t.nr = 0
  PROVE  TaskOk(r, t, s)
BY DEF TaskOk, CapMeant, Content!NoContentJob

LEMMA BeginsInstallCap ==
  ASSUME ContentInv, NEW c \in DOMAIN CapFiles, NEW both, Content!DoInstallCap(c, both)
  PROVE  ContentInv'
<1> DEFINE cap == CapFiles[c]
           readable == Content!IsCapFile(cap) /\ Content!HasLoadFileAid(cap) /\ Content!HasAppletAid(cap)
           next == [Content!NoContentJob EXCEPT !.pc = "for_load", !.cap = c, !.aid = cap.aid,
                               !.app = IF readable THEN Head(cap.applets) ELSE "none"]
           how == IF ~readable THEN "raised" ELSE IF both THEN "exits" ELSE "under_way"
           said == Content!Saying("install_cap", c, "none", how)
<1>1. Content!Free(next, said)
  BY DEF Content!DoInstallCap
<1>2. how # "ok" /\ (how = "under_way" => readable)
  OBVIOUS
<1> HIDE DEF how
<1>3. DOMAIN said = {"name", "how", "cap", "aid", "list", "whole"} /\ said.name = "install_cap" /\ said.cap = c
      /\ said.how = how
  BY SayingFacts
<1> HIDE DEF said
<1>4. ASSUME how = "under_way" PROVE TaskOk(registry, [next EXCEPT !.name = said.name], said)
  <2> DEFINE t == [next EXCEPT !.name = said.name]
  <2>1. /\ DOMAIN t = {"name", "pc", "cap", "aid", "app", "left", "nr", "list"} /\ t.name = "install_cap"
        /\ t.pc = "for_load" /\ t.nr = 0 /\ t.cap = c /\ t.aid = cap.aid /\ t.app = Head(cap.applets)
    BY <1>2, <1>3, <1>4 DEF Content!NoContentJob
  <2> HIDE DEF t
  <2>2. CapMeant(t, said) /\ t.name \in NameOf(t)
    BY <1>3, <2>1 DEF CapMeant, NameOf
  <2>3. TaskOk(registry, t, said)
    BY <1>3, <1>4, <2>1, <2>2 DEF TaskOk
  <2> QED BY <2>3 DEF t
<1> HIDE DEF next
<1> QED BY <1>1, <1>2, <1>3, <1>4, BeginningKeeps

LEMMA BeginsPlainly ==
  ASSUME ContentInv, NEW next, NEW name, NEW cap, NEW aid, NEW how \in {"raised", "under_way"},
         Content!Free(next, Content!Saying(name, cap, aid, how)),
         DOMAIN next = DOMAIN Content!NoContentJob, name \in NameOf(next), name # "install_cap",
         next.cap = "none", next.pc \notin {"load", "store", "delete_key", "first", "next"},
         next.pc = "for_load" => next.nr = 0
  PROVE  ContentInv'
<1> DEFINE said == Content!Saying(name, cap, aid, how)
           t == [next EXCEPT !.name = said.name]
<1>1. DOMAIN said = {"name", "how", "cap", "aid", "list", "whole"} /\ said.name = name /\ said.how = how
  BY SayingFacts
<1> HIDE DEF said
<1>2. DOMAIN t = DOMAIN Content!NoContentJob /\ t.name = name /\ t.pc = next.pc /\ t.cap = next.cap
      /\ t.nr = next.nr
  BY <1>1 DEF Content!NoContentJob
<1> HIDE DEF t
<1>3. name \in NameOf(t)
  BY <1>2 DEF NameOf
<1>4. how = "under_way" => TaskOk(registry, t, said)
  BY <1>1, <1>2, <1>3, PlainBeginning
<1>5. Content!Free(next, said) /\ said.how # "ok"
  BY <1>1 DEF said
<1> QED BY <1>1, <1>4, <1>5, BeginningKeeps DEF t

LEMMA BeginsPlain ==
  ASSUME ContentInv,
         \/ \E aid, token, hash : Content!DoInstallForLoad(aid, token, hash)
         \/ \E file, app : Content!DoInstallForInstall(file, app)
         \/ \E app : Content!DoInstallForPersonalization(app) \/ Content!DoSetStatus(app)
         \/ \E aid, related : Content!DoDeleteCardContent(aid, related)
  PROVE  ContentInv'
<1>1. ASSUME NEW aid, NEW token, NEW hash, Content!DoInstallForLoad(aid, token, hash) PROVE ContentInv'
  <2> DEFINE next == [Content!NoContentJob EXCEPT !.pc = "for_load", !.aid = aid]
             how == IF token /\ ~hash THEN "raised" ELSE "under_way"
  <2>1. Content!Free(next, Content!Saying("install_for_load", "none", aid, how))
    BY <1>1 DEF Content!DoInstallForLoad
  <2>2. how \in {"raised", "under_way"}
    OBVIOUS
  <2>3. DOMAIN next = DOMAIN Content!NoContentJob /\ next.pc = "for_load" /\ next.cap = "none" /\ next.nr = 0
    BY DEF Content!NoContentJob
  <2> HIDE DEF how, next
  <2>4. "install_for_load" \in NameOf(next)
    BY <2>3 DEF NameOf
  <2> QED BY <2>1, <2>2, <2>3, <2>4, BeginsPlainly
<1>2. ASSUME NEW file, NEW app, Content!DoInstallForInstall(file, app) PROVE ContentInv'
  <2> DEFINE next == [Content!NoContentJob EXCEPT !.pc = "for_install", !.aid = file, !.app = app]
  <2>1. Content!Free(next, Content!Saying("install_for_install", "none", app, "under_way"))
    BY <1>2 DEF Content!DoInstallForInstall
  <2>2. DOMAIN next = DOMAIN Content!NoContentJob /\ next.pc = "for_install" /\ next.cap = "none"
    BY DEF Content!NoContentJob
  <2> HIDE DEF next
  <2>3. "install_for_install" \in NameOf(next)
    BY <2>2 DEF NameOf
  <2> QED BY <2>1, <2>2, <2>3, BeginsPlainly
<1>3. ASSUME NEW app, Content!DoInstallForPersonalization(app) PROVE ContentInv'
  <2> DEFINE next == [Content!NoContentJob EXCEPT !.pc = "for_perso", !.app = app]
  <2>1. Content!Free(next, Content!Saying("install_for_personalization", "none", app, "under_way"))
    BY <1>3 DEF Content!DoInstallForPersonalization
  <2>2. DOMAIN next = DOMAIN Content!NoContentJob /\ next.pc = "for_perso" /\ next.cap = "none"
    BY DEF Content!NoContentJob
  <2> HIDE DEF next
  <2>3. "install_for_personalization" \in NameOf(next)
    BY <2>2 DEF NameOf
  <2> QED BY <2>1, <2>2, <2>3, BeginsPlainly
<1>4. ASSUME NEW app, Content!DoSetStatus(app) PROVE ContentInv'
  <2> DEFINE next == [Content!NoContentJob EXCEPT !.pc = "set_status", !.aid = app]
  <2>1. Content!Free(next, Content!Saying("set_status", "none", app, "under_way"))
    BY <1>4 DEF Content!DoSetStatus
  <2>2. DOMAIN next = DOMAIN Content!NoContentJob /\ next.pc = "set_status" /\ next.cap = "none"
    BY DEF Content!NoContentJob
  <2> HIDE DEF next
  <2>3. "set_status" \in NameOf(next)
    BY <2>2 DEF NameOf
  <2> QED BY <2>1, <2>2, <2>3, BeginsPlainly
<1>5. ASSUME NEW aid, NEW related, Content!DoDeleteCardContent(aid, related) PROVE ContentInv'
  <2> DEFINE next == [Content!NoContentJob EXCEPT !.pc = "delete", !.aid = aid,
                        !.nr = IF related THEN Content!RelatedP2 ELSE 0]
  <2>1. Content!Free(next, Content!Saying("delete_card_content", "none", aid, "under_way"))
    BY <1>5 DEF Content!DoDeleteCardContent
  <2>2. DOMAIN next = DOMAIN Content!NoContentJob /\ next.pc = "delete" /\ next.cap = "none"
    BY DEF Content!NoContentJob
  <2> HIDE DEF next
  <2>3. "delete_card_content" \in NameOf(next)
    BY <2>2 DEF NameOf
  <2> QED BY <2>1, <2>2, <2>3, BeginsPlainly
<1> QED BY <1>1, <1>2, <1>3, <1>4, <1>5

\* The file with its header.
LEMMA ContentsFacts ==
  ASSUME NEW c \in DOMAIN CapFiles
  PROVE  /\ Content!Contents(c) \in Seq(Unit) /\ Content!Contents(c) # <<>>
         /\ Len(Content!Contents(c)) <= ChunkLen * BlockNumbers
         /\ Tail(Content!Contents(c)) = CodeOf(c)
<1>1. CodeOf(c) \in Seq(Unit)
  <2>1. CodeOf(c) \in Seq(Content!ToSet(Content!OrderOfLoadFile))
    BY ContentAssumption DEF CodeOf
  <2> QED BY <2>1, SeqMonotonic DEF Unit
<1>2. <<"C4">> \in Seq(Unit) /\ Len(<<"C4">>) = 1
  BY DEF Unit
<1>3. Content!Contents(c) = <<"C4">> \o CodeOf(c)
  BY DEF Content!Contents, CodeOf
<1>4. /\ Content!Contents(c) \in Seq(Unit) /\ Len(Content!Contents(c)) = 1 + Len(CodeOf(c))
      /\ \A i \in 1..1 + Len(CodeOf(c)) : Content!Contents(c)[i] = IF i <= 1 THEN "C4" ELSE CodeOf(c)[i - 1]
  BY <1>1, <1>2, <1>3, ConcatProperties
<1>5. Len(CodeOf(c)) \in Nat
  BY <1>1, LenProperties
<1>6. Content!Contents(c) # <<>>
  BY <1>4, <1>5, EmptySeq
<1>7. Tail(Content!Contents(c)) = CodeOf(c)
  <2>1. /\ Tail(Content!Contents(c)) \in Seq(Unit) /\ Len(Tail(Content!Contents(c))) = Len(CodeOf(c))
        /\ \A i \in 1..Len(CodeOf(c)) : Tail(Content!Contents(c))[i] = Content!Contents(c)[i + 1]
    BY <1>4, <1>5, <1>6, HeadTailProperties
  <2>2. \A i \in 1..Len(CodeOf(c)) : Tail(Content!Contents(c))[i] = CodeOf(c)[i]
    BY <1>4, <1>5, <2>1
  <2> QED BY <1>1, <2>1, <2>2, SeqEqual
<1> QED BY <1>4, <1>6, <1>7, ContentAssumption

LEMMA BeginsLoad ==
  ASSUME ContentInv, NEW c \in DOMAIN CapFiles, Content!DoLoad(c)
  PROVE  ContentInv'
<1> DEFINE next == [Content!NoContentJob EXCEPT !.pc = "load", !.left = Content!Contents(c)]
           said == Content!Saying("load", "none", "none", "under_way")
           t == [next EXCEPT !.name = said.name]
<1>1. Content!Free(next, said)
  BY DEF Content!DoLoad
<1>2. DOMAIN said = {"name", "how", "cap", "aid", "list", "whole"} /\ said.name = "load" /\ said.how = "under_way"
  BY SayingFacts
<1> HIDE DEF said
<1>3. /\ DOMAIN t = {"name", "pc", "cap", "aid", "app", "left", "nr", "list"} /\ t.name = "load"
      /\ t.pc = "load" /\ t.cap = "none" /\ t.nr = 0 /\ t.left = Content!Contents(c)
  BY <1>2 DEF Content!NoContentJob
<1> HIDE DEF t
<1>4. LoadedSoFar(registry.loading, t, c)
  BY <1>3, ContentsFacts DEF LoadedSoFar
<1>5. CapMeant(t, said) /\ t.name \in NameOf(t)
  BY <1>3 DEF CapMeant, NameOf
<1>6. TaskOk(registry, t, said)
  BY <1>2, <1>3, <1>4, <1>5 DEF TaskOk
<1> QED BY <1>1, <1>2, <1>6, BeginningKeeps DEF t

LEMMA BeginsStoreData ==
  ASSUME ContentInv, NEW n \in Nat, Content!DoStoreData(n)
  PROVE  ContentInv'
<1> DEFINE data == [i \in 1..n |-> i]
           next == [Content!NoContentJob EXCEPT !.pc = "store", !.left = data]
           start == Content!Saying("store_data", "none", registry.meant, "under_way")
           said == [start EXCEPT !.list = data]
           t == [next EXCEPT !.name = said.name]
<1>1. Content!Free(next, said)
  BY DEF Content!DoStoreData
<1>2. data \in Seq(Nat)
  OBVIOUS
<1> HIDE DEF data
<1>3. DOMAIN start = {"name", "how", "cap", "aid", "list", "whole"} /\ start.name = "store_data"
      /\ start.how = "under_way" /\ start.aid = registry.meant
  BY SayingFacts
<1> HIDE DEF start
<1>4. DOMAIN said = {"name", "how", "cap", "aid", "list", "whole"} /\ said.name = "store_data"
      /\ said.how = "under_way" /\ said.aid = registry.meant /\ said.list = data
  BY <1>3
<1> HIDE DEF said
<1>5. /\ DOMAIN t = {"name", "pc", "cap", "aid", "app", "left", "nr", "list"} /\ t.name = "store_data"
      /\ t.pc = "store" /\ t.cap = "none" /\ t.nr = 0 /\ t.left = data
  BY <1>4 DEF Content!NoContentJob
<1> HIDE DEF t
<1>6. StoredSoFar(registry, t, said)
  BY <1>2, <1>4, <1>5 DEF StoredSoFar
<1>7. CapMeant(t, said) /\ t.name \in NameOf(t)
  BY <1>5 DEF CapMeant, NameOf
<1>8. TaskOk(registry, t, said)
  BY <1>4, <1>5, <1>6, <1>7 DEF TaskOk
<1> QED BY <1>1, <1>4, <1>8, BeginningKeeps DEF t

LEMMA BeginsDeleteKey ==
  ASSUME ContentInv, NEW kvn, NEW kid, Content!DoDeleteKey(kvn, kid)
  PROVE  ContentInv'
<1> DEFINE next == [Content!NoContentJob EXCEPT !.pc = "delete_key", !.list = <<kvn, kid>>]
           how == IF {kvn, kid} = {"none"} THEN "raised" ELSE "under_way"
           said == Content!Saying("delete_key", kvn, kid, how)
           t == [next EXCEPT !.name = said.name]
<1>1. Content!Free(next, said)
  BY DEF Content!DoDeleteKey
<1>2. how # "ok"
  OBVIOUS
<1> HIDE DEF how
<1>3. DOMAIN said = {"name", "how", "cap", "aid", "list", "whole"} /\ said.name = "delete_key"
      /\ said.how = how /\ said.cap = kvn /\ said.aid = kid
  BY SayingFacts
<1> HIDE DEF said
<1>4. /\ DOMAIN t = {"name", "pc", "cap", "aid", "app", "left", "nr", "list"} /\ t.name = "delete_key"
      /\ t.pc = "delete_key" /\ t.cap = "none" /\ t.list = <<kvn, kid>>
  BY <1>3 DEF Content!NoContentJob
<1> HIDE DEF t
<1>5. CapMeant(t, said) /\ t.name \in NameOf(t)
  BY <1>4 DEF CapMeant, NameOf
<1>6. said.how = "under_way" => TaskOk(registry, t, said)
  BY <1>3, <1>4, <1>5 DEF TaskOk
<1> QED BY <1>1, <1>2, <1>3, <1>6, BeginningKeeps DEF t

LEMMA BeginsGetStatus ==
  ASSUME ContentInv, Content!DoGetStatus
  PROVE  ContentInv'
<1> DEFINE next == [Content!NoContentJob EXCEPT !.pc = "first"]
           said == Content!Saying("get_status", "none", "none", "under_way")
           t == [next EXCEPT !.name = said.name]
<1>1. Content!Free(next, said)
  BY DEF Content!DoGetStatus
<1>2. DOMAIN said = {"name", "how", "cap", "aid", "list", "whole"} /\ said.name = "get_status"
      /\ said.how = "under_way"
  BY SayingFacts
<1> HIDE DEF said
<1>3. /\ DOMAIN t = {"name", "pc", "cap", "aid", "app", "left", "nr", "list"} /\ t.name = "get_status"
      /\ t.pc = "first" /\ t.cap = "none" /\ t.list = <<>>
  BY <1>2 DEF Content!NoContentJob
<1> HIDE DEF t
<1>4. ListedSoFar(registry, t)
  <2>1. RegistryOk(registry)
    BY DEF ContentInv
  <2>2. PICK S : EntriesOf(registry) \in Seq(S)
    BY <2>1, EntriesFacts
  <2>3. Len(EntriesOf(registry)) \in Nat
    BY <2>2, LenProperties
  <2>4. SubSeq(EntriesOf(registry), 1, 0) = <<>>
    BY SubSeqEmpty
  <2> QED BY <1>3, <2>3, <2>4 DEF ListedSoFar
<1>5. CapMeant(t, said) /\ t.name \in NameOf(t)
  BY <1>3 DEF CapMeant, NameOf
<1>6. TaskOk(registry, t, said)
  BY <1>2, <1>3, <1>4, <1>5 DEF TaskOk
<1> QED BY <1>1, <1>2, <1>6, BeginningKeeps DEF t

LEMMA NoLoadingFacts ==
  ASSUME NEW aid, NEW l, l = Content!NoLoading \/ l = [Content!NoLoading EXCEPT !.aid = aid]
  PROVE  LoadingOk(l) /\ l.next = 0 /\ (l = [Content!NoLoading EXCEPT !.aid = aid] => l.aid = aid)
<1>1. DOMAIN l = {"aid", "got", "next", "total"} /\ l.next = 0 /\ l.got = <<>>
  BY DEF Content!NoLoading
<1>2. LoadingOk(l)
  BY <1>1, ContentAssumption DEF LoadingOk
<1> QED BY <1>1, <1>2 DEF Content!NoLoading

LEMMA ResetKeepsContent ==
  ASSUME ContentInv, Content!ResetCard
  PROVE  ContentInv'
<1>1. /\ registry' = [registry EXCEPT !.loading = Content!NoLoading, !.meant = "ISD"]
      /\ report' = Content!NoReport /\ UNCHANGED <<profiles, task>> /\ task.name = "none"
  BY DEF Content!ResetCard, Content!Idle
<1>2. RegistryOk(registry')
  <2>1. LoadingOk(Content!NoLoading)
    BY NoLoadingFacts
  <2>2. RegistryOk(registry)
    BY DEF ContentInv
  <2>3. /\ DOMAIN registry' = DOMAIN registry /\ registry'.loading = Content!NoLoading
        /\ registry'.files = registry.files /\ registry'.apps = registry.apps
    BY <1>1, <2>2 DEF RegistryOk
  <2> QED BY <2>1, <2>2, <2>3 DEF RegistryOk
<1>3. TaskOk(registry', task', report')
  <2>1. TaskOk(registry, task, report)
    BY DEF ContentInv
  <2>2. task.pc = "none" /\ task.cap = "none"
    BY <1>1, <2>1 DEF TaskOk, NameOf, CapMeant
  <2> QED BY <1>1, <2>1, <2>2 DEF TaskOk, CapMeant
<1>4. ReportOk(registry', profiles', report')
  BY <1>1 DEF ReportOk, Content!NoReport
<1>5. ProfilesOk(profiles')
  BY <1>1 DEF ContentInv
<1> QED BY <1>2, <1>3, <1>4, <1>5 DEF ContentInv

-----------------------------------------------------------------------------
\* The steps of a command.
LEMMA EndingKeeps ==
  ASSUME ContentInv, RegistryOk(registry'), UNCHANGED profiles, Content!Ends("ok"),
         InstalledSaid(registry', report), StoredSaid(registry', report), KeysSaid(registry', report),
         ListSaid(registry', report), ProfileSaid(profiles, report)
  PROVE  ContentInv'
<1>1. task' = Content!NoContentJob /\ report' = [report EXCEPT !.how = "ok"]
  BY DEF Content!Ends
<1>2. TaskOk(registry', task', report')
  BY <1>1, NoTask
<1>3. /\ DOMAIN report' = {"name", "how", "cap", "aid", "list", "whole"} /\ report'.name = report.name
      /\ report'.cap = report.cap /\ report'.aid = report.aid /\ report'.list = report.list
      /\ report'.whole = report.whole
  <2>1. DOMAIN report = {"name", "how", "cap", "aid", "list", "whole"}
    BY DEF ContentInv, ReportOk
  <2> QED BY <1>1, <2>1
<1>4. InstalledSaid(registry', report') /\ StoredSaid(registry', report') /\ ListSaid(registry', report')
  BY <1>3 DEF InstalledSaid, StoredSaid, ListSaid
<1>5. KeysSaid(registry', report') /\ ProfileSaid(profiles', report')
  BY <1>3 DEF KeysSaid, ProfileSaid
<1>6. ProfilesOk(profiles')
  BY DEF ContentInv
<1> QED BY <1>2, <1>3, <1>4, <1>5, <1>6 DEF ContentInv, ReportOk

LEMMA SilentKeeps ==
  ASSUME ContentInv, RegistryOk(registry'), UNCHANGED profiles, Content!Ends("ok"),
         report.name \notin {"install_cap", "store_data", "delete_key", "get_status",
                             "enable", "disable", "delete", "nickname"}
  PROVE  ContentInv'
BY EndingKeeps DEF InstalledSaid, StoredSaid, KeysSaid, ListSaid, ProfileSaid

LEMMA SameContents ==
  ASSUME NEW r, RegistryOk(r), NEW r2, DOMAIN r2 = DOMAIN r, r2.files = r.files, r2.apps = r.apps,
         LoadingOk(r2.loading)
  PROVE  RegistryOk(r2)
BY DEF RegistryOk

\* What a step leaves alone besides the registry and the task.
LEMMA GoingOnKeeps ==
  ASSUME ContentInv, RegistryOk(registry'), UNCHANGED <<profiles, report>>, report.how = "under_way",
         TaskOk(registry', task', report)
  PROVE  ContentInv'
BY DEF ContentInv, ReportOk

LEMMA TaskFacts ==
  ASSUME ContentInv, task.pc # "none"
  PROVE  /\ DOMAIN task = {"name", "pc", "cap", "aid", "app", "left", "nr", "list"}
         /\ task.name \in NameOf(task) /\ report.name = task.name /\ report.how = "under_way"
         /\ CapMeant(task, report)
         /\ task.name = "install_cap" <=> task.cap # "none"
<1>1. TaskOk(registry, task, report)
  BY DEF ContentInv
<1>2. task.name # "none"
  BY <1>1 DEF TaskOk, NameOf
<1>3. task.name = "install_cap" <=> task.cap # "none"
  BY <1>1, ContentAssumption DEF TaskOk, CapMeant
<1> QED BY <1>1, <1>2, <1>3 DEF TaskOk

LEMMA InstallForLoadKeeps ==
  ASSUME ContentInv, Content!InstallForLoad
  PROVE  ContentInv'
<1> DEFINE l == [Content!NoLoading EXCEPT !.aid = task.aid]
           after == [registry EXCEPT !.loading = l]
<1>1. task.pc = "for_load"
  BY DEF Content!InstallForLoad, Content!At
<1>2. /\ UNCHANGED profiles
      /\ \/ /\ registry' = after
            /\ IF task.cap = "none" THEN Content!Ends("ok")
               ELSE task' = [task EXCEPT !.pc = "load", !.left = Content!Contents(task.cap)] /\ UNCHANGED report
         \/ registry' \in {registry, after} /\ Content!Ends("raised")
  BY DEF Content!InstallForLoad, Content!Send
<1>3. RegistryOk(registry) /\ TaskOk(registry, task, report)
  BY DEF ContentInv
<1>4. DOMAIN after = DOMAIN registry /\ after.files = registry.files /\ after.apps = registry.apps /\ after.loading = l
  BY <1>3 DEF RegistryOk
<1>5. LoadingOk(l) /\ l.aid = task.aid /\ l.next = 0
  BY NoLoadingFacts
<1>6. RegistryOk(after)
  BY <1>3, <1>4, <1>5, SameContents
<1> HIDE DEF l, after
<1>7. CASE Content!Ends("raised") /\ registry' \in {registry, after}
  BY <1>2, <1>3, <1>6, <1>7, FailingKeeps
<1>8. CASE registry' = after /\ task.cap = "none" /\ Content!Ends("ok")
  <2>1. report.name = "install_for_load"
    BY <1>1, <1>8, TaskFacts DEF NameOf
  <2> QED BY <1>2, <1>6, <1>8, <2>1, SilentKeeps
<1>9. CASE /\ registry' = after /\ task.cap # "none"
           /\ task' = [task EXCEPT !.pc = "load", !.left = Content!Contents(task.cap)] /\ UNCHANGED report
  <2>1. DOMAIN task = {"name", "pc", "cap", "aid", "app", "left", "nr", "list"} /\ task.name = "install_cap"
        /\ CapMeant(task, report) /\ report.how = "under_way" /\ report.name = task.name /\ task.nr = 0
    BY <1>1, <1>3, <1>9, TaskFacts DEF TaskOk
  <2>2. /\ DOMAIN task' = DOMAIN task /\ task'.name = task.name /\ task'.pc = "load" /\ task'.cap = task.cap
        /\ task'.aid = task.aid /\ task'.app = task.app /\ task'.nr = 0
        /\ task'.left = Content!Contents(task.cap)
    BY <1>9, <2>1
  <2>3. CapMeant(task', report) /\ task.cap \in DOMAIN CapFiles
    BY <2>1, <2>2 DEF CapMeant
  <2>4. LoadedSoFar(after.loading, task', task.cap)
    BY <1>4, <1>5, <2>1, <2>2, <2>3, ContentsFacts DEF LoadedSoFar
  <2>5. task'.name \in NameOf(task')
    BY <2>1, <2>2 DEF NameOf
  <2>6. TaskOk(after, task', report)
    BY <2>1, <2>2, <2>3, <2>4, <2>5 DEF TaskOk
  <2> QED BY <1>2, <1>6, <1>9, <2>1, <2>6, GoingOnKeeps
<1> QED BY <1>2, <1>7, <1>8, <1>9

LEMMA LessByFactor ==
  ASSUME NEW a \in Nat, NEW x \in Nat, NEW y \in Nat, a * x < a * y
  PROVE  x < y
<1>1. x >= y => a * x >= a * y
  OBVIOUS
<1> QED BY <1>1

\* The block that the card takes is the one it waits for.
LEMMA LoadTaken ==
  ASSUME NEW l, LoadingOk(l), NEW t, NEW c \in DOMAIN CapFiles, LoadedSoFar(l, t, c),
         t.nr % BlockNumbers = l.next % BlockNumbers
  PROVE  /\ l.next = t.nr /\ l.got \o t.left = Content!Contents(c) /\ Len(l.got) = ChunkLen * t.nr
         /\ Len(Content!Contents(c)) = IF l.next = 0 THEN Len(t.left) ELSE l.total
<1>1. l.next \in Nat /\ l.next < BlockNumbers /\ BlockNumbers \in Nat \ {0} /\ ChunkLen \in Nat
  BY ContentAssumption DEF LoadingOk
<1>2. l.next % BlockNumbers = l.next
  BY <1>1
<1>3. CASE t.nr = 0
  <2>1. t.nr % BlockNumbers = 0
    BY <1>1, <1>3
  <2>2. l.next = 0 /\ l.got = <<>>
    BY <1>2, <2>1 DEF LoadingOk
  <2>3. t.left = Content!Contents(c) /\ t.left \in Seq(Unit)
    BY <1>3 DEF LoadedSoFar
  <2>4. l.got \o t.left = t.left
    BY <2>2, <2>3, ConcatEmptySeq
  <2>5. Len(l.got) = 0
    BY <2>2
  <2>6. ChunkLen * t.nr = 0
    BY <1>1, <1>3
  <2> QED BY <1>3, <2>2, <2>3, <2>4, <2>5, <2>6
<1>4. CASE t.nr # 0
  BY <1>4 DEF LoadedSoFar
<1> QED BY <1>3, <1>4

Joined(S, got, left, len) ==
  /\ got \o Content!Chunk(left, len) \in Seq(S) /\ Content!Rest(left, len) \in Seq(S)
  /\ Len(got \o Content!Chunk(left, len)) = Len(got) + Len(Content!Chunk(left, len))
  /\ (got \o Content!Chunk(left, len)) \o Content!Rest(left, len) = got \o left
LEMMA JoinRest ==
  ASSUME NEW S, NEW got \in Seq(S), NEW left \in Seq(S), NEW len \in Nat
  PROVE  Joined(S, got, left, len)
<1> DEFINE units == Content!Chunk(left, len)
           rest == Content!Rest(left, len)
<1>1. units \in Seq(S) /\ rest \in Seq(S) /\ units \o rest = left
  BY ChunkAndRest
<1> HIDE DEF units, rest
<1>2. got \o units \in Seq(S) /\ Len(got \o units) = Len(got) + Len(units)
  BY <1>1, ConcatProperties
<1>3. (got \o units) \o rest = got \o left
  <2>1. units \in Seq(S) /\ rest \in Seq(S)
    BY <1>1
  <2>2. (got \o units) \o rest = got \o (units \o rest)
    BY <2>1, ConcatAssociative
  <2> QED BY <1>1, <2>2
<1> QED BY <1>1, <1>2, <1>3 DEF units, rest, Joined

LEMMA JoinNext ==
  ASSUME NEW S, NEW got \in Seq(S), NEW left \in Seq(S), NEW len \in Nat, Content!Rest(left, len) # <<>>
  PROVE  /\ Len(got \o Content!Chunk(left, len)) = Len(got) + len
         /\ Len(got \o left) > Len(got \o Content!Chunk(left, len))
<1> DEFINE units == Content!Chunk(left, len)
           rest == Content!Rest(left, len)
<1>1. got \o units \in Seq(S) /\ rest \in Seq(S) /\ (got \o units) \o rest = got \o left
      /\ Len(got \o units) = Len(got) + Len(units)
  <2>1. Joined(S, got, left, len)
    BY JoinRest
  <2> QED BY <2>1 DEF Joined
<1>2. Len(units) = len
  BY ChunkAndRest
<1>3. rest # <<>>
  OBVIOUS
<1> HIDE DEF units, rest
<1>4. Len(rest) \in Nat /\ Len(rest) # 0
  BY <1>1, <1>3, EmptySeq, LenProperties
<1>5. Len((got \o units) \o rest) = Len(got \o units) + Len(rest) /\ Len(got \o units) \in Nat
  BY <1>1, ConcatProperties, LenProperties
<1>6. Len(got \o left) > Len(got \o units)
  BY <1>1, <1>4, <1>5
<1> QED BY <1>1, <1>2, <1>6 DEF units, rest

\* What the card has then.
NextLoading(l, units, total) ==
  [l EXCEPT !.got = l.got \o units, !.next = @ + 1, !.total = IF l.next = 0 THEN total ELSE @]
LoadingSound(l2, l, t, rest, c) ==
  /\ LoadingOk(l2) /\ l2.next = t.nr + 1 /\ l2.got \o rest = Content!Contents(c) /\ l2.aid = l.aid
  /\ Len(l2.got) = ChunkLen * (t.nr + 1) /\ l2.total = Len(Content!Contents(c)) /\ rest \in Seq(Unit)
LEMMA NextBlock ==
  ASSUME NEW l, LoadingOk(l), NEW t, NEW c \in DOMAIN CapFiles, LoadedSoFar(l, t, c),
         t.nr % BlockNumbers = l.next % BlockNumbers, Content!Rest(t.left, ChunkLen) # <<>>
  PROVE  LoadingSound(NextLoading(l, Content!Chunk(t.left, ChunkLen), Len(t.left)),
                      l, t, Content!Rest(t.left, ChunkLen), c)
<1> DEFINE units == Content!Chunk(t.left, ChunkLen)
           rest == Content!Rest(t.left, ChunkLen)
           l2 == NextLoading(l, units, Len(t.left))
<1>1. /\ l.next = t.nr /\ l.got \o t.left = Content!Contents(c) /\ Len(l.got) = ChunkLen * t.nr
      /\ Len(Content!Contents(c)) = IF l.next = 0 THEN Len(t.left) ELSE l.total
  BY LoadTaken
<1>2. /\ DOMAIN l2 = {"aid", "got", "next", "total"} /\ l2.got = l.got \o units /\ l2.next = t.nr + 1
      /\ l2.total = Len(Content!Contents(c)) /\ l2.aid = l.aid
  BY <1>1 DEF NextLoading, LoadingOk
<1> HIDE DEF l2
<1>3. t.left \in Seq(Unit) /\ l.got \in Seq(Unit) /\ t.nr \in Nat /\ ChunkLen \in Nat /\ BlockNumbers \in Nat
  BY ContentAssumption DEF LoadedSoFar, LoadingOk
<1>4. /\ l2.got \in Seq(Unit) /\ Len(l2.got) = ChunkLen * t.nr + ChunkLen /\ rest \in Seq(Unit)
      /\ l2.got \o rest = Content!Contents(c) /\ Len(Content!Contents(c)) > Len(l2.got)
  <2>1. Content!Rest(t.left, ChunkLen) # <<>>
    OBVIOUS
  <2>2. t.left \in Seq(Unit) /\ l.got \in Seq(Unit) /\ ChunkLen \in Nat
    BY <1>3
  <2>3. /\ l.got \o Content!Chunk(t.left, ChunkLen) \in Seq(Unit) /\ Content!Rest(t.left, ChunkLen) \in Seq(Unit)
        /\ (l.got \o Content!Chunk(t.left, ChunkLen)) \o Content!Rest(t.left, ChunkLen) = l.got \o t.left
    <3>1. Joined(Unit, l.got, t.left, ChunkLen)
      BY <2>2, JoinRest
    <3> QED BY <3>1 DEF Joined
  <2>4. /\ Len(l.got \o Content!Chunk(t.left, ChunkLen)) = Len(l.got) + ChunkLen
        /\ Len(l.got \o t.left) > Len(l.got \o Content!Chunk(t.left, ChunkLen))
    BY <2>1, <2>2, JoinNext
  <2> QED BY <1>1, <1>2, <2>3, <2>4
<1>5. Len(l2.got) = ChunkLen * (t.nr + 1)
  BY <1>3, <1>4
<1>6. l2.next < BlockNumbers
  <2>1. Len(Content!Contents(c)) <= ChunkLen * BlockNumbers /\ Len(Content!Contents(c)) \in Nat
    BY ContentsFacts, LenProperties
  <2>2. ChunkLen * (t.nr + 1) \in Nat /\ ChunkLen * BlockNumbers \in Nat /\ t.nr + 1 \in Nat
    BY <1>3
  <2>3. ChunkLen * (t.nr + 1) < ChunkLen * BlockNumbers
    BY <1>4, <1>5, <2>1, <2>2
  <2> QED BY <1>2, <1>3, <2>2, <2>3, LessByFactor
<1>7. LoadingOk(l2)
  <2>1. l2.next \in Nat /\ l2.next # 0
    BY <1>2, <1>3
  <2> QED BY <1>2, <1>4, <1>6, <2>1 DEF LoadingOk
<1> QED BY <1>2, <1>4, <1>5, <1>7 DEF LoadingSound, l2

LEMMA LastBlock ==
  ASSUME NEW l, LoadingOk(l), NEW t, NEW c \in DOMAIN CapFiles, LoadedSoFar(l, t, c),
         t.nr % BlockNumbers = l.next % BlockNumbers, NEW units,
         units = Content!Chunk(t.left, ChunkLen), Content!Rest(t.left, ChunkLen) = <<>>
  PROVE  Tail(l.got \o units) = CodeOf(c)
<1>1. l.got \o t.left = Content!Contents(c)
  BY LoadTaken
<1>2. t.left \in Seq(Unit) /\ ChunkLen \in Nat
  BY ContentAssumption DEF LoadedSoFar
<1>3. units = t.left
  BY <1>2, ChunkAndRest
<1> QED BY <1>1, <1>3, ContentsFacts

\* A file that is stored.
WithFile(r, aid, c) ==
  [a \in DOMAIN r.files \cup {aid} |-> IF a = aid THEN CodeOf(c) ELSE r.files[a]]
LEMMA FileStored ==
  ASSUME NEW r, RegistryOk(r), NEW r2, DOMAIN r2 = DOMAIN r, r2.apps = r.apps, LoadingOk(r2.loading),
         NEW aid, NEW c \in DOMAIN CapFiles, r2.files = WithFile(r, aid, c)
  PROVE  RegistryOk(r2) /\ aid \in DOMAIN r2.files /\ r2.files[aid] = CodeOf(c)
<1>1. DOMAIN r2.files = DOMAIN r.files \cup {aid}
  BY DEF WithFile
<1>2. IsFiniteSet(DOMAIN r2.files)
  BY <1>1, FS_AddElement DEF RegistryOk
<1>3. \A f \in DOMAIN r2.files : \E d \in DOMAIN CapFiles : r2.files[f] = CodeOf(d)
  <2> TAKE f \in DOMAIN r2.files
  <2>1. CASE f = aid
    BY <2>1 DEF WithFile
  <2>2. CASE f # aid
    BY <1>1, <2>2 DEF RegistryOk, WithFile
  <2> QED BY <2>1, <2>2
<1>4. \A a \in DOMAIN r2.apps : r2.apps[a] \in DOMAIN r2.files
  BY <1>1 DEF RegistryOk
<1> QED BY <1>1, <1>2, <1>3, <1>4 DEF RegistryOk, WithFile

LoadSound(r2, c) ==
  LET rest == Content!Rest(task.left, ChunkLen) IN
  /\ RegistryOk(r2)
  /\ rest = <<>> => /\ registry.loading.aid \in DOMAIN r2.files
                    /\ r2.files[registry.loading.aid] = CodeOf(c)
  /\ rest # <<>> => LoadingSound(r2.loading, registry.loading, task, rest, c)
LEMMA AfterLoadOk ==
  ASSUME ContentInv, NEW c \in DOMAIN CapFiles, LoadedSoFar(registry.loading, task, c),
         task.nr % BlockNumbers = registry.loading.next % BlockNumbers
  PROVE  LoadSound(Content!AfterLoad(Content!Chunk(task.left, ChunkLen), Len(task.left),
                                     Content!Rest(task.left, ChunkLen) = <<>>), c)
<1> DEFINE l == registry.loading
           units == Content!Chunk(task.left, ChunkLen)
           rest == Content!Rest(task.left, ChunkLen)
           r2 == Content!AfterLoad(units, Len(task.left), rest = <<>>)
<1>1. RegistryOk(registry) /\ LoadingOk(l)
  BY DEF ContentInv, RegistryOk
<1>2. DOMAIN registry = {"files", "apps", "locked", "keys", "loading", "meant", "data"}
  BY <1>1 DEF RegistryOk
<1>3. CASE rest = <<>>
  <2>1. Tail(l.got \o units) = CodeOf(c)
    BY <1>1, <1>3, LastBlock
  <2> HIDE DEF units, rest
  <2>2. /\ DOMAIN r2 = DOMAIN registry /\ r2.apps = registry.apps /\ r2.loading = Content!NoLoading
        /\ r2.files = [a \in DOMAIN registry.files \cup {l.aid} |->
             IF a = l.aid THEN Tail(l.got \o units) ELSE registry.files[a]]
    BY <1>2, <1>3 DEF Content!AfterLoad, Content!Stored
  <2> HIDE DEF r2
  <2>3. LoadingOk(r2.loading)
    BY <2>2, NoLoadingFacts
  <2>4. r2.files = WithFile(registry, l.aid, c)
    BY <2>1, <2>2 DEF WithFile
  <2> HIDE DEF l
  <2>5. RegistryOk(r2) /\ l.aid \in DOMAIN r2.files /\ r2.files[l.aid] = CodeOf(c)
    BY <1>1, <2>2, <2>3, <2>4, FileStored
  <2> QED BY <1>3, <2>5 DEF l, LoadSound, r2, units, rest
<1>4. CASE rest # <<>>
  <2>1. LoadingSound(NextLoading(l, units, Len(task.left)), l, task, rest, c)
    BY <1>1, <1>4, NextBlock
  <2> HIDE DEF units, rest
  <2>2. /\ DOMAIN r2 = DOMAIN registry /\ r2.apps = registry.apps /\ r2.files = registry.files
        /\ r2.loading = NextLoading(l, units, Len(task.left))
    BY <1>2, <1>4 DEF Content!AfterLoad, NextLoading
  <2> HIDE DEF r2
  <2>3. RegistryOk(r2)
    BY <1>1, <2>1, <2>2, SameContents DEF LoadingSound
  <2> QED BY <1>4, <2>1, <2>2, <2>3 DEF LoadSound, r2, units, rest
<1> QED BY <1>3, <1>4

LEMMA LoadKeeps ==
  ASSUME ContentInv, Content!Load
  PROVE  ContentInv'
<1> DEFINE units == Content!Chunk(task.left, ChunkLen)
           rest == Content!Rest(task.left, ChunkLen)
           final == rest = <<>>
           takes == Content!TakesLoad(task.nr % BlockNumbers, units, Len(task.left), final)
           after == Content!AfterLoad(units, Len(task.left), final)
<1>1. task.pc = "load"
  BY DEF Content!Load, Content!At
<1>2. /\ UNCHANGED profiles
      /\ \/ /\ takes /\ registry' = after
            /\ IF rest # <<>> THEN task' = [task EXCEPT !.left = rest, !.nr = @ + 1] /\ UNCHANGED report
               ELSE IF task.cap = "none" THEN Content!Ends("ok")
               ELSE task' = [task EXCEPT !.pc = "for_install", !.left = <<>>] /\ UNCHANGED report
         \/ /\ registry' = registry \/ (takes /\ registry' = after)
            /\ Content!Ends("raised")
  BY DEF Content!Load, Content!Send, Content!IsLast
<1>3. RegistryOk(registry) /\ TaskOk(registry, task, report)
  BY DEF ContentInv
<1>4. PICK c \in DOMAIN CapFiles : LoadedSoFar(registry.loading, task, c)
  BY <1>1, <1>3 DEF TaskOk
<1>5. takes => task.nr % BlockNumbers = registry.loading.next % BlockNumbers
  <2>1. takes => (task.nr % BlockNumbers) = registry.loading.next % BlockNumbers
    BY DEF Content!TakesLoad
  <2> QED BY <2>1
<1> HIDE DEF takes
<1>6. takes => LoadSound(after, c)
  BY <1>4, <1>5, AfterLoadOk
<1> HIDE DEF after, final, units, rest
<1>7. \/ /\ registry' = after /\ LoadSound(after, c)
         /\ IF rest # <<>> THEN task' = [task EXCEPT !.left = rest, !.nr = @ + 1] /\ UNCHANGED report
            ELSE IF task.cap = "none" THEN Content!Ends("ok")
            ELSE task' = [task EXCEPT !.pc = "for_install", !.left = <<>>] /\ UNCHANGED report
      \/ (registry' = registry \/ (registry' = after /\ LoadSound(after, c))) /\ Content!Ends("raised")
  <2>1. CASE takes
    <3>1. LoadSound(after, c)
      BY <1>6, <2>1
    <3> QED BY <1>2, <3>1
  <2>2. CASE ~takes
    BY <1>2, <2>2
  <2> QED BY <2>1, <2>2
<1>8. CASE (registry' = registry \/ (registry' = after /\ LoadSound(after, c))) /\ Content!Ends("raised")
  BY <1>2, <1>3, <1>8, FailingKeeps DEF LoadSound
<1>9. /\ DOMAIN task = {"name", "pc", "cap", "aid", "app", "left", "nr", "list"} /\ task.name \in NameOf(task)
      /\ report.name = task.name /\ report.how = "under_way" /\ CapMeant(task, report)
      /\ task.name = "install_cap" <=> task.cap # "none"
  BY <1>1, TaskFacts
<1>10. CASE /\ registry' = after /\ LoadSound(after, c) /\ rest # <<>>
            /\ task' = [task EXCEPT !.left = rest, !.nr = @ + 1] /\ UNCHANGED report
  <2>1. /\ DOMAIN task' = DOMAIN task /\ task'.name = task.name /\ task'.pc = "load" /\ task'.cap = task.cap
        /\ task'.aid = task.aid /\ task'.app = task.app /\ task'.nr = task.nr + 1 /\ task'.left = rest
    BY <1>1, <1>9, <1>10
  <2>2. CapMeant(task', report) /\ task'.name \in NameOf(task')
    BY <1>1, <1>9, <2>1 DEF CapMeant, NameOf
  <2>3. LoadedSoFar(after.loading, task', c)
    <3>1. task.nr \in Nat /\ (task.name = "install_cap" => c = task.cap /\ registry.loading.aid = task.aid)
      BY <1>4 DEF LoadedSoFar
    <3>2. task'.nr \in Nat /\ task'.nr # 0
      BY <2>1, <3>1
    <3>3. /\ after.loading.next = task'.nr /\ after.loading.got \o task'.left = Content!Contents(c)
          /\ Len(after.loading.got) = ChunkLen * task'.nr /\ after.loading.total = Len(Content!Contents(c))
          /\ after.loading.aid = registry.loading.aid /\ task'.left \in Seq(Unit) /\ task'.left # <<>>
      BY <1>10, <2>1 DEF LoadSound, LoadingSound, rest
    <3> QED BY <2>1, <3>1, <3>2, <3>3 DEF LoadedSoFar
  <2>4. TaskOk(after, task', report)
    BY <1>9, <2>1, <2>2, <2>3 DEF TaskOk
  <2>5. RegistryOk(registry')
    BY <1>10 DEF LoadSound
  <2> QED BY <1>2, <1>9, <1>10, <2>4, <2>5, GoingOnKeeps
<1>11. CASE registry' = after /\ LoadSound(after, c) /\ task.cap = "none" /\ Content!Ends("ok")
  <2>1. report.name = "load"
    BY <1>1, <1>9, <1>11 DEF NameOf
  <2>2. RegistryOk(registry')
    BY <1>11 DEF LoadSound
  <2> QED BY <1>2, <1>11, <2>1, <2>2, SilentKeeps
<1>12. CASE /\ registry' = after /\ LoadSound(after, c) /\ rest = <<>> /\ task.cap # "none"
            /\ task' = [task EXCEPT !.pc = "for_install", !.left = <<>>] /\ UNCHANGED report
  <2>1. /\ DOMAIN task' = DOMAIN task /\ task'.name = task.name /\ task'.pc = "for_install" /\ task'.cap = task.cap
        /\ task'.aid = task.aid /\ task'.app = task.app
    BY <1>9, <1>12
  <2>2. CapMeant(task', report) /\ task'.name \in NameOf(task')
    BY <1>1, <1>9, <1>12, <2>1 DEF CapMeant, NameOf
  <2>3. c = task.cap /\ registry.loading.aid = task.aid
    BY <1>4, <1>9, <1>12 DEF LoadedSoFar
  <2>4. task'.aid \in DOMAIN after.files /\ after.files[task'.aid] = CodeOf(task'.cap)
    BY <1>12, <2>1, <2>3 DEF LoadSound, rest
  <2>5. TaskOk(after, task', report)
    BY <1>9, <2>1, <2>2, <2>4 DEF TaskOk
  <2>6. RegistryOk(registry')
    BY <1>12 DEF LoadSound
  <2> QED BY <1>2, <1>9, <1>12, <2>5, <2>6, GoingOnKeeps
<1> QED BY <1>7, <1>8, <1>10, <1>11, <1>12

\* An application more, of a file that is stored.
LEMMA AppInstalled ==
  ASSUME ContentInv, NEW file \in DOMAIN registry.files, NEW app
  PROVE  /\ RegistryOk(Content!AfterInstall(file, app))
         /\ Content!AfterInstall(file, app).files = registry.files
         /\ app \in DOMAIN Content!AfterInstall(file, app).apps
         /\ Content!AfterInstall(file, app).apps[app] = file
<1> DEFINE r2 == Content!AfterInstall(file, app)
<1>1. RegistryOk(registry)
  BY DEF ContentInv
<1>2. DOMAIN registry = {"files", "apps", "locked", "keys", "loading", "meant", "data"}
  BY <1>1 DEF RegistryOk
<1>3. /\ DOMAIN r2 = DOMAIN registry /\ r2.files = registry.files /\ r2.loading = registry.loading
      /\ r2.apps = [a \in DOMAIN registry.apps \cup {app} |-> IF a = app THEN file ELSE registry.apps[a]]
  BY <1>2 DEF Content!AfterInstall, Content!Installed
<1> HIDE DEF r2
<1>4. DOMAIN r2.apps = DOMAIN registry.apps \cup {app} /\ IsFiniteSet(DOMAIN registry.apps)
  BY <1>1, <1>3 DEF RegistryOk
<1>5. IsFiniteSet(DOMAIN r2.apps)
  BY <1>4, FS_AddElement
<1>6. \A a \in DOMAIN r2.apps : r2.apps[a] \in DOMAIN r2.files
  BY <1>1, <1>3 DEF RegistryOk
<1>7. RegistryOk(r2)
  BY <1>1, <1>3, <1>5, <1>6 DEF RegistryOk
<1> QED BY <1>3, <1>7 DEF r2

LEMMA InstallForInstallKeeps ==
  ASSUME ContentInv, Content!InstallForInstall
  PROVE  ContentInv'
<1> DEFINE after == Content!AfterInstall(task.aid, task.app)
           takes == Content!TakesInstallForInstall(task.aid, task.app)
<1>1. task.pc = "for_install"
  BY DEF Content!InstallForInstall, Content!At
<1>2. /\ UNCHANGED profiles
      /\ \/ takes /\ registry' = after /\ Content!Ends("ok")
         \/ (registry' = registry \/ (takes /\ registry' = after)) /\ Content!Ends("raised")
  BY DEF Content!InstallForInstall, Content!Send
<1>3. RegistryOk(registry) /\ TaskOk(registry, task, report)
  BY DEF ContentInv
<1>4. ASSUME takes
      PROVE  /\ RegistryOk(after) /\ after.files = registry.files
             /\ task.app \in DOMAIN after.apps /\ after.apps[task.app] = task.aid
  <2>1. task.aid \in DOMAIN registry.files
    BY <1>4 DEF Content!TakesInstallForInstall, Content!Stored
  <2> QED BY <2>1, AppInstalled
<1>5. CASE (registry' = registry \/ (takes /\ registry' = after)) /\ Content!Ends("raised")
  BY <1>2, <1>3, <1>4, <1>5, FailingKeeps
<1>6. CASE takes /\ registry' = after /\ Content!Ends("ok")
  <2>1. report.name \in {"install_cap", "install_for_install"} /\ report.name = task.name /\ CapMeant(task, report)
    BY <1>1, TaskFacts DEF NameOf
  <2>2. InstalledSaid(registry', report)
    <3>1. ASSUME report.name = "install_cap"
          PROVE  /\ CapFiles[report.cap].aid = task.aid /\ Head(CapFiles[report.cap].applets) = task.app
                 /\ task.aid \in DOMAIN registry.files /\ registry.files[task.aid] = CodeOf(report.cap)
      BY <1>1, <1>3, <2>1, <3>1 DEF CapMeant, TaskOk
    <3> HIDE DEF after, takes
    <3> QED BY <1>4, <1>6, <3>1 DEF InstalledSaid
  <2>3. StoredSaid(registry', report) /\ KeysSaid(registry', report) /\ ListSaid(registry', report)
        /\ ProfileSaid(profiles, report)
    BY <2>1 DEF StoredSaid, KeysSaid, ListSaid, ProfileSaid
  <2> HIDE DEF after, takes
  <2>4. RegistryOk(registry')
    BY <1>4, <1>6
  <2> QED BY <1>2, <1>6, <2>2, <2>3, <2>4, EndingKeeps
<1> QED BY <1>2, <1>5, <1>6

\* A step that leaves files and applications alone, and says nothing of them.
LEMMA InstallForPersonalizationKeeps ==
  ASSUME ContentInv, Content!InstallForPersonalization
  PROVE  ContentInv'
<1> DEFINE after == [registry EXCEPT !.meant = task.app]
<1>1. task.pc = "for_perso"
  BY DEF Content!InstallForPersonalization, Content!At
<1>2. UNCHANGED profiles /\ registry' \in {registry, after} /\ (Content!Ends("ok") \/ Content!Ends("raised"))
  BY DEF Content!InstallForPersonalization, Content!Send
<1>3. RegistryOk(registry)
  BY DEF ContentInv
<1>4. /\ DOMAIN after = DOMAIN registry /\ after.files = registry.files /\ after.apps = registry.apps
      /\ after.loading = registry.loading /\ LoadingOk(registry.loading)
  BY <1>3 DEF RegistryOk
<1> HIDE DEF after
<1>5. RegistryOk(after)
  BY <1>3, <1>4, SameContents
<1>6. RegistryOk(registry')
  BY <1>2, <1>3, <1>5
<1>7. report.name = "install_for_personalization"
  BY <1>1, TaskFacts DEF NameOf
<1> QED BY <1>2, <1>6, <1>7, FailingKeeps, SilentKeeps

LEMMA SetStatusKeeps ==
  ASSUME ContentInv, Content!SetStatus
  PROVE  ContentInv'
<1> DEFINE after == [registry EXCEPT !.locked = @ \cup {task.aid}]
<1>1. task.pc = "set_status"
  BY DEF Content!SetStatus, Content!At
<1>2. UNCHANGED profiles /\ registry' \in {registry, after} /\ (Content!Ends("ok") \/ Content!Ends("raised"))
  BY DEF Content!SetStatus, Content!Send
<1>3. RegistryOk(registry)
  BY DEF ContentInv
<1>4. /\ DOMAIN after = DOMAIN registry /\ after.files = registry.files /\ after.apps = registry.apps
      /\ after.loading = registry.loading /\ LoadingOk(registry.loading)
  BY <1>3 DEF RegistryOk
<1> HIDE DEF after
<1>5. RegistryOk(after)
  BY <1>3, <1>4, SameContents
<1>6. RegistryOk(registry')
  BY <1>2, <1>3, <1>5
<1>7. report.name = "set_status"
  BY <1>1, TaskFacts DEF NameOf
<1> QED BY <1>2, <1>6, <1>7, FailingKeeps, SilentKeeps

\* An application goes, or a file with its applications.
LEMMA DeletedOk ==
  ASSUME ContentInv, NEW aid
  PROVE  RegistryOk(Content!AfterDelete(aid))
<1> DEFINE gone == {aid} \cup IF aid \in DOMAIN registry.files
                             THEN {a \in DOMAIN registry.apps : registry.apps[a] = aid} ELSE {}
           r2 == Content!AfterDelete(aid)
<1>1. RegistryOk(registry)
  BY DEF ContentInv
<1>2. DOMAIN registry = {"files", "apps", "locked", "keys", "loading", "meant", "data"}
  BY <1>1 DEF RegistryOk
<1>3. /\ DOMAIN r2 = DOMAIN registry /\ r2.loading = registry.loading
      /\ r2.files = [a \in DOMAIN registry.files \ {aid} |-> registry.files[a]]
      /\ r2.apps = [a \in DOMAIN registry.apps \ gone |-> registry.apps[a]]
  BY <1>2 DEF Content!AfterDelete, Content!Stored, Content!Installed, Content!AppsOf
<1> HIDE DEF r2
<1>4. DOMAIN r2.files \in SUBSET DOMAIN registry.files /\ DOMAIN r2.apps \in SUBSET DOMAIN registry.apps
  BY <1>3
<1>5. IsFiniteSet(DOMAIN r2.files) /\ IsFiniteSet(DOMAIN r2.apps)
  BY <1>1, <1>4, FS_Subset DEF RegistryOk
<1>6. \A f \in DOMAIN r2.files : \E c \in DOMAIN CapFiles : r2.files[f] = CodeOf(c)
  BY <1>1, <1>3 DEF RegistryOk
<1>7. \A a \in DOMAIN r2.apps : r2.apps[a] \in DOMAIN r2.files
  <2> TAKE a \in DOMAIN r2.apps
  <2>1. a \in DOMAIN registry.apps /\ a \notin gone /\ r2.apps[a] = registry.apps[a]
    BY <1>3
  <2>2. registry.apps[a] \in DOMAIN registry.files
    BY <1>1, <2>1 DEF RegistryOk
  <2>3. registry.apps[a] # aid
    BY <2>1, <2>2
  <2> QED BY <1>3, <2>1, <2>2, <2>3
<1>8. LoadingOk(r2.loading)
  BY <1>1, <1>3 DEF RegistryOk
<1> QED BY <1>2, <1>3, <1>5, <1>6, <1>7, <1>8 DEF RegistryOk, r2

LEMMA DeleteKeeps ==
  ASSUME ContentInv, Content!Delete
  PROVE  ContentInv'
<1> DEFINE after == Content!AfterDelete(task.aid)
<1>1. task.pc = "delete"
  BY DEF Content!Delete, Content!At
<1>2. UNCHANGED profiles /\ registry' \in {registry, after} /\ (Content!Ends("ok") \/ Content!Ends("raised"))
  BY DEF Content!Delete, Content!Send
<1>3. RegistryOk(registry) /\ RegistryOk(after)
  BY DeletedOk DEF ContentInv
<1> HIDE DEF after
<1>4. RegistryOk(registry')
  BY <1>2, <1>3
<1>5. report.name = "delete_card_content"
  BY <1>1, TaskFacts DEF NameOf
<1> QED BY <1>2, <1>4, <1>5, FailingKeeps, SilentKeeps

LEMMA DeleteKeyKeeps ==
  ASSUME ContentInv, Content!DeleteKey
  PROVE  ContentInv'
<1> DEFINE keys == Content!Matching(task.list[1], task.list[2])
           after == [registry EXCEPT !.keys = @ \ keys]
<1>1. task.pc = "delete_key"
  BY DEF Content!DeleteKey, Content!At
<1>2. /\ UNCHANGED profiles
      /\ \/ registry' = after /\ Content!Ends("ok")
         \/ registry' \in {registry, after} /\ Content!Ends("raised")
  BY DEF Content!DeleteKey, Content!Send
<1>3. RegistryOk(registry) /\ TaskOk(registry, task, report)
  BY DEF ContentInv
<1>4. keys = Content!Matching(report.cap, report.aid)
  BY <1>1, <1>3 DEF TaskOk
<1> HIDE DEF keys
<1>5. /\ DOMAIN after = DOMAIN registry /\ after.files = registry.files /\ after.apps = registry.apps
      /\ after.loading = registry.loading /\ LoadingOk(registry.loading) /\ after.keys = registry.keys \ keys
  BY <1>3 DEF RegistryOk
<1> HIDE DEF after
<1>6. RegistryOk(after)
  BY <1>3, <1>5, SameContents
<1>7. RegistryOk(registry')
  BY <1>2, <1>3, <1>6
<1>8. CASE registry' = after /\ Content!Ends("ok")
  <2>1. report.name = "delete_key"
    BY <1>1, TaskFacts DEF NameOf
  <2>2. KeysSaid(registry', report)
    BY <1>4, <1>5, <1>8 DEF KeysSaid
  <2>3. InstalledSaid(registry', report) /\ StoredSaid(registry', report) /\ ListSaid(registry', report)
        /\ ProfileSaid(profiles, report)
    BY <2>1 DEF InstalledSaid, StoredSaid, ListSaid, ProfileSaid
  <2> QED BY <1>2, <1>7, <1>8, <2>2, <2>3, EndingKeeps
<1>9. CASE Content!Ends("raised")
  BY <1>2, <1>7, <1>9, FailingKeeps
<1> QED BY <1>2, <1>8, <1>9

\* What the application has had so far, and what it has then.
Had(r, t) == IF t.nr # 0 /\ r.meant \in DOMAIN r.data THEN r.data[r.meant] ELSE <<>>
LEMMA MoreStored ==
  ASSUME NEW r, NEW t, NEW s, StoredSoFar(r, t, s)
  PROVE  /\ Had(r, t) \o Content!Chunk(t.left, MaxDataLen) \in Seq(Nat)
         /\ Content!Rest(t.left, MaxDataLen) \in Seq(Nat)
         /\ (Had(r, t) \o Content!Chunk(t.left, MaxDataLen)) \o Content!Rest(t.left, MaxDataLen) = s.list
<1>1. t.left \in Seq(Nat) /\ s.list \in Seq(Nat) /\ MaxDataLen \in Nat
  BY ContentAssumption DEF StoredSoFar
<1>2. Had(r, t) \in Seq(Nat) /\ Had(r, t) \o t.left = s.list
  <2>1. CASE t.nr = 0
    <3>1. Had(r, t) = <<>> /\ t.left = s.list
      BY <2>1 DEF StoredSoFar, Had
    <3> QED BY <1>1, <3>1, ConcatEmptySeq
  <2>2. CASE t.nr # 0
    BY <2>2 DEF StoredSoFar, Had
  <2> QED BY <2>1, <2>2
<1>3. Had(r, t) \in Seq(Nat) /\ t.left \in Seq(Nat) /\ MaxDataLen \in Nat
  BY <1>1, <1>2
<1>4. Joined(Nat, Had(r, t), t.left, MaxDataLen)
  BY <1>3, JoinRest
<1> QED BY <1>2, <1>4 DEF Joined

LEMMA StoreDataKeeps ==
  ASSUME ContentInv, Content!StoreData
  PROVE  ContentInv'
<1> DEFINE to == registry.meant
           had == Had(registry, task)
           chunk == Content!Chunk(task.left, MaxDataLen)
           rest == Content!Rest(task.left, MaxDataLen)
           after == [registry EXCEPT !.data = [a \in DOMAIN @ \cup {to} |->
                       IF a = to THEN had \o chunk ELSE @[a]]]
           takes == Content!Fits(task.nr) /\ Len(had) = MaxDataLen * task.nr
<1>1. task.pc = "store"
  BY DEF Content!StoreData, Content!At
<1>2. UNCHANGED profiles
  BY DEF Content!StoreData, Content!Send
<1>3. \/ task.left = <<>> /\ registry' = registry /\ Content!Ends("ok")
      \/ registry' = after /\ task' = [task EXCEPT !.left = rest, !.nr = @ + 1] /\ UNCHANGED report
      \/ registry' \in {registry, after} /\ Content!Ends("raised")
  BY DEF Content!StoreData, Content!Send, Had
<1>4. RegistryOk(registry) /\ TaskOk(registry, task, report)
  BY DEF ContentInv
<1>5. StoredSoFar(registry, task, report)
  BY <1>1, <1>4 DEF TaskOk
<1>6. had \o chunk \in Seq(Nat) /\ rest \in Seq(Nat) /\ (had \o chunk) \o rest = report.list
  BY <1>5, MoreStored
<1> HIDE DEF had, chunk, rest
<1>7. /\ DOMAIN after = DOMAIN registry /\ after.files = registry.files /\ after.apps = registry.apps
      /\ after.loading = registry.loading /\ LoadingOk(registry.loading) /\ after.meant = to
      /\ to \in DOMAIN after.data /\ after.data[to] = had \o chunk
  BY <1>4 DEF RegistryOk
<1> HIDE DEF after
<1>8. RegistryOk(after)
  BY <1>4, <1>7, SameContents
<1>9. /\ DOMAIN task = {"name", "pc", "cap", "aid", "app", "left", "nr", "list"} /\ task.name = "store_data"
      /\ report.name = "store_data" /\ report.how = "under_way" /\ CapMeant(task, report)
  BY <1>1, TaskFacts DEF NameOf
<1>10. CASE task.left = <<>> /\ registry' = registry /\ Content!Ends("ok")
  <2>1. StoredSaid(registry, report)
    <3>1. CASE task.nr = 0
      BY <1>5, <1>10, <3>1 DEF StoredSoFar, StoredSaid
    <3>2. CASE task.nr # 0
      <4>1. /\ report.aid \in DOMAIN registry.data /\ registry.data[report.aid] \in Seq(Nat)
            /\ registry.data[report.aid] \o <<>> = report.list
        BY <1>5, <1>10, <3>2 DEF StoredSoFar
      <4>2. registry.data[report.aid] \o <<>> = registry.data[report.aid]
        BY <4>1, ConcatEmptySeq
      <4> QED BY <4>1, <4>2 DEF StoredSaid
    <3> QED BY <3>1, <3>2
  <2>2. InstalledSaid(registry, report) /\ KeysSaid(registry, report) /\ ListSaid(registry, report)
        /\ ProfileSaid(profiles, report)
    BY <1>9 DEF InstalledSaid, KeysSaid, ListSaid, ProfileSaid
  <2> QED BY <1>2, <1>4, <1>10, <2>1, <2>2, EndingKeeps
<1>11. CASE registry' = after /\ task' = [task EXCEPT !.left = rest, !.nr = @ + 1] /\ UNCHANGED report
  <2>1. /\ DOMAIN task' = DOMAIN task /\ task'.name = task.name /\ task'.pc = "store" /\ task'.cap = task.cap
        /\ task'.nr = task.nr + 1 /\ task'.left = rest
    BY <1>1, <1>9, <1>11
  <2>2. task'.nr \in Nat /\ task'.nr # 0 /\ report.aid = to /\ report.list \in Seq(Nat)
    BY <1>5, <2>1 DEF StoredSoFar
  <2>3. StoredSoFar(after, task', report)
    BY <1>6, <1>7, <2>1, <2>2 DEF StoredSoFar
  <2>4. CapMeant(task', report) /\ task'.name \in NameOf(task')
    BY <1>9, <2>1 DEF CapMeant, NameOf
  <2>5. TaskOk(after, task', report)
    BY <1>9, <2>1, <2>3, <2>4 DEF TaskOk
  <2> QED BY <1>2, <1>8, <1>9, <1>11, <2>5, GoingOnKeeps
<1>12. CASE registry' \in {registry, after} /\ Content!Ends("raised")
  BY <1>2, <1>4, <1>8, <1>12, FailingKeeps
<1> QED BY <1>3, <1>10, <1>11, <1>12

\* The entries up to a place, with a page more.
PageEnd(e, from) == IF from + PageSize < Len(e) THEN from + PageSize ELSE Len(e)
Page(e, from) == SubSeq(e, from + 1, PageEnd(e, from))
PageJoins(e, from) ==
  /\ from + Len(Page(e, from)) = PageEnd(e, from) /\ PageEnd(e, from) \in 0..Len(e)
  /\ SubSeq(e, 1, from) \o Page(e, from) = SubSeq(e, 1, PageEnd(e, from))

LEMMA PageMore ==
  ASSUME NEW S, NEW e \in Seq(S), NEW from \in 0..Len(e)
  PROVE  PageJoins(e, from)
<1> DEFINE to == PageEnd(e, from)
           here == Page(e, from)
<1>1. PageSize \in Nat /\ Len(e) \in Nat
  BY ContentAssumption, LenProperties
<1>2. to \in 0..Len(e) /\ from <= to
  BY <1>1 DEF PageEnd
<1>3. \A i \in 1..Len(e) : e[i] \in S
  BY ElementOfSeq
<1>4. here = SubSeq(e, from + 1, to)
  BY DEF Page
<1>5. from + Len(here) = to /\ to \in 0..Len(e) /\ SubSeq(e, 1, from) \o here = SubSeq(e, 1, to)
  <2> HIDE DEF to, here
  <2>1. Len(here) = IF from + 1 <= to THEN to - (from + 1) + 1 ELSE 0
    BY <1>2, <1>3, <1>4, SubSeqProperties
  <2>2. from + Len(here) = to
    BY <1>1, <1>2, <2>1
  <2>3. 1 \in 1..Len(e) + 1 /\ from \in 1 - 1..Len(e) /\ to \in from..Len(e)
    BY <1>1, <1>2
  <2>4. SubSeq(e, 1, from) \o SubSeq(e, from + 1, to) = SubSeq(e, 1, to)
    BY <2>3, ConcatAdjacentSubSeq
  <2> QED BY <1>2, <1>4, <2>2, <2>4
<1> QED BY <1>5 DEF PageJoins

LEMMA BeginningIsPrefix ==
  ASSUME NEW S, NEW e \in Seq(S), NEW to \in 0..Len(e), NEW list, list = SubSeq(e, 1, to)
  PROVE  Content!IsPrefix(list, e) /\ (to = Len(e) => list = e)
<1>1. Len(e) \in Nat /\ \A i \in 1..Len(e) : e[i] \in S
  BY LenProperties, ElementOfSeq
<1>2. list \in Seq(S) /\ Len(list) = to
  BY <1>1, SubSeqProperties
<1>3. SubSeq(list, 1, Len(list)) = list
  BY <1>2, SubSeqFull
<1>4. to = Len(e) => list = e
  BY SubSeqFull
<1> QED BY <1>1, <1>2, <1>3, <1>4 DEF Content!IsPrefix

LEMMA GetStatusKeeps ==
  ASSUME ContentInv, NEW sw \in {"9000", "6310", "error", "lost"}, Content!GetStatus(sw)
  PROVE  ContentInv'
<1> DEFINE e == EntriesOf(registry)
           from == IF task.pc = "first" THEN 0 ELSE task.nr
           to == PageEnd(e, from)
           here == Page(e, from)
           list == IF sw \in {"9000", "6310"} THEN task.list \o here ELSE task.list
<1>1. task.pc \in {"first", "next"} /\ UNCHANGED <<registry, profiles>>
  BY DEF Content!GetStatus
<1>2. e = Content!Entries
  BY DEF EntriesOf, Content!Entries, Content!Stored, Content!Installed
<1> HIDE DEF e
<1>3. /\ sw = "9000" => ~(from + Len(here) < Len(e))
      /\ IF sw = "6310"
         THEN /\ task' = [task EXCEPT !.pc = "next", !.nr = from + Len(here), !.list = list] /\ UNCHANGED report
         ELSE /\ task' = Content!NoContentJob
              /\ report' = [report EXCEPT !.how = IF sw = "lost" THEN "raised" ELSE "ok", !.list = list,
                                          !.whole = sw = "9000"]
  BY <1>2 DEF Content!GetStatus, Content!GoesOn, Content!At, Page, PageEnd
<1>4. RegistryOk(registry) /\ TaskOk(registry, task, report)
  BY DEF ContentInv
<1>5. from \in 0..Len(e) /\ task.list = SubSeq(e, 1, from)
  BY <1>1, <1>4 DEF TaskOk, ListedSoFar, e
<1>6. PICK S : e \in Seq(S)
  BY <1>4, EntriesFacts DEF e
<1> HIDE DEF from
<1>7. from + Len(here) = to /\ to \in 0..Len(e) /\ SubSeq(e, 1, from) \o here = SubSeq(e, 1, to)
  BY <1>5, <1>6, PageMore DEF PageJoins
<1> HIDE DEF to, here
<1>8. /\ DOMAIN task = {"name", "pc", "cap", "aid", "app", "left", "nr", "list"} /\ task.name = "get_status"
      /\ report.name = "get_status" /\ report.how = "under_way" /\ CapMeant(task, report)
  BY <1>1, TaskFacts DEF NameOf
<1>9. CASE sw = "6310"
  <2>1. list = SubSeq(e, 1, to)
    BY <1>5, <1>7, <1>9
  <2> HIDE DEF list
  <2>2. task' = [task EXCEPT !.pc = "next", !.nr = to, !.list = list] /\ UNCHANGED report
    BY <1>3, <1>7, <1>9
  <2>3. /\ DOMAIN task' = DOMAIN task /\ task'.name = task.name /\ task'.pc = "next" /\ task'.cap = task.cap
        /\ task'.nr = to /\ task'.list = list
    BY <1>8, <2>2
  <2>4. ListedSoFar(registry, task')
    BY <1>7, <2>1, <2>3 DEF ListedSoFar, e
  <2>5. CapMeant(task', report) /\ task'.name \in NameOf(task')
    BY <1>8, <2>3 DEF CapMeant, NameOf
  <2>6. TaskOk(registry, task', report)
    BY <1>8, <2>3, <2>4, <2>5 DEF TaskOk
  <2> QED BY <1>1, <1>4, <1>8, <2>2, <2>6, GoingOnKeeps
<1>10. CASE sw # "6310"
  <2>1. /\ task' = Content!NoContentJob
        /\ report' = [report EXCEPT !.how = IF sw = "lost" THEN "raised" ELSE "ok", !.list = list,
                                    !.whole = sw = "9000"]
    BY <1>3, <1>10
  <2>2. Content!IsPrefix(list, e) /\ (sw = "9000" => list = e)
    <3>1. CASE sw = "9000"
      <4>1. list = SubSeq(e, 1, to) /\ Len(e) \in Nat
        BY <1>5, <1>6, <1>7, <3>1, LenProperties
      <4>2. to = Len(e)
        BY <1>3, <1>7, <3>1, <4>1
      <4> HIDE DEF list
      <4> QED BY <1>6, <1>7, <4>1, <4>2, BeginningIsPrefix
    <3>2. CASE sw # "9000"
      <4>1. list = SubSeq(e, 1, from)
        BY <1>5, <1>10, <3>2
      <4> HIDE DEF list
      <4> QED BY <1>5, <1>6, <3>2, <4>1, BeginningIsPrefix
    <3> QED BY <3>1, <3>2
  <2> HIDE DEF list
  <2>3. DOMAIN report = {"name", "how", "cap", "aid", "list", "whole"}
    BY DEF ContentInv, ReportOk
  <2>4. DOMAIN report' = DOMAIN report /\ report'.name = "get_status" /\ report'.list = list
        /\ (report'.whole <=> sw = "9000")
    BY <1>8, <2>1, <2>3
  <2>5. ListSaid(registry, report')
    BY <2>2, <2>4 DEF ListSaid, e
  <2>6. InstalledSaid(registry, report') /\ StoredSaid(registry, report') /\ KeysSaid(registry, report')
        /\ ProfileSaid(profiles, report')
    BY <2>4 DEF InstalledSaid, StoredSaid, KeysSaid, ProfileSaid
  <2>7. ReportOk(registry, profiles, report')
    BY <2>3, <2>4, <2>5, <2>6 DEF ReportOk
  <2>8. TaskOk(registry, task', report')
    BY <2>1, NoTask
  <2> QED BY <1>1, <2>7, <2>8 DEF ContentInv
<1> QED BY <1>9, <1>10

-----------------------------------------------------------------------------
\* Profiles.
EuiccOps == {"enable", "disable", "delete", "nickname", "reset"}

LEMMA EuiccOk ==
  ASSUME ProfilesOk(profiles), NEW op \in EuiccOps, NEW i, NEW name, Content!EuiccTakes(op, i),
         NEW p, p = Content!EuiccDoes(op, i, name)
  PROVE  /\ ProfilesOk(p)
         /\ op = "enable" => p[i].state = "enabled"
         /\ op = "disable" => p[i].state = "disabled"
         /\ op = "delete" => i \notin DOMAIN p
         /\ op = "nickname" => p[i].nickname = name
<1>1. CASE op = "enable"
  <2>1. p = [j \in DOMAIN profiles |-> [profiles[j] EXCEPT !.state = IF j = i THEN "enabled" ELSE "disabled"]]
    BY <1>1 DEF Content!EuiccDoes
  <2>2. \A j \in DOMAIN p : DOMAIN p[j] = {"state", "nickname"} /\ p[j].state = IF j = i THEN "enabled" ELSE "disabled"
    BY <2>1 DEF ProfilesOk
  <2>3. i \in DOMAIN p
    BY <1>1, <2>1 DEF Content!EuiccTakes
  <2> QED BY <1>1, <2>2, <2>3 DEF ProfilesOk
<1>2. CASE op = "disable"
  <2>1. p = [profiles EXCEPT ![i] = [@ EXCEPT !.state = "disabled"]] /\ i \in DOMAIN profiles
    BY <1>2 DEF Content!EuiccDoes, Content!EuiccTakes
  <2>2. DOMAIN p = DOMAIN profiles /\ DOMAIN p[i] = {"state", "nickname"} /\ p[i].state = "disabled"
        /\ \A j \in DOMAIN p : j # i => p[j] = profiles[j]
    BY <2>1 DEF ProfilesOk
  <2> QED BY <1>2, <2>2 DEF ProfilesOk
<1>3. CASE op = "delete"
  <2>1. p = [j \in DOMAIN profiles \ {i} |-> profiles[j]]
    BY <1>3 DEF Content!EuiccDoes
  <2> QED BY <1>3, <2>1 DEF ProfilesOk
<1>4. CASE op = "nickname"
  <2>1. p = [profiles EXCEPT ![i] = [@ EXCEPT !.nickname = name]] /\ i \in DOMAIN profiles
    BY <1>4 DEF Content!EuiccDoes, Content!EuiccTakes
  <2>2. DOMAIN p = DOMAIN profiles /\ DOMAIN p[i] = {"state", "nickname"} /\ p[i].nickname = name
        /\ p[i].state = profiles[i].state /\ \A j \in DOMAIN p : j # i => p[j] = profiles[j]
    BY <2>1 DEF ProfilesOk
  <2>3. \A j \in DOMAIN p : DOMAIN p[j] = {"state", "nickname"} /\ p[j].state = profiles[j].state
    BY <2>2 DEF ProfilesOk
  <2> QED BY <1>4, <2>2, <2>3 DEF ProfilesOk
<1>5. CASE op = "reset"
  <2>1. DOMAIN p = {}
    BY <1>5 DEF Content!EuiccDoes
  <2> QED BY <1>5, <2>1 DEF ProfilesOk
<1> QED BY <1>1, <1>2, <1>3, <1>4, <1>5 DEF EuiccOps

LEMMA EuiccKeeps ==
  ASSUME ContentInv, NEW op \in EuiccOps, NEW i, NEW name, NEW fate, Content!EuiccCommand(op, i, name, fate)
  PROVE  ContentInv'
<1> DEFINE does == Content!EuiccDoes(op, i, name)
           how == IF Content!Sent(name) /\ fate = "answered"
                  THEN IF Content!EuiccTakes(op, i) THEN "ok" ELSE "refused" ELSE "raised"
<1>1. UNCHANGED <<registry, task>> /\ task.name = "none"
  BY DEF Content!EuiccCommand, Content!Idle
<1>2. profiles' = IF Content!Sent(name) /\ Content!EuiccTakes(op, i) /\ fate # "lost" THEN does ELSE profiles
  BY DEF Content!EuiccCommand
<1>3. report' = [Content!NoReport EXCEPT !.name = op, !.aid = i, !.cap = name, !.how = how]
  BY DEF Content!EuiccCommand
<1>4. how = "ok" => Content!Sent(name) /\ fate = "answered" /\ Content!EuiccTakes(op, i)
  OBVIOUS
<1> HIDE DEF how
<1>5. DOMAIN report' = {"name", "how", "cap", "aid", "list", "whole"} /\ report'.name = op /\ report'.aid = i
      /\ report'.cap = name /\ report'.how = how
  BY <1>3 DEF Content!NoReport
<1>6. ProfilesOk(profiles) /\ RegistryOk(registry) /\ TaskOk(registry, task, report)
  BY DEF ContentInv
<1>7. Content!EuiccTakes(op, i) =>
        /\ ProfilesOk(does)
        /\ op = "enable" => does[i].state = "enabled"
        /\ op = "disable" => does[i].state = "disabled"
        /\ op = "delete" => i \notin DOMAIN does
        /\ op = "nickname" => does[i].nickname = name
  BY <1>6, EuiccOk
<1> HIDE DEF does
<1>8. ProfilesOk(profiles')
  BY <1>2, <1>6, <1>7
<1>9. how = "ok" => ProfileSaid(profiles', report')
  <2>1. ASSUME how = "ok" PROVE profiles' = does /\ Content!EuiccTakes(op, i)
    BY <1>2, <1>4, <2>1
  <2> QED BY <1>5, <1>7, <2>1 DEF ProfileSaid
<1>10. op \notin {"install_cap", "store_data", "delete_key", "get_status"}
  BY DEF EuiccOps
<1>11. ReportOk(registry', profiles', report')
  BY <1>5, <1>9, <1>10 DEF ReportOk, InstalledSaid, StoredSaid, KeysSaid, ListSaid
<1>12. TaskOk(registry', task', report')
  <2>1. task.pc = "none" /\ task.cap = "none"
    BY <1>1, <1>6 DEF TaskOk, NameOf, CapMeant
  <2> QED BY <1>1, <1>6, <2>1 DEF TaskOk, CapMeant
<1> QED BY <1>1, <1>6, <1>8, <1>11, <1>12 DEF ContentInv

-----------------------------------------------------------------------------
LEMMA ContentStarts == Content!ContentInit => ContentInv
<1> SUFFICES ASSUME Content!ContentInit PROVE ContentInv
  OBVIOUS
<1>1. task = Content!NoContentJob /\ report = Content!NoReport
  BY DEF Content!ContentInit
<1>2. /\ DOMAIN registry = {"files", "apps", "locked", "keys", "loading", "meant", "data"}
      /\ DOMAIN registry.files = {} /\ DOMAIN registry.apps = {} /\ registry.loading = Content!NoLoading
  BY DEF Content!ContentInit
<1>3. RegistryOk(registry)
  BY <1>2, NoLoadingFacts, FS_EmptySet DEF RegistryOk
<1>4. TaskOk(registry, task, report)
  BY <1>1, NoTask
<1>5. \A i \in DOMAIN profiles : DOMAIN profiles[i] = {"state", "nickname"} /\ profiles[i].state = "disabled"
  BY DEF Content!ContentInit, Content!Profile
<1>6. ProfilesOk(profiles)
  BY <1>5 DEF ProfilesOk
<1>7. ReportOk(registry, profiles, report)
  BY <1>1 DEF ReportOk, Content!NoReport
<1> QED BY <1>3, <1>4, <1>6, <1>7 DEF ContentInv

LEMMA ContentKeeps ==
  ASSUME ContentInv, [Content!ContentNext]_contentVars
  PROVE  ContentInv'
<1>1. CASE UNCHANGED contentVars
  <2>1. UNCHANGED <<registry, profiles, task, report>>
    BY <1>1 DEF contentVars
  <2> QED BY <2>1 DEF ContentInv
<1>2. CASE Content!ContentNext
  <2>1. CASE \E c \in DOMAIN CapFiles, yes \in BOOLEAN : Content!DoInstallCap(c, yes)
    BY <2>1, BeginsInstallCap
  <2>2. CASE \E c \in DOMAIN CapFiles : Content!IsCapFile(CapFiles[c]) /\ Content!DoLoad(c)
    BY <2>2, BeginsLoad
  <2>3. CASE \E aid \in Content!Aids, token, hash \in BOOLEAN : Content!DoInstallForLoad(aid, token, hash)
    BY <2>3, BeginsPlain
  <2>4. CASE \E file \in Content!Aids, app \in Content!AppAids : Content!DoInstallForInstall(file, app)
    BY <2>4, BeginsPlain
  <2>5. CASE \E app \in Content!AppAids : Content!DoInstallForPersonalization(app) \/ Content!DoSetStatus(app)
    BY <2>5, BeginsPlain
  <2>6. CASE \E n \in Payloads : Content!DoStoreData(n)
    BY <2>6, BeginsStoreData, ContentAssumption
  <2>7. CASE \E aid \in Content!Aids \cup Content!AppAids, related \in BOOLEAN :
               Content!DoDeleteCardContent(aid, related)
    BY <2>7, BeginsPlain
  <2>8. CASE \E kvn \in Content!Kvns, kid \in Content!Kids : Content!DoDeleteKey(kvn, kid)
    BY <2>8, BeginsDeleteKey
  <2>9. CASE Content!DoGetStatus \/ Content!ResetCard
    BY <2>9, BeginsGetStatus, ResetKeepsContent
  <2>10. CASE Content!InstallForLoad \/ Content!Load \/ Content!InstallForInstall
              \/ Content!InstallForPersonalization \/ Content!StoreData
    BY <2>10, InstallForLoadKeeps, LoadKeeps, InstallForInstallKeeps, InstallForPersonalizationKeeps,
       StoreDataKeeps
  <2>11. CASE Content!Delete \/ Content!DeleteKey \/ Content!SetStatus
    BY <2>11, DeleteKeeps, DeleteKeyKeeps, SetStatusKeeps
  <2>12. CASE \E sw \in {"9000", "6310", "error", "lost"} : Content!GetStatus(sw)
    BY <2>12, GetStatusKeeps
  <2>13. CASE \E op \in {"enable", "disable", "delete", "nickname", "reset"}, i \in Iccids,
                name \in LongNames \cup {""}, fate \in {"answered", "lost", "no_data"} :
                (op # "nickname" => name = "") /\ Content!EuiccCommand(op, i, name, fate)
    BY <2>13, EuiccKeeps DEF EuiccOps
  <2> QED BY <1>2, <2>1, <2>2, <2>3, <2>4, <2>5, <2>6, <2>7, <2>8, <2>9, <2>10, <2>11, <2>12, <2>13
          DEF Content!ContentNext
<1> QED BY <1>1, <1>2

\* Commands to security domains and eUICCs leave on the card what they say.
LEMMA ContentGives == ContentInv => Content!ContentTrusted
<1> SUFFICES ASSUME ContentInv PROVE Content!ContentTrusted
  OBVIOUS
<1>1. RegistryOk(registry) /\ ProfilesOk(profiles) /\ ReportOk(registry, profiles, report)
  BY DEF ContentInv
<1>2. Content!InstalledIsTheFile
  BY <1>1 DEF ReportOk, InstalledSaid, CodeOf, Content!InstalledIsTheFile, Content!Stored, Content!Installed
<1>3. Content!NothingHalfLoaded
  BY <1>1 DEF RegistryOk, CodeOf, Content!NothingHalfLoaded, Content!Stored, Content!Installed
<1>4. Content!DataWhole /\ Content!KeysAsMeant
  BY <1>1 DEF ReportOk, StoredSaid, KeysSaid, Content!DataWhole, Content!KeysAsMeant
<1>5. Content!StatusIsRegistry
  <2>1. Content!Entries = EntriesOf(registry)
    BY DEF EntriesOf, Content!Entries, Content!Stored, Content!Installed
  <2> QED BY <1>1, <2>1 DEF ReportOk, ListSaid, Content!StatusIsRegistry
<1>6. Content!ShownIsDone
  BY <1>1 DEF ReportOk, ProfileSaid, ProfilesOk, Content!ShownIsDone
<1> QED BY <1>2, <1>3, <1>4, <1>5, <1>6 DEF Content!ContentTrusted

=============================================================================
