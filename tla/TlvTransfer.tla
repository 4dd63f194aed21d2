---------------------------- MODULE TlvTransfer ----------------------------
(***************************************************************************)
(* BER-TLV files: write_tlv and _write_tlv_ccho of src/src/app.py (DELETE  *)
(* DATA, then SET DATA with the whole object in one command) and the       *)
(* RETRIEVE DATA loops of _read_file_csim and _read_file_ccho.  One client *)
(* writes and reads one tag again and again, and commands fail.            *)
(*                                                                         *)
(* A value is its length and a number that tells it from the others.  What *)
(* the two ways to the card share is one exchange here: AT+CGLA answers at *)
(* once, AT+CSIM perhaps after a GET RESPONSE (ATModem.csim_send).         *)
(***************************************************************************)
EXTENDS Integers, Sequences, SequencesExt

CONSTANTS
  Lengths,    \* lengths of the values written
  Segments,   \* into how many parts the card may cut an object it returns
  MaxCalls,   \* bound: requests
  MaxLosses   \* bound: exchanges that go wrong

ASSUME TlvTransferAssumption ==
  /\ Lengths \subseteq Nat
  /\ Segments \subseteq Nat \ {0}
  /\ MaxCalls \in Nat
  /\ MaxLosses \in Nat

VARIABLES
  object,  \* the card: the object under the tag
  sent,    \* the card: parts of the object returned since the first RETRIEVE
  call,    \* the request under way, or the last one
  part,    \* the parts a read has collected
  told,    \* its answer
  calls,   \* requests so far
  losses   \* exchanges that went wrong so far

tlvVars == <<object, sent, call, part, told, calls, losses>>

NoObject == [len |-> 0, id |-> 0]
NoCall == [pc |-> "idle", op |-> "none", value |-> NoObject, cut |-> 1, lossless |-> TRUE]

TlvInit ==
  /\ object \in {NoObject} \cup {[len |-> n, id |-> -1] : n \in Lengths}
  /\ sent = 0
  /\ call = NoCall
  /\ part = <<>>
  /\ told = "none"
  /\ calls = 0
  /\ losses = 0

-----------------------------------------------------------------------------
\* The SET DATA command that carries a value of n bytes.

\* Its BER length: one byte, 81 and a byte, 82 and two.
BerLength(n) ==
  CASE n <= 127 -> <<n>>
    [] n > 127 /\ n <= 255 -> <<129, n>>
    [] OTHER -> <<130, n \div 256, n % 256>>

\* The bytes after Lc, and the hexadecimal digits that '{lc:02X}' prints for it.
TlvSize(n) == 1 + Len(BerLength(n)) + n
Digits(lc) == IF lc < 256 THEN 2 ELSE IF lc < 4096 THEN 3 ELSE 4

\* The card: the length that a BER length field says, -1 if it is malformed.
BerValue(b) ==
  CASE b[1] <= 127 -> IF Len(b) = 1 THEN b[1] ELSE -1
    [] b[1] = 129 -> IF Len(b) = 2 THEN b[2] ELSE -1
    [] b[1] = 130 -> IF Len(b) = 3 THEN 256 * b[2] + b[3] ELSE -1
    [] OTHER -> -1

\* An odd number of digits is no APDU at all; four make an Lc byte that says less
\* than what follows.  Otherwise the object's own length has to fill the command.
Acceptable(n) == Digits(TlvSize(n)) = 2 /\ BerValue(BerLength(n)) = n

-----------------------------------------------------------------------------
\* How one exchange ends: the card acts and answers, or acts and its answer is
\* lost, or never gets the command.
Ends(r) ==
  \/ r = "ok" /\ UNCHANGED losses
  \/ r \in {"lost", "fail"} /\ losses < MaxLosses /\ losses' = losses + 1

Lossless(r) == call.lossless /\ r = "ok"

\* A request: write a value of n bytes, or read.  The page deletes an object by a write
\* of nothing; an empty value ('8000' in its table) is the same request.
TlvCall(op, n) ==
  /\ call.pc = "idle" /\ calls < MaxCalls
  /\ calls' = calls + 1
  /\ \E k \in IF op = "read" THEN Segments ELSE {1} :
       call' = [pc |-> IF op = "read" THEN "retrieve" ELSE "delete", op |-> op,
                value |-> IF n > 0 THEN [len |-> n, id |-> calls'] ELSE NoObject,
                cut |-> k, lossless |-> TRUE]
  /\ part' = <<>>
  /\ told' = "none"
  /\ UNCHANGED <<object, sent, losses>>

\* DELETE DATA.  Nobody looks at its answer, and without a value it was all ('if data').
DeleteData(r) ==
  /\ call.pc = "delete"
  /\ Ends(r)
  /\ object' = IF r = "fail" THEN object ELSE NoObject
  /\ call' = [call EXCEPT !.pc = IF call.value.len > 0 THEN "set" ELSE "idle",
                          !.lossless = Lossless(r)]
  /\ told' = IF call.value.len > 0 THEN told ELSE "success"
  /\ UNCHANGED <<sent, part, calls>>

\* SET DATA of the whole object.  The card may also be out of memory.
SetAnswerIgnored(ok) == "success"
SetAnswer(ok) == IF ok THEN "success" ELSE "error"

SetData(r, room) ==
  /\ call.pc = "set"
  /\ Ends(r)
  /\ LET accepted == room /\ Acceptable(call.value.len) IN
     /\ object' = IF accepted /\ r # "fail" THEN call.value ELSE object
     /\ call' = [call EXCEPT !.pc = "idle", !.lossless = Lossless(r) /\ room]
     /\ told' = SetAnswer(accepted /\ r = "ok")
  /\ UNCHANGED <<sent, part, calls>>

-----------------------------------------------------------------------------
\* The read: "while sw.startswith('62')".
GoesOnAlways(sw) == TRUE
GoesOnNever(sw) == FALSE
GoesOn(sw) == sw = "62"

\* Failure only when there is no data and the last status is not 90.
Retrieved(sw, data) == IF data = <<>> /\ sw # "90" THEN "error" ELSE "success"

\* One RETRIEVE DATA: the first names the tag and begins anew, the next ones go
\* on from where the card stopped.
Retrieve(r) ==
  LET begun == IF call.pc = "retrieve" THEN 0 ELSE sent
      more == object # NoObject /\ begun < call.cut
      sw == CASE r # "ok" -> ""
              [] r = "ok" /\ ~more -> "6A"
              [] OTHER -> IF begun + 1 < call.cut THEN "62" ELSE "90"
      data == IF more /\ r = "ok" THEN Append(part, begun + 1) ELSE part
  IN /\ call.pc \in {"retrieve", "next"}
     /\ Ends(r)
     /\ sent' = IF more /\ r # "fail" THEN begun + 1 ELSE begun
     /\ part' = data
     /\ call' = [call EXCEPT !.pc = IF GoesOn(sw) THEN "next" ELSE "idle",
                             !.lossless = Lossless(r)]
     /\ told' = IF GoesOn(sw) THEN told ELSE Retrieved(sw, data)
     /\ UNCHANGED <<object, calls>>

Outcomes == {"ok", "lost", "fail"}

TlvStep ==
  \/ \E r \in Outcomes : DeleteData(r) \/ Retrieve(r)
  \/ \E r \in Outcomes, room \in BOOLEAN : SetData(r, room)

TlvNext ==
  \/ \E n \in Lengths \cup {0} : TlvCall("write", n)
  \/ TlvCall("read", 0)
  \/ TlvStep
  \/ call.pc = "idle" /\ calls = MaxCalls /\ UNCHANGED tlvVars

-----------------------------------------------------------------------------
\* Properties.

Answered == call.pc = "idle" /\ told # "none"

\* A write that answers success has left exactly its value on the card, after
\* the DELETE before it, whatever became of that one; one of an empty value has
\* left no object if its DELETE was carried out, which it does not look at (app.py
\* 660-664).  And a value whose object fits in one command (255 bytes with tag and
\* length) is written: no length at the edges of the BER forms makes the card refuse it.
WriteSuccessIsStored ==
  Answered /\ call.op = "write" =>
    /\ told = "success" /\ (call.value.len > 0 \/ call.lossless) => object = call.value
    /\ call.lossless /\ call.value.len + (IF call.value.len < 128 THEN 2 ELSE 3) <= 255
         => told = "success"

\* A read shows the object's parts from the first on, in order and all of them
\* unless an exchange failed.
ReadShowsObject ==
  Answered /\ call.op = "read" =>
    /\ \A i \in 1..Len(part) : part[i] = i
    /\ call.lossless /\ object # NoObject => Len(part) = call.cut /\ told = "success"
    /\ object = NoObject => told = "error"

\* The RETRIEVE loop ends: it goes on only while the card says it has more.
RetrieveEnds == call.pc \in {"retrieve", "next"} ~> call.pc = "idle"

=============================================================================
