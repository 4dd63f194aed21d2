---------------------------- MODULE CardCommands ----------------------------
(***************************************************************************)
(* pySim/commands.py and the calls of pySim/runtime.py that lead to it:    *)
(* reading and updating the selected EF in pieces, with the comparison     *)
(* before a write (conserve) and after it (verify), and SET DATA.          *)
(*                                                                         *)
(* The file is transparent, one record, or a BER-TLV object: a sequence of *)
(* bytes.  The selections around each call are left out.                   *)
(***************************************************************************)
EXTENDS Naturals, Sequences, SequencesExt

CONSTANTS
  FileContents, \* what the EF may hold: sequences of bytes
  CallData,     \* what a call may be given to write
  Ff,           \* the byte records are padded with
  MaxCmdLen,    \* max_cmd_len: bytes in one command, 255 less what a channel needs
  MaxFlaws      \* bound: exchanges that do not go by the book

VARIABLES
  file,   \* the content of the EF on the card
  call,   \* the call under way, or the last one
  flaws   \* what went wrong in it

commandVars == <<file, call, flaws>>

NoCall == [op |-> "none", data |-> <<>>, offset |-> 0, conserve |-> FALSE, verify |-> FALSE,
           pc |-> "idle", at |-> 0, got |-> <<>>, sent |-> 0, before |-> <<>>, result |-> "none"]
NoFlaws == [count |-> 0, lied |-> FALSE]

CommandsInit == file = <<>> /\ call = NoCall /\ flaws = NoFlaws

-----------------------------------------------------------------------------
\* The data of a call.

\* expand_hex: "a..b" is filled up to the length of the whole file, whatever the
\* offset; it stays as it is when nothing is missing.
Expand(ends, length) ==
  IF length <= Len(ends) THEN ends
  ELSE [i \in 1..length |-> IF i < length THEN ends[1] ELSE ends[2]]

\* The record's padding, on the right or, where the file asks for it, on the left.
Pad(data, length, left) ==
  LET ff == [i \in 1..(length - Len(data)) |-> Ff]
  IN IF left THEN ff \o data ELSE data \o ff

-----------------------------------------------------------------------------
\* The card: what it does with one READ or UPDATE and whether it says so.  91xx
\* says that it was done, and counts as a failure here.  A worn-out memory may
\* report success and keep what it had.

Outcomes == {"ok", "hidden", "refused", "lie"}
Fits(offset, n) == offset + n <= Len(file)
Flawed(outcome) ==
  /\ outcome # "ok" => flaws.count < MaxFlaws
  /\ flaws' = IF outcome = "ok" THEN flaws
              ELSE [count |-> flaws.count + 1, lied |-> flaws.lied \/ outcome = "lie"]

Overwrite(f, offset, bytes) ==
  [i \in 1..Len(f) |->
     IF i > offset /\ i <= offset + Len(bytes) THEN bytes[i - offset] ELSE f[i]]

-----------------------------------------------------------------------------
\* The calls.

SliceFront(s, from, n) == SubSeq(s, 1, n)
Slice(s, from, n) == SubSeq(s, from + 1, from + n)
Piece(total) == IF MaxCmdLen < total THEN MaxCmdLen ELSE total

\* RuntimeLchan.update_binary and update_record compare the length with the file's
\* before anything is expanded; longer data is refused.
Accepted(op, given, offset, length) ==
  CASE op = "binary" -> given + offset <= length
    [] op = "record" -> given <= length /\ offset = 0
    [] op = "object" -> given > 0 /\ offset = 0
    [] op = "read" -> given + offset <= length

CallFile(op, content, data, spread, offset, conserve, verify, left) ==
  LET whole == IF spread THEN Expand(data, Len(content)) ELSE data
      padded == IF op = "record" THEN Pad(whole, Len(content), left) ELSE whole
  IN /\ op = "object" => ~conserve /\ ~verify
     /\ spread => op # "object" /\ Len(data) = 2
     /\ Accepted(op, Len(data), offset, Len(content))
     /\ file' = content
     /\ flaws' = NoFlaws
     /\ call' = [NoCall EXCEPT !.op = op, !.data = padded, !.offset = offset,
                               !.conserve = conserve, !.verify = verify, !.before = content,
                               !.pc = IF conserve THEN "compare" ELSE "update"]

CallRead(content, n, offset) ==
  /\ Accepted("read", n, offset, Len(content))
  /\ file' = content
  /\ flaws' = NoFlaws
  /\ call' = [NoCall EXCEPT !.op = "read", !.data = Slice(content, offset, n),
                            !.offset = offset, !.before = content, !.pc = "read"]

Give(result) == [call EXCEPT !.pc = "idle", !.result = result]

\* read_binary (for a record, one READ RECORD).  Reading nothing raises, as the
\* status word was never set.  What a call read decides how it goes on.
AfterRead(got) ==
  CASE call.pc = "read" -> Give("returned")
    [] call.pc = "compare" ->
         IF got = call.data THEN Give("skipped") ELSE [call EXCEPT !.pc = "update", !.at = 0, !.got = <<>>]
    [] call.pc = "verify" -> Give(IF got = call.data THEN "returned" ELSE "mismatch")
AfterReadFailed ==
  IF call.pc = "compare" THEN [call EXCEPT !.pc = "update", !.at = 0, !.got = <<>>]
  ELSE Give("raised")

ReadFrom == call.offset + call.at
ReadPiece(outcome) ==
  LET n == Piece(Len(call.data) - call.at)
      got == call.got \o SubSeq(file, ReadFrom + 1, ReadFrom + n)
  IN /\ call.pc \in {"read", "compare", "verify"} /\ outcome # "lie"
     /\ IF n = 0 THEN outcome = "ok" /\ UNCHANGED flaws ELSE Flawed(outcome)
     /\ call' = IF n = 0 \/ outcome # "ok" \/ ~Fits(ReadFrom, n) THEN AfterReadFailed
                ELSE IF call.at + n = Len(call.data) THEN AfterRead(got)
                ELSE [call EXCEPT !.at = @ + n, !.got = got]
     /\ UNCHANGED file

\* update_binary and update_record: one UPDATE after the other.  set_data: blocks,
\* of which the last one makes the card take the object.  The chunk loop over no
\* data leaves chunk_sw unset, which raises.
Stored(outcome, n) ==
  LET bytes == Slice(call.data, call.at, n)
  IN IF outcome \in {"refused", "lie"} THEN file
     ELSE IF call.op = "object"
          THEN IF call.at + n = Len(call.data) THEN call.data ELSE file
     ELSE IF Fits(call.offset + call.at, n) THEN Overwrite(file, call.offset + call.at, bytes)
     ELSE file
Done ==
  IF call.verify THEN [call EXCEPT !.pc = "verify", !.at = 0, !.got = <<>>] ELSE Give("returned")
NextAt(n) == call.at + n
Refused(n) == Give("raised")
UpdatePiece(outcome) ==
  LET n == Piece(Len(call.data) - call.at)
      fits == call.op = "object" \/ Fits(call.offset + call.at, n)
  IN /\ call.pc = "update" /\ n > 0
     /\ Flawed(outcome)
     /\ file' = Stored(outcome, n)
     /\ call' = [IF outcome \notin {"ok", "lie"} \/ ~fits THEN Refused(n)
                 ELSE IF NextAt(n) >= Len(call.data) THEN Done
                 ELSE [call EXCEPT !.at = NextAt(n)]
                 EXCEPT !.sent = call.sent + 1]
UpdateNothing ==
  /\ call.pc = "update" /\ call.data = <<>>
  /\ call' = Give("raised")
  /\ UNCHANGED <<file, flaws>>

CommandsNext ==
  \/ /\ call = NoCall
     /\ \E op \in {"binary", "record", "object"}, content \in FileContents, data \in CallData,
           offset \in 0..1, spread, conserve, verify, left \in BOOLEAN :
          CallFile(op, content, data, spread, offset, conserve, verify, left)
  \/ /\ call = NoCall
     /\ \E content \in FileContents, data \in CallData, offset \in 0..1 :
          CallRead(content, Len(data), offset)
  \/ \E outcome \in Outcomes : ReadPiece(outcome) \/ UpdatePiece(outcome)
  \/ UpdateNothing

CommandsSpec == CommandsInit /\ [][CommandsNext]_commandVars

-----------------------------------------------------------------------------
\* Properties.

CallOver == call.pc = "idle" /\ call.result # "none"
WasWritten(n) == Overwrite(call.before, call.offset, SubSeq(call.data, 1, n))

\* An update that returned has changed the file to just the data, in its range and
\* nowhere else; with verify, even when the card lies.
UpdateIsStored ==
  /\ CallOver /\ call.op \in {"binary", "record"} /\ call.result = "returned" =>
       flaws.lied \/ file = WasWritten(Len(call.data))
  /\ CallOver /\ call.op = "object" /\ call.result = "returned" =>
       flaws.lied \/ file = call.data

\* With verify an update that returns is in the file whatever the card said.
VerifyCatches ==
  CallOver /\ call.verify /\ call.result = "returned" => file = WasWritten(Len(call.data))

\* An update that raised wrote whole pieces from the front: never a later one
\* without those before it, and an object only when its last piece was taken.
FailedUpdateIsPrefix ==
  /\ CallOver /\ call.op \in {"binary", "record"} /\ call.result = "raised" /\ ~flaws.lied =>
       \E n \in 0..Len(call.data) : file = WasWritten(n)
  /\ CallOver /\ call.op = "object" => file \in {call.before, call.data}

\* A write is spared only when the file already had the data.
SkippedIsEqual ==
  CallOver /\ call.result = "skipped" =>
    call.sent = 0 /\ file = call.before /\ file = WasWritten(Len(call.data))

\* Of a record that was updated nothing old is left, however short the data was.
RecordIsReplaced ==
  CallOver /\ call.op = "record" /\ call.result = "returned" /\ ~flaws.lied => file = call.data

\* Together: what an update says of the file is so.
UpdatesTrusted ==
  UpdateIsStored /\ VerifyCatches /\ FailedUpdateIsPrefix /\ SkippedIsEqual /\ RecordIsReplaced

=============================================================================
