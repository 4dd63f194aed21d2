--------------------------- MODULE BinaryTransfer ---------------------------
(***************************************************************************)
(* READ BINARY and UPDATE BINARY of a whole transparent file, in commands  *)
(* of at most 255 bytes: write_file, _write_file_ccho, _read_file_csim and *)
(* _read_file_ccho of src/src/app.py with ATModem.csim_read_binary.  Any   *)
(* command may fail half-way through the file.                             *)
(*                                                                         *)
(* A byte is named by where it belongs: byte i of the data of an update,   *)
(* or of the file of a read, is the number i.                              *)
(***************************************************************************)
EXTENDS Integers, Sequences, SequencesExt

CONSTANTS
  Ops,     \* the transfers requested
  Sizes,   \* bytes to transfer
  Chunk,   \* the most one command carries (255 in the code)
  Reach,   \* the offsets that P1 P2 can name (32768); from there P1 names a short file id
  Padded   \* the ways on which the modem may return more than was asked

TransferOps == {"update_csim", "update_cgla", "read_csim", "read_cgla"}
Updates == {"update_csim", "update_cgla"}

ASSUME BinaryTransferAssumption ==
  /\ Ops \subseteq TransferOps
  /\ Sizes \subseteq Nat
  /\ Chunk \in Nat \ {0}
  /\ Reach \in Nat \ {0}
  /\ Padded \subseteq {"read_csim"}

VARIABLES
  op,      \* the transfer under way
  size,    \* data_len of an update, file_size of a read (0: no FCP)
  offset,  \* bytes the loop counts as done
  file,    \* update: what the card's file holds at each place
  stray,   \* update: a command has gone to another file
  data,    \* read: the bytes collected
  result   \* "none" while the loop runs

vars == <<op, size, offset, file, stray, data, result>>

Old == -1
Strange == -2

Init ==
  /\ op \in Ops
  /\ size \in Sizes
  /\ offset = 0
  /\ file = [i \in 0..(size - 1) |-> Old]
  /\ stray = FALSE
  /\ data = <<>>
  /\ result = "none"

Least(a, b) == IF a <= b THEN a ELSE b

\* chunk_len of the next command.
NextLen == Least(Chunk, size - offset)

\* The card after an UPDATE BINARY at the offset.
Written(n) ==
  [i \in DOMAIN file |-> IF offset <= i /\ i < offset + n THEN i ELSE file[i]]

\* One UPDATE BINARY.  The card answers 9000, or refuses ("error"), or acts and
\* its answer is lost; for all but 9000 the loop breaks and the write has failed.
UpdateSkipping(answer) ==
  /\ op \in Updates /\ result = "none" /\ offset < size
  /\ IF answer # "error" /\ offset < Reach
     THEN file' = Written(NextLen) /\ UNCHANGED stray
     ELSE stray' = (stray \/ answer # "error") /\ UNCHANGED file
  /\ offset' = offset + NextLen
  /\ UNCHANGED <<op, size, data, result>>

Update(answer) ==
  /\ op \in Updates /\ result = "none" /\ offset < size
  /\ IF answer # "error" /\ offset < Reach
     THEN file' = Written(NextLen) /\ UNCHANGED stray
     ELSE stray' = (stray \/ answer # "error") /\ UNCHANGED file
  /\ IF answer = "9000"
     THEN offset' = offset + NextLen /\ UNCHANGED result
     ELSE result' = "error" /\ UNCHANGED offset
  /\ UNCHANGED <<op, size, data>>

\* All sent: the last answer decides, and it was 9000.
Updated ==
  /\ op \in Updates /\ result = "none" /\ offset >= size
  /\ result' = "success"
  /\ UNCHANGED <<op, size, offset, file, stray, data>>

-----------------------------------------------------------------------------
\* The n bytes of the file from the offset on, or of another file beyond Reach.
Bytes(n) == [i \in 1..n |-> IF offset < Reach THEN offset + i - 1 ELSE Strange]

\* A length byte of 0 asks for 256 bytes: so does a file whose size the FCP hides.
Asked(n) == IF n = 0 THEN Chunk + 1 ELSE n

\* What a READ BINARY of n bytes may be answered with.  The file may be shorter
\* than asked for: then fewer bytes come, with the warning 6282.
Answers(n) ==
  {[sw |-> "9000", bytes |-> Bytes(Asked(n))], [sw |-> "error", bytes |-> <<>>]}
  \cup {[sw |-> "6282", bytes |-> Bytes(k)] : k \in 0..(Asked(n) - 1)}
  \cup (IF op \in Padded THEN {[sw |-> "9000", bytes |-> Append(Bytes(Asked(n)), Strange)]} ELSE {})

\* Over AT+CSIM what exceeds the length asked for is cut off.
KeepAll(bytes, n) == bytes
Cut(bytes, n) == IF op = "read_csim" THEN SubSeq(bytes, 1, Least(n, Len(bytes))) ELSE bytes

\* _read_file_*: an error is reported only if there is no data at all.
Judged(sw, bytes) == IF sw # "9000" /\ bytes = <<>> THEN "error" ELSE "success"

\* A file that fits in one command: its answer is the result, whatever its status.
ReadOnce(a) ==
  /\ op \notin Updates /\ result = "none" /\ size <= Chunk
  /\ a \in Answers(size)
  /\ data' = Cut(a.bytes, size)
  /\ result' = Judged(a.sw, data')
  /\ UNCHANGED <<op, size, offset, file, stray>>

\* One READ BINARY of several.  When the loop breaks, over AT+CGLA the status is
\* set to 9000 all the same.
ReadChunk(a) ==
  /\ op \notin Updates /\ result = "none" /\ size > Chunk /\ offset < size
  /\ a \in Answers(NextLen)
  /\ IF a.sw = "9000"
     THEN /\ data' = data \o Cut(a.bytes, NextLen)
          /\ offset' = offset + NextLen
          /\ UNCHANGED result
     ELSE /\ result' = Judged(IF op = "read_cgla" THEN "9000" ELSE a.sw, data)
          /\ UNCHANGED <<data, offset>>
  /\ UNCHANGED <<op, size, file, stray>>

ReadAll ==
  /\ op \notin Updates /\ result = "none" /\ size > Chunk /\ offset >= size
  /\ result' = "success"
  /\ UNCHANGED <<op, size, offset, file, stray, data>>

Done == result # "none" /\ UNCHANGED vars

Next ==
  \/ \E answer \in {"9000", "error", "lost"} : Update(answer)
  \/ Updated
  \/ \E a \in Answers(size) : ReadOnce(a)
  \/ \E a \in Answers(NextLen) : ReadChunk(a)
  \/ ReadAll
  \/ Done

Spec == Init /\ [][Next]_vars

-----------------------------------------------------------------------------
\* Properties.  Reach bounds them: no command names an offset from there on.

\* The bytes below n are the new ones, in their places; the others are the old.
PrefixOf(n) == \A i \in DOMAIN file : file[i] = IF i < n THEN i ELSE Old

\* At every moment of an update the file holds a prefix of the new data and then
\* its old bytes: never a gap, and at most one command more than is counted.
UpdatesInOrder ==
  op \in Updates /\ size <= Reach =>
    PrefixOf(offset) \/ (result = "error" /\ PrefixOf(offset + NextLen))

\* An update that reports success has written all the data, and to this file.
UpdateSuccessIsComplete ==
  op \in Updates /\ size <= Reach /\ result = "success" => PrefixOf(size) /\ ~stray

\* What a read shows is the beginning of the file: no gap, no byte out of place,
\* nothing the modem added, even when commands fail on the way.
ReadsInOrder ==
  op \notin Updates /\ size <= Reach =>
    /\ size > 0 => Len(data) <= size
    /\ \A i \in 1..Len(data) : data[i] = i - 1

=============================================================================
