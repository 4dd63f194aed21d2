-------------------------- MODULE TransfersProofs --------------------------
(***************************************************************************)
(* Updates and reads of a transparent file, for every length of it and of  *)
(* a command, and of an object of a BER-TLV file, for every length of it   *)
(* and however many parts the card returns it in; and the page's editors   *)
(* of a file's contents, for every file, its rules, and what the user does.*)
(***************************************************************************)
EXTENDS Transfers, SequenceTheorems, WellFoundedInduction, TLAPS

\* A step of the binary transfers, or none: the other kinds leave them alone.
LEMMA BinaryStep == [TransfersNext]_transferVars => [Next]_vars
BY DEF TransfersNext, transferVars

\* Likewise for the objects.
LEMMA TlvStepOrNone == [TransfersNext]_transferVars => [TlvNext]_tlvVars
BY DEF TransfersNext, transferVars

\* The loop counts exactly the commands that were answered with 9000.
LoopInv ==
  /\ size \in Nat
  /\ op \in Updates => offset \in 0..size
  /\ DOMAIN file = 0..(size - 1)
  /\ op \in Updates /\ size <= Reach =>
       /\ ~stray
       /\ PrefixOf(offset) \/ (result = "error" /\ PrefixOf(offset + NextLen))
       /\ result # "error" => PrefixOf(offset)
       /\ result = "success" => offset = size

\* A command carries some bytes, and none beyond the end of the data.
LEMMA NextLenFacts ==
  ASSUME size \in Nat, offset \in 0..size, offset < size
  PROVE  NextLen \in Nat /\ NextLen > 0 /\ offset + NextLen <= size
BY BinaryTransferAssumption DEF NextLen, Least

\* Writing the next command's bytes makes the prefix longer by them.
LEMMA WrittenFacts ==
  ASSUME DOMAIN file = 0..(size - 1), size \in Nat, offset \in 0..size, offset < size,
         PrefixOf(offset)
  PROVE  /\ DOMAIN Written(NextLen) = 0..(size - 1)
         /\ \A i \in 0..(size - 1) :
              Written(NextLen)[i] = IF i < offset + NextLen THEN i ELSE Old
BY NextLenFacts DEF Written, PrefixOf

\* The loop invariant holds throughout every transfer.
LEMMA LoopCorrect == TransfersSpec => []LoopInv
<1>1. Init \/ AnyBinary => LoopInv
  <2>1. Init => LoopInv
    BY BinaryTransferAssumption DEF Init, LoopInv, PrefixOf
  <2>2. ASSUME AnyBinary PROVE LoopInv
    <3>1. op \notin Updates /\ size = 0 /\ file = <<>>
      BY <2>2 DEF AnyBinary, Updates
    <3>2. DOMAIN file = 0..(size - 1)
      BY <3>1
    <3> QED BY <3>1, <3>2 DEF LoopInv
  <2> QED BY <2>1, <2>2
<1>2. LoopInv /\ [Next]_vars => LoopInv'
  <2> SUFFICES ASSUME LoopInv, [Next]_vars PROVE LoopInv'
    OBVIOUS
  <2>1. ASSUME NEW answer \in {"9000", "error", "lost"}, Update(answer)
        PROVE  LoopInv'
    <3>1. /\ op \in Updates /\ op' = op /\ size' = size /\ offset < size /\ result = "none"
          /\ size \in Nat /\ offset \in 0..size
      BY <2>1 DEF Update, LoopInv
    <3>2. NextLen \in Nat /\ NextLen > 0 /\ offset + NextLen <= size
      BY <3>1, NextLenFacts
    <3>3. DOMAIN file' = 0..(size - 1)
      BY <2>1, <3>1 DEF Update, LoopInv, Written
    <3>4. CASE size > Reach
      <4>1. ~(size <= Reach) /\ offset' \in 0..size
        BY <2>1, <3>1, <3>2, <3>4, BinaryTransferAssumption DEF Update
      <4> QED BY <3>1, <3>3, <4>1 DEF LoopInv
    <3>5. CASE size <= Reach
      <4>1. PrefixOf(offset) /\ ~stray /\ offset < Reach
        BY <3>1, <3>5, BinaryTransferAssumption DEF LoopInv
      <4>2. CASE answer = "9000"
        <5>1. file' = Written(NextLen) /\ stray' = stray /\ offset' = offset + NextLen /\ result' = result
          BY <2>1, <4>1, <4>2 DEF Update
        <5>2. \A i \in DOMAIN file' : file'[i] = IF i < offset' THEN i ELSE Old
          BY <3>1, <3>3, <4>1, <5>1, WrittenFacts DEF LoopInv
        <5> QED BY <3>1, <3>2, <3>3, <4>1, <5>1, <5>2 DEF LoopInv, PrefixOf
      <4>3. CASE answer = "lost"
        <5>1. file' = Written(NextLen) /\ stray' = stray /\ offset' = offset /\ result' = "error"
          BY <2>1, <4>1, <4>3 DEF Update
        <5>2. \A i \in DOMAIN file' : file'[i] = IF i < offset + NextLen THEN i ELSE Old
          BY <3>1, <3>3, <4>1, <5>1, WrittenFacts DEF LoopInv
        <5>3. NextLen' = NextLen
          BY <3>1, <5>1 DEF NextLen, Least
        <5> QED BY <3>1, <3>2, <3>3, <4>1, <5>1, <5>2, <5>3 DEF LoopInv, PrefixOf
      <4>4. CASE answer = "error"
        <5>1. file' = file /\ ~stray' /\ offset' = offset /\ result' = "error"
          BY <2>1, <4>1, <4>4 DEF Update
        <5> QED BY <3>1, <3>3, <4>1, <5>1 DEF LoopInv, PrefixOf
      <4> QED BY <4>2, <4>3, <4>4
    <3> QED BY <3>1, <3>4, <3>5, BinaryTransferAssumption
  <2>2. CASE Updated
    BY <2>2 DEF Updated, LoopInv, PrefixOf
  <2>3. CASE op \notin Updates /\ op' = op /\ size' = size /\ file' = file
    BY <2>3 DEF LoopInv
  <2>4. CASE UNCHANGED vars
    BY <2>4 DEF vars, LoopInv, PrefixOf, NextLen
  <2> QED BY <2>1, <2>2, <2>3, <2>4 DEF Next, ReadOnce, ReadChunk, ReadAll, Done
<1>3. TransfersInit => Init \/ AnyBinary
  BY DEF TransfersInit
<1> QED BY <1>1, <1>2, <1>3, BinaryStep, PTL DEF TransfersSpec

\* A file shows a prefix of the new data at every moment of an update.
THEOREM UpdateInOrder == TransfersSpec => []UpdatesInOrder
<1>1. LoopInv => UpdatesInOrder
  BY DEF LoopInv, UpdatesInOrder
<1> QED BY <1>1, LoopCorrect, PTL

\* An update that reports success wrote all of the data, whatever the length.
THEOREM UpdateComplete == TransfersSpec => []UpdateSuccessIsComplete
<1>1. LoopInv => UpdateSuccessIsComplete
  BY DEF LoopInv, UpdateSuccessIsComplete
<1> QED BY <1>1, LoopCorrect, PTL

-----------------------------------------------------------------------------
\* Reads.

\* What has been collected when a command begins is what the loop counts.
ReadInv ==
  /\ op \in TransferOps /\ size \in Nat
  /\ op \notin Updates /\ size <= Reach =>
       /\ offset \in 0..size
       /\ size <= Chunk => offset = 0
       /\ data \in Seq(Int)
       /\ result = "none" => Len(data) = offset
       /\ size > 0 => Len(data) <= size
       /\ \A i \in 1..Len(data) : data[i] = i - 1

\* The file's own bytes, in their places.
LEMMA BytesFacts ==
  ASSUME NEW n \in Nat, offset \in Nat, offset < Reach
  PROVE  /\ Bytes(n) \in Seq(Int) /\ Len(Bytes(n)) = n
         /\ \A i \in 1..n : Bytes(n)[i] = offset + i - 1
<1>1. Bytes(n) = [i \in 1..n |-> offset + i - 1]
  BY DEF Bytes
<1>2. \A i \in 1..n : offset + i - 1 \in Int
  OBVIOUS
<1> QED BY <1>1, <1>2

\* Whatever the card answers, and the modem adds, a read keeps bytes of the file
\* only, no more than it asked for, and all of them if the status is 9000.
LEMMA CutFacts ==
  ASSUME op \in TransferOps, op \notin Updates, offset \in Nat, offset < Reach,
         NEW n \in Nat, NEW a \in Answers(n)
  PROVE  /\ Cut(a.bytes, n) \in Seq(Int)
         /\ \A i \in 1..Len(Cut(a.bytes, n)) : Cut(a.bytes, n)[i] = offset + i - 1
         /\ n > 0 => Len(Cut(a.bytes, n)) <= n
         /\ n > 0 /\ a.sw = "9000" => Len(Cut(a.bytes, n)) = n
<1> DEFINE m == Asked(n)
<1>1. m \in Nat /\ (n > 0 => m = n) /\ m > 0
  BY BinaryTransferAssumption DEF Asked
<1>2. PICK k \in 0..m : \E b \in BOOLEAN :
        /\ a.bytes = IF b THEN Append(Bytes(k), Strange) ELSE Bytes(k)
        /\ b => op = "read_csim" /\ k = m
        /\ a.sw = "9000" => k = m
  <2>1. CASE a = [sw |-> "9000", bytes |-> Bytes(m)]
    <3>1. m \in 0..m /\ a.bytes = IF FALSE THEN Append(Bytes(m), Strange) ELSE Bytes(m)
      BY <1>1, <2>1
    <3> HIDE DEF m
    <3> QED BY <3>1
  <2>2. CASE a = [sw |-> "error", bytes |-> <<>>]
    <3>1. 0 \in 0..m /\ a.sw # "9000" /\ a.bytes = <<>>
      BY <1>1, <2>2
    <3>2. Bytes(0) \in Seq(Int) /\ Len(Bytes(0)) = 0
      BY BytesFacts
    <3>3. Bytes(0) = <<>>
      BY <3>2, EmptySeq
    <3> QED BY <3>1, <3>3
  <2>3. CASE a \in {[sw |-> "6282", bytes |-> Bytes(k)] : k \in 0..(m - 1)}
    <3>1. PICK k \in 0..(m - 1) : a = [sw |-> "6282", bytes |-> Bytes(k)]
      BY <2>3
    <3>2. k \in 0..m /\ a.sw # "9000" /\ a.bytes = Bytes(k)
      BY <1>1, <3>1
    <3> QED BY <3>2
  <2>4. CASE op \in Padded /\ a = [sw |-> "9000", bytes |-> Append(Bytes(m), Strange)]
    <3>1. op = "read_csim"
      BY <2>4, BinaryTransferAssumption
    <3>2. m \in 0..m /\ a.bytes = IF TRUE THEN Append(Bytes(m), Strange) ELSE Bytes(m)
      BY <1>1, <2>4
    <3> HIDE DEF m
    <3> QED BY <3>1, <3>2
  <2> QED BY <2>1, <2>2, <2>3, <2>4 DEF Answers
<1>3. /\ Bytes(k) \in Seq(Int) /\ Len(Bytes(k)) = k /\ k \in Nat
      /\ \A i \in 1..k : Bytes(k)[i] = offset + i - 1
  BY <1>1, BytesFacts
<1>4. PICK b \in BOOLEAN :
        /\ a.bytes = IF b THEN Append(Bytes(k), Strange) ELSE Bytes(k)
        /\ b => op = "read_csim" /\ k = m
        /\ a.sw = "9000" => k = m
  BY <1>2
<1>5. CASE op # "read_csim"
  <2>1. Cut(a.bytes, n) = Bytes(k)
    BY <1>4, <1>5 DEF Cut
  <2> HIDE DEF m
  <2> QED BY <1>1, <1>3, <1>4, <2>1
<1>6. CASE op = "read_csim"
  <2> DEFINE s == a.bytes  l == Least(n, Len(s))
  <2>1. s \in Seq(Int) /\ Len(s) \in Nat /\ (Len(s) = k \/ (Len(s) = k + 1 /\ k = m))
        /\ \A i \in 1..k : s[i] = offset + i - 1
    <3>1. CASE b
      <4>1. s = Append(Bytes(k), Strange) /\ Strange \in Int
        BY <1>4, <3>1 DEF Strange
      <4>2. k = m
        BY <1>4, <3>1
      <4> HIDE DEF s, m
      <4>3. s \in Seq(Int) /\ Len(s) = k + 1 /\ \A i \in 1..k : s[i] = Bytes(k)[i]
        BY <1>3, <4>1, AppendProperties
      <4> QED BY <1>3, <4>2, <4>3
    <3>2. CASE ~b
      <4>1. s = Bytes(k)
        BY <1>4, <3>2
      <4> HIDE DEF s, m
      <4>2. s \in Seq(Int) /\ Len(s) = k /\ k \in Nat
        BY <1>3, <4>1
      <4>3. \A i \in 1..k : s[i] = offset + i - 1
        BY <1>3, <4>1
      <4> QED BY <4>2, <4>3
    <3> QED BY <3>1, <3>2
  <2>2. n = 0 \/ n >= k
    BY <1>1
  <2> HIDE DEF s, m
  <2>3. l \in Nat /\ l <= n /\ l <= Len(s) /\ l <= k /\ (n > 0 /\ k = n => l = n)
    BY <1>1, <1>3, <2>1, <2>2 DEF Least, l
  <2>4. \A i \in 1..l : s[i] \in Int
    BY <2>1, <2>3, ElementOfSeq
  <2> HIDE DEF l
  <2>5. /\ SubSeq(s, 1, l) \in Seq(Int) /\ Len(SubSeq(s, 1, l)) = l
        /\ \A i \in 1..l : SubSeq(s, 1, l)[i] = s[i]
    BY <2>3, <2>4, SubSeqProperties
  <2>6. Cut(a.bytes, n) = SubSeq(s, 1, l)
    BY <1>6 DEF Cut, s, l
  <2>7. \A i \in 1..l : SubSeq(s, 1, l)[i] = offset + i - 1
    BY <1>3, <2>1, <2>3, <2>5
  <2> QED BY <1>1, <1>4, <2>3, <2>5, <2>6, <2>7
<1> QED BY <1>5, <1>6

\* The invariant of a read holds throughout every transfer.
LEMMA ReadCorrect == TransfersSpec => []ReadInv
<1>1. Init \/ AnyBinary => ReadInv
  <2> SUFFICES ASSUME Init \/ AnyBinary PROVE ReadInv
    OBVIOUS
  <2>1. op \in TransferOps /\ size \in Nat /\ offset = 0 /\ data = <<>>
    <3>1. CASE Init
      BY <3>1, BinaryTransferAssumption DEF Init
    <3>2. CASE AnyBinary
      BY <3>2 DEF AnyBinary, TransferOps
    <3> QED BY <3>1, <3>2
  <2>2. data \in Seq(Int) /\ Len(data) = 0
    BY <2>1, EmptySeq
  <2> QED BY <2>1, <2>2 DEF ReadInv
<1>2. ReadInv /\ [Next]_vars => ReadInv'
  <2> SUFFICES ASSUME ReadInv, [Next]_vars PROVE ReadInv'
    OBVIOUS
  <2>1. CASE op \in Updates /\ op' = op /\ size' = size
    BY <2>1 DEF ReadInv
  <2>2. ASSUME NEW a \in Answers(size), ReadOnce(a) PROVE ReadInv'
    <3>1. /\ op \in TransferOps /\ op \notin Updates /\ size \in Nat /\ size <= Chunk
          /\ op' = op /\ size' = size /\ offset' = offset /\ data' = Cut(a.bytes, size)
          /\ result' # "none"
      BY <2>2 DEF ReadOnce, ReadInv, Judged
    <3>2. CASE size <= Reach
      <4>1. offset = 0 /\ offset \in Nat /\ offset < Reach
        BY <3>1, <3>2, BinaryTransferAssumption DEF ReadInv
      <4>2. /\ data' \in Seq(Int) /\ (size > 0 => Len(data') <= size)
            /\ \A i \in 1..Len(data') : data'[i] = offset + i - 1
        BY <3>1, <4>1, CutFacts
      <4>3. \A i \in 1..Len(data') : data'[i] = i - 1
        BY <4>1, <4>2
      <4> QED BY <3>1, <4>1, <4>2, <4>3 DEF ReadInv
    <3>3. CASE ~(size <= Reach)
      BY <3>1, <3>3 DEF ReadInv
    <3> QED BY <3>2, <3>3
  <2>3. ASSUME NEW a \in Answers(NextLen), ReadChunk(a) PROVE ReadInv'
    <3>1. /\ op \in TransferOps /\ op \notin Updates /\ size \in Nat /\ size > Chunk
          /\ offset < size /\ op' = op /\ size' = size /\ result = "none"
      BY <2>3 DEF ReadChunk, ReadInv
    <3>2. CASE ~(size <= Reach)
      BY <3>1, <3>2 DEF ReadInv
    <3>3. CASE size <= Reach /\ a.sw # "9000"
      <4>1. data' = data /\ offset' = offset /\ result' # "none"
        BY <2>3, <3>3 DEF ReadChunk, Judged
      <4> QED BY <3>1, <3>3, <4>1 DEF ReadInv
    <3>4. CASE size <= Reach /\ a.sw = "9000"
      <4> DEFINE c == Cut(a.bytes, NextLen)
      <4>1. /\ data \in Seq(Int) /\ Len(data) = offset /\ offset \in 0..size /\ offset \in Nat
            /\ \A i \in 1..Len(data) : data[i] = i - 1
        BY <3>1, <3>4 DEF ReadInv
      <4>2. NextLen \in Nat /\ NextLen > 0 /\ offset + NextLen <= size
        BY <3>1, <4>1, NextLenFacts
      <4>3. offset < Reach
        BY <3>1, <3>4, <4>1, BinaryTransferAssumption
      <4>4. c \in Seq(Int) /\ Len(c) = NextLen /\ \A i \in 1..Len(c) : c[i] = offset + i - 1
        BY <3>1, <3>4, <4>1, <4>2, <4>3, CutFacts
      <4>5. data' = data \o c /\ offset' = offset + NextLen /\ result' = result
        BY <2>3, <3>4 DEF ReadChunk
      <4> HIDE DEF c
      <4>6. /\ data' \in Seq(Int) /\ Len(data') = offset + NextLen
            /\ \A i \in 1..(offset + NextLen) :
                 data'[i] = IF i <= offset THEN data[i] ELSE c[i - offset]
        BY <4>1, <4>4, <4>5, ConcatProperties
      <4>7. ASSUME NEW i \in 1..Len(data') PROVE data'[i] = i - 1
        <5>1. CASE i <= offset
          BY <4>1, <4>2, <4>6, <5>1
        <5>2. CASE i > offset
          <6>1. i - offset \in 1..Len(c)
            BY <4>1, <4>2, <4>4, <4>6, <5>2
          <6>2. c[i - offset] = offset + (i - offset) - 1
            BY <4>4, <6>1
          <6> QED BY <4>1, <4>2, <4>6, <5>2, <6>2
        <5> QED BY <4>1, <4>2, <4>6, <5>1, <5>2
      <4>8. offset' \in 0..size /\ Len(data') = offset' /\ Len(data') <= size
        BY <3>1, <4>1, <4>2, <4>5, <4>6
      <4>9. ~(size <= Chunk)
        BY <3>1, BinaryTransferAssumption
      <4> QED BY <3>1, <4>6, <4>7, <4>8, <4>9 DEF ReadInv
    <3> QED BY <3>2, <3>3, <3>4
  <2>4. CASE ReadAll
    BY <2>4 DEF ReadAll, ReadInv
  <2>5. CASE UNCHANGED vars
    BY <2>5 DEF vars, ReadInv
  <2> QED BY <2>1, <2>2, <2>3, <2>4, <2>5 DEF Next, Update, Updated, Done
<1>3. TransfersInit => Init \/ AnyBinary
  BY DEF TransfersInit
<1> QED BY <1>1, <1>2, <1>3, BinaryStep, PTL DEF TransfersSpec

\* A read shows the beginning of the file and nothing else, whichever commands fail
\* and whatever the modem pads its answers with.
THEOREM ReadInOrder == TransfersSpec => []ReadsInOrder
<1>1. ReadInv => ReadsInOrder
  BY DEF ReadInv, ReadsInOrder
<1> QED BY <1>1, ReadCorrect, PTL

-----------------------------------------------------------------------------
\* Objects of BER-TLV files.

Values == [len : Nat, id : Int]

\* What a request may be, at each of its commands.
TlvTypes ==
  /\ object \in Values /\ sent \in Nat /\ calls \in Nat
  /\ call \in [pc : {"idle", "delete", "set", "retrieve", "next"},
               op : {"none", "write", "read"},
               value : Values, cut : Nat \ {0}, lossless : BOOLEAN]
  /\ part \in Seq(Nat)
  /\ call.pc \in {"delete", "set"} => call.op # "read"
  /\ call.value.len = 0 => call.value = NoObject
  /\ call.pc \in {"retrieve", "next"} => call.op = "read"

\* A read has the parts up to the last one the card has sent, and goes on only
\* when no exchange has failed so far and the card has more of an object.
ReadSoFar ==
  /\ call.pc = "retrieve" => part = <<>> /\ call.lossless
  /\ call.pc = "next" =>
       call.lossless /\ object # NoObject /\ sent > 0 /\ sent < call.cut /\ Len(part) = sent
  /\ \A i \in 1..Len(part) : part[i] = i

TlvInv == TlvTypes /\ ReadSoFar /\ WriteSuccessIsStored /\ ReadShowsObject

\* An object that fits in one command has a length that the card reads as it was
\* meant, in each of the BER forms.
LEMMA FittingIsAcceptable ==
  ASSUME NEW n \in Nat, n + (IF n < 128 THEN 2 ELSE 3) <= 255
  PROVE  Acceptable(n)
<1>1. CASE n <= 127
  <2>1. BerLength(n) = <<n>>
    BY <1>1 DEF BerLength
  <2>2. Len(<<n>>) = 1 /\ <<n>>[1] = n
    OBVIOUS
  <2>3. BerValue(<<n>>) = n
    BY <1>1, <2>2 DEF BerValue
  <2> QED BY <1>1, <2>1, <2>2, <2>3 DEF Acceptable, TlvSize, Digits
<1>2. CASE n > 127
  <2>1. n <= 255 /\ ~(n <= 127)
    BY <1>2
  <2>2. BerLength(n) = <<129, n>>
    BY <2>1, <1>2 DEF BerLength
  <2>3. Len(<<129, n>>) = 2 /\ <<129, n>>[1] = 129 /\ <<129, n>>[2] = n
    OBVIOUS
  <2>4. BerValue(<<129, n>>) = n
    BY <2>3 DEF BerValue
  <2> QED BY <1>2, <2>2, <2>3, <2>4 DEF Acceptable, TlvSize, Digits
<1> QED BY <1>1, <1>2

\* The invariant of the requests for objects.
LEMMA ObjectsCorrect == TransfersSpec => []TlvInv
<1>1. TlvInit \/ NoTlv => TlvInv
  <2> SUFFICES ASSUME TlvInit \/ NoTlv PROVE TlvInv
    OBVIOUS
  <2>1. NoObject \in Values /\ \A n \in Lengths : [len |-> n, id |-> -1] \in Values
    <3>1. -1 \in Int
      OBVIOUS
    <3> QED BY <3>1, TlvTransferAssumption DEF NoObject, Values
  <2>2. /\ object \in Values /\ sent = 0 /\ call = NoCall /\ part = <<>> /\ told = "none"
        /\ calls = 0
    BY <2>1 DEF TlvInit, NoTlv
  <2>3. part \in Seq(Nat) /\ Len(part) = 0
    BY <2>2
  <2>4. call \in [pc : {"idle", "delete", "set", "retrieve", "next"},
                  op : {"none", "write", "read"},
                  value : Values, cut : Nat \ {0}, lossless : BOOLEAN]
        /\ call.pc = "idle" /\ call.value = NoObject
    BY <2>1, <2>2 DEF NoCall
  <2> QED BY <2>2, <2>3, <2>4
          DEF TlvInv, TlvTypes, ReadSoFar, WriteSuccessIsStored, ReadShowsObject, Answered
<1>2. TlvInv /\ [TlvNext]_tlvVars => TlvInv'
  <2> SUFFICES ASSUME TlvInv, [TlvNext]_tlvVars PROVE TlvInv'
    OBVIOUS
  <2> USE DEF TlvInv
  <2>1. ASSUME NEW o \in {"write", "read"}, NEW n \in Nat, TlvCall(o, n)
        PROVE  TlvInv'
    <3>1. PICK k \in Nat \ {0} :
            call' = [pc |-> IF o = "read" THEN "retrieve" ELSE "delete", op |-> o,
                     value |-> IF n > 0 THEN [len |-> n, id |-> calls'] ELSE NoObject,
                     cut |-> k, lossless |-> TRUE]
      <4>1. Segments \subseteq Nat \ {0} /\ {1} \subseteq Nat \ {0}
        BY TlvTransferAssumption
      <4> QED BY <2>1, <4>1 DEF TlvCall
    <3>2. part' = <<>> /\ told' = "none" /\ object' = object /\ sent' = sent
          /\ calls' \in Nat
      BY <2>1 DEF TlvCall, TlvTypes
    <3>3. part' \in Seq(Nat) /\ Len(part') = 0
      BY <3>2
    <3> DEFINE v == IF n > 0 THEN [len |-> n, id |-> calls'] ELSE NoObject
    <3>4. v \in Values
      BY <3>2 DEF Values, NoObject
    <3> HIDE DEF v
    <3>5. call'.value = v /\ call'.cut = k /\ call'.lossless = TRUE /\ call'.op = o
          /\ call'.pc = (IF o = "read" THEN "retrieve" ELSE "delete")
          /\ call' \in [pc : {"idle", "delete", "set", "retrieve", "next"},
                        op : {"none", "write", "read"},
                        value : Values, cut : Nat \ {0}, lossless : BOOLEAN]
      <4>1. call' = [pc |-> IF o = "read" THEN "retrieve" ELSE "delete", op |-> o,
                     value |-> v, cut |-> k, lossless |-> TRUE]
        BY <3>1 DEF v
      <4> QED BY <3>4, <4>1
    <3>6. TlvTypes'
      BY <2>1, <3>1, <3>2, <3>3, <3>4, <3>5 DEF TlvTypes
    <3> QED BY <3>2, <3>3, <3>5, <3>6 DEF ReadSoFar, WriteSuccessIsStored, ReadShowsObject, Answered
  <2>2. ASSUME NEW r \in Outcomes, DeleteData(r) PROVE TlvInv'
    <3> DEFINE more == call.value.len > 0
    <3>1. /\ call.pc = "delete" /\ call.op # "read" /\ call.value \in Values
          /\ sent' = sent /\ part' = part /\ calls' = calls
          /\ object' = (IF r = "fail" THEN object ELSE NoObject)
          /\ told' = (IF more THEN told ELSE "success")
      BY <2>2 DEF DeleteData, TlvTypes
    <3>2. object' \in Values
      BY <3>1 DEF TlvTypes, NoObject, Values
    <3>3. call' = [call EXCEPT !.pc = IF more THEN "set" ELSE "idle", !.lossless = Lossless(r)]
          /\ Lossless(r) \in BOOLEAN
      BY <2>2 DEF DeleteData, TlvTypes, Lossless
    <3>4. /\ call'.pc = (IF more THEN "set" ELSE "idle") /\ call'.op = call.op
          /\ call'.value = call.value /\ call'.lossless = Lossless(r)
          /\ call' \in [pc : {"idle", "delete", "set", "retrieve", "next"},
                        op : {"none", "write", "read"},
                        value : Values, cut : Nat \ {0}, lossless : BOOLEAN]
      BY <3>3 DEF TlvTypes
    <3>5. TlvTypes'
      BY <3>1, <3>2, <3>4 DEF TlvTypes
    <3>6. ReadSoFar' /\ ReadShowsObject'
      BY <3>1, <3>4 DEF ReadSoFar, ReadShowsObject, Answered
    <3>7. ASSUME ~more PROVE call'.value = NoObject
      <4>1. call.value.len \in Nat
        BY <3>1 DEF Values
      <4> QED BY <3>4, <3>7, <4>1 DEF TlvTypes
    <3>8. WriteSuccessIsStored'
      BY <3>1, <3>4, <3>7 DEF WriteSuccessIsStored, Answered, Lossless
    <3> QED BY <3>5, <3>6, <3>8
  <2>3. ASSUME NEW r \in Outcomes, NEW room \in BOOLEAN, SetData(r, room) PROVE TlvInv'
    <3> DEFINE accepted == room /\ Acceptable(call.value.len)
    <3>1. /\ call.pc = "set" /\ call.op # "read" /\ sent' = sent /\ part' = part /\ calls' = calls
          /\ object' = IF accepted /\ r # "fail" THEN call.value ELSE object
          /\ told' = IF accepted /\ r = "ok" THEN "success" ELSE "error"
      BY <2>3 DEF SetData, TlvTypes, SetAnswer
    <3>2. call' = [call EXCEPT !.pc = "idle", !.lossless = Lossless(r) /\ room]
          /\ (Lossless(r) /\ room) \in BOOLEAN
      BY <2>3 DEF SetData, Lossless, TlvTypes
    <3>3. /\ call'.pc = "idle" /\ call'.op = call.op /\ call'.value = call.value
          /\ call'.lossless = (Lossless(r) /\ room)
          /\ call.value \in Values
      BY <3>2 DEF TlvTypes
    <3>4. TlvTypes'
      BY <3>1, <3>2 DEF TlvTypes
    <3>5. ReadSoFar' /\ ReadShowsObject'
      BY <3>1, <3>3 DEF ReadSoFar, ReadShowsObject, Answered
    <3>6. WriteSuccessIsStored'
      <4>1. told' = "success" => object' = call'.value
        BY <3>1, <3>3
      <4>2. ASSUME call'.lossless, call'.value.len + (IF call'.value.len < 128 THEN 2 ELSE 3) <= 255
            PROVE  told' = "success"
        <5>1. r = "ok" /\ room
          BY <3>3, <4>2 DEF Lossless
        <5>2. Acceptable(call.value.len)
          BY <3>3, <4>2, FittingIsAcceptable DEF Values
        <5> QED BY <3>1, <5>1, <5>2
      <4> QED BY <4>1, <4>2 DEF WriteSuccessIsStored
    <3> QED BY <3>4, <3>5, <3>6
  <2>4. ASSUME NEW r \in Outcomes, Retrieve(r) PROVE TlvInv'
    <3> DEFINE begun == IF call.pc = "retrieve" THEN 0 ELSE sent
               more == object # NoObject /\ begun < call.cut
               sw == CASE r # "ok" -> ""
                       [] r = "ok" /\ ~more -> "6A"
                       [] OTHER -> IF begun + 1 < call.cut THEN "62" ELSE "90"
               parts == IF more /\ r = "ok" THEN Append(part, begun + 1) ELSE part
    <3>1. /\ call.pc \in {"retrieve", "next"} /\ call.op = "read" /\ call.lossless = TRUE
          /\ begun \in Nat /\ part \in Seq(Nat) /\ Len(part) = begun /\ call.cut \in Nat
          /\ \A i \in 1..Len(part) : part[i] = i
      BY <2>4 DEF Retrieve, TlvTypes, ReadSoFar
    <3>2. /\ sent' = IF more /\ r # "fail" THEN begun + 1 ELSE begun
          /\ part' = parts
          /\ call' = [call EXCEPT !.pc = IF sw = "62" THEN "next" ELSE "idle",
                                  !.lossless = Lossless(r)]
          /\ told' = IF sw = "62" THEN told ELSE Retrieved(sw, parts)
          /\ object' = object /\ calls' = calls
      BY <2>4 DEF Retrieve, GoesOn
    <3>3. /\ part' \in Seq(Nat) /\ Len(part') = (IF more /\ r = "ok" THEN begun + 1 ELSE begun)
          /\ \A i \in 1..Len(part') : part'[i] = i
      <4> HIDE DEF begun, more
      <4>1. CASE more /\ r = "ok"
        <5>1. part' = Append(part, begun + 1)
          BY <3>2, <4>1
        <5>2. part' \in Seq(Nat) /\ Len(part') = begun + 1 /\ part'[begun + 1] = begun + 1
              /\ \A i \in 1..begun : part'[i] = part[i]
          BY <3>1, <5>1, AppendProperties
        <5> QED BY <3>1, <4>1, <5>2
      <4>2. CASE ~(more /\ r = "ok")
        <5>1. part' = part
          BY <3>2, <4>2
        <5> QED BY <3>1, <4>2, <5>1
      <4> QED BY <4>1, <4>2
    <3>4. Lossless(r) = (r = "ok") /\ Lossless(r) \in BOOLEAN
      BY <3>1 DEF Lossless
    <3>5. /\ call'.op = "read" /\ call'.cut = call.cut /\ call'.lossless = (r = "ok")
          /\ call'.pc = (IF sw = "62" THEN "next" ELSE "idle")
      BY <3>1, <3>2, <3>4 DEF TlvTypes
    <3>6. sw = "62" <=> r = "ok" /\ more /\ begun + 1 < call.cut
      OBVIOUS
    <3>7. sw = "90" <=> r = "ok" /\ more /\ ~(begun + 1 < call.cut)
      OBVIOUS
    <3> HIDE DEF sw
    <3>8. TlvTypes'
      <4>1. sent' \in Nat
        BY <3>1, <3>2
      <4> QED BY <3>1, <3>2, <3>3, <3>4, <4>1 DEF TlvTypes
    <3>9. ReadSoFar'
      <4>1. CASE sw = "62"
        <5>1. r = "ok" /\ more /\ begun + 1 < call.cut /\ call'.pc = "next" /\ sent' = begun + 1
              /\ object' # NoObject
          BY <3>2, <3>5, <3>6, <4>1
        <5>2. call'.lossless
          BY <3>5, <5>1
        <5> HIDE DEF begun, more
        <5>3. sent' > 0 /\ sent' < call'.cut /\ Len(part') = sent' /\ call'.pc # "retrieve"
          BY <3>1, <3>3, <3>5, <5>1
        <5> QED BY <3>3, <5>1, <5>2, <5>3 DEF ReadSoFar
      <4>2. CASE sw # "62"
        BY <3>3, <3>5, <4>2 DEF ReadSoFar
      <4> QED BY <4>1, <4>2
    <3>10. WriteSuccessIsStored'
      BY <3>5 DEF WriteSuccessIsStored
    <3>11. ASSUME Answered' PROVE ReadShowsObject'
      <4>1. sw # "62" /\ told' = Retrieved(sw, part')
        BY <3>2, <3>5, <3>11 DEF Answered
      <4>2. ASSUME call'.lossless, object' # NoObject
            PROVE  Len(part') = call'.cut /\ told' = "success"
        <5>1. begun < call.cut
          BY <3>1 DEF ReadSoFar, TlvTypes
        <5>2. r = "ok" /\ more
          BY <3>2, <3>5, <4>2, <5>1
        <5>3. sw = "90" /\ ~(begun + 1 < call.cut)
          BY <3>6, <3>7, <4>1, <5>2
        <5> HIDE DEF begun, more
        <5> QED BY <3>1, <3>3, <3>5, <4>1, <5>1, <5>2, <5>3 DEF Retrieved
      <4>3. ASSUME object' = NoObject PROVE told' = "error"
        <5>1. ~more /\ call.pc = "retrieve" /\ part' = <<>>
          BY <3>1, <3>2, <4>3 DEF ReadSoFar
        <5> QED BY <3>7, <4>1, <5>1 DEF Retrieved
      <4> QED BY <3>3, <4>2, <4>3 DEF ReadShowsObject
    <3> QED BY <3>8, <3>9, <3>10, <3>11 DEF ReadShowsObject
  <2>5. CASE UNCHANGED tlvVars
    BY <2>5 DEF tlvVars, TlvTypes, ReadSoFar, WriteSuccessIsStored, ReadShowsObject, Answered
  <2>6. CASE \E n \in Lengths \cup {0} : TlvCall("write", n)
    BY <2>1, <2>6, TlvTransferAssumption
  <2>7. CASE TlvCall("read", 0)
    BY <2>1, <2>7
  <2> QED BY <2>2, <2>3, <2>4, <2>5, <2>6, <2>7 DEF TlvNext, TlvStep
<1>3. TransfersInit => TlvInit \/ NoTlv
  BY DEF TransfersInit
<1> QED BY <1>1, <1>2, <1>3, TlvStepOrNone, PTL DEF TransfersSpec

\* A write of an object that answers success has stored exactly its value, and one that
\* fits in a command and met no failed exchange answers success, for every length.
THEOREM WrittenObjectIsStored == TransfersSpec => []WriteSuccessIsStored
<1>1. TlvInv => WriteSuccessIsStored
  BY DEF TlvInv
<1> QED BY <1>1, ObjectsCorrect, PTL

\* A read shows the object's parts in order, and all of them unless an exchange
\* failed, in however many parts the card returns them.
THEOREM ReadObjectIsShown == TransfersSpec => []ReadShowsObject
<1>1. TlvInv => ReadShowsObject
  BY DEF TlvInv
<1> QED BY <1>1, ObjectsCorrect, PTL

-----------------------------------------------------------------------------
\* Writing from the page.

IsText(k, t) == t = Edit!Text(t.entries, t.tail) /\ Edit!EntriesFit(k, t.entries)

\* The selected file, with perhaps other contents.
SameFile(t) ==
  /\ Edit!IsFile(t) /\ t.kind = target.kind /\ t.sized = target.sized
  /\ t.mapped = target.mapped /\ t.rules = target.rules

EditTypes ==
  /\ Edit!IsFile(target) /\ Edit!IsSequence(rows) /\ Edit!IsSequence(oldRows)
  /\ IsText(target.kind, box) /\ IsText(target.kind, original)
  /\ edits = [rows |-> edits.rows, typed |-> edits.typed, mistyped |-> edits.mistyped,
              aged |-> edits.aged, stale |-> edits.stale, wrote |-> edits.wrote,
              late |-> edits.late, blind |-> edits.blind, at |-> edits.at]
  /\ \A t \in cache : SameFile(t)
  /\ \A d \in due : target.kind = "service" /\ SameFile(d.file)
  /\ \A w \in awaited :
       /\ w = [text |-> w.text, at |-> w.at, nr |-> w.nr, stage |-> w.stage, seen |-> w.seen]
       /\ w.stage \in {"sent", "stored", "answered"} /\ IsText(target.kind, w.text)
       /\ \A t \in w.seen : SameFile(t)

\* Edit!Tabular of a file's own contents.
Showable(t) ==
  /\ ~t.tail
  /\ t.kind = "service" => t.sized /\ \A i \in DOMAIN t.contents : t.contents[i] => i \in t.mapped
  /\ t.kind = "plmn" =>
       \A i \in DOMAIN t.contents : t.contents[i].net = "free" => t.contents[i] = Edit!FreePlmn

\* A text that differs from the file's only in the entries named.
LocalTo(text, t, is) ==
  /\ DOMAIN text.entries = DOMAIN t.contents /\ ~text.tail
  /\ \A i \in DOMAIN t.contents : text.entries[i] # t.contents[i] => i \in is

\* The card has nothing that the page does not know of; no write has got that far.
Settled == \A w \in awaited : w.stage # "stored"
AllSent == \A w \in awaited : w.stage = "sent"
ShowableTable == target.kind \in Edit!Tables /\ Showable(target)
\* The box may be sent, or has been.
Sendable == "submit" \in buttons \/ \E w \in awaited : w.stage = "sent"

\* Unless writes overlapped or an answer was lost, one is awaited at most, and what the page has
\* or will have in its cache is what the card has.
WaitInv ==
  /\ \A v \in awaited : \A w \in awaited : v = w
  /\ AllSent => cache \subseteq {target} /\ (target.kind # "tlv" => cache # {})
  /\ \A w \in awaited :
       /\ w.stage = "sent" => w.seen \subseteq {target}
       /\ w.stage # "sent" => \A t \in w.seen : Edit!Stored(t, w) = target
       /\ w.stage # "sent" /\ target.kind \notin Edit!Singles => Edit!Contents(target) = w.text
       /\ w.stage = "answered" => cache = {} /\ edits.wrote
       /\ target.kind # "tlv" => w.seen # {}
OriginalInv == target.kind \notin Edit!Singles /\ Settled => original = Edit!Contents(target)
SinglesInv ==
  target.kind \in Edit!Singles /\ ~edits.wrote /\ Settled =>
    rows = target.contents /\ original = Edit!Pick(target, picked)
OldInv ==
  target.kind \in {"service", "acc"} /\ ~edits.wrote /\ ~edits.aged /\ ~Edit!MapDue /\ Settled =>
    oldRows = target.contents
RowsInv ==
  ShowableTable /\ ~edits.aged /\ ~Edit!MapDue /\ Settled =>
    LocalTo(Edit!BoxOf(target, rows), target, edits.rows)
BoxInv ==
  ShowableTable /\ ~edits.stale /\ ~edits.typed /\ Sendable /\ Settled =>
    LocalTo(box, target, edits.rows)
NotSame ==
  Sendable /\ ~edits.late /\ ~edits.wrote /\ ~edits.stale /\ Settled
  /\ (target.kind \in Edit!Tables => Showable(target)) => box # original
\* Who has only waited since writing cannot write again.
QuietInv == ~edits.late /\ awaited # {} => "submit" \notin buttons
PopupInv ==
  phase = "open" /\ ~edits.blind =>
    WaitInv /\ OriginalInv /\ SinglesInv /\ OldInv /\ RowsInv /\ BoxInv /\ NotSame /\ QuietInv

EditInv == EditTypes /\ PopupInv /\ Edit!OpenedByRule /\ Edit!EditsAreLocal
WriteInv ==
  IF kind = "edit" THEN EditInv ELSE ~posted.any /\ phase = "closed" /\ buttons = {}

\* Sequences.
LEMMA SequenceFacts ==
  ASSUME NEW s, Edit!IsSequence(s)
  PROVE  Len(s) \in Nat /\ DOMAIN s = 1..Len(s) /\ s = [i \in DOMAIN s |-> s[i]]
<1> DEFINE S == {s[i] : i \in DOMAIN s}
<1>1. s \in Seq(S)
  BY DEF Edit!IsSequence
<1> HIDE DEF S
<1>2. Len(s) \in Nat /\ DOMAIN s = 1..Len(s) /\ s \in [1..Len(s) -> S]
  BY <1>1, LenProperties
<1> QED BY <1>2

LEMMA IsSequenceOf ==
  ASSUME NEW n \in Nat, NEW s, s = [i \in 1..n |-> s[i]]
  PROVE  Edit!IsSequence(s)
<1> DEFINE S == {s[i] : i \in DOMAIN s}
<1>1. DOMAIN s = 1..n
  OBVIOUS
<1>2. \A i \in 1..n : s[i] \in S
  BY <1>1
<1> HIDE DEF S
<1>3. s \in [1..n -> S]
  BY <1>2
<1>4. s \in Seq(S)
  BY <1>3, SeqDef
<1> QED BY <1>4 DEF Edit!IsSequence, S

\* A sequence made entry by entry.
LEMMA EntryByEntry ==
  ASSUME NEW r, Edit!IsSequence(r), NEW f, f = [i \in DOMAIN r |-> f[i]]
  PROVE  Edit!IsSequence(f)
BY SequenceFacts, IsSequenceOf

LEMMA SequencesOf ==
  ASSUME NEW S, NEW s \in Seq(S)
  PROVE  Edit!IsSequence(s)
<1>1. Len(s) \in Nat /\ s \in [1..Len(s) -> S]
  BY LenProperties
<1> QED BY <1>1, IsSequenceOf

\* What a code typed stands for.
LEMMA NetFacts ==
  ASSUME NEW n, n # ""
  PROVE  /\ Edit!NetOf(n) \notin {"", Edit!ShortMcc, Edit!ShortMnc, Edit!Half}
         /\ n \notin {Edit!ShortMcc, Edit!ShortMnc, Edit!Half} => Edit!NetOf(n) = n
<1>1. n = Edit!ShortMcc => Edit!NetOf(n) = "free"
  BY Zenon DEF Edit!NetOf, Edit!ShortMcc, Edit!ShortMnc, Edit!Half
<1>2. n \in {Edit!ShortMnc, Edit!Half} => Edit!NetOf(n) = "garbled"
  BY Zenon DEF Edit!NetOf, Edit!ShortMcc, Edit!ShortMnc, Edit!Half
<1>3. n \notin {Edit!ShortMcc, Edit!ShortMnc, Edit!Half} => Edit!NetOf(n) = n
  BY Zenon DEF Edit!NetOf
<1> QED BY <1>1, <1>2, <1>3 DEF Edit!ShortMcc, Edit!ShortMnc, Edit!Half

\* A row of a PLMN table makes an entry.
LEMMA RowIsPlmn ==
  ASSUME NEW t, t.kind = "plmn", NEW row
  PROVE  Edit!IsPlmn(Edit!AsEntry(t, row))
<1>1. CASE row.net = ""
  <2>1. Edit!AsEntry(t, row) = [net |-> "free", act |-> "0000"]
    BY <1>1 DEF Edit!AsEntry, Edit!FreePlmn
  <2> QED BY <2>1 DEF Edit!IsPlmn, Edit!ShortMcc, Edit!ShortMnc, Edit!Half
<1>2. CASE row.net # ""
  <2> DEFINE a == IF row.act = "" THEN "0000" ELSE row.act
             n == Edit!NetOf(row.net)
  <2>1. n \notin {"", Edit!ShortMcc, Edit!ShortMnc, Edit!Half}
    BY <1>2, NetFacts
  <2>2. a # ""
    OBVIOUS
  <2>3. Edit!AsEntry(t, row) = [net |-> n, act |-> a]
    BY <1>2 DEF Edit!AsEntry
  <2> HIDE DEF a, n
  <2>4. Edit!IsPlmn([net |-> n, act |-> a])
    BY <2>1, <2>2 DEF Edit!IsPlmn
  <2> QED BY <2>3, <2>4
<1> QED BY <1>1, <1>2

\* The text made from a table.
EntryOf(t, r, i) == IF t.kind = "service" THEN i \in t.mapped /\ r[i] ELSE Edit!AsEntry(t, r[i])
LEMMA BoxEntries ==
  ASSUME NEW t, NEW r, t.kind = "service" => t.sized
  PROVE  Edit!BoxOf(t, r) = Edit!Text([i \in DOMAIN r |-> EntryOf(t, r, i)], FALSE)
<1>1. CASE t.kind = "service"
  <2>1. \A i : EntryOf(t, r, i) = (i \in t.mapped /\ r[i])
    BY <1>1, Zenon DEF EntryOf
  <2>2. Edit!BoxOf(t, r) = Edit!Text([i \in DOMAIN r |-> i \in t.mapped /\ r[i]], FALSE)
    BY <1>1 DEF Edit!BoxOf, Edit!ServiceText
  <2> QED BY <2>1, <2>2, Zenon
<1>2. CASE t.kind # "service"
  <2>1. \A i : EntryOf(t, r, i) = Edit!AsEntry(t, r[i])
    BY <1>2, Zenon DEF EntryOf
  <2>2. Edit!BoxOf(t, r) = Edit!Text([i \in DOMAIN r |-> Edit!AsEntry(t, r[i])], FALSE)
    BY <1>2, Zenon DEF Edit!BoxOf
  <2> QED BY <2>1, <2>2, Zenon
<1> QED BY <1>1, <1>2

\* The parts of a text.
LEMMA TextParts ==
  ASSUME NEW e, NEW b
  PROVE  Edit!Text(e, b).entries = e /\ Edit!Text(e, b).tail = b
BY DEF Edit!Text
LEMMA TextTyped ==
  ASSUME NEW k, NEW e, NEW b, Edit!EntriesFit(k, e)
  PROVE  IsText(k, Edit!Text(e, b))
<1> DEFINE t == Edit!Text(e, b)
<1>1. t.entries = e /\ t.tail = b
  BY TextParts
<1>2. t = Edit!Text(t.entries, t.tail)
  BY <1>1, Zenon
<1>3. Edit!EntriesFit(k, t.entries)
  BY <1>1
<1> HIDE DEF t
<1>4. IsText(k, t)
  BY <1>2, <1>3 DEF IsText
<1> QED BY <1>4 DEF t

\* An edited table makes a text of the file's kind.
LEMMA BoxTyped ==
  ASSUME NEW t, NEW r, Edit!IsSequence(r)
  PROVE  IsText(t.kind, Edit!BoxOf(t, r))
<1>1. CASE t.kind = "service" /\ ~t.sized
  <2>1. Edit!BoxOf(t, r) = Edit!Text(<<>>, FALSE)
    BY <1>1 DEF Edit!BoxOf, Edit!ServiceText
  <2>2. <<>> \in Seq({}) /\ Len(<<>>) = 0
    BY EmptySeq
  <2>3. Edit!IsSequence(<<>>) /\ DOMAIN <<>> = {}
    <3>1. Edit!IsSequence(<<>>)
      BY <2>2, SequencesOf
    <3> QED BY <2>2, <3>1, SequenceFacts
  <2>4. Edit!EntriesFit(t.kind, <<>>)
    BY <2>3 DEF Edit!EntriesFit
  <2> QED BY <2>1, <2>4, TextTyped
<1>2. CASE ~(t.kind = "service" /\ ~t.sized)
  <2> DEFINE f == [i \in DOMAIN r |-> EntryOf(t, r, i)]
  <2>1. Edit!BoxOf(t, r) = Edit!Text(f, FALSE)
    BY <1>2, BoxEntries
  <2>2. DOMAIN f = DOMAIN r /\ f = [i \in DOMAIN r |-> f[i]]
        /\ \A i \in DOMAIN f : f[i] = EntryOf(t, r, i)
    OBVIOUS
  <2> HIDE DEF f
  <2>3. Edit!IsSequence(f)
    BY <2>2, EntryByEntry
  <2>4. t.kind = "service" => \A i \in DOMAIN f : f[i] \in BOOLEAN
    BY <2>2 DEF EntryOf
  <2>5. t.kind = "plmn" => \A i \in DOMAIN f : Edit!IsPlmn(f[i])
    BY <2>2, RowIsPlmn DEF EntryOf
  <2>6. Edit!EntriesFit(t.kind, f)
    BY <2>3, <2>4, <2>5 DEF Edit!EntriesFit
  <2> QED BY <2>1, <2>6, TextTyped
<1> QED BY <1>1, <1>2

\* A table of anything but PLMNs is the contents.
LEMMA TableIsContents ==
  ASSUME NEW t, Edit!IsFile(t), t.kind # "plmn"
  PROVE  Edit!TableOf(t) = t.contents
<1>1. Edit!IsSequence(t.contents)
  BY DEF Edit!IsFile, Edit!EntriesFit
<1> DEFINE c == t.contents
<1>2. c = [i \in DOMAIN c |-> c[i]]
  BY <1>1, SequenceFacts
<1>3. Edit!TableOf(t) = [i \in DOMAIN c |-> c[i]]
  BY DEF Edit!TableOf, Edit!AsRow
<1> QED BY <1>2, <1>3, Zenon

LEMMA TableTyped ==
  ASSUME NEW t, Edit!IsFile(t)
  PROVE  Edit!IsSequence(Edit!TableOf(t))
<1>1. Edit!IsSequence(t.contents)
  BY DEF Edit!IsFile, Edit!EntriesFit
<1> DEFINE f == Edit!TableOf(t)
<1>2. f = [i \in DOMAIN t.contents |-> f[i]]
  BY DEF Edit!TableOf
<1> HIDE DEF f
<1>3. Edit!IsSequence(f)
  BY <1>1, <1>2, EntryByEntry
<1> QED BY <1>3 DEF f

\* The contents are local to nothing.
LEMMA ContentsLocal ==
  ASSUME NEW t, ~t.tail
  PROVE  LocalTo(Edit!Contents(t), t, {})
BY TextParts DEF LocalTo, Edit!Contents

\* What a table can show is what the text made from it says.
LEMMA TableShows ==
  ASSUME NEW t, Edit!IsFile(t), t.kind \in Edit!Tables, Showable(t)
  PROVE  LocalTo(Edit!BoxOf(t, Edit!TableOf(t)), t, {})
<1> DEFINE r == Edit!TableOf(t)
           f == [i \in DOMAIN r |-> EntryOf(t, r, i)]
<1>1. Edit!BoxOf(t, r) = Edit!Text(f, FALSE)
  BY BoxEntries DEF Showable
<1>2. DOMAIN f = DOMAIN t.contents
  BY DEF Edit!TableOf
<1>3. ASSUME NEW i \in DOMAIN t.contents PROVE f[i] = t.contents[i]
  <2>1. r[i] = Edit!AsRow(t, t.contents[i])
    BY <1>3 DEF Edit!TableOf
  <2>2. f[i] = EntryOf(t, r, i)
    BY <1>2
  <2>3. CASE t.kind = "service"
    <3>1. r[i] = t.contents[i]
      BY <2>1, <2>3 DEF Edit!AsRow
    <3>2. t.contents[i] \in BOOLEAN
      BY <1>3, <2>3 DEF Edit!IsFile, Edit!EntriesFit
    <3>3. t.contents[i] => i \in t.mapped
      BY <1>3, <2>3 DEF Showable
    <3>4. EntryOf(t, r, i) = (i \in t.mapped /\ t.contents[i])
      BY <2>3, <3>1, Zenon DEF EntryOf
    <3>5. CASE t.contents[i] = TRUE
      BY <2>2, <3>3, <3>4, <3>5, Zenon
    <3>6. CASE t.contents[i] = FALSE
      BY <2>2, <3>4, <3>6, Zenon
    <3> QED BY <3>2, <3>5, <3>6
  <2>4. CASE t.kind = "acc"
    BY <2>1, <2>2, <2>4 DEF EntryOf, Edit!AsRow, Edit!AsEntry
  <2>5. CASE t.kind = "plmn"
    <3> DEFINE e == t.contents[i]
    <3>1. Edit!IsPlmn(e)
      BY <1>3, <2>5 DEF Edit!IsFile, Edit!EntriesFit
    <3>2. EntryOf(t, r, i) = Edit!AsEntry(t, r[i])
      BY <2>5 DEF EntryOf
    <3>3. CASE e.net = "free"
      <4>1. r[i] = [net |-> "", act |-> ""]
        BY <2>1, <2>5, <3>3 DEF Edit!AsRow
      <4>2. r[i].net = ""
        <5> DEFINE x == r[i]
        <5>1. x = [net |-> "", act |-> ""]
          BY <4>1
        <5> HIDE DEF x
        <5>2. x.net = ""
          BY <5>1
        <5> QED BY <5>2 DEF x
      <4>3. Edit!AsEntry(t, r[i]) = Edit!FreePlmn
        BY <2>5, <4>2, Zenon DEF Edit!AsEntry
      <4>4. e = Edit!FreePlmn
        BY <1>3, <2>5, <3>3 DEF Showable
      <4> QED BY <2>2, <3>2, <4>3, <4>4
    <3>4. CASE e.net # "free"
      <4>1. r[i] = e
        BY <2>1, <2>5, <3>4 DEF Edit!AsRow
      <4>2. Edit!NetOf(e.net) = e.net
        BY <3>1, NetFacts DEF Edit!IsPlmn
      <4>3. Edit!AsEntry(t, e) = [net |-> Edit!NetOf(e.net), act |-> e.act]
        BY <2>5, <3>1 DEF Edit!AsEntry, Edit!IsPlmn
      <4> QED BY <2>2, <3>1, <3>2, <4>1, <4>2, <4>3 DEF Edit!IsPlmn
    <3> QED BY <3>3, <3>4
  <2> QED BY <2>3, <2>4, <2>5 DEF Edit!Tables
<1> HIDE DEF r, f
<1>4. LocalTo(Edit!Text(f, FALSE), t, {})
  BY <1>2, <1>3 DEF LocalTo, Edit!Text
<1> QED BY <1>1, <1>4 DEF r

\* An edited row changes its entry of the text.
LEMMA RowEdited ==
  ASSUME NEW t, NEW r, NEW S, t.kind \in Edit!Tables, Showable(t),
         LocalTo(Edit!BoxOf(t, r), t, S), NEW i, NEW v
  PROVE  LocalTo(Edit!BoxOf(t, [r EXCEPT ![i] = v]), t, S \cup {i})
<1> DEFINE q == [r EXCEPT ![i] = v]
           f == [j \in DOMAIN r |-> EntryOf(t, r, j)]
           g == [j \in DOMAIN q |-> EntryOf(t, q, j)]
<1>1. Edit!BoxOf(t, r) = Edit!Text(f, FALSE) /\ Edit!BoxOf(t, q) = Edit!Text(g, FALSE)
  BY BoxEntries DEF Showable
<1>2. DOMAIN q = DOMAIN r /\ \A j \in DOMAIN r : j # i => q[j] = r[j]
  OBVIOUS
<1>3. DOMAIN f = DOMAIN r /\ DOMAIN g = DOMAIN r
  BY <1>2
<1>4. ASSUME NEW j \in DOMAIN r, j # i PROVE g[j] = f[j]
  <2>1. q[j] = r[j]
    BY <1>2, <1>4
  <2> HIDE DEF q
  <2>2. EntryOf(t, q, j) = EntryOf(t, r, j)
    BY <2>1, Zenon DEF EntryOf
  <2>3. f[j] = EntryOf(t, r, j) /\ g[j] = EntryOf(t, q, j)
    BY <1>2, Zenon
  <2> QED BY <2>2, <2>3, Zenon
<1> HIDE DEF f, g, q
<1>5. /\ DOMAIN f = DOMAIN t.contents
      /\ \A j \in DOMAIN t.contents : f[j] # t.contents[j] => j \in S
  BY <1>1 DEF LocalTo, Edit!Text
<1>6. LocalTo(Edit!Text(g, FALSE), t, S \cup {i})
  BY <1>3, <1>4, <1>5 DEF LocalTo, Edit!Text
<1> QED BY <1>1, <1>6 DEF q

\* Whoever turns a service on or off that the table shows otherwise changes the text.
LEMMA ServiceChanges ==
  ASSUME NEW t, NEW r, t.kind = "service", t.sized, NEW i \in DOMAIN t.contents,
         t.contents[i] # (i \in t.mapped /\ r[i])
  PROVE  Edit!BoxOf(t, r) # Edit!Contents(t)
<1> SUFFICES ASSUME Edit!BoxOf(t, r) = Edit!Contents(t) PROVE FALSE
  OBVIOUS
<1> DEFINE f == [j \in DOMAIN r |-> EntryOf(t, r, j)]
<1>1. Edit!BoxOf(t, r) = Edit!Text(f, FALSE)
  BY BoxEntries
<1>2. f = t.contents
  <2>1. Edit!Text(f, FALSE) = Edit!Text(t.contents, t.tail)
    BY <1>1, Zenon DEF Edit!Contents
  <2>2. Edit!Text(f, FALSE).entries = f /\ Edit!Text(t.contents, t.tail).entries = t.contents
    BY TextParts, Zenon
  <2> QED BY <2>1, <2>2, Zenon
<1>3. i \in DOMAIN r
  BY <1>2
<1>4. t.contents[i] = EntryOf(t, r, i)
  BY <1>2, <1>3
<1>5. EntryOf(t, r, i) = (i \in t.mapped /\ r[i])
  BY Zenon DEF EntryOf
<1> QED BY <1>4, <1>5, Zenon

LEMMA ClassChanges ==
  ASSUME NEW t, NEW r, t.kind = "acc", r = [i \in DOMAIN r |-> r[i]], r # t.contents
  PROVE  Edit!BoxOf(t, r) # Edit!Contents(t)
<1>1. Edit!BoxOf(t, r) = Edit!Text([i \in DOMAIN r |-> r[i]], FALSE)
  BY DEF Edit!BoxOf, Edit!AsEntry
<1>2. Edit!BoxOf(t, r) = Edit!Text(r, FALSE)
  BY <1>1, Zenon
<1>3. Edit!Text(r, FALSE).entries = r /\ Edit!Contents(t).entries = t.contents
  BY TextParts, Zenon DEF Edit!Contents
<1> QED BY <1>2, <1>3, Zenon

\* What typing makes of a text is one of the same kind.
LEMMA TypedText ==
  ASSUME IsText(target.kind, box), NEW t \in Edit!Typed(target.kind)
  PROVE  IsText(target.kind, t)
<1> DEFINE k == target.kind
           b == box.entries
<1>1. Edit!IsSequence(b) /\ Edit!EntriesFit(k, b)
  BY DEF IsText, Edit!EntriesFit
<1>2. Len(b) \in Nat /\ DOMAIN b = 1..Len(b) /\ b = [i \in DOMAIN b |-> b[i]]
  BY <1>1, SequenceFacts
<1>3. ASSUME NEW e \in Edit!EntryChoices(k)
      PROVE  (k = "service" => e \in BOOLEAN) /\ (k = "plmn" => Edit!IsPlmn(e))
  <2>1. CASE k = "service"
    <3>1. Edit!EntryChoices(k) = BOOLEAN
      BY <2>1, Zenon DEF Edit!EntryChoices
    <3> QED BY <1>3, <2>1, <3>1
  <2>2. CASE k = "plmn"
    <3>1. Edit!EntryChoices("plmn") = {Edit!FreePlmn, [net |-> "n2", act |-> "80"]}
      BY Zenon DEF Edit!EntryChoices
    <3>2. e = [net |-> "free", act |-> "0000"] \/ e = [net |-> "n2", act |-> "80"]
      BY <1>3, <2>2, <3>1 DEF Edit!FreePlmn
    <3>3. e.net \in {"free", "n2"} /\ e.act \in {"0000", "80"} /\ e = [net |-> e.net, act |-> e.act]
      BY <3>2
    <3>4. Edit!IsPlmn(e)
      BY <3>3 DEF Edit!IsPlmn, Edit!ShortMcc, Edit!ShortMnc, Edit!Half
    <3> QED BY <2>2, <3>4
  <2> QED BY <2>1, <2>2
<1>4. ASSUME NEW i \in DOMAIN b, NEW e \in Edit!EntryChoices(k)
      PROVE  Edit!EntriesFit(k, [b EXCEPT ![i] = e])
  <2> DEFINE f == [b EXCEPT ![i] = e]
  <2>1. DOMAIN f = DOMAIN b /\ f = [j \in DOMAIN b |-> f[j]]
        /\ \A j \in DOMAIN f : f[j] = e \/ f[j] = b[j]
    BY <1>2
  <2> HIDE DEF f
  <2>2. Edit!IsSequence(f)
    BY <1>1, <2>1, EntryByEntry
  <2>3. Edit!EntriesFit(k, f)
    BY <1>1, <1>3, <2>1, <2>2 DEF Edit!EntriesFit
  <2> QED BY <2>3 DEF f
<1>5. ASSUME NEW e \in Edit!EntryChoices(k) PROVE Edit!EntriesFit(k, <<e>>)
  <2>1. <<e>> \in Seq({e}) /\ DOMAIN <<e>> = {1} /\ <<e>>[1] = e
    OBVIOUS
  <2>2. Edit!IsSequence(<<e>>)
    BY <2>1, SequencesOf
  <2> QED BY <1>3, <2>1, <2>2 DEF Edit!EntriesFit
<1>6. b # <<>> => Edit!EntriesFit(k, SubSeq(b, 1, Len(b) - 1))
  <2> DEFINE S == {b[i] : i \in DOMAIN b}
             f == SubSeq(b, 1, Len(b) - 1)
  <2>1. Len(b) - 1 \in Int /\ \A i \in 1..(Len(b) - 1) : b[i] \in S
    BY <1>2
  <2> HIDE DEF S
  <2>2. f \in Seq(S)
    BY <2>1, SubSeqProperties
  <2>3. DOMAIN f = 1..Len(f) /\ \A i \in DOMAIN f : f[i] \in S
    BY <2>2, LenProperties, ElementOfSeq
  <2>4. Edit!IsSequence(f)
    BY <2>2, SequencesOf
  <2> HIDE DEF f
  <2>5. Edit!EntriesFit(k, f)
    BY <1>1, <2>3, <2>4 DEF Edit!EntriesFit, S
  <2> QED BY <2>5 DEF f
<1>7. \/ \E i \in DOMAIN b, e \in Edit!EntryChoices(k) : t = Edit!Text([b EXCEPT ![i] = e], box.tail)
      \/ b = <<>> /\ \E e \in Edit!EntryChoices(k) : t = Edit!Text(<<e>>, FALSE)
      \/ b # <<>> /\ t = Edit!Text(SubSeq(b, 1, Len(b) - 1), box.tail)
  <2> DEFINE F(i, e) == Edit!Text([b EXCEPT ![i] = e], box.tail)
             A == {F(i, e) : i \in DOMAIN b, e \in Edit!EntryChoices(k)}
             B == {Edit!Text(<<e>>, FALSE) : e \in Edit!EntryChoices(k)}
             C == {Edit!Text(SubSeq(b, 1, Len(b) - 1), box.tail)}
  <2>1. Edit!Typed(k) = A \cup (IF b = <<>> THEN B ELSE C)
    BY DEF Edit!Typed
  <2> HIDE DEF A, B, C
  <2>2. t \in A \/ (b = <<>> /\ t \in B) \/ (b # <<>> /\ t \in C)
    BY <2>1
  <2> HIDE DEF b, k
  <2>3. t \in A => \E i \in DOMAIN b, e \in Edit!EntryChoices(k) :
                     t = Edit!Text([b EXCEPT ![i] = e], box.tail)
    <3> HIDE DEF F
    <3>1. t \in A => \E i \in DOMAIN b, e \in Edit!EntryChoices(k) : t = F(i, e)
      BY SMT DEF A
    <3> QED BY <3>1 DEF F
  <2>4. t \in B => \E e \in Edit!EntryChoices(k) : t = Edit!Text(<<e>>, FALSE)
    BY Zenon DEF B
  <2>5. t \in C => t = Edit!Text(SubSeq(b, 1, Len(b) - 1), box.tail)
    BY Zenon DEF C
  <2> QED BY <2>2, <2>3, <2>4, <2>5, Zenon
<1> HIDE DEF b, k
<1>8. CASE \E i \in DOMAIN b, e \in Edit!EntryChoices(k) : t = Edit!Text([b EXCEPT ![i] = e], box.tail)
  BY <1>4, <1>8, TextTyped DEF k
<1>9. CASE \E e \in Edit!EntryChoices(k) : t = Edit!Text(<<e>>, FALSE)
  BY <1>5, <1>9, TextTyped DEF k
<1>10. CASE b # <<>> /\ t = Edit!Text(SubSeq(b, 1, Len(b) - 1), box.tail)
  BY <1>6, <1>10, TextTyped DEF k
<1> QED BY <1>7, <1>8, <1>9, <1>10

\* A set of indices that is not empty has a least one.
LEMMA LeastIndex ==
  ASSUME NEW A, A \subseteq Nat, A # {}
  PROVE  \E i \in A : \A j \in A : i <= j
<1>1. PICK i \in A : \A j \in A : ~(<<j, i>> \in OpToRel(<, Nat))
  BY NatLessThanWellFounded, WFMin
<1>2. \A j \in A : ~(j < i)
  BY <1>1 DEF OpToRel
<1> QED BY <1>2

\* The popup is offered under a rule that lets somebody update.
LEMMA OfferedByRule ==
  ASSUME NEW t, Edit!IsFile(t), Edit!WriteOffered(t)
  PROVE  \E i \in DOMAIN t.rules :
           /\ Edit!Update \in t.rules[i].modes /\ t.rules[i].cond # "never"
           /\ t.rules[i].cond = "adm" => verified
<1> DEFINE about == {i \in DOMAIN t.rules : Edit!Update \in t.rules[i].modes}
           first == CHOOSE i \in about : \A j \in about : i <= j
           c == Edit!ConditionOf(t)
<1>1. c = IF t.rules = <<>> THEN "unread" ELSE IF about = {} THEN "never" ELSE t.rules[first].cond
  BY DEF Edit!ConditionOf
<1>2. c \notin {"never", "unread"} /\ (c = "adm" => verified)
  BY DEF Edit!WriteOffered, Edit!IsAdmSatisfied
<1> HIDE DEF c
<1>3. about # {} /\ c = t.rules[first].cond
  BY <1>1, <1>2
<1>4. about \subseteq Nat
  BY SequenceFacts DEF Edit!IsFile
<1>5. \E i \in about : \A j \in about : i <= j
  BY <1>3, <1>4, LeastIndex
<1> HIDE DEF about
<1>6. first \in about
  BY <1>5, Zenon
<1> HIDE DEF first
<1>7. first \in DOMAIN t.rules /\ Edit!Update \in t.rules[first].modes
  BY <1>6 DEF about
<1> QED BY <1>2, <1>3, <1>7

\* What a write was, and the rule it is under, outlast other steps.
LEMMA EditsKept ==
  ASSUME Edit!EditsAreLocal, posted' = posted,
         target'.kind = target.kind, target'.sized = target.sized, target'.mapped = target.mapped
  PROVE  Edit!EditsAreLocal'
BY DEF Edit!EditsAreLocal, Edit!Tabular
LEMMA RuleKept ==
  ASSUME Edit!OpenedByRule, phase' = phase, target'.rules = target.rules, verified' = verified
  PROVE  Edit!OpenedByRule'
BY DEF Edit!OpenedByRule

\* Showable is Tabular of the file's own contents.
LEMMA TabularFacts ==
  /\ Edit!Tabular(Edit!Contents(target)) <=> Showable(target)
BY TextParts DEF Edit!Tabular, Edit!Contents, Showable

LEMMA Wider ==
  ASSUME NEW b, NEW t, NEW S, NEW T, LocalTo(b, t, S), S \subseteq T
  PROVE  LocalTo(b, t, T)
BY DEF LocalTo

\* Nothing edited is a text of every kind, and so is what is picked from a file.
LEMMA NoTextTyped ==
  ASSUME NEW k
  PROVE  IsText(k, Edit!NoText) /\ Edit!IsSequence(<<>>)
<1>1. <<>> \in Seq({}) /\ Len(<<>>) = 0
  BY EmptySeq
<1>2. Edit!IsSequence(<<>>)
  BY <1>1, SequencesOf
<1>3. DOMAIN <<>> = {}
  BY <1>1, <1>2, SequenceFacts
<1>4. Edit!EntriesFit(k, <<>>)
  BY <1>2, <1>3 DEF Edit!EntriesFit
<1> QED BY <1>2, <1>4, TextTyped DEF Edit!NoText

LEMMA OneEntryTyped ==
  ASSUME NEW k \in Edit!Singles, NEW e
  PROVE  IsText(k, Edit!Text(<<e>>, FALSE))
<1>1. <<e>> \in Seq({e})
  OBVIOUS
<1>2. Edit!IsSequence(<<e>>)
  BY <1>1, SequencesOf
<1>3. Edit!EntriesFit(k, <<e>>)
  BY <1>2 DEF Edit!EntriesFit, Edit!Singles
<1> QED BY <1>3, TextTyped

LEMMA PickTyped ==
  ASSUME NEW k \in Edit!Singles, NEW t, NEW i
  PROVE  IsText(k, Edit!Pick(t, i))
BY NoTextTyped, OneEntryTyped DEF Edit!Pick

LEMMA ContentsTyped ==
  ASSUME NEW t, Edit!IsFile(t)
  PROVE  IsText(t.kind, Edit!Contents(t))
BY TextTyped DEF Edit!IsFile, Edit!Contents

\* When the editor says that a table has changed, so has the text.
LEMMA RowChangeShows ==
  ASSUME Edit!IsFile(target), OriginalInv, OldInv, NEW r, r = [i \in DOMAIN r |-> r[i]],
         target.kind \in Edit!Tables, Settled,
         ~edits.wrote, ~edits.aged, ~Edit!MapDue, Showable(target), Edit!RowsChanged(r)
  PROVE  Edit!BoxOf(target, r) # original
<1>1. original = Edit!Contents(target)
  BY DEF OriginalInv, Edit!Tables, Edit!Singles
<1>2. CASE target.kind = "service"
  <2>1. \E i \in DOMAIN oldRows : oldRows[i] # (i \in target.mapped /\ r[i])
    BY <1>2, Zenon DEF Edit!RowsChanged
  <2>2. oldRows = target.contents
    BY <1>2 DEF OldInv
  <2>3. target.sized
    BY <1>2 DEF Showable
  <2>4. PICK i \in DOMAIN target.contents : target.contents[i] # (i \in target.mapped /\ r[i])
    BY <2>1, <2>2, Zenon
  <2> QED BY <1>1, <1>2, <2>3, <2>4, ServiceChanges, Zenon
<1>3. CASE target.kind = "acc"
  <2>1. r # oldRows
    BY <1>3, Zenon DEF Edit!RowsChanged
  <2>2. oldRows = target.contents
    BY <1>3 DEF OldInv
  <2> QED BY <1>1, <1>3, <2>1, <2>2, ClassChanges
<1>4. CASE target.kind = "plmn"
  BY <1>4, Zenon DEF Edit!RowsChanged
<1> QED BY <1>2, <1>3, <1>4 DEF Edit!Tables

\* What is awaited outlasts the steps that only edit.
LEMMA WaitKept ==
  ASSUME WaitInv, awaited' = awaited, cache' = cache, target' = target, edits'.wrote = edits.wrote
  PROVE  WaitInv' /\ (Settled' <=> Settled)
<1>1. WaitInv' <=> WaitInv
  BY DEF WaitInv, AllSent, Edit!Stored, Edit!Contents
<1> QED BY <1>1 DEF Settled

\* An edited row: the new text is made from the new table.
LEMMA EditRowStep ==
  ASSUME EditInv, NEW i, NEW v, Edit!EditRow(i, v)
  PROVE  EditInv'
<1> DEFINE q == [rows EXCEPT ![i] = v]
<1>1. EditTypes /\ PopupInv /\ Edit!OpenedByRule /\ Edit!EditsAreLocal /\ phase = "open"
  BY DEF EditInv, Edit!EditRow, Edit!Acts
<1>2. /\ target' = target /\ verified' = verified /\ phase' = phase /\ oldRows' = oldRows
      /\ original' = original /\ picked' = picked /\ cache' = cache /\ awaited' = awaited
      /\ due' = due /\ posted' = posted
      /\ rows' = q /\ box' = Edit!BoxOf(target, q)
      /\ buttons' = Edit!Buttons(Edit!RowsChanged(q), TRUE)
      /\ target.kind \in Edit!Tables
  BY DEF Edit!EditRow
<1>3. /\ edits'.rows = edits.rows \cup {i} /\ edits'.aged = edits.aged /\ edits'.at = edits.at
      /\ edits'.wrote = edits.wrote /\ edits'.blind = edits.blind
      /\ ~edits'.late => awaited = {}
      /\ edits'.stale = (edits.aged \/ Edit!MapDue)
      /\ edits' = [rows |-> edits'.rows, typed |-> edits'.typed, mistyped |-> edits'.mistyped,
                   aged |-> edits'.aged, stale |-> edits'.stale, wrote |-> edits'.wrote,
                   late |-> edits'.late, blind |-> edits'.blind, at |-> edits'.at]
  <2> DEFINE e == edits
  <2>1. e = [rows |-> e.rows, typed |-> e.typed, mistyped |-> e.mistyped, aged |-> e.aged,
             stale |-> e.stale, wrote |-> e.wrote, late |-> e.late, blind |-> e.blind, at |-> e.at]
    BY <1>1 DEF EditTypes
  <2> DEFINE m == e.mistyped \/ (target.kind = "plmn" /\ v.net \in {Edit!ShortMcc, Edit!ShortMnc, Edit!Half})
             l == e.late \/ awaited # {}
             d == e.aged \/ Edit!MapDue
  <2>2. edits' = [e EXCEPT !.rows = e.rows \cup {i}, !.typed = FALSE, !.late = l, !.stale = d,
                           !.mistyped = m]
    BY DEF Edit!EditRow, Edit!Late
  <2> HIDE DEF m, d
  <2>3. edits' = [rows |-> e.rows \cup {i}, typed |-> FALSE, mistyped |-> m, aged |-> e.aged,
                  stale |-> d, wrote |-> e.wrote, late |-> l, blind |-> e.blind, at |-> e.at]
    BY <2>1, <2>2
  <2> QED BY <2>3 DEF d
<1>4. q = [j \in DOMAIN q |-> q[j]] /\ Edit!IsSequence(q)
  <2>1. q = [j \in DOMAIN rows |-> q[j]] /\ DOMAIN q = DOMAIN rows
    OBVIOUS
  <2> HIDE DEF q
  <2> QED BY <1>1, <2>1, EntryByEntry DEF EditTypes
<1> HIDE DEF q
<1>5. EditTypes'
  <2>1. IsText(target.kind, box')
    BY <1>2, <1>4, BoxTyped
  <2> QED BY <1>1, <1>2, <1>3, <1>4, <2>1 DEF EditTypes, SameFile
<1>6. ASSUME ~edits'.blind
      PROVE  (WaitInv /\ OriginalInv /\ SinglesInv /\ OldInv /\ RowsInv /\ BoxInv /\ NotSame /\ QuietInv)'
  <2>1. WaitInv /\ OriginalInv /\ SinglesInv /\ OldInv /\ RowsInv
    BY <1>1, <1>3, <1>6 DEF PopupInv
  <2>2. WaitInv' /\ (Settled' <=> Settled)
    BY <1>2, <1>3, <2>1, WaitKept
  <2>3. Edit!MapDue' <=> Edit!MapDue
    BY <1>2, <1>3 DEF Edit!MapDue
  <2>4. ASSUME Showable(target), ~edits.aged, ~Edit!MapDue, Settled
        PROVE  LocalTo(box', target, edits'.rows)
    <3>1. LocalTo(Edit!BoxOf(target, rows), target, edits.rows)
      BY <1>2, <2>1, <2>4 DEF RowsInv, ShowableTable
    <3>2. LocalTo(Edit!BoxOf(target, q), target, edits.rows \cup {i})
      BY <1>2, <2>4, <3>1, RowEdited DEF q
    <3> QED BY <1>2, <1>3, <3>2
  <2>5. RowsInv' /\ BoxInv'
    <3>1. Showable(target)' <=> Showable(target)
      BY <1>2 DEF Showable
    <3> QED BY <1>2, <1>3, <2>2, <2>3, <2>4, <3>1 DEF RowsInv, BoxInv, ShowableTable
  <2>6. NotSame'
    <3> SUFFICES ASSUME Sendable', ~edits'.late, ~edits'.wrote, ~edits'.stale, Settled',
                        Showable(target)
                 PROVE  box' # original'
      BY <1>2 DEF NotSame, Showable
    <3>1. "submit" \in buttons'
      BY <1>2, <1>3 DEF Sendable
    <3>2. Edit!RowsChanged(q)
      BY <1>2, <3>1 DEF Edit!Buttons
    <3>3. Edit!IsFile(target) /\ ~edits.aged /\ ~Edit!MapDue /\ ~edits.wrote /\ Settled
      BY <1>1, <1>3, <2>2 DEF EditTypes
    <3> QED BY <1>2, <1>4, <2>1, <3>2, <3>3, RowChangeShows
  <2>7. OriginalInv' /\ SinglesInv' /\ OldInv'
    BY <1>2, <1>3, <2>1, <2>2, <2>3
       DEF OriginalInv, SinglesInv, OldInv, Edit!Tables, Edit!Singles, Edit!Contents
  <2>8. QuietInv'
    BY <1>2, <1>3 DEF QuietInv
  <2> QED BY <2>2, <2>5, <2>6, <2>7, <2>8
<1>7. Edit!OpenedByRule' /\ Edit!EditsAreLocal'
  BY <1>1, <1>2, RuleKept, EditsKept
<1> QED BY <1>5, <1>6, <1>7 DEF EditInv, PopupInv

\* A box edited as hex.
LEMMA EditBoxStep ==
  ASSUME EditInv, NEW t \in Edit!Typed(target.kind), Edit!EditBox(t)
  PROVE  EditInv'
<1>1. EditTypes /\ PopupInv /\ Edit!OpenedByRule /\ Edit!EditsAreLocal /\ phase = "open"
  BY DEF EditInv, Edit!EditBox, Edit!Acts
<1>2. /\ target' = target /\ verified' = verified /\ phase' = phase /\ oldRows' = oldRows
      /\ original' = original /\ picked' = picked /\ cache' = cache /\ awaited' = awaited
      /\ due' = due /\ posted' = posted /\ rows' = rows /\ box' = t
      /\ buttons' = Edit!Buttons(t # original, Edit!RightSize(t))
  BY DEF Edit!EditBox
<1>3. /\ edits'.rows = edits.rows /\ edits'.aged = edits.aged /\ edits'.at = edits.at
      /\ edits'.wrote = edits.wrote /\ edits'.blind = edits.blind /\ edits'.typed = TRUE
      /\ ~edits'.late => awaited = {}
      /\ edits' = [rows |-> edits'.rows, typed |-> edits'.typed, mistyped |-> edits'.mistyped,
                   aged |-> edits'.aged, stale |-> edits'.stale, wrote |-> edits'.wrote,
                   late |-> edits'.late, blind |-> edits'.blind, at |-> edits'.at]
  <2> DEFINE e == edits
  <2>1. e = [rows |-> e.rows, typed |-> e.typed, mistyped |-> e.mistyped, aged |-> e.aged,
             stale |-> e.stale, wrote |-> e.wrote, late |-> e.late, blind |-> e.blind, at |-> e.at]
    BY <1>1 DEF EditTypes
  <2> DEFINE l == e.late \/ awaited # {}
  <2>2. edits' = [e EXCEPT !.typed = TRUE, !.stale = FALSE, !.late = l]
    BY DEF Edit!EditBox, Edit!Late
  <2>3. edits' = [rows |-> e.rows, typed |-> TRUE, mistyped |-> e.mistyped, aged |-> e.aged,
                  stale |-> FALSE, wrote |-> e.wrote, late |-> l, blind |-> e.blind, at |-> e.at]
    BY <2>1, <2>2
  <2> QED BY <2>3
<1>4. EditTypes'
  <2>1. IsText(target.kind, box')
    BY <1>1, <1>2, TypedText DEF EditTypes
  <2> QED BY <1>1, <1>2, <1>3, <2>1 DEF EditTypes, SameFile
<1>5. ASSUME ~edits'.blind
      PROVE  (WaitInv /\ OriginalInv /\ SinglesInv /\ OldInv /\ RowsInv /\ BoxInv /\ NotSame /\ QuietInv)'
  <2>1. WaitInv /\ OriginalInv /\ SinglesInv /\ OldInv /\ RowsInv
    BY <1>1, <1>3, <1>5 DEF PopupInv
  <2>2. WaitInv' /\ (Settled' <=> Settled)
    BY <1>2, <1>3, <2>1, WaitKept
  <2>3. Edit!MapDue' <=> Edit!MapDue
    BY <1>2, <1>3 DEF Edit!MapDue
  <2>4. OriginalInv' /\ SinglesInv' /\ OldInv'
    BY <1>2, <1>3, <2>1, <2>2, <2>3 DEF OriginalInv, SinglesInv, OldInv, Edit!Contents, Edit!Pick
  <2>5. RowsInv' /\ BoxInv'
    BY <1>2, <1>3, <2>1, <2>2, <2>3 DEF RowsInv, BoxInv, ShowableTable, Showable
  <2>6. NotSame'
    <3> SUFFICES ASSUME Sendable', ~edits'.late PROVE box' # original'
      BY DEF NotSame
    <3>1. "submit" \in buttons'
      BY <1>2, <1>3 DEF Sendable
    <3> QED BY <1>2, <3>1 DEF Edit!Buttons
  <2>7. QuietInv'
    BY <1>2, <1>3 DEF QuietInv
  <2> QED BY <2>2, <2>4, <2>5, <2>6, <2>7
<1>6. Edit!OpenedByRule' /\ Edit!EditsAreLocal'
  BY <1>1, <1>2, RuleKept, EditsKept
<1> QED BY <1>4, <1>5, <1>6 DEF EditInv, PopupInv

\* Another record, or another object.
LEMMA PickAnotherStep ==
  ASSUME EditInv, NEW i, Edit!PickAnother(i)
  PROVE  EditInv'
<1>1. EditTypes /\ PopupInv /\ Edit!OpenedByRule /\ Edit!EditsAreLocal /\ phase = "open"
  BY DEF EditInv, Edit!PickAnother, Edit!Acts
<1>2. /\ target' = target /\ verified' = verified /\ phase' = phase /\ oldRows' = oldRows
      /\ rows' = rows /\ picked' = i /\ i \in DOMAIN rows /\ cache' = cache /\ awaited' = awaited
      /\ due' = due /\ posted' = posted
      /\ target.kind \in Edit!Singles
  BY DEF Edit!PickAnother
<1>3. \/ target.kind = "tlv" /\ box' = Edit!Text(<<rows[i]>>, FALSE) /\ original' = box' /\ buttons' = {}
      \/ \E t \in cache : target.kind = "records" /\ box' = Edit!Pick(t, i) /\ original' = box' /\ buttons' = {}
      \/ target.kind = "records" /\ cache = {} /\ box' = box /\ original' = original
  BY DEF Edit!PickAnother
<1>4. /\ edits'.wrote = edits.wrote /\ edits'.blind = edits.blind
      /\ ~edits'.late => awaited = {}
      /\ edits' = [rows |-> edits'.rows, typed |-> edits'.typed, mistyped |-> edits'.mistyped,
                   aged |-> edits'.aged, stale |-> edits'.stale, wrote |-> edits'.wrote,
                   late |-> edits'.late, blind |-> edits'.blind, at |-> edits'.at]
  <2> DEFINE e == edits
  <2>1. e = [rows |-> e.rows, typed |-> e.typed, mistyped |-> e.mistyped, aged |-> e.aged,
             stale |-> e.stale, wrote |-> e.wrote, late |-> e.late, blind |-> e.blind, at |-> e.at]
    BY <1>1 DEF EditTypes
  <2> DEFINE l == e.late \/ awaited # {}
  <2>2. edits' = [e EXCEPT !.rows = {}, !.typed = FALSE, !.late = l]
    BY DEF Edit!PickAnother, Edit!Late
  <2>3. edits' = [rows |-> {}, typed |-> FALSE, mistyped |-> e.mistyped, aged |-> e.aged,
                  stale |-> e.stale, wrote |-> e.wrote, late |-> l, blind |-> e.blind, at |-> e.at]
    BY <2>1, <2>2
  <2> QED BY <2>3
<1>5. EditTypes'
  <2>1. IsText(target.kind, box') /\ IsText(target.kind, original')
    BY <1>1, <1>2, <1>3, OneEntryTyped, PickTyped DEF EditTypes
  <2> QED BY <1>1, <1>2, <1>4, <2>1 DEF EditTypes, SameFile
<1>6. ASSUME ~edits'.blind
      PROVE  (WaitInv /\ OriginalInv /\ SinglesInv /\ OldInv /\ RowsInv /\ BoxInv /\ NotSame /\ QuietInv)'
  <2>1. WaitInv /\ SinglesInv
    BY <1>1, <1>4, <1>6 DEF PopupInv
  <2>2. WaitInv' /\ (Settled' <=> Settled)
    BY <1>2, <1>4, <2>1, WaitKept
  <2>3. ASSUME Settled, ~edits.wrote
        PROVE  AllSent /\ rows = target.contents /\ original' = Edit!Pick(target, i)
    <3>1. rows = target.contents
      BY <1>2, <2>1, <2>3 DEF SinglesInv
    <3>2. AllSent
      BY <1>1, <2>1, <2>3 DEF WaitInv, AllSent, Settled, EditTypes
    <3>3. cache \subseteq {target} /\ (target.kind # "tlv" => cache # {})
      BY <2>1, <3>2 DEF WaitInv
    <3>4. CASE target.kind = "tlv"
      <4>1. original' = Edit!Text(<<rows[i]>>, FALSE)
        BY <1>3, <3>4
      <4>2. target.contents # <<>>
        <5>1. SUFFICES ASSUME target.contents = <<>> PROVE FALSE
          OBVIOUS
        <5>2. i \in DOMAIN <<>>
          BY <1>2, <3>1, <5>1
        <5> QED BY <5>2
      <4> QED BY <3>1, <3>2, <4>1, <4>2 DEF Edit!Pick
    <3>5. CASE target.kind # "tlv"
      BY <1>3, <3>1, <3>2, <3>3, <3>5
    <3> QED BY <3>4, <3>5
  <2>4. SinglesInv'
    BY <1>2, <1>4, <2>2, <2>3 DEF SinglesInv, Edit!Pick
  <2>5. OriginalInv' /\ OldInv' /\ RowsInv' /\ BoxInv'
    BY <1>2 DEF OriginalInv, OldInv, RowsInv, BoxInv, ShowableTable, Edit!Tables, Edit!Singles
  <2>6. NotSame'
    <3> SUFFICES ASSUME Sendable', ~edits'.late, ~edits.wrote, Settled PROVE FALSE
      BY <1>4, <2>2 DEF NotSame
    <3>1. awaited = {} /\ "submit" \in buttons'
      BY <1>2, <1>4 DEF Sendable
    <3>2. target.kind # "tlv" => cache # {}
      BY <2>1, <2>3 DEF WaitInv
    <3> QED BY <1>3, <3>1, <3>2
  <2>7. QuietInv'
    BY <1>2, <1>4 DEF QuietInv
  <2> QED BY <2>2, <2>4, <2>5, <2>6, <2>7
<1>7. Edit!OpenedByRule' /\ Edit!EditsAreLocal'
  BY <1>1, <1>2, RuleKept, EditsKept
<1> QED BY <1>5, <1>6, <1>7 DEF EditInv, PopupInv

\* The page takes back what was edited.
LEMMA RestoreStep ==
  ASSUME EditInv, Edit!Restore
  PROVE  EditInv'
<1> DEFINE renders == target.kind \in {"plmn", "acc"} /\ cache # {}
<1>1. EditTypes /\ PopupInv /\ Edit!OpenedByRule /\ Edit!EditsAreLocal /\ phase = "open"
  BY DEF EditInv, Edit!Restore, Edit!Acts
<1>2. /\ target' = target /\ verified' = verified /\ phase' = phase /\ original' = original
      /\ picked' = picked /\ box' = original /\ buttons' = {} /\ cache' = cache
      /\ awaited' = awaited /\ due' = due /\ posted' = posted
      /\ oldRows' = IF renders /\ target.kind = "acc" THEN rows' ELSE oldRows
  BY DEF Edit!Restore
<1>3. /\ ~renders => rows' = IF target.kind = "service" THEN oldRows ELSE rows
      /\ renders => \E t \in cache : rows' = Edit!TableOf(t)
  BY DEF Edit!Restore
<1>4. /\ edits'.wrote = edits.wrote /\ edits'.blind = edits.blind /\ edits'.at = edits.at
      /\ edits'.aged = (edits.aged \/ (target.kind = "service" /\ edits.wrote))
      /\ edits'.rows = (IF renders \/ target.kind = "service" THEN {} ELSE edits.rows)
      /\ ~edits'.late => awaited = {}
      /\ edits' = [rows |-> edits'.rows, typed |-> edits'.typed, mistyped |-> edits'.mistyped,
                   aged |-> edits'.aged, stale |-> edits'.stale, wrote |-> edits'.wrote,
                   late |-> edits'.late, blind |-> edits'.blind, at |-> edits'.at]
  <2> DEFINE e == edits
             r == IF renders \/ target.kind = "service" THEN {} ELSE e.rows
             a == e.aged \/ (target.kind = "service" /\ e.wrote)
             m == e.mistyped /\ ~renders
             l == e.late \/ awaited # {}
  <2>1. edits' = [Edit!NoEdits EXCEPT !.rows = r, !.aged = a, !.mistyped = m, !.wrote = e.wrote,
                                      !.late = l, !.blind = e.blind, !.at = e.at]
    BY DEF Edit!Restore, Edit!Late
  <2> HIDE DEF r, a, m
  <2>2. edits' = [rows |-> r, typed |-> FALSE, mistyped |-> m, aged |-> a, stale |-> FALSE,
                  wrote |-> e.wrote, late |-> l, blind |-> e.blind, at |-> e.at]
    BY <2>1 DEF Edit!NoEdits
  <2>3. /\ edits'.wrote = e.wrote /\ edits'.blind = e.blind /\ edits'.at = e.at
        /\ edits'.aged = a /\ edits'.rows = r /\ edits'.late = l
        /\ edits' = [rows |-> edits'.rows, typed |-> edits'.typed, mistyped |-> edits'.mistyped,
                   aged |-> edits'.aged, stale |-> edits'.stale, wrote |-> edits'.wrote,
                   late |-> edits'.late, blind |-> edits'.blind, at |-> edits'.at]
    BY <2>2
  <2> QED BY <2>3 DEF r, a
<1> HIDE DEF renders
<1>5. EditTypes'
  <2>1. Edit!IsSequence(rows')
    <3>1. CASE renders
      <4>1. PICK t \in cache : rows' = Edit!TableOf(t)
        BY <1>3, <3>1
      <4>2. Edit!IsFile(t)
        BY <1>1, <4>1 DEF EditTypes, SameFile
      <4> QED BY <4>1, <4>2, TableTyped
    <3>2. CASE ~renders
      BY <1>1, <1>3, <3>2 DEF EditTypes
    <3> QED BY <3>1, <3>2
  <2>2. Edit!IsSequence(oldRows')
    BY <1>1, <1>2, <2>1 DEF EditTypes
  <2> QED BY <1>1, <1>2, <1>4, <2>1, <2>2 DEF EditTypes, SameFile
<1>6. ASSUME ~edits'.blind
      PROVE  (WaitInv /\ OriginalInv /\ SinglesInv /\ OldInv /\ RowsInv /\ BoxInv /\ NotSame /\ QuietInv)'
  <2>1. WaitInv /\ OriginalInv /\ SinglesInv /\ OldInv /\ RowsInv
    BY <1>1, <1>4, <1>6 DEF PopupInv
  <2>2. WaitInv' /\ (Settled' <=> Settled)
    BY <1>2, <1>4, <2>1, WaitKept
  <2>3. Edit!MapDue' <=> Edit!MapDue
    BY <1>2, <1>4 DEF Edit!MapDue
  <2>4. Edit!IsFile(target)
    BY <1>1 DEF EditTypes
  <2>5. ASSUME renders, Settled PROVE rows' = Edit!TableOf(target)
    <3>1. AllSent
      BY <1>1, <2>1, <2>5 DEF WaitInv, AllSent, Settled, EditTypes, renders
    <3>2. cache \subseteq {target}
      BY <2>1, <3>1 DEF WaitInv
    <3> QED BY <1>3, <2>5, <3>2
  <2>6. renders => target.kind \in {"plmn", "acc"}
    BY DEF renders
  <2>7. OriginalInv' /\ SinglesInv'
    <3>1. target.kind \in Edit!Singles => rows' = rows
      BY <1>3, <2>6 DEF Edit!Singles
    <3> QED BY <1>2, <1>4, <2>1, <2>2, <3>1 DEF OriginalInv, SinglesInv, Edit!Contents, Edit!Pick
  <2>8. OldInv'
    <3>1. renders /\ target.kind = "acc" /\ Settled => oldRows' = target.contents
      BY <1>2, <2>4, <2>5, TableIsContents
    <3> QED BY <1>2, <1>4, <2>1, <2>2, <2>3, <3>1 DEF OldInv
  <2>9. RowsInv'
    <3> SUFFICES ASSUME ShowableTable, ~edits'.aged, ~Edit!MapDue, Settled
                 PROVE  LocalTo(Edit!BoxOf(target, rows'), target, edits'.rows)
      BY <1>2, <2>2, <2>3 DEF RowsInv, ShowableTable, Showable
    <3>1. CASE renders \/ target.kind = "service"
      <4>1. rows' = Edit!TableOf(target)
        <5>1. CASE target.kind = "service"
          <6>1. oldRows = target.contents
            BY <1>4, <2>1, <5>1 DEF OldInv
          <6> QED BY <1>3, <2>4, <2>6, <5>1, <6>1, TableIsContents
        <5> QED BY <2>5, <3>1, <5>1
      <4>2. LocalTo(Edit!BoxOf(target, rows'), target, {})
        BY <2>4, <4>1, TableShows DEF ShowableTable
      <4> QED BY <4>2, Wider
    <3>2. CASE ~renders /\ target.kind # "service"
      BY <1>3, <1>4, <2>1, <3>2 DEF RowsInv
    <3> QED BY <3>1, <3>2
  <2>10. BoxInv'
    <3> SUFFICES ASSUME ShowableTable, Settled PROVE LocalTo(original, target, edits'.rows)
      BY <1>2, <2>2 DEF BoxInv, ShowableTable, Showable
    <3>1. ~target.tail /\ original = Edit!Contents(target)
      BY <2>1 DEF ShowableTable, Showable, OriginalInv, Edit!Tables, Edit!Singles
    <3> QED BY <3>1, ContentsLocal, Wider
  <2>11. NotSame'
    BY <1>2, <1>4 DEF NotSame, Sendable
  <2>12. QuietInv'
    BY <1>2 DEF QuietInv
  <2> QED BY <2>2, <2>7, <2>8, <2>9, <2>10, <2>11, <2>12
<1>7. Edit!OpenedByRule' /\ Edit!EditsAreLocal'
  BY <1>1, <1>2, RuleKept, EditsKept
<1> QED BY <1>5, <1>6, <1>7 DEF EditInv, PopupInv

\* The names of the services arrive, and a table is rendered.
LEMMA MapArrivesStep ==
  ASSUME EditInv, NEW d, Edit!MapArrives(d)
  PROVE  EditInv'
<1>1. EditTypes /\ PopupInv /\ Edit!OpenedByRule /\ Edit!EditsAreLocal /\ d \in due
  BY DEF EditInv, Edit!MapArrives
<1>2. /\ target' = target /\ verified' = verified /\ phase' = phase /\ original' = original
      /\ picked' = picked /\ box' = box /\ buttons' = buttons /\ posted' = posted
      /\ cache' = cache /\ awaited' = awaited /\ due' = due \ {d}
      /\ rows' = Edit!TableOf(d.file) /\ oldRows' = Edit!TableOf(d.file)
  BY DEF Edit!MapArrives
<1>3. /\ edits'.rows = edits.rows /\ edits'.typed = edits.typed /\ edits'.stale = edits.stale
      /\ edits'.aged = (d.file # target) /\ edits'.wrote = edits.wrote /\ edits'.at = edits.at
      /\ edits'.late = edits.late /\ edits'.blind = edits.blind
      /\ edits' = [rows |-> edits'.rows, typed |-> edits'.typed, mistyped |-> edits'.mistyped,
                   aged |-> edits'.aged, stale |-> edits'.stale, wrote |-> edits'.wrote,
                   late |-> edits'.late, blind |-> edits'.blind, at |-> edits'.at]
  <2> DEFINE e == edits
  <2>1. e = [rows |-> e.rows, typed |-> e.typed, mistyped |-> e.mistyped, aged |-> e.aged,
             stale |-> e.stale, wrote |-> e.wrote, late |-> e.late, blind |-> e.blind, at |-> e.at]
    BY <1>1 DEF EditTypes
  <2> DEFINE a == d.file # target
  <2>2. edits' = [e EXCEPT !.aged = a]
    BY DEF Edit!MapArrives
  <2> HIDE DEF a
  <2>3. edits' = [rows |-> e.rows, typed |-> e.typed, mistyped |-> e.mistyped, aged |-> a,
                  stale |-> e.stale, wrote |-> e.wrote, late |-> e.late, blind |-> e.blind,
                  at |-> e.at]
    BY <2>1, <2>2
  <2> QED BY <2>3 DEF a
<1>4. target.kind = "service" /\ Edit!IsFile(target) /\ Edit!IsFile(d.file)
  BY <1>1 DEF EditTypes, SameFile
<1>5. EditTypes'
  BY <1>1, <1>2, <1>3, <1>4, TableTyped DEF EditTypes, SameFile
<1>6. ASSUME phase = "open", ~edits'.blind
      PROVE  (WaitInv /\ OriginalInv /\ SinglesInv /\ OldInv /\ RowsInv /\ BoxInv /\ NotSame /\ QuietInv)'
  <2>1. WaitInv /\ OriginalInv /\ SinglesInv /\ OldInv /\ RowsInv /\ BoxInv /\ NotSame /\ QuietInv
    BY <1>1, <1>3, <1>6 DEF PopupInv
  <2>2. WaitInv' /\ (Settled' <=> Settled)
    BY <1>2, <1>3, <2>1, WaitKept
  <2>3. OriginalInv' /\ SinglesInv'
    BY <1>2, <1>4, <2>1, <2>2 DEF OriginalInv, SinglesInv, Edit!Contents, Edit!Singles
  <2>4. OldInv'
    BY <1>2, <1>3, <1>4, TableIsContents DEF OldInv
  <2>5. RowsInv'
    <3> SUFFICES ASSUME ShowableTable, ~edits'.aged
                 PROVE  LocalTo(Edit!BoxOf(target, rows'), target, edits'.rows)
      BY <1>2 DEF RowsInv, ShowableTable, Showable
    <3>1. LocalTo(Edit!BoxOf(target, rows'), target, {})
      BY <1>2, <1>3, <1>4, TableShows DEF ShowableTable
    <3> QED BY <3>1, Wider
  <2>6. Sendable' <=> Sendable
    BY <1>2 DEF Sendable
  <2>7. BoxInv' /\ NotSame'
    BY <1>2, <1>3, <2>1, <2>2, <2>6 DEF BoxInv, NotSame, ShowableTable, Showable
  <2>8. QuietInv'
    BY <1>2, <1>3, <2>1 DEF QuietInv
  <2> QED BY <2>2, <2>3, <2>4, <2>5, <2>7, <2>8
<1>7. Edit!OpenedByRule' /\ Edit!EditsAreLocal'
  BY <1>1, <1>2, RuleKept, EditsKept
<1> QED BY <1>2, <1>5, <1>6, <1>7 DEF EditInv, PopupInv

\* The popup opens with what the page has read.
LEMMA OpenStep ==
  ASSUME EditInv, Edit!Open
  PROVE  EditInv'
<1>1. EditTypes /\ Edit!WriteOffered(target)
  BY DEF EditInv, Edit!Open
<1>2. PICK t \in cache : Edit!Fill(t, 1)
        /\ due' = IF t.kind = "service" THEN due \cup {[file |-> t, at |-> steps']} ELSE due
  BY DEF Edit!Open
<1>3. /\ target' = target /\ verified' = verified /\ phase' = "open" /\ posted' = Edit!Nothing
      /\ cache' = cache /\ awaited' = awaited
      /\ edits' = [Edit!NoEdits EXCEPT !.at = steps', !.late = awaited # {},
                                       !.blind = awaited # {} \/ cache # {target}]
  BY DEF Edit!Open
<1>4. /\ rows' = IF t.kind = "service" THEN rows ELSE Edit!TableOf(t)
      /\ oldRows' = IF t.kind = "service" THEN oldRows ELSE Edit!TableOf(t)
      /\ picked' = 1 /\ box' = original' /\ buttons' = {}
      /\ original' = IF t.kind \in Edit!Singles THEN Edit!Pick(t, 1) ELSE Edit!Contents(t)
  BY <1>2 DEF Edit!Fill
<1>5. /\ edits'.at = steps' /\ edits'.blind = (awaited # {} \/ cache # {target})
      /\ edits' = [rows |-> edits'.rows, typed |-> edits'.typed, mistyped |-> edits'.mistyped,
                   aged |-> edits'.aged, stale |-> edits'.stale, wrote |-> edits'.wrote,
                   late |-> edits'.late, blind |-> edits'.blind, at |-> edits'.at]
  <2> DEFINE l == awaited # {}
             b == awaited # {} \/ cache # {target}
  <2>1. edits' = [Edit!NoEdits EXCEPT !.at = steps', !.late = l, !.blind = b]
    BY <1>3
  <2> HIDE DEF l, b
  <2>2. edits' = [rows |-> {}, typed |-> FALSE, mistyped |-> FALSE, aged |-> FALSE, stale |-> FALSE,
                  wrote |-> FALSE, late |-> l, blind |-> b, at |-> steps']
    BY <2>1 DEF Edit!NoEdits
  <2>3. /\ edits'.at = steps' /\ edits'.blind = b
        /\ edits' = [rows |-> edits'.rows, typed |-> edits'.typed, mistyped |-> edits'.mistyped,
                   aged |-> edits'.aged, stale |-> edits'.stale, wrote |-> edits'.wrote,
                   late |-> edits'.late, blind |-> edits'.blind, at |-> edits'.at]
    BY <2>2
  <2> QED BY <2>3 DEF b
<1>6. SameFile(t) /\ Edit!IsFile(target) /\ Edit!IsFile(t) /\ t.kind = target.kind
  BY <1>1, <1>2 DEF EditTypes, SameFile
<1>7. EditTypes'
  <2>1. Edit!IsSequence(rows') /\ Edit!IsSequence(oldRows')
    BY <1>1, <1>4, <1>6, TableTyped DEF EditTypes
  <2>2. IsText(target.kind, original')
    BY <1>4, <1>6, PickTyped, ContentsTyped
  <2>3. \A d \in due' : target.kind = "service" /\ SameFile(d.file)
    BY <1>1, <1>2, <1>6 DEF EditTypes
  <2> QED BY <1>1, <1>3, <1>4, <1>5, <2>1, <2>2, <2>3 DEF EditTypes, SameFile
<1>8. ASSUME ~edits'.blind
      PROVE  (WaitInv /\ OriginalInv /\ SinglesInv /\ OldInv /\ RowsInv /\ BoxInv /\ NotSame /\ QuietInv)'
  <2>1. awaited = {} /\ cache = {target} /\ t = target
    BY <1>2, <1>5, <1>8
  <2>2. WaitInv'
    BY <1>3, <2>1 DEF WaitInv
  <2>3. target.kind \notin {"plmn", "service"} => rows' = target.contents /\ oldRows' = target.contents
    BY <1>4, <1>6, <2>1, TableIsContents
  <2>4. target.kind = "service" => Edit!MapDue'
    <3>1. target.kind = "service" => [file |-> t, at |-> steps'] \in due'
      BY <1>2, <1>6
    <3>2. [file |-> t, at |-> steps'].at = steps'
      OBVIOUS
    <3> QED BY <1>5, <3>1, <3>2 DEF Edit!MapDue
  <2>5. OriginalInv' /\ SinglesInv' /\ OldInv'
    BY <1>3, <1>4, <2>1, <2>3, <2>4
       DEF OriginalInv, SinglesInv, OldInv, Edit!Singles, Edit!Contents, Edit!Pick
  <2>6. RowsInv'
    <3> SUFFICES ASSUME ShowableTable, target.kind # "service"
                 PROVE  LocalTo(Edit!BoxOf(target, rows'), target, edits'.rows)
      BY <1>3, <2>4 DEF RowsInv, ShowableTable, Showable
    <3>1. LocalTo(Edit!BoxOf(target, rows'), target, {})
      BY <1>4, <1>6, <2>1, TableShows DEF ShowableTable
    <3> QED BY <3>1, Wider
  <2>7. BoxInv' /\ NotSame'
    BY <1>3, <1>4, <2>1 DEF BoxInv, NotSame, Sendable
  <2>8. QuietInv'
    BY <1>4 DEF QuietInv
  <2> QED BY <2>2, <2>5, <2>6, <2>7, <2>8
<1>9. Edit!OpenedByRule' /\ Edit!EditsAreLocal'
  <2>1. ~posted'.any
    BY <1>3 DEF Edit!Nothing
  <2>2. Edit!OpenedByRule'
    BY <1>1, <1>3, <1>6, OfferedByRule DEF Edit!OpenedByRule
  <2> QED BY <2>1, <2>2 DEF Edit!EditsAreLocal
<1> QED BY <1>7, <1>8, <1>9 DEF EditInv, PopupInv

\* While the popup is closed nothing is promised of its tables.
LEMMA ClosedStep ==
  ASSUME EditInv, Edit!Close \/ Edit!VerifyAdm
  PROVE  EditInv'
<1>1. /\ target' = target /\ rows' = rows /\ oldRows' = oldRows /\ box' = box /\ posted' = posted
      /\ original' = original /\ edits' = edits /\ phase' = "closed" /\ cache' = cache
      /\ awaited' = awaited /\ due' = due
  BY DEF Edit!Close, Edit!VerifyAdm, Edit!editor
<1>2. EditTypes'
  BY <1>1 DEF EditInv, EditTypes, SameFile
<1>3. Edit!EditsAreLocal'
  BY <1>1, EditsKept DEF EditInv
<1> QED BY <1>1, <1>2, <1>3 DEF EditInv, PopupInv, Edit!OpenedByRule

\* What is sent is what the box holds, and what it was edited from.
LEMMA SubmitStep ==
  ASSUME EditInv, Edit!Submit
  PROVE  EditInv'
<1> DEFINE s == [text |-> box, at |-> picked, nr |-> steps', stage |-> "sent", seen |-> cache]
<1>1. EditTypes /\ PopupInv /\ Edit!OpenedByRule /\ phase = "open" /\ "submit" \in buttons
      /\ (target.kind = "tlv" \/ cache # {})
  BY DEF EditInv, Edit!Submit, Edit!Acts
<1>2. /\ target' = target /\ verified' = verified /\ rows' = rows /\ oldRows' = oldRows /\ box' = box
      /\ original' = original /\ picked' = picked /\ phase' = phase /\ cache' = cache /\ due' = due
      /\ awaited' = awaited \cup {s} /\ buttons' = buttons \ {"submit"}
      /\ posted' = [text |-> box, edits |-> edits', any |-> TRUE,
                    basis |-> IF target.kind \in Edit!Singles THEN Edit!Pick(target, picked)
                              ELSE Edit!Contents(target)]
  BY DEF Edit!Submit
<1>3. /\ edits'.rows = edits.rows /\ edits'.typed = edits.typed /\ edits'.aged = edits.aged
      /\ edits'.stale = edits.stale /\ edits'.wrote = edits.wrote /\ edits'.late = edits.late
      /\ edits'.at = edits.at /\ edits'.blind = (edits.blind \/ awaited # {})
      /\ edits' = [rows |-> edits'.rows, typed |-> edits'.typed, mistyped |-> edits'.mistyped,
                   aged |-> edits'.aged, stale |-> edits'.stale, wrote |-> edits'.wrote,
                   late |-> edits'.late, blind |-> edits'.blind, at |-> edits'.at]
  <2> DEFINE e == edits
  <2>1. e = [rows |-> e.rows, typed |-> e.typed, mistyped |-> e.mistyped, aged |-> e.aged,
             stale |-> e.stale, wrote |-> e.wrote, late |-> e.late, blind |-> e.blind, at |-> e.at]
    BY <1>1 DEF EditTypes
  <2> DEFINE b == e.blind \/ awaited # {}
  <2>2. edits' = [e EXCEPT !.blind = b]
    BY DEF Edit!Submit
  <2> HIDE DEF b
  <2>3. edits' = [rows |-> e.rows, typed |-> e.typed, mistyped |-> e.mistyped, aged |-> e.aged,
                  stale |-> e.stale, wrote |-> e.wrote, late |-> e.late, blind |-> b, at |-> e.at]
    BY <2>1, <2>2
  <2> QED BY <2>3 DEF b
<1>4. s.text = box /\ s.stage = "sent" /\ s.seen = cache
      /\ s = [text |-> s.text, at |-> s.at, nr |-> s.nr, stage |-> s.stage, seen |-> s.seen]
  OBVIOUS
<1> HIDE DEF s
<1>5. EditTypes'
  BY <1>1, <1>2, <1>3, <1>4 DEF EditTypes, SameFile
<1>6. ASSUME ~edits'.blind
      PROVE  (WaitInv /\ OriginalInv /\ SinglesInv /\ OldInv /\ RowsInv /\ BoxInv /\ NotSame /\ QuietInv)'
  <2>1. /\ WaitInv /\ OriginalInv /\ SinglesInv /\ OldInv /\ RowsInv /\ BoxInv /\ NotSame
        /\ awaited = {}
    BY <1>1, <1>3, <1>6 DEF PopupInv
  <2>2. awaited' = {s} /\ Settled /\ Settled' /\ AllSent /\ Sendable /\ Sendable'
    BY <1>1, <1>2, <1>4, <2>1 DEF Settled, AllSent, Sendable
  <2>3. cache \subseteq {target} /\ (target.kind # "tlv" => cache # {})
    BY <2>1, <2>2 DEF WaitInv
  <2>4. WaitInv'
    BY <1>2, <1>4, <2>2, <2>3 DEF WaitInv
  <2>5. Edit!MapDue' <=> Edit!MapDue
    BY <1>2, <1>3 DEF Edit!MapDue
  <2>6. OriginalInv' /\ SinglesInv' /\ OldInv' /\ RowsInv' /\ BoxInv' /\ NotSame'
    BY <1>2, <1>3, <2>1, <2>2, <2>5
       DEF OriginalInv, SinglesInv, OldInv, RowsInv, BoxInv, NotSame, ShowableTable, Showable,
           Edit!Contents, Edit!Pick
  <2>7. QuietInv'
    BY <1>2 DEF QuietInv
  <2> QED BY <2>4, <2>6, <2>7
<1>7. Edit!EditsAreLocal'
  <2>1. posted'.text = box /\ posted'.edits = edits'
        /\ (target.kind \notin Edit!Singles => posted'.basis = Edit!Contents(target))
    BY <1>2
  <2> SUFFICES ASSUME target.kind \in Edit!Tables, ~edits.typed, ~edits.stale, ~edits'.blind,
                      Edit!Tabular(Edit!Contents(target))
               PROVE  /\ DOMAIN box.entries = DOMAIN Edit!Contents(target).entries /\ ~box.tail
                      /\ \A i \in DOMAIN Edit!Contents(target).entries :
                           box.entries[i] # Edit!Contents(target).entries[i] => i \in edits.rows
    <3>1. (Edit!Tabular(Edit!Contents(target)))' <=> Edit!Tabular(Edit!Contents(target))
      BY <1>2 DEF Edit!Tabular, Edit!Contents
    <3>2. posted'.basis = Edit!Contents(target) \/ target.kind \notin Edit!Tables
      BY <2>1 DEF Edit!Tables, Edit!Singles
    <3>3. Edit!Contents(target)' = Edit!Contents(target)
      BY <1>2
    <3> QED BY <1>2, <1>3, <2>1, <3>1, <3>2, <3>3 DEF Edit!EditsAreLocal
  <2>2. BoxInv /\ awaited = {}
    BY <1>1, <1>3 DEF PopupInv
  <2>3. LocalTo(box, target, edits.rows)
    BY <1>1, <2>2, TabularFacts DEF BoxInv, ShowableTable, Sendable, Settled
  <2>4. Edit!Contents(target).entries = target.contents
    BY TextParts DEF Edit!Contents
  <2> QED BY <2>3, <2>4 DEF LocalTo
<1>8. Edit!OpenedByRule'
  BY <1>1, <1>2, RuleKept
<1> QED BY <1>5, <1>6, <1>7, <1>8 DEF EditInv, PopupInv

\* What a write leaves of a file.
LEMMA StoredFacts ==
  ASSUME NEW o, Edit!IsFile(o), NEW w, IsText(o.kind, w.text), NEW t, t = Edit!Stored(o, w)
  PROVE  /\ Edit!IsFile(t) /\ t.kind = o.kind /\ t.sized = o.sized
         /\ t.mapped = o.mapped /\ t.rules = o.rules
         /\ o.kind \notin Edit!Singles => Edit!Contents(t) = w.text
<1> DEFINE x == w.text.entries
           c == IF o.contents = <<>> THEN x ELSE [o.contents EXCEPT ![w.at] = x[1]]
<1>1. o = [kind |-> o.kind, contents |-> o.contents, tail |-> o.tail, sized |-> o.sized,
           mapped |-> o.mapped, rules |-> o.rules]
  BY DEF Edit!IsFile
<1>2. /\ Edit!EntriesFit(o.kind, x) /\ Edit!EntriesFit(o.kind, o.contents) /\ Edit!IsSequence(o.rules)
      /\ w.text = Edit!Text(x, w.text.tail)
  BY DEF Edit!IsFile, IsText
<1>3. CASE o.kind \notin Edit!Singles
  <2>1. t = [o EXCEPT !.contents = x, !.tail = w.text.tail]
    BY <1>3 DEF Edit!Stored
  <2> HIDE DEF x
  <2>2. t = [kind |-> o.kind, contents |-> x, tail |-> w.text.tail, sized |-> o.sized,
             mapped |-> o.mapped, rules |-> o.rules]
    BY <1>1, <2>1
  <2>3. t.contents = x /\ t.tail = w.text.tail /\ t.kind = o.kind /\ t.rules = o.rules
        /\ t.sized = o.sized /\ t.mapped = o.mapped
        /\ t = [kind |-> t.kind, contents |-> t.contents, tail |-> t.tail, sized |-> t.sized,
                mapped |-> t.mapped, rules |-> t.rules]
    BY <2>2
  <2>4. Edit!IsFile(t)
    BY <1>2, <2>3 DEF Edit!IsFile
  <2> QED BY <1>2, <2>3, <2>4 DEF Edit!Contents
<1>4. CASE o.kind \in Edit!Singles
  <2>1. t = [o EXCEPT !.contents = c]
    BY <1>4 DEF Edit!Stored
  <2>2. Edit!IsSequence(c)
    <3>1. Edit!IsSequence(x) /\ Edit!IsSequence(o.contents)
      BY <1>2 DEF Edit!EntriesFit
    <3> DEFINE f == [o.contents EXCEPT ![w.at] = x[1]]
    <3>2. f = [i \in DOMAIN o.contents |-> f[i]]
      OBVIOUS
    <3> HIDE DEF f
    <3>3. Edit!IsSequence(f)
      BY <3>1, <3>2, EntryByEntry
    <3> QED BY <3>1, <3>3 DEF f
  <2> HIDE DEF c
  <2>3. t = [kind |-> o.kind, contents |-> c, tail |-> o.tail, sized |-> o.sized,
             mapped |-> o.mapped, rules |-> o.rules]
    BY <1>1, <2>1
  <2>4. t.contents = c /\ t.kind = o.kind /\ t.rules = o.rules
        /\ t.sized = o.sized /\ t.mapped = o.mapped
        /\ t = [kind |-> t.kind, contents |-> t.contents, tail |-> t.tail, sized |-> t.sized,
                mapped |-> t.mapped, rules |-> t.rules]
    BY <2>3
  <2>5. Edit!EntriesFit(t.kind, t.contents)
    BY <1>4, <2>2, <2>4 DEF Edit!EntriesFit, Edit!Singles
  <2> QED BY <1>2, <1>4, <2>4, <2>5 DEF Edit!IsFile
<1> QED BY <1>3, <1>4

\* A write that goes on to its next stage is the same write.
LEMMA GoesFacts ==
  ASSUME EditTypes, NEW w \in awaited, NEW g \in {"sent", "stored", "answered"}, NEW x,
         x = [w EXCEPT !.stage = g]
  PROVE  /\ x = [text |-> x.text, at |-> x.at, nr |-> x.nr, stage |-> x.stage, seen |-> x.seen]
         /\ x.text = w.text /\ x.seen = w.seen /\ x.stage = g /\ IsText(target.kind, x.text)
         /\ \A t : Edit!Stored(t, x) = Edit!Stored(t, w)
<1>1. w = [text |-> w.text, at |-> w.at, nr |-> w.nr, stage |-> w.stage, seen |-> w.seen]
      /\ IsText(target.kind, w.text)
  BY DEF EditTypes
<1>2. x = [text |-> w.text, at |-> w.at, nr |-> w.nr, stage |-> g, seen |-> w.seen]
  BY <1>1
<1>3. x.text = w.text /\ x.at = w.at /\ x.nr = w.nr /\ x.stage = g /\ x.seen = w.seen
  BY <1>2
<1>4. \A t : Edit!Stored(t, x) = Edit!Stored(t, w)
  BY <1>3 DEF Edit!Stored
<1> QED BY <1>1, <1>2, <1>3, <1>4

\* The card stores it, and the page knows nothing of that yet.
LEMMA CardStoresStep ==
  ASSUME EditInv, NEW w, Edit!CardStores(w)
  PROVE  EditInv'
<1> DEFINE x == [w EXCEPT !.stage = "stored"]
<1>1. EditTypes /\ PopupInv /\ Edit!OpenedByRule /\ Edit!EditsAreLocal /\ w \in awaited
      /\ w.stage = "sent"
  BY DEF EditInv, Edit!CardStores
<1>2. /\ target' = Edit!Stored(target, w) /\ verified' = verified /\ phase' = phase
      /\ rows' = rows /\ oldRows' = oldRows /\ box' = box /\ original' = original
      /\ picked' = picked /\ buttons' = buttons /\ posted' = posted /\ edits' = edits
      /\ cache' = cache /\ due' = due /\ awaited' = (awaited \ {w}) \cup {x}
  BY DEF Edit!CardStores, Edit!Goes, Edit!editor
<1>3. /\ x = [text |-> x.text, at |-> x.at, nr |-> x.nr, stage |-> x.stage, seen |-> x.seen]
      /\ x.text = w.text /\ x.seen = w.seen /\ x.stage = "stored" /\ IsText(target.kind, x.text)
      /\ \A t : Edit!Stored(t, x) = Edit!Stored(t, w)
  BY <1>1, GoesFacts
<1> HIDE DEF x
<1>4. Edit!IsFile(target) /\ IsText(target.kind, w.text)
  BY <1>1 DEF EditTypes
<1>5. /\ Edit!IsFile(target') /\ target'.kind = target.kind /\ target'.sized = target.sized
      /\ target'.mapped = target.mapped /\ target'.rules = target.rules
      /\ target.kind \notin Edit!Singles => Edit!Contents(target') = w.text
  BY <1>2, <1>4, StoredFacts
<1>6. EditTypes'
  BY <1>1, <1>2, <1>3, <1>5 DEF EditTypes, SameFile
<1>7. ASSUME phase = "open", ~edits.blind
      PROVE  (WaitInv /\ OriginalInv /\ SinglesInv /\ OldInv /\ RowsInv /\ BoxInv /\ NotSame /\ QuietInv)'
  <2>1. WaitInv /\ QuietInv
    BY <1>1, <1>7 DEF PopupInv
  <2>2. awaited' = {x} /\ ~Settled' /\ ~AllSent'
    <3>1. awaited' = {x}
      BY <1>1, <1>2, <2>1 DEF WaitInv
    <3> QED BY <1>3, <3>1 DEF Settled, AllSent
  <2>3. WaitInv'
    <3>1. w.seen \subseteq {target} /\ (target.kind # "tlv" => w.seen # {})
      BY <1>1, <2>1 DEF WaitInv
    <3>2. \A t \in x.seen : Edit!Stored(t, x) = target'
      BY <1>2, <1>3, <3>1
    <3>3. target'.kind \notin Edit!Singles => Edit!Contents(target') = x.text
      BY <1>3, <1>5
    <3> QED BY <1>3, <1>5, <2>2, <3>1, <3>2, <3>3 DEF WaitInv
  <2>4. QuietInv'
    BY <1>1, <1>2, <2>1 DEF QuietInv
  <2> QED BY <2>2, <2>3, <2>4 DEF OriginalInv, SinglesInv, OldInv, RowsInv, BoxInv, NotSame
<1>8. Edit!OpenedByRule' /\ Edit!EditsAreLocal'
  BY <1>1, <1>2, <1>5, RuleKept, EditsKept
<1> QED BY <1>2, <1>6, <1>7, <1>8 DEF EditInv, PopupInv

\* What was sent is the new original; a table that does not show it has aged.
LEMMA WriteDoneStep ==
  ASSUME EditInv, NEW w, Edit!WriteDone(w)
  PROVE  EditInv'
<1> DEFINE x == [w EXCEPT !.stage = "answered"]
<1>1. EditTypes /\ PopupInv /\ Edit!OpenedByRule /\ Edit!EditsAreLocal /\ w \in awaited
      /\ w.stage = "stored"
  BY DEF EditInv, Edit!WriteDone
<1>2. /\ target' = target /\ verified' = verified /\ phase' = phase /\ buttons' = {}
      /\ original' = w.text /\ oldRows' = oldRows /\ box' = box /\ picked' = picked
      /\ posted' = posted /\ cache' = {} /\ due' = due /\ awaited' = (awaited \ {w}) \cup {x}
      /\ target.kind # "tlv" => rows' = rows
      /\ rows' \in {rows, w.text.entries, [rows EXCEPT ![w.at] = w.text.entries[1]]}
  BY DEF Edit!WriteDone, Edit!Goes
<1>3. /\ edits'.wrote = TRUE /\ edits'.blind = edits.blind
      /\ ~edits'.aged => ~edits.aged
      /\ ~edits'.aged /\ target.kind \in Edit!Tables => Edit!BoxOf(target, rows) = w.text
      /\ edits' = [rows |-> edits'.rows, typed |-> edits'.typed, mistyped |-> edits'.mistyped,
                   aged |-> edits'.aged, stale |-> edits'.stale, wrote |-> edits'.wrote,
                   late |-> edits'.late, blind |-> edits'.blind, at |-> edits'.at]
  <2> DEFINE e == edits
  <2>1. e = [rows |-> e.rows, typed |-> e.typed, mistyped |-> e.mistyped, aged |-> e.aged,
             stale |-> e.stale, wrote |-> e.wrote, late |-> e.late, blind |-> e.blind, at |-> e.at]
    BY <1>1 DEF EditTypes
  <2> DEFINE a == e.aged \/ (target.kind \in Edit!Tables /\ Edit!BoxOf(target, rows) # w.text)
  <2>2. edits' = [e EXCEPT !.rows = {}, !.wrote = TRUE, !.mistyped = FALSE, !.aged = a]
    BY DEF Edit!WriteDone
  <2>3. ~a => ~e.aged /\ (target.kind \in Edit!Tables => Edit!BoxOf(target, rows) = w.text)
    OBVIOUS
  <2> HIDE DEF a
  <2>4. edits' = [rows |-> {}, typed |-> e.typed, mistyped |-> FALSE, aged |-> a, stale |-> e.stale,
                  wrote |-> TRUE, late |-> e.late, blind |-> e.blind, at |-> e.at]
    BY <2>1, <2>2
  <2> QED BY <2>3, <2>4
<1>4. /\ x = [text |-> x.text, at |-> x.at, nr |-> x.nr, stage |-> x.stage, seen |-> x.seen]
      /\ x.text = w.text /\ x.seen = w.seen /\ x.stage = "answered" /\ IsText(target.kind, x.text)
      /\ \A t : Edit!Stored(t, x) = Edit!Stored(t, w)
  BY <1>1, GoesFacts
<1> HIDE DEF x
<1>5. EditTypes'
  <2>1. Edit!IsSequence(rows) /\ Edit!IsSequence(w.text.entries)
    BY <1>1 DEF EditTypes, IsText, Edit!EntriesFit
  <2>2. Edit!IsSequence([rows EXCEPT ![w.at] = w.text.entries[1]])
    <3> DEFINE f == [rows EXCEPT ![w.at] = w.text.entries[1]]
    <3>1. f = [i \in DOMAIN rows |-> f[i]]
      OBVIOUS
    <3> HIDE DEF f
    <3>2. Edit!IsSequence(f)
      BY <2>1, <3>1, EntryByEntry
    <3> QED BY <3>2 DEF f
  <2>3. Edit!IsSequence(rows')
    BY <1>2, <2>1, <2>2
  <2>4. IsText(target.kind, original')
    BY <1>1, <1>2 DEF EditTypes
  <2> QED BY <1>1, <1>2, <1>3, <1>4, <2>3, <2>4 DEF EditTypes, SameFile
<1>6. ASSUME phase = "open", ~edits'.blind
      PROVE  (WaitInv /\ OriginalInv /\ SinglesInv /\ OldInv /\ RowsInv /\ BoxInv /\ NotSame /\ QuietInv)'
  <2>1. WaitInv
    BY <1>1, <1>3, <1>6 DEF PopupInv
  <2>2. awaited' = {x} /\ ~AllSent' /\ ~Sendable'
    <3>1. awaited' = {x}
      BY <1>1, <1>2, <2>1 DEF WaitInv
    <3> QED BY <1>2, <1>4, <3>1 DEF AllSent, Sendable
  <2>3. /\ \A t \in w.seen : Edit!Stored(t, w) = target
        /\ target.kind \notin Edit!Singles => Edit!Contents(target) = w.text
        /\ target.kind # "tlv" => w.seen # {}
    BY <1>1, <2>1 DEF WaitInv
  <2>4. WaitInv'
    <3>1. \A t \in x.seen : Edit!Stored(t, x) = target
      BY <1>4, <2>3
    <3> QED BY <1>2, <1>3, <1>4, <2>2, <2>3, <3>1 DEF WaitInv
  <2>5. OriginalInv' /\ SinglesInv' /\ OldInv'
    BY <1>2, <1>3, <2>3 DEF OriginalInv, SinglesInv, OldInv, Edit!Contents
  <2>6. RowsInv'
    <3> SUFFICES ASSUME ShowableTable, ~edits'.aged
                 PROVE  LocalTo(Edit!BoxOf(target, rows'), target, edits'.rows)
      BY <1>2 DEF RowsInv, ShowableTable, Showable
    <3>1. rows' = rows /\ target.kind \notin Edit!Singles
      BY <1>2 DEF ShowableTable, Edit!Tables, Edit!Singles
    <3>2. Edit!BoxOf(target, rows) = Edit!Contents(target)
      BY <1>3, <2>3, <3>1 DEF ShowableTable
    <3>3. LocalTo(Edit!Contents(target), target, {})
      BY ContentsLocal DEF ShowableTable, Showable
    <3> QED BY <3>1, <3>2, <3>3, Wider
  <2>7. QuietInv'
    BY <1>2 DEF QuietInv
  <2> QED BY <2>2, <2>4, <2>5, <2>6, <2>7 DEF BoxInv, NotSame
<1>7. Edit!OpenedByRule' /\ Edit!EditsAreLocal'
  BY <1>1, <1>2, RuleKept, EditsKept
<1> QED BY <1>2, <1>5, <1>6, <1>7 DEF EditInv, PopupInv

\* The file is read again, or believed to hold what was sent.
LEMMA RereadStep ==
  ASSUME EditInv, NEW w, NEW ok \in BOOLEAN, Edit!Reread(w, ok)
  PROVE  EditInv'
<1>1. EditTypes /\ PopupInv /\ Edit!OpenedByRule /\ Edit!EditsAreLocal /\ w \in awaited
      /\ w.stage = "answered"
  BY DEF EditInv, Edit!Reread
<1>2. /\ target' = target /\ verified' = verified /\ phase' = phase /\ buttons' = buttons
      /\ oldRows' = oldRows /\ box' = box /\ picked' = picked
      /\ posted' = posted /\ due' = due /\ awaited' = awaited \ {w}
  BY DEF Edit!Reread
<1>3. /\ ok => cache' = {target}
      /\ ~ok /\ target.kind = "tlv" => cache' = cache
      /\ ~ok /\ target.kind # "tlv" => cache' = {Edit!Stored(t, w) : t \in w.seen}
  BY DEF Edit!Reread
<1>4. \A t \in cache' : SameFile(t)
  <2>1. SameFile(target)
    BY <1>1 DEF EditTypes, SameFile
  <2>2. ASSUME NEW t \in w.seen PROVE SameFile(Edit!Stored(t, w))
    BY <1>1, <2>2, StoredFacts DEF EditTypes, SameFile
  <2>3. \A t \in cache : SameFile(t)
    BY <1>1 DEF EditTypes
  <2> QED BY <1>3, <2>1, <2>2, <2>3
<1>5. CASE target.kind # "plmn"
  <2>1. original' = original /\ rows' = rows /\ edits' = edits
    BY <1>5 DEF Edit!Reread
  <2>2. EditTypes'
    BY <1>1, <1>2, <1>4, <2>1 DEF EditTypes, SameFile
  <2>3. ASSUME phase = "open", ~edits.blind
        PROVE  (WaitInv /\ OriginalInv /\ SinglesInv /\ OldInv /\ RowsInv /\ BoxInv /\ NotSame /\ QuietInv)'
    <3>1. WaitInv /\ OriginalInv /\ SinglesInv /\ OldInv /\ RowsInv /\ BoxInv /\ NotSame
      BY <1>1, <2>3 DEF PopupInv
    <3>2. awaited = {w} /\ awaited' = {} /\ Settled /\ edits.wrote
      BY <1>1, <1>2, <3>1 DEF WaitInv, Settled
    <3>3. cache = {} /\ (\A t \in w.seen : Edit!Stored(t, w) = target)
          /\ (target.kind # "tlv" => w.seen # {})
      BY <1>1, <3>1 DEF WaitInv
    <3>4. cache' \subseteq {target} /\ (target.kind # "tlv" => cache' # {})
      BY <1>3, <3>3
    <3>5. WaitInv'
      BY <1>2, <3>2, <3>4 DEF WaitInv
    <3>6. OriginalInv' /\ SinglesInv' /\ OldInv'
      BY <1>2, <2>1, <3>1, <3>2 DEF OriginalInv, SinglesInv, OldInv, Edit!Contents
    <3>7. Edit!MapDue' <=> Edit!MapDue
      BY <1>2, <2>1 DEF Edit!MapDue
    <3>8. Sendable' => Sendable
      BY <1>2, <3>2 DEF Sendable
    <3>9. RowsInv' /\ BoxInv' /\ NotSame'
      BY <1>2, <2>1, <3>1, <3>2, <3>7, <3>8 DEF RowsInv, BoxInv, NotSame, ShowableTable, Showable
    <3>10. QuietInv'
      BY <3>2 DEF QuietInv
    <3> QED BY <3>5, <3>6, <3>9, <3>10
  <2>4. Edit!OpenedByRule' /\ Edit!EditsAreLocal'
    BY <1>1, <1>2, RuleKept, EditsKept
  <2> QED BY <1>2, <2>1, <2>2, <2>3, <2>4 DEF EditInv, PopupInv
<1>6. CASE target.kind = "plmn"
  <2>1. PICK t \in cache' : /\ original' = Edit!Contents(t) /\ rows' = Edit!TableOf(t)
                            /\ edits' = [edits EXCEPT !.aged = t # target]
    BY <1>6 DEF Edit!Reread
  <2>2. /\ edits'.rows = edits.rows /\ edits'.typed = edits.typed /\ edits'.stale = edits.stale
        /\ edits'.aged = (t # target) /\ edits'.wrote = edits.wrote /\ edits'.at = edits.at
        /\ edits'.late = edits.late /\ edits'.blind = edits.blind
        /\ edits' = [rows |-> edits'.rows, typed |-> edits'.typed, mistyped |-> edits'.mistyped,
                   aged |-> edits'.aged, stale |-> edits'.stale, wrote |-> edits'.wrote,
                   late |-> edits'.late, blind |-> edits'.blind, at |-> edits'.at]
    <3> DEFINE e == edits
               a == t # target
    <3>1. e = [rows |-> e.rows, typed |-> e.typed, mistyped |-> e.mistyped, aged |-> e.aged,
               stale |-> e.stale, wrote |-> e.wrote, late |-> e.late, blind |-> e.blind, at |-> e.at]
      BY <1>1 DEF EditTypes
    <3>2. edits' = [e EXCEPT !.aged = a]
      BY <2>1
    <3> HIDE DEF a
    <3>3. edits' = [rows |-> e.rows, typed |-> e.typed, mistyped |-> e.mistyped, aged |-> a,
                    stale |-> e.stale, wrote |-> e.wrote, late |-> e.late, blind |-> e.blind,
                    at |-> e.at]
      BY <3>1, <3>2
    <3> QED BY <3>3 DEF a
  <2>3. Edit!IsFile(t) /\ t.kind = target.kind /\ Edit!IsFile(target)
    BY <1>1, <1>4, <2>1 DEF EditTypes, SameFile
  <2>4. EditTypes'
    <3>1. IsText(target.kind, original') /\ Edit!IsSequence(rows')
      BY <2>1, <2>3, ContentsTyped, TableTyped
    <3> QED BY <1>1, <1>2, <1>4, <2>2, <3>1 DEF EditTypes, SameFile
  <2>5. ASSUME phase = "open", ~edits'.blind
        PROVE  (WaitInv /\ OriginalInv /\ SinglesInv /\ OldInv /\ RowsInv /\ BoxInv /\ NotSame /\ QuietInv)'
    <3>1. WaitInv /\ BoxInv
      BY <1>1, <2>2, <2>5 DEF PopupInv
    <3>2. awaited = {w} /\ awaited' = {} /\ Settled /\ edits.wrote
      BY <1>1, <1>2, <3>1 DEF WaitInv, Settled
    <3>3. cache' \subseteq {target} /\ cache' # {} /\ t = target
      <4>1. \A u \in w.seen : Edit!Stored(u, w) = target
        BY <1>1, <3>1 DEF WaitInv
      <4>2. cache' \subseteq {target}
        BY <1>3, <1>6, <4>1
      <4> QED BY <2>1, <4>2
    <3>4. WaitInv'
      BY <1>2, <3>2, <3>3 DEF WaitInv
    <3>5. OriginalInv' /\ SinglesInv' /\ OldInv'
      BY <1>2, <1>6, <2>1, <3>3 DEF OriginalInv, SinglesInv, OldInv, Edit!Contents, Edit!Singles
    <3>6. RowsInv'
      <4> SUFFICES ASSUME ShowableTable
                   PROVE  LocalTo(Edit!BoxOf(target, rows'), target, edits'.rows)
        BY <1>2 DEF RowsInv, ShowableTable, Showable
      <4>1. LocalTo(Edit!BoxOf(target, rows'), target, {})
        BY <2>1, <2>3, <3>3, TableShows DEF ShowableTable
      <4> QED BY <4>1, Wider
    <3>7. Sendable' => Sendable
      BY <1>2, <3>2 DEF Sendable
    <3>8. BoxInv' /\ NotSame'
      BY <1>2, <2>2, <3>1, <3>2, <3>7 DEF BoxInv, NotSame, ShowableTable, Showable
    <3>9. QuietInv'
      BY <3>2 DEF QuietInv
    <3> QED BY <3>4, <3>5, <3>6, <3>8, <3>9
  <2>6. Edit!OpenedByRule' /\ Edit!EditsAreLocal'
    BY <1>1, <1>2, RuleKept, EditsKept
  <2> QED BY <1>2, <2>4, <2>5, <2>6 DEF EditInv, PopupInv
<1> QED BY <1>5, <1>6

\* A write that failed may be sent again.
LEMMA WriteFailedStep ==
  ASSUME EditInv, NEW w, Edit!WriteFailed(w)
  PROVE  EditInv'
<1>1. EditTypes /\ PopupInv /\ Edit!OpenedByRule /\ Edit!EditsAreLocal /\ w \in awaited
      /\ w.stage # "answered"
  BY DEF EditInv, Edit!WriteFailed
<1>2. /\ target' = target /\ verified' = verified /\ rows' = rows /\ oldRows' = oldRows /\ box' = box
      /\ original' = original /\ picked' = picked /\ posted' = posted /\ phase' = phase
      /\ cache' = cache /\ due' = due /\ awaited' = awaited \ {w}
  BY DEF Edit!WriteFailed
<1>3. /\ edits'.rows = edits.rows /\ edits'.typed = edits.typed /\ edits'.aged = edits.aged
      /\ edits'.stale = edits.stale /\ edits'.wrote = edits.wrote /\ edits'.late = edits.late
      /\ edits'.at = edits.at /\ edits'.blind = (edits.blind \/ w.stage = "stored")
      /\ edits' = [rows |-> edits'.rows, typed |-> edits'.typed, mistyped |-> edits'.mistyped,
                   aged |-> edits'.aged, stale |-> edits'.stale, wrote |-> edits'.wrote,
                   late |-> edits'.late, blind |-> edits'.blind, at |-> edits'.at]
  <2> DEFINE e == edits
  <2>1. e = [rows |-> e.rows, typed |-> e.typed, mistyped |-> e.mistyped, aged |-> e.aged,
             stale |-> e.stale, wrote |-> e.wrote, late |-> e.late, blind |-> e.blind, at |-> e.at]
    BY <1>1 DEF EditTypes
  <2> DEFINE b == e.blind \/ w.stage = "stored"
  <2>2. edits' = [e EXCEPT !.blind = b]
    BY DEF Edit!WriteFailed
  <2> HIDE DEF b
  <2>3. edits' = [rows |-> e.rows, typed |-> e.typed, mistyped |-> e.mistyped, aged |-> e.aged,
                  stale |-> e.stale, wrote |-> e.wrote, late |-> e.late, blind |-> b, at |-> e.at]
    BY <2>1, <2>2
  <2> QED BY <2>3 DEF b
<1>4. EditTypes'
  BY <1>1, <1>2, <1>3 DEF EditTypes, SameFile
<1>5. ASSUME phase = "open", ~edits'.blind
      PROVE  (WaitInv /\ OriginalInv /\ SinglesInv /\ OldInv /\ RowsInv /\ BoxInv /\ NotSame /\ QuietInv)'
  <2>1. WaitInv /\ OriginalInv /\ SinglesInv /\ OldInv /\ RowsInv /\ BoxInv /\ NotSame
    BY <1>1, <1>3, <1>5 DEF PopupInv
  <2>2. w.stage = "sent"
    BY <1>1, <1>3, <1>5 DEF EditTypes
  <2>3. awaited = {w} /\ awaited' = {} /\ AllSent /\ Settled /\ Sendable
    BY <1>1, <1>2, <2>1, <2>2 DEF WaitInv, AllSent, Settled, Sendable
  <2>4. cache \subseteq {target} /\ (target.kind # "tlv" => cache # {})
    BY <2>1, <2>3 DEF WaitInv
  <2>5. WaitInv'
    BY <1>2, <2>3, <2>4 DEF WaitInv
  <2>6. Edit!MapDue' <=> Edit!MapDue
    BY <1>2, <1>3 DEF Edit!MapDue
  <2>7. OriginalInv' /\ SinglesInv' /\ OldInv' /\ RowsInv' /\ BoxInv' /\ NotSame'
    BY <1>2, <1>3, <2>1, <2>3, <2>6
       DEF OriginalInv, SinglesInv, OldInv, RowsInv, BoxInv, NotSame, ShowableTable, Showable,
           Edit!Contents, Edit!Pick
  <2>8. QuietInv'
    BY <2>3 DEF QuietInv
  <2> QED BY <2>5, <2>7, <2>8
<1>6. Edit!OpenedByRule' /\ Edit!EditsAreLocal'
  BY <1>1, <1>2, RuleKept, EditsKept
<1> QED BY <1>2, <1>4, <1>5, <1>6 DEF EditInv, PopupInv

\* Nothing happens to the popup.
LEMMA EditUnchanged ==
  ASSUME EditInv, UNCHANGED editVars
  PROVE  EditInv'
<1>1. /\ target' = target /\ verified' = verified /\ rows' = rows /\ oldRows' = oldRows /\ box' = box
      /\ original' = original /\ picked' = picked /\ edits' = edits /\ posted' = posted
      /\ phase' = phase /\ buttons' = buttons /\ cache' = cache /\ awaited' = awaited /\ due' = due
  BY DEF editVars
<1>2. EditTypes'
  BY <1>1 DEF EditInv, EditTypes, SameFile
<1>3. ASSUME phase = "open", ~edits.blind
      PROVE  (WaitInv /\ OriginalInv /\ SinglesInv /\ OldInv /\ RowsInv /\ BoxInv /\ NotSame /\ QuietInv)'
  <2>1. WaitInv /\ OriginalInv /\ SinglesInv /\ OldInv /\ RowsInv /\ BoxInv /\ NotSame /\ QuietInv
    BY <1>3 DEF EditInv, PopupInv
  <2>2. WaitInv' /\ (Settled' <=> Settled)
    BY <1>1, <2>1, WaitKept
  <2>3. (Edit!MapDue' <=> Edit!MapDue) /\ (Sendable' <=> Sendable)
    BY <1>1 DEF Edit!MapDue, Sendable
  <2>4. OriginalInv' /\ SinglesInv' /\ OldInv' /\ RowsInv' /\ BoxInv' /\ NotSame'
    BY <1>1, <2>1, <2>2, <2>3
       DEF OriginalInv, SinglesInv, OldInv, RowsInv, BoxInv, NotSame, ShowableTable, Showable,
           Edit!Contents, Edit!Pick
  <2>5. QuietInv'
    BY <1>1, <2>1 DEF QuietInv
  <2> QED BY <2>2, <2>4, <2>5
<1>4. Edit!OpenedByRule' /\ Edit!EditsAreLocal'
  BY <1>1, RuleKept, EditsKept DEF EditInv
<1> QED BY <1>1, <1>2, <1>3, <1>4 DEF EditInv, PopupInv

\* The popup's invariant holds from the start, for every file and however the user acts.
LEMMA EditsCorrect == TransfersSpec => []WriteInv
<1>1. TransfersInit => WriteInv
  <2> SUFFICES ASSUME TransfersInit PROVE WriteInv
    OBVIOUS
  <2>1. CASE kind # "edit"
    <3>1. Edit!EditStands
      BY <2>1 DEF TransfersInit
    <3> QED BY <2>1, <3>1 DEF Edit!EditStands, Edit!EditIdle, Edit!Nothing, WriteInv
  <2>2. CASE kind = "edit"
    <3>1. Edit!EditInit
      BY <2>2 DEF TransfersInit
    <3>2. Edit!IsFile(target) /\ phase = "closed" /\ rows = <<>> /\ oldRows = <<>>
          /\ box = Edit!NoText /\ original = Edit!NoText /\ posted = Edit!Nothing /\ edits = Edit!NoEdits
          /\ cache = {target} /\ awaited = {} /\ due = {}
      BY <3>1, TargetsAssumption DEF Edit!EditInit, Edit!EditIdle
    <3>3. ~posted.any
      BY <3>2 DEF Edit!Nothing
    <3>4. EditTypes
      <4>1. edits = [rows |-> edits.rows, typed |-> edits.typed, mistyped |-> edits.mistyped,
                     aged |-> edits.aged, stale |-> edits.stale, wrote |-> edits.wrote,
                     late |-> edits.late, blind |-> edits.blind, at |-> edits.at]
        BY <3>2 DEF Edit!NoEdits
      <4> QED BY <3>2, <4>1, NoTextTyped DEF EditTypes, SameFile
    <3> QED BY <2>2, <3>2, <3>3, <3>4
            DEF WriteInv, EditInv, PopupInv, Edit!OpenedByRule, Edit!EditsAreLocal
  <2> QED BY <2>1, <2>2
<1>2. WriteInv /\ [TransfersNext]_transferVars => WriteInv'
  <2> SUFFICES ASSUME WriteInv, [TransfersNext]_transferVars PROVE WriteInv'
    OBVIOUS
  <2>1. kind' = kind
    BY DEF TransfersNext, transferVars
  <2>2. CASE kind # "edit"
    <3>1. posted' = posted /\ phase' = phase /\ buttons' = buttons
      BY <2>2 DEF TransfersNext, transferVars, editVars
    <3> QED BY <2>1, <2>2, <3>1 DEF WriteInv
  <2>3. CASE kind = "edit"
    <3>1. EditInv
      BY <2>3 DEF WriteInv
    <3>2. Edit!EditNext \/ UNCHANGED editVars
      BY <2>3 DEF TransfersNext, transferVars
    <3>3. Edit!EditNext => EditInv'
      <4> SUFFICES ASSUME Edit!EditNext PROVE EditInv'
        OBVIOUS
      <4>1. CASE Edit!Open
        BY <3>1, <4>1, OpenStep
      <4>2. ASSUME NEW d, Edit!MapArrives(d) PROVE EditInv'
        BY <3>1, <4>2, MapArrivesStep
      <4>3. CASE Edit!Close \/ Edit!VerifyAdm
        BY <3>1, <4>3, ClosedStep
      <4>4. CASE Edit!Restore
        BY <3>1, <4>4, RestoreStep
      <4>5. CASE Edit!Submit
        BY <3>1, <4>5, SubmitStep
      <4>6. ASSUME NEW w, Edit!CardStores(w) PROVE EditInv'
        BY <3>1, <4>6, CardStoresStep
      <4>7. ASSUME NEW w, Edit!WriteDone(w) PROVE EditInv'
        BY <3>1, <4>7, WriteDoneStep
      <4>8. ASSUME NEW w, Edit!WriteFailed(w) PROVE EditInv'
        BY <3>1, <4>8, WriteFailedStep
      <4>9. ASSUME NEW w, NEW ok \in BOOLEAN, Edit!Reread(w, ok) PROVE EditInv'
        BY <3>1, <4>9, RereadStep
      <4>10. ASSUME NEW i, Edit!PickAnother(i) PROVE EditInv'
        BY <3>1, <4>10, PickAnotherStep
      <4>11. ASSUME NEW i, NEW v, Edit!EditRow(i, v) PROVE EditInv'
        BY <3>1, <4>11, EditRowStep
      <4>12. ASSUME NEW t \in Edit!Typed(target.kind), Edit!EditBox(t) PROVE EditInv'
        BY <3>1, <4>12, EditBoxStep
      <4>13. CASE UNCHANGED editVars
        BY <3>1, <4>13, EditUnchanged
      <4>14. UNCHANGED Edit!editVars => UNCHANGED editVars
        BY DEF Edit!editVars, editVars
      <4> QED BY <4>1, <4>2, <4>3, <4>4, <4>5, <4>6, <4>7, <4>8, <4>9, <4>10, <4>11, <4>12, <4>13,
                 <4>14 DEF Edit!EditNext
    <3>4. EditInv'
      BY <3>1, <3>2, <3>3, EditUnchanged
    <3> QED BY <2>1, <2>3, <3>4 DEF WriteInv
  <2> QED BY <2>2, <2>3
<1> QED BY <1>1, <1>2, PTL DEF TransfersSpec

\* For every file and its rules, however the popup is opened, used and closed: a write changes
\* only what was edited and the submit button means a change, until writes overlap or an answer
\* is lost; and the popup opens only to those whom the card's rules let write.
THEOREM WritesAreWhatWasEdited == TransfersSpec => []WritesAreEdits
<1>1. WriteInv => WritesAreEdits
  <2> SUFFICES ASSUME WriteInv PROVE WritesAreEdits
    OBVIOUS
  <2>1. CASE kind # "edit"
    BY <2>1 DEF WriteInv, WritesAreEdits, Edit!WritesAreEdits, Edit!EditsAreLocal,
                Edit!SubmitChanges, Edit!OpenedByRule
  <2>2. CASE kind = "edit"
    <3>1. PopupInv /\ EditTypes /\ Edit!OpenedByRule /\ Edit!EditsAreLocal
      BY <2>2 DEF WriteInv, EditInv
    <3>2. Edit!SubmitChanges
      <4> SUFFICES ASSUME "submit" \in buttons, phase = "open", ~edits.late, ~edits.blind, ~edits.wrote,
                          ~edits.stale, target.kind \in Edit!Tables => Edit!Tabular(original)
                   PROVE  /\ box # original
                          /\ original = IF target.kind \in Edit!Singles THEN Edit!Pick(target, picked)
                                        ELSE Edit!Contents(target)
        BY <3>1 DEF Edit!SubmitChanges
      <4>1. OriginalInv /\ SinglesInv /\ NotSame /\ QuietInv /\ Sendable
        BY <3>1 DEF PopupInv, Sendable
      <4>2. Settled
        BY <4>1 DEF QuietInv, Settled
      <4>3. target.kind \in Edit!Tables => Showable(target)
        BY <4>1, <4>2, TabularFacts DEF OriginalInv, Edit!Tables, Edit!Singles
      <4> QED BY <4>1, <4>2, <4>3 DEF OriginalInv, SinglesInv, NotSame
    <3> QED BY <3>1, <3>2 DEF WritesAreEdits, Edit!WritesAreEdits
  <2> QED BY <2>1, <2>2
<1> QED BY <1>1, EditsCorrect, PTL

=============================================================================
