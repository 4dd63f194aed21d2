------------------------- MODULE ReadersServerProofs -------------------------
(***************************************************************************)
(* Proofs about the reader drivers, for all commands, answers and calls,   *)
(* and about the eSIM server, for all clients, profiles and requests.      *)
(*                                                                         *)
(* The argument for the serial line: a byte is of the same header as the   *)
(* one before it, unless it begins an echo, and an echo names its header   *)
(* (LineOk).  What is sent next, late or not, is of the header that the    *)
(* line ends in, so an echo that compares equal is followed, up to the     *)
(* next echo, by bytes of its header (From).                               *)
(*                                                                         *)
(* For a wait: once it is not told of the card it began with, it has seen  *)
(* the socket empty, or a card put in since (WaitOk).                      *)
(*                                                                         *)
(* For a package: whoever has its keys goes through it with the chain and  *)
(* the number it was sealed with (SealedOpens), the first MAC is of a key  *)
(* that names the eUICC (PackageClosed), and each segment names its place  *)
(* (OutOfPlace).                                                           *)
(*                                                                         *)
(* For the server: a request says of its client what is so (RequestOk),    *)
(* and a session is given to one client (OwnSessions), so whatever comes   *)
(* late finds the session it was made for, or none (SessionOk); what a     *)
(* client holds is a version of its profile that was there (ClientOk).     *)
(***************************************************************************)
EXTENDS ReadersServer, SequenceTheorems, FiniteSetTheorems, WellFoundedInduction, TLAPS

IsSeq(s) == \E S : s \in Seq(S)

\* On the serial line: a byte is of the same header as the one before, unless it begins an echo, and
\* an echo names its header.
LineOk(s) ==
  /\ IsSeq(s)
  /\ \A i, j \in 1..Len(s) : i < j /\ (\A k \in (i + 1)..j : ~Reader!IsEcho(s[k])) => s[j].h = s[i].h
  /\ \A i \in 1..Len(s) : Reader!IsEcho(s[i]) => s[i].h = s[i].b[2]
EndsIn(s, h) == s = <<>> \/ s[Len(s)].h = h
\* What is sent about a header, by either side.
BlockOf(s, h) ==
  IsSeq(s) /\ \A i \in 1..Len(s) : s[i].h = h /\ (Reader!IsEcho(s[i]) => s[i].b[2] = h)
\* Up to the next echo all is of this header.
From(s, h) == \A j \in 1..Len(s) : (\A k \in 1..j : ~Reader!IsEcho(s[k])) => s[j].h = h

\* Two sequences one after the other.
LEMMA SeqJoin ==
  ASSUME NEW s, NEW t, IsSeq(s), IsSeq(t)
  PROVE  /\ IsSeq(s \o t) /\ Len(s) \in Nat /\ Len(t) \in Nat /\ Len(s \o t) = Len(s) + Len(t)
         /\ \A i \in 1..Len(s \o t) : (s \o t)[i] = IF i <= Len(s) THEN s[i] ELSE t[i - Len(s)]
<1>1. PICK S, T : s \in Seq(S) /\ t \in Seq(T)
  BY DEF IsSeq
<1>2. s \in Seq(S \cup T) /\ t \in Seq(S \cup T)
  BY <1>1, SeqMonotonic
<1>3. s \o t \in Seq(S \cup T) /\ Len(s \o t) = Len(s) + Len(t)
      /\ \A i \in 1..Len(s) + Len(t) : (s \o t)[i] = IF i <= Len(s) THEN s[i] ELSE t[i - Len(s)]
  BY <1>2, ConcatProperties
<1>4. Len(s) \in Nat /\ Len(t) \in Nat
  BY <1>2, LenProperties
<1> QED BY <1>3, <1>4 DEF IsSeq

LEMMA LenJoin ==
  ASSUME NEW s, NEW t, IsSeq(s), IsSeq(t)
  PROVE  Len(s) \in Nat /\ Len(t) \in Nat /\ Len(s \o t) = Len(s) + Len(t)
BY SeqJoin

\* A part of a sequence.
LEMMA SeqPart ==
  ASSUME NEW s, IsSeq(s), NEW m \in 1..Len(s) + 1, NEW n \in (m - 1)..Len(s)
  PROVE  /\ IsSeq(SubSeq(s, m, n)) /\ Len(s) \in Nat /\ Len(SubSeq(s, m, n)) = n - m + 1
         /\ \A i \in 1..(n - m + 1) : SubSeq(s, m, n)[i] = s[m + i - 1]
<1>1. PICK S : s \in Seq(S)
  BY DEF IsSeq
<1>2. Len(s) \in Nat
  BY <1>1, LenProperties
<1>3. \A i \in 1..Len(s) : s[i] \in S
  BY <1>1, ElementOfSeq
<1>4. SubSeq(s, m, n) \in Seq(S) /\ Len(SubSeq(s, m, n)) = IF m <= n THEN n - m + 1 ELSE 0
  BY <1>1, <1>2, <1>3, SubSeqProperties
<1>5. \A i \in 1..(n - m + 1) : SubSeq(s, m, n)[i] = s[m + i - 1]
  BY <1>1, <1>2, <1>3, SubSeqProperties
<1>6. IsSeq(SubSeq(s, m, n))
  BY <1>4 DEF IsSeq
<1>7. Len(SubSeq(s, m, n)) = n - m + 1
  <2>1. m \in Nat /\ n \in Int /\ m - 1 <= n
    BY <1>2
  <2> QED BY <1>4, <2>1
<1> QED BY <1>2, <1>5, <1>6, <1>7

\* More about the same header, at the end of the line.
LEMMA BlockOnEnd ==
  ASSUME NEW s, NEW t, NEW h, LineOk(s), BlockOf(t, h),
         EndsIn(s, h) \/ (t # <<>> /\ Reader!IsEcho(t[1]))
  PROVE  LineOk(s \o t) /\ (EndsIn(s, h) \/ t # <<>> => EndsIn(s \o t, h))
<1> DEFINE u == s \o t
<1>1. /\ IsSeq(u) /\ Len(s) \in Nat /\ Len(t) \in Nat /\ Len(u) = Len(s) + Len(t)
      /\ \A i \in 1..Len(u) : u[i] = IF i <= Len(s) THEN s[i] ELSE t[i - Len(s)]
  BY SeqJoin DEF LineOk, BlockOf
<1>2. (t = <<>> <=> Len(t) = 0) /\ (s = <<>> <=> Len(s) = 0)
  BY EmptySeq DEF LineOk, BlockOf, IsSeq
<1> HIDE DEF u
<1>3. \A i \in 1..Len(u) : Reader!IsEcho(u[i]) => u[i].h = u[i].b[2]
  <2> SUFFICES ASSUME NEW i \in 1..Len(u), Reader!IsEcho(u[i]) PROVE u[i].h = u[i].b[2]
    OBVIOUS
  <2>1. CASE i <= Len(s)
    BY <1>1, <2>1 DEF LineOk
  <2>2. CASE ~(i <= Len(s))
    BY <1>1, <2>2 DEF BlockOf
  <2> QED BY <2>1, <2>2
<1>4. ASSUME NEW i \in 1..Len(u), NEW j \in 1..Len(u), i < j, \A k \in (i + 1)..j : ~Reader!IsEcho(u[k])
      PROVE  u[j].h = u[i].h
  <2>1. CASE j <= Len(s)
    <3>1. \A k \in (i + 1)..j : ~Reader!IsEcho(s[k])
      BY <1>1, <1>4, <2>1
    <3> QED BY <1>1, <1>4, <2>1, <3>1 DEF LineOk
  <2>2. CASE i > Len(s)
    BY <1>1, <1>4, <2>2 DEF BlockOf
  <2>3. CASE i <= Len(s) /\ j > Len(s)
    <3>1. u[Len(s) + 1] = t[1] /\ Len(s) + 1 \in (i + 1)..j
      BY <1>1, <1>4, <2>3
    <3>2. EndsIn(s, h)
      BY <1>4, <3>1
    <3>3. s[Len(s)].h = h
      BY <1>1, <1>2, <2>3, <3>2 DEF EndsIn
    <3>4. s[i].h = h
      <4>1. CASE i = Len(s)
        BY <3>3, <4>1
      <4>2. CASE i < Len(s)
        <5>1. \A k \in (i + 1)..Len(s) : ~Reader!IsEcho(s[k])
          BY <1>1, <1>4, <2>3
        <5>2. i \in 1..Len(s) /\ Len(s) \in 1..Len(s)
          BY <1>1, <2>3
        <5>3. s[Len(s)].h = s[i].h
          BY <4>2, <5>1, <5>2 DEF LineOk
        <5> QED BY <3>3, <5>3
      <4> QED BY <1>1, <2>3, <4>1, <4>2
    <3>5. u[j].h = h
      BY <1>1, <1>4, <2>3 DEF BlockOf
    <3> QED BY <1>1, <2>3, <3>4, <3>5
  <2> QED BY <1>1, <2>1, <2>2, <2>3
<1>5. EndsIn(s, h) \/ t # <<>> => EndsIn(u, h)
  <2>1. CASE Len(t) = 0
    <3>1. Len(u) = Len(s) /\ (u = <<>> <=> Len(u) = 0)
      BY <1>1, <2>1, EmptySeq DEF IsSeq
    <3> QED BY <1>1, <1>2, <2>1, <3>1 DEF EndsIn
  <2>2. CASE Len(t) > 0
    <3>1. u[Len(u)] = t[Len(t)] /\ t[Len(t)].h = h
      BY <1>1, <2>2 DEF BlockOf
    <3> QED BY <3>1 DEF EndsIn
  <2> QED BY <1>1, <2>1, <2>2
<1> QED BY <1>1, <1>3, <1>4, <1>5 DEF LineOk, u

\* The rest of the line.
LEMMA RestOfLine ==
  ASSUME NEW s, NEW h, NEW k \in 0..Len(s), LineOk(s), EndsIn(s, h)
  PROVE  LineOk(SubSeq(s, k + 1, Len(s))) /\ EndsIn(SubSeq(s, k + 1, Len(s)), h)
<1> DEFINE u == SubSeq(s, k + 1, Len(s))
<1>1. Len(s) \in Nat
  BY LenProperties DEF LineOk, IsSeq
<1>2. IsSeq(s) /\ k + 1 \in 1..Len(s) + 1 /\ Len(s) \in (k + 1 - 1)..Len(s)
  BY <1>1 DEF LineOk
<1>3. IsSeq(u) /\ Len(u) = Len(s) - (k + 1) + 1 /\ \A i \in 1..(Len(s) - (k + 1) + 1) : u[i] = s[k + 1 + i - 1]
  BY <1>2, SeqPart
<1> HIDE DEF u
<1>4. Len(u) = Len(s) - k /\ \A i \in 1..Len(u) : u[i] = s[k + i] /\ k + i \in 1..Len(s)
  BY <1>1, <1>3
<1>5. \A i \in 1..Len(u) : Reader!IsEcho(u[i]) => u[i].h = u[i].b[2]
  <2> SUFFICES ASSUME NEW i \in 1..Len(u), Reader!IsEcho(u[i]) PROVE u[i].h = u[i].b[2]
    OBVIOUS
  <2>1. u[i] = s[k + i] /\ k + i \in 1..Len(s)
    BY <1>4
  <2>2. PICK byte : byte = u[i]
    OBVIOUS
  <2>3. Reader!IsEcho(byte) => byte.h = byte.b[2]
    BY <2>1, <2>2 DEF LineOk
  <2> QED BY <2>2, <2>3
<1>6. ASSUME NEW i \in 1..Len(u), NEW j \in 1..Len(u), i < j, \A m \in (i + 1)..j : ~Reader!IsEcho(u[m])
      PROVE  u[j].h = u[i].h
  <2>1. \A m \in (k + i + 1)..(k + j) : ~Reader!IsEcho(s[m])
    <3> SUFFICES ASSUME NEW m \in (k + i + 1)..(k + j) PROVE ~Reader!IsEcho(s[m])
      OBVIOUS
    <3>1. m - k \in (i + 1)..j /\ m - k \in 1..Len(u) /\ k + (m - k) = m
      BY <1>1, <1>4
    <3> QED BY <1>4, <1>6, <3>1
  <2>2. k + i \in 1..Len(s) /\ k + j \in 1..Len(s) /\ k + i < k + j
    BY <1>1, <1>4, <1>6
  <2>3. s[k + j].h = s[k + i].h
    BY <2>1, <2>2 DEF LineOk
  <2> QED BY <1>4, <2>3
<1>7. EndsIn(u, h)
  <2>1. u = <<>> <=> Len(u) = 0
    BY <1>3, EmptySeq DEF IsSeq
  <2>2. ASSUME Len(u) # 0 PROVE u[Len(u)].h = h
    <3>1. u[Len(u)] = s[Len(s)] /\ Len(s) # 0
      BY <1>1, <1>4, <2>2
    <3>2. s # <<>>
      BY <3>1
    <3> QED BY <3>1, <3>2 DEF EndsIn
  <2> QED BY <2>1, <2>2 DEF EndsIn
<1> QED BY <1>3, <1>5, <1>6, <1>7 DEF LineOk, u

\* What stands up to the next echo, in the rest, in the first part, and with more at the end.
LEMMA FromRest ==
  ASSUME NEW s, NEW h, IsSeq(s), From(s, h), NEW k \in 0..Len(s), \A i \in 1..k : ~Reader!IsEcho(s[i])
  PROVE  From(SubSeq(s, k + 1, Len(s)), h)
<1> DEFINE u == SubSeq(s, k + 1, Len(s))
<1>1. Len(s) \in Nat
  BY LenProperties DEF IsSeq
<1>2. k + 1 \in 1..Len(s) + 1 /\ Len(s) \in (k + 1 - 1)..Len(s)
  BY <1>1
<1>3. Len(u) = Len(s) - (k + 1) + 1 /\ \A i \in 1..(Len(s) - (k + 1) + 1) : u[i] = s[k + 1 + i - 1]
  BY <1>2, SeqPart
<1> HIDE DEF u
<1>4. Len(u) = Len(s) - k /\ \A i \in 1..Len(u) : u[i] = s[k + i] /\ k + i \in 1..Len(s)
  BY <1>1, <1>3
<1>5. ASSUME NEW j \in 1..Len(u), \A m \in 1..j : ~Reader!IsEcho(u[m]) PROVE u[j].h = h
  <2>1. ASSUME NEW m \in 1..(k + j) PROVE ~Reader!IsEcho(s[m])
    <3>1. CASE m <= k
      BY <3>1
    <3>2. CASE m > k
      <4>1. m - k \in 1..j /\ m - k \in 1..Len(u) /\ k + (m - k) = m
        BY <1>1, <1>4, <3>2
      <4> QED BY <1>4, <1>5, <4>1
    <3> QED BY <3>1, <3>2
  <2> QED BY <1>4, <2>1 DEF From
<1> QED BY <1>5 DEF From, u

LEMMA FromFirst ==
  ASSUME NEW s, NEW h, IsSeq(s), From(s, h), NEW k \in 0..Len(s)
  PROVE  From(SubSeq(s, 1, k), h)
<1> DEFINE u == SubSeq(s, 1, k)
<1>1. Len(s) \in Nat
  BY LenProperties DEF IsSeq
<1>2. 1 \in 1..Len(s) + 1 /\ k \in (1 - 1)..Len(s)
  BY <1>1
<1>3. Len(u) = k - 1 + 1 /\ \A i \in 1..(k - 1 + 1) : u[i] = s[1 + i - 1]
  BY <1>2, SeqPart
<1> HIDE DEF u
<1>4. Len(u) = k /\ \A i \in 1..k : u[i] = s[i] /\ i \in 1..Len(s)
  BY <1>1, <1>3
<1> QED BY <1>4 DEF From, u

LEMMA FromJoin ==
  ASSUME NEW s, NEW t, NEW h, IsSeq(s), From(s, h), BlockOf(t, h)
  PROVE  From(s \o t, h)
<1> DEFINE u == s \o t
<1>1. /\ Len(s) \in Nat /\ Len(t) \in Nat /\ Len(u) = Len(s) + Len(t)
      /\ \A i \in 1..Len(u) : u[i] = IF i <= Len(s) THEN s[i] ELSE t[i - Len(s)]
  BY SeqJoin DEF BlockOf
<1> HIDE DEF u
<1>2. ASSUME NEW j \in 1..Len(u), \A m \in 1..j : ~Reader!IsEcho(u[m]) PROVE u[j].h = h
  <2>1. CASE j <= Len(s)
    <3>1. \A m \in 1..j : ~Reader!IsEcho(s[m])
      BY <1>1, <1>2, <2>1
    <3> QED BY <1>1, <2>1, <3>1 DEF From
  <2>2. CASE j > Len(s)
    BY <1>1, <2>2 DEF BlockOf
  <2> QED BY <1>1, <2>1, <2>2
<1> QED BY <1>2 DEF From, u

\* After a byte of a header all is of that header, up to the next echo.
LEMMA AfterByte ==
  ASSUME NEW s, NEW h, LineOk(s), NEW k \in 1..Len(s), s[k].h = h
  PROVE  From(SubSeq(s, k + 1, Len(s)), h)
<1> DEFINE u == SubSeq(s, k + 1, Len(s))
<1>1. Len(s) \in Nat /\ IsSeq(s)
  BY LenProperties DEF LineOk, IsSeq
<1>2. k + 1 \in 1..Len(s) + 1 /\ Len(s) \in (k + 1 - 1)..Len(s)
  BY <1>1
<1>3. Len(u) = Len(s) - (k + 1) + 1 /\ \A i \in 1..(Len(s) - (k + 1) + 1) : u[i] = s[k + 1 + i - 1]
  BY <1>1, <1>2, SeqPart
<1> HIDE DEF u
<1>4. Len(u) = Len(s) - k /\ \A i \in 1..Len(u) : u[i] = s[k + i] /\ k + i \in 1..Len(s)
  BY <1>1, <1>3
<1>5. ASSUME NEW j \in 1..Len(u), \A m \in 1..j : ~Reader!IsEcho(u[m]) PROVE u[j].h = h
  <2>1. ASSUME NEW m \in (k + 1)..(k + j) PROVE ~Reader!IsEcho(s[m])
    <3>1. m - k \in 1..j /\ m - k \in 1..Len(u) /\ k + (m - k) = m
      BY <1>1, <1>4
    <3> QED BY <1>4, <1>5, <3>1
  <2>2. k \in 1..Len(s) /\ k + j \in 1..Len(s) /\ k < k + j
    BY <1>1, <1>4
  <2>3. s[k + j].h = s[k].h
    BY <2>1, <2>2 DEF LineOk
  <2> QED BY <1>4, <2>3
<1> QED BY <1>5 DEF From, u

\* What a driver reads there.
LEMMA ReadOfHeader ==
  ASSUME NEW bytes, NEW h, IsSeq(bytes), From(bytes, h), NEW full
  PROVE  Reader!Read(bytes, full).ok /\ Reader!Read(bytes, full).headers \subseteq {h}
<1>1. DOMAIN bytes = 1..Len(bytes)
  BY LenProperties DEF IsSeq
<1> QED BY <1>1 DEF Reader!Read, Reader!Returned, From

\* Blocks: joined, and in part.
LEMMA BlockJoin ==
  ASSUME NEW s, NEW t, NEW h, BlockOf(s, h), BlockOf(t, h)
  PROVE  BlockOf(s \o t, h)
<1> DEFINE u == s \o t
<1>1. /\ IsSeq(u) /\ Len(s) \in Nat /\ Len(t) \in Nat /\ Len(u) = Len(s) + Len(t)
      /\ \A i \in 1..Len(u) : u[i] = IF i <= Len(s) THEN s[i] ELSE t[i - Len(s)]
  BY SeqJoin DEF BlockOf
<1> HIDE DEF u
<1>2. ASSUME NEW i \in 1..Len(u)
      PROVE  u[i].h = h /\ (Reader!IsEcho(u[i]) => u[i].b[2] = h)
  <2>1. CASE i <= Len(s)
    <3>1. i \in 1..Len(s) /\ u[i] = s[i]
      BY <1>1, <2>1
    <3> QED BY <3>1 DEF BlockOf
  <2>2. CASE i > Len(s)
    <3>1. i - Len(s) \in 1..Len(t) /\ u[i] = t[i - Len(s)]
      BY <1>1, <2>2
    <3> QED BY <3>1 DEF BlockOf
  <2> QED BY <1>1, <2>1, <2>2
<1>3. BlockOf(u, h)
  BY <1>1, <1>2 DEF BlockOf
<1> QED BY <1>3 DEF u

LEMMA BlockPart ==
  ASSUME NEW s, NEW h, BlockOf(s, h), NEW m \in 1..Len(s) + 1, NEW n \in (m - 1)..Len(s)
  PROVE  BlockOf(SubSeq(s, m, n), h)
<1> DEFINE u == SubSeq(s, m, n)
<1>1. IsSeq(u) /\ Len(s) \in Nat /\ Len(u) = n - m + 1 /\ \A i \in 1..(n - m + 1) : u[i] = s[m + i - 1]
  BY SeqPart DEF BlockOf
<1> HIDE DEF u
<1>2. m \in Nat /\ n \in Int /\ 1 <= m /\ m - 1 <= n /\ n <= Len(s)
  BY <1>1
<1>3. ASSUME NEW i \in 1..Len(u)
      PROVE  u[i].h = h /\ (Reader!IsEcho(u[i]) => u[i].b[2] = h)
  <2>1. i \in 1..(n - m + 1)
    BY <1>1
  <2>2. u[i] = s[m + i - 1]
    BY <1>1, <2>1
  <2>3. m + i - 1 \in 1..Len(s)
    BY <1>1, <1>2, <2>1
  <2> QED BY <2>2, <2>3 DEF BlockOf
<1>4. BlockOf(u, h)
  BY <1>1, <1>3 DEF BlockOf
<1> QED BY <1>4 DEF u

LEMMA NoBlock == \A h : BlockOf(<<>>, h)
<1>1. <<>> \in Seq({})
  BY EmptySeq
<1> QED BY <1>1, EmptySeq DEF BlockOf, IsSeq

\* What the driver and the card send about a header.
LEMMA HeaderBlock ==
  ASSUME NEW n, NEW h
  PROVE  LET bytes == Reader!HeaderBytes(n, h) IN
         /\ BlockOf(bytes, h) /\ bytes # <<>> /\ Reader!IsEcho(bytes[1]) /\ Len(bytes) = HeaderLength
         /\ \A i \in 1..HeaderLength : bytes[i].b = <<"header", h, i>>
<1> DEFINE bytes == Reader!HeaderBytes(n, h)
<1>1. HeaderLength \in Nat \ {0}
  BY ReaderAssumption
<1>2. /\ bytes = [i \in 1..HeaderLength |-> bytes[i]] /\ \A i \in 1..HeaderLength :
           bytes[i].h = h /\ bytes[i].b = <<"header", h, i>> /\ bytes[i].b[1] = "header" /\ bytes[i].b[2] = h
  BY DEF Reader!HeaderBytes, Reader!Byte
<1> HIDE DEF bytes
<1>3. bytes \in Seq({bytes[i] : i \in 1..HeaderLength})
  BY <1>1, <1>2, SeqDef
<1>4. Len(bytes) = HeaderLength
  BY <1>1, <1>2, <1>3, LenProperties
<1>5. IsSeq(bytes)
  BY <1>3 DEF IsSeq
<1>6. BlockOf(bytes, h)
  BY <1>2, <1>4, <1>5 DEF BlockOf
<1>7. bytes # <<>>
  BY <1>1, <1>4
<1>8. Reader!IsEcho(bytes[1])
  BY <1>1, <1>2 DEF Reader!IsEcho
<1> QED BY <1>2, <1>4, <1>6, <1>7, <1>8 DEF bytes

Plain(f, len, h) ==
  len \in Nat /\ f = [i \in 1..len |-> f[i]] /\ \A i \in 1..len : f[i].h = h /\ f[i].b[1] # "header"

LEMMA PlainBlock ==
  ASSUME NEW f, NEW len, NEW h, Plain(f, len, h)
  PROVE  BlockOf(f, h) /\ Len(f) = len
<1> USE DEF Plain
<1>1. f \in Seq({f[i] : i \in 1..len})
  BY SeqDef
<1>2. DOMAIN f = 1..len
  OBVIOUS
<1>3. Len(f) \in Nat /\ DOMAIN f = 1..Len(f)
  BY <1>1, LenProperties
<1>4. Len(f) = len
  BY <1>2, <1>3
<1> QED BY <1>1, <1>4 DEF BlockOf, IsSeq, Reader!IsEcho

LEMMA DataBlock ==
  ASSUME NEW n, NEW h
  PROVE  LET bytes == Reader!DataBytes(n, h) IN
         BlockOf(bytes, h) /\ Len(bytes) = HeaderLength /\ \A i \in 1..HeaderLength : bytes[i].b = <<"data", i>>
<1> DEFINE bytes == Reader!DataBytes(n, h)
<1>1. HeaderLength \in Nat
  BY ReaderAssumption
<1>2. /\ bytes = [i \in 1..HeaderLength |-> bytes[i]] /\ \A i \in 1..HeaderLength :
           bytes[i].h = h /\ bytes[i].b = <<"data", i>> /\ bytes[i].b[1] = "data"
  BY DEF Reader!DataBytes, Reader!Byte
<1> HIDE DEF bytes
<1>3. \A i \in 1..HeaderLength : bytes[i].b[1] # "header"
  BY <1>2
<1>4. BlockOf(bytes, h) /\ Len(bytes) = HeaderLength
  BY <1>1, <1>2, <1>3, PlainBlock DEF Plain
<1> QED BY <1>2, <1>4 DEF bytes

LEMMA SwBlock ==
  ASSUME NEW n, NEW h
  PROVE  LET bytes == Reader!SwBytes(n, h) IN
         /\ BlockOf(bytes, h) /\ Len(bytes) = 2 /\ bytes[1].b = <<"sw1">> /\ bytes[2].b = <<"sw2">>
         /\ bytes[1].n = n /\ bytes[2].n = n
<1> DEFINE bytes == Reader!SwBytes(n, h)
<1>1. /\ bytes = [i \in 1..2 |-> bytes[i]] /\ bytes[1].b = <<"sw1">> /\ bytes[2].b = <<"sw2">>
      /\ bytes[1].n = n /\ bytes[2].n = n /\ bytes[1].h = h /\ bytes[2].h = h
      /\ bytes[1].b[1] = "sw1" /\ bytes[2].b[1] = "sw2"
  BY DEF Reader!SwBytes, Reader!Byte
<1> HIDE DEF bytes
<1>2. \A i \in 1..2 : bytes[i].h = h /\ bytes[i].b[1] # "header"
  <2>1. \A i \in 1..2 : i = 1 \/ i = 2
    OBVIOUS
  <2> QED BY <1>1, <2>1
<1>3. BlockOf(bytes, h) /\ Len(bytes) = 2
  <2>1. Plain(bytes, 2, h)
    BY <1>1, <1>2 DEF Plain
  <2> QED BY <2>1, PlainBlock
<1> QED BY <1>1, <1>3 DEF bytes

LEMMA ByteBlock ==
  ASSUME NEW n, NEW h, NEW b, b[1] # "header"
  PROVE  BlockOf(<<Reader!Byte(n, h, b)>>, h)
<1> DEFINE bytes == <<Reader!Byte(n, h, b)>>
<1>1. bytes = [i \in 1..1 |-> bytes[i]] /\ bytes[1].b = b /\ bytes[1].h = h
  BY DEF Reader!Byte
<1> HIDE DEF bytes
<1>2. \A i \in 1..1 : bytes[i].h = h /\ bytes[i].b[1] # "header"
  BY <1>1
<1> QED BY <1>1, <1>2, PlainBlock DEF Plain, bytes

\* The data that a card sends: so many bytes.
OutBytes(n, h, answer) == [i \in 1..answer.data |-> Reader!Byte(n, h, <<"out", i>>)]

LEMMA OutBlock ==
  ASSUME NEW n, NEW h, NEW answer \in Answers
  PROVE  LET bytes == OutBytes(n, h, answer) IN
         BlockOf(bytes, h) /\ Len(bytes) = answer.data /\ \A i \in 1..answer.data : bytes[i].n = n
<1> DEFINE bytes == OutBytes(n, h, answer)
<1>1. answer.data \in Nat
  BY ReaderAssumption
<1>2. /\ bytes = [i \in 1..answer.data |-> bytes[i]]
      /\ \A i \in 1..answer.data : bytes[i].h = h /\ bytes[i].n = n /\ bytes[i].b[1] = "out"
  BY DEF OutBytes, Reader!Byte
<1> HIDE DEF bytes
<1>3. \A i \in 1..answer.data : bytes[i].b[1] # "header"
  BY <1>2
<1>4. BlockOf(bytes, h) /\ Len(bytes) = answer.data
  <2>1. Plain(bytes, answer.data, h)
    BY <1>1, <1>2, <1>3 DEF Plain
  <2> QED BY <2>1, PlainBlock
<1> QED BY <1>2, <1>4 DEF bytes

LEMMA ReactionBlock ==
  ASSUME NEW n, NEW h, NEW answer \in Answers
  PROVE  BlockOf(Reader!Reaction(n, h, answer), h)
<1> DEFINE nul == IF answer.nul THEN <<Reader!Byte(n, h, <<"null">>)>> ELSE <<>>
           out == IF Headers[h].case = 3 THEN <<>> ELSE OutBytes(n, h, answer) \o Reader!SwBytes(n, h)
           ins == <<Reader!Byte(n, h, <<"ins", Headers[h].ins>>)>>
           rest == IF answer.direct THEN Reader!SwBytes(n, h) ELSE ins \o out
<1>1. BlockOf(nul, h)
  <2>1. BlockOf(<<Reader!Byte(n, h, <<"null">>)>>, h)
    BY ByteBlock
  <2> QED BY <2>1, NoBlock
<1>2. BlockOf(out, h)
  <2>1. BlockOf(OutBytes(n, h, answer), h) /\ BlockOf(Reader!SwBytes(n, h), h)
    BY OutBlock, SwBlock
  <2>2. BlockOf(OutBytes(n, h, answer) \o Reader!SwBytes(n, h), h)
    BY <2>1, BlockJoin
  <2> QED BY <2>2, NoBlock
<1>3. BlockOf(ins, h)
  BY ByteBlock
<1>4. Reader!Reaction(n, h, answer) = nul \o rest
  BY DEF Reader!Reaction, OutBytes
<1> HIDE DEF nul, out, ins
<1>5. BlockOf(ins \o out, h)
  BY <1>2, <1>3, BlockJoin
<1>6. BlockOf(rest, h)
  BY <1>5, SwBlock
<1> HIDE DEF rest
<1> QED BY <1>1, <1>4, <1>6, BlockJoin

\* What is sent stands at the end of the line, with what the card answers in time, and the rest comes.
SentOn(line, after, bytes, n, h) ==
  /\ \E r : BlockOf(r, h) /\ after.inbox = (line.inbox \o bytes) \o r
  /\ BlockOf(after.late, h)
  /\ after.owing = <<>> \/ after.owing = <<Reader!Ask(n, h)>>

LEMMA SentFacts ==
  ASSUME NEW line, NEW bytes, NEW n, NEW h, NEW answer \in Answers, NEW late \in Nat,
         line.owing = <<>> \/ line.owing = <<Reader!Ask(n, h)>>, BlockOf(line.late, h)
  PROVE  SentOn(line, Reader!Sent(line, bytes, n, h, answer, late), bytes, n, h)
<1> DEFINE reply == IF socket # "in" THEN <<>> ELSE
                    IF line.owing # <<>> THEN Reader!SwBytes(line.owing[1].n, line.owing[1].h) ELSE
                    IF bytes = Reader!HeaderBytes(n, h) THEN Reader!Reaction(n, h, answer) ELSE Reader!SwBytes(n, h)
           cut == IF late > Len(reply) THEN 0 ELSE Len(reply) - late
           after == Reader!Sent(line, bytes, n, h, answer, late)
<1>1. BlockOf(reply, h)
  <2>1. BlockOf(Reader!SwBytes(n, h), h) /\ BlockOf(Reader!Reaction(n, h, answer), h) /\ BlockOf(<<>>, h)
    BY SwBlock, ReactionBlock, NoBlock
  <2>2. line.owing # <<>> => line.owing[1].n = n /\ line.owing[1].h = h
    BY DEF Reader!Ask
  <2> QED BY <2>1, <2>2
<1>2. /\ after.inbox = line.inbox \o bytes \o SubSeq(reply, 1, cut)
      /\ after.late = line.late \o SubSeq(reply, cut + 1, Len(reply))
      /\ after.owing = <<>> \/ after.owing = <<Reader!Ask(n, h)>>
  BY DEF Reader!Sent
<1> HIDE DEF reply, after
<1>3. Len(reply) \in Nat
  BY <1>1, LenProperties DEF BlockOf, IsSeq
<1>4. cut \in 0..Len(reply)
  BY <1>3
<1> HIDE DEF cut
<1>5. /\ 1 \in 1..Len(reply) + 1 /\ cut \in (1 - 1)..Len(reply)
      /\ cut + 1 \in 1..Len(reply) + 1 /\ Len(reply) \in (cut + 1 - 1)..Len(reply)
  BY <1>3, <1>4
<1>6. BlockOf(SubSeq(reply, 1, cut), h) /\ BlockOf(SubSeq(reply, cut + 1, Len(reply)), h)
  <2>1. BlockOf(SubSeq(reply, 1, cut), h)
    BY <1>1, <1>5, BlockPart
  <2>2. BlockOf(SubSeq(reply, cut + 1, Len(reply)), h)
    BY <1>1, <1>5, BlockPart
  <2> QED BY <2>1, <2>2
<1>7. BlockOf(after.late, h)
  BY <1>2, <1>6, BlockJoin
<1> QED BY <1>2, <1>6, <1>7 DEF SentOn, after

-----------------------------------------------------------------------------
\* In the middle of a call for a header.
MidLine(line, n, h) ==
  /\ DOMAIN line = {"inbox", "late", "owing"}
  /\ LineOk(line.inbox) /\ EndsIn(line.inbox, h) /\ BlockOf(line.late, h)
  /\ line.owing = <<>> \/ line.owing = <<Reader!Ask(n, h)>>
AnsweredBy(res, h) == res.ok => res.headers \subseteq {h}

LEMMA SkippedKeeps ==
  ASSUME NEW line, NEW n, NEW h, MidLine(line, n, h), NEW k \in 0..Len(line.inbox)
  PROVE  /\ MidLine(Reader!Skipped(line, k), n, h)
         /\ Reader!Skipped(line, k).inbox = SubSeq(line.inbox, k + 1, Len(line.inbox))
<1> DEFINE after == Reader!Skipped(line, k)
<1>1. /\ DOMAIN after = DOMAIN line /\ after.inbox = SubSeq(line.inbox, k + 1, Len(line.inbox))
      /\ after.late = line.late /\ after.owing = line.owing
  BY DEF Reader!Skipped, MidLine
<1> HIDE DEF after
<1>2. LineOk(after.inbox) /\ EndsIn(after.inbox, h)
  BY <1>1, RestOfLine DEF MidLine
<1> QED BY <1>1, <1>2 DEF MidLine, after

\* An echo that is found has the values of what was sent.
LEMMA EchoFound ==
  ASSUME NEW line, NEW bytes, IsSeq(line.inbox), IsSeq(bytes), Len(bytes) <= Len(line.inbox),
         Reader!Echoed(line, bytes)
  PROVE  \A i \in 1..Len(bytes) : line.inbox[i].b = bytes[i].b
<1> DEFINE first == SubSeq(line.inbox, 1, Len(bytes))
<1>1. Len(bytes) \in Nat /\ Len(line.inbox) \in Nat /\ DOMAIN bytes = 1..Len(bytes)
  BY LenProperties DEF IsSeq
<1>2. 1 \in 1..Len(line.inbox) + 1 /\ Len(bytes) \in (1 - 1)..Len(line.inbox)
  BY <1>1
<1>3. IsSeq(first) /\ Len(first) = Len(bytes) - 1 + 1 /\ \A i \in 1..(Len(bytes) - 1 + 1) : first[i] = line.inbox[1 + i - 1]
  BY <1>2, SeqPart
<1>4. Reader!ValuesOf(first) = Reader!ValuesOf(bytes)
  BY DEF Reader!Echoed
<1> HIDE DEF first
<1>5. Len(first) = Len(bytes) /\ \A i \in 1..Len(bytes) : first[i] = line.inbox[i]
  BY <1>1, <1>3
<1>6. DOMAIN first = 1..Len(bytes)
  BY <1>3, <1>5, LenProperties DEF IsSeq
<1>7. \A i \in 1..Len(bytes) : first[i].b = bytes[i].b
  <2> SUFFICES ASSUME NEW i \in 1..Len(bytes) PROVE first[i].b = bytes[i].b
    OBVIOUS
  <2>1. Reader!ValuesOf(first)[i] = first[i].b
    BY <1>6 DEF Reader!ValuesOf
  <2>2. Reader!ValuesOf(bytes)[i] = bytes[i].b
    BY <1>1 DEF Reader!ValuesOf
  <2> QED BY <1>4, <2>1, <2>2
<1> QED BY <1>5, <1>7

LEMMA ReceiveKeeps ==
  ASSUME NEW line, NEW n, NEW h \in DOMAIN Headers, MidLine(line, n, h), From(line.inbox, h)
  PROVE  MidLine(Reader!Receive(line, h).line, n, h) /\ AnsweredBy(Reader!Receive(line, h).res, h)
<1> DEFINE to_recv == (IF Headers[h].case = 3 THEN 0 ELSE Headers[h].p3) + 2
           k == IF Len(line.inbox) < to_recv THEN Len(line.inbox) ELSE to_recv
           got == SubSeq(line.inbox, 1, k)
<1>1. IsSeq(line.inbox) /\ Len(line.inbox) \in Nat
  BY LenProperties DEF MidLine, LineOk, IsSeq
<1>2. to_recv \in Nat
  BY ReaderAssumption
<1>3. Reader!Receive(line, h).line = Reader!Skipped(line, k)
  BY DEF Reader!Receive
<1>4. PICK full : Reader!Receive(line, h).res = IF k < 2 THEN Reader!Raised ELSE Reader!Read(got, full)
  BY DEF Reader!Receive
<1> HIDE DEF to_recv
<1>5. k \in 0..Len(line.inbox)
  BY <1>1, <1>2
<1> HIDE DEF k
<1>6. MidLine(Reader!Skipped(line, k), n, h)
  BY <1>5, SkippedKeeps
<1>7. From(got, h) /\ IsSeq(got)
  <2>1. 1 \in 1..Len(line.inbox) + 1 /\ k \in (1 - 1)..Len(line.inbox)
    BY <1>1, <1>5
  <2> QED BY <1>1, <1>5, <2>1, FromFirst, SeqPart
<1> HIDE DEF got
<1>8. AnsweredBy(Reader!Receive(line, h).res, h)
  BY <1>4, <1>7, ReadOfHeader DEF AnsweredBy, Reader!Raised
<1> QED BY <1>3, <1>6, <1>8

LEMMA ProcedureKeeps ==
  ASSUME NEW line, NEW n, NEW h \in DOMAIN Headers, MidLine(line, n, h), From(line.inbox, h)
  PROVE  LET proc == Reader!Procedure(line, h) IN
         /\ MidLine(proc.line, n, h) /\ AnsweredBy(proc.res, h) /\ (proc.ack => From(proc.line.inbox, h))
<1> DEFINE b == line.inbox
           proc == Reader!Procedure(line, h)
<1>1. IsSeq(b) /\ Len(b) \in Nat /\ (b = <<>> <=> Len(b) = 0)
  BY LenProperties, EmptySeq DEF MidLine, LineOk, IsSeq
<1>2. CASE b = <<>>
  <2>1. proc = [ack |-> FALSE, line |-> line, res |-> Reader!Raised]
    BY <1>2 DEF Reader!Procedure
  <2> QED BY <2>1 DEF AnsweredBy, Reader!Raised
<1>3. CASE b # <<>> /\ b[1].b = <<"ins", Headers[h].ins>>
  <2>1. proc = [ack |-> TRUE, line |-> Reader!Skipped(line, 1), res |-> Reader!Raised]
    BY <1>3 DEF Reader!Procedure
  <2>2. 1 \in 0..Len(line.inbox)
    BY <1>1, <1>3
  <2>3. MidLine(proc.line, n, h) /\ proc.line.inbox = SubSeq(b, 1 + 1, Len(b))
    BY <2>1, <2>2, SkippedKeeps
  <2>4. \A i \in 1..1 : ~Reader!IsEcho(b[i])
    BY <1>3 DEF Reader!IsEcho
  <2>5. From(SubSeq(b, 1 + 1, Len(b)), h)
    BY <1>1, <2>2, <2>4, FromRest
  <2>6. AnsweredBy(proc.res, h)
    BY <2>1 DEF AnsweredBy, Reader!Raised
  <2>7. From(proc.line.inbox, h)
    BY <2>3, <2>5
  <2> QED BY <2>3, <2>6, <2>7
<1>4. CASE ~(b = <<>>) /\ ~(b # <<>> /\ b[1].b = <<"ins", Headers[h].ins>>)
  <2> DEFINE k == IF Len(b) < 3 THEN Len(b) ELSE 3
  <2>1. PICK full : proc = [ack |-> FALSE, line |-> Reader!Skipped(line, k),
                            res |-> IF Len(b) = 2 THEN Reader!Read(b, full) ELSE Reader!Raised]
    BY <1>4 DEF Reader!Procedure
  <2>2. k \in 0..Len(line.inbox)
    BY <1>1
  <2> HIDE DEF k
  <2>3. MidLine(proc.line, n, h)
    BY <2>1, <2>2, SkippedKeeps
  <2>4. AnsweredBy(proc.res, h)
    BY <1>1, <2>1, ReadOfHeader DEF AnsweredBy, Reader!Raised
  <2> QED BY <2>1, <2>3, <2>4
<1> QED BY <1>2, <1>3, <1>4

\* send_tpdu of the serial driver.
LEMMA SerialCallKeeps ==
  ASSUME NEW n, NEW h \in DOMAIN Headers, NEW answer \in Answers, NEW late \in Nat,
         LineOk(inbox), owing = <<>>
  PROVE  LET call == Reader!SerialCall(n, h, answer, late) IN
         MidLine(call.line, n, h) /\ AnsweredBy(call.res, h)
<1> DEFINE header == Reader!HeaderBytes(n, h)
           data == Reader!DataBytes(n, h)
           line0 == [inbox |-> inbox, late |-> <<>>, owing |-> owing]
           line1 == Reader!Sent(line0, header, n, h, answer, late)
           line2 == Reader!Skipped(line1, HeaderLength)
           proc == Reader!Procedure(line2, h)
           line3 == Reader!Sent(proc.line, data, n, h, answer, late)
           line4 == Reader!Skipped(line3, HeaderLength)
           call == Reader!SerialCall(n, h, answer, late)
<1> SUFFICES MidLine(call.line, n, h) /\ AnsweredBy(call.res, h)
  OBVIOUS
<1>0. HeaderLength \in Nat \ {0}
  BY ReaderAssumption
<1>1. /\ BlockOf(header, h) /\ header # <<>> /\ Reader!IsEcho(header[1]) /\ Len(header) = HeaderLength
      /\ \A i \in 1..HeaderLength : header[i].b = <<"header", h, i>>
      /\ BlockOf(data, h) /\ Len(data) = HeaderLength /\ \A i \in 1..HeaderLength : data[i].b = <<"data", i>>
  BY HeaderBlock, DataBlock
<1>2. call = IF ~Reader!Echoed(line1, header) THEN [line |-> line2, res |-> Reader!Raised]
             ELSE IF ~proc.ack THEN [line |-> proc.line, res |-> proc.res]
             ELSE IF Headers[h].case # 3 THEN Reader!Receive(proc.line, h)
             ELSE IF ~Reader!Echoed(line3, data) THEN [line |-> line4, res |-> Reader!Raised]
             ELSE Reader!Receive(line4, h)
  BY DEF Reader!SerialCall
<1>3. line0.inbox = inbox /\ line0.owing = <<>> /\ BlockOf(line0.late, h)
  BY NoBlock
<1>4. SentOn(line0, line1, header, n, h)
  BY <1>3, SentFacts
<1>5. DOMAIN line1 = {"inbox", "late", "owing"} /\ DOMAIN line3 = {"inbox", "late", "owing"}
  BY DEF Reader!Sent
<1> HIDE DEF header, data, line0, line1, line2, proc, line3, line4, call
<1>5a. IsSeq(inbox) /\ IsSeq(header) /\ IsSeq(data)
  BY <1>1 DEF LineOk, BlockOf
<1>6. PICK r1 : BlockOf(r1, h) /\ line1.inbox = (inbox \o header) \o r1
  BY <1>3, <1>4 DEF SentOn
<1>7. LineOk(inbox \o header) /\ EndsIn(inbox \o header, h)
  BY <1>1, BlockOnEnd
<1>8. MidLine(line1, n, h)
  <2>1. LineOk(line1.inbox) /\ EndsIn(line1.inbox, h)
    BY <1>6, <1>7, BlockOnEnd
  <2> QED BY <1>4, <1>5, <2>1 DEF MidLine, SentOn
<1>9. HeaderLength \in 0..Len(line1.inbox) /\ IsSeq(line1.inbox)
  <2>1. Len(inbox) \in Nat /\ Len(inbox \o header) = Len(inbox) + HeaderLength
    BY <1>1, <1>5a, LenJoin
  <2>2. Len(r1) \in Nat /\ Len(line1.inbox) = Len(inbox \o header) + Len(r1)
    <3>1. IsSeq(r1) /\ IsSeq(inbox \o header)
      BY <1>6, <1>7 DEF LineOk, BlockOf
    <3> QED BY <1>6, <3>1, LenJoin
  <2> QED BY <1>0, <1>8, <2>1, <2>2 DEF MidLine, LineOk
<1>10. MidLine(line2, n, h) /\ line2.inbox = SubSeq(line1.inbox, HeaderLength + 1, Len(line1.inbox))
  BY <1>8, <1>9, SkippedKeeps DEF line2
<1>11. ASSUME Reader!Echoed(line1, header) PROVE From(line2.inbox, h)
  <2>1. \A i \in 1..HeaderLength : line1.inbox[i].b = header[i].b
    BY <1>0, <1>1, <1>9, <1>11, EchoFound DEF BlockOf
  <2>2. HeaderLength \in 1..HeaderLength /\ HeaderLength \in 1..Len(line1.inbox)
    BY <1>0, <1>9
  <2>3. line1.inbox[HeaderLength].b = <<"header", h, HeaderLength>>
    BY <1>1, <2>1, <2>2
  <2>4. line1.inbox[HeaderLength].b[1] = "header" /\ line1.inbox[HeaderLength].b[2] = h
    BY <2>3
  <2>5. line1.inbox[HeaderLength].h = h
    BY <1>8, <2>2, <2>4 DEF MidLine, LineOk, Reader!IsEcho
  <2> QED BY <1>8, <1>10, <2>2, <2>5, AfterByte DEF MidLine
<1>12. CASE ~Reader!Echoed(line1, header)
  BY <1>2, <1>10, <1>12 DEF AnsweredBy, Reader!Raised
<1>13. CASE Reader!Echoed(line1, header)
  <2>1. MidLine(proc.line, n, h) /\ AnsweredBy(proc.res, h) /\ (proc.ack => From(proc.line.inbox, h))
    BY <1>10, <1>11, <1>13, ProcedureKeeps DEF proc
  <2>2. CASE ~proc.ack
    BY <1>2, <1>13, <2>1, <2>2
  <2>3. CASE proc.ack /\ Headers[h].case # 3
    <3>1. MidLine(Reader!Receive(proc.line, h).line, n, h) /\ AnsweredBy(Reader!Receive(proc.line, h).res, h)
      BY <2>1, <2>3, ReceiveKeeps
    <3> QED BY <1>2, <1>13, <2>3, <3>1
  <2>4. CASE proc.ack /\ Headers[h].case = 3
    <3>1. SentOn(proc.line, line3, data, n, h)
      BY <2>1, SentFacts DEF MidLine, line3
    <3>2. PICK r3 : BlockOf(r3, h) /\ line3.inbox = (proc.line.inbox \o data) \o r3
      BY <3>1 DEF SentOn
    <3>3. LineOk(proc.line.inbox \o data) /\ EndsIn(proc.line.inbox \o data, h)
      BY <1>1, <2>1, BlockOnEnd DEF MidLine
    <3>4. MidLine(line3, n, h)
      <4>1. LineOk(line3.inbox) /\ EndsIn(line3.inbox, h)
        BY <3>2, <3>3, BlockOnEnd
      <4> QED BY <1>5, <3>1, <4>1 DEF MidLine, SentOn
    <3>5. From(line3.inbox, h)
      <4>1. From(proc.line.inbox \o data, h)
        BY <1>1, <2>1, <2>4, FromJoin DEF MidLine, LineOk
      <4> QED BY <3>2, <3>3, <4>1, FromJoin DEF LineOk
    <3>6. HeaderLength \in 0..Len(line3.inbox) /\ IsSeq(line3.inbox)
      <4>1. Len(proc.line.inbox) \in Nat /\ Len(proc.line.inbox \o data) = Len(proc.line.inbox) + HeaderLength
        <5>1. IsSeq(proc.line.inbox)
          BY <2>1 DEF MidLine, LineOk
        <5> QED BY <1>1, <1>5a, <5>1, LenJoin
      <4>2. Len(r3) \in Nat /\ Len(line3.inbox) = Len(proc.line.inbox \o data) + Len(r3)
        <5>1. IsSeq(r3) /\ IsSeq(proc.line.inbox \o data)
          BY <3>2, <3>3 DEF LineOk, BlockOf
        <5> QED BY <3>2, <5>1, LenJoin
      <4> QED BY <1>0, <3>4, <4>1, <4>2 DEF MidLine, LineOk
    <3>7. MidLine(line4, n, h) /\ line4.inbox = SubSeq(line3.inbox, HeaderLength + 1, Len(line3.inbox))
      BY <3>4, <3>6, SkippedKeeps DEF line4
    <3>8. CASE ~Reader!Echoed(line3, data)
      BY <1>2, <1>13, <2>4, <3>7, <3>8 DEF AnsweredBy, Reader!Raised
    <3>9. CASE Reader!Echoed(line3, data)
      <4>1. \A i \in 1..HeaderLength : line3.inbox[i].b = data[i].b
        BY <1>0, <1>1, <3>6, <3>9, EchoFound DEF BlockOf
      <4>2. \A i \in 1..HeaderLength : ~Reader!IsEcho(line3.inbox[i])
        BY <1>1, <4>1 DEF Reader!IsEcho
      <4>3. From(line4.inbox, h)
        BY <3>5, <3>6, <3>7, <4>2, FromRest
      <4>4. MidLine(Reader!Receive(line4, h).line, n, h) /\ AnsweredBy(Reader!Receive(line4, h).res, h)
        BY <3>7, <4>3, ReceiveKeeps
      <4> QED BY <1>2, <1>13, <2>4, <3>9, <4>4
    <3> QED BY <3>8, <3>9
  <2> QED BY <2>2, <2>3, <2>4
<1> QED BY <1>12, <1>13

-----------------------------------------------------------------------------
\* A call on a line that is empty, to a card that is in time.
LEMMA SeqRest ==
  ASSUME NEW s, NEW t, IsSeq(s), IsSeq(t)
  PROVE  SubSeq(s \o t, Len(s) + 1, Len(s \o t)) = t
<1> DEFINE u == s \o t
           v == SubSeq(u, Len(s) + 1, Len(u))
<1>1. /\ IsSeq(u) /\ Len(s) \in Nat /\ Len(t) \in Nat /\ Len(u) = Len(s) + Len(t)
      /\ \A i \in 1..Len(u) : u[i] = IF i <= Len(s) THEN s[i] ELSE t[i - Len(s)]
  BY SeqJoin
<1> HIDE DEF u
<1>2. Len(s) + 1 \in 1..Len(u) + 1 /\ Len(u) \in (Len(s) + 1 - 1)..Len(u)
  BY <1>1
<1>3. IsSeq(v) /\ Len(v) = Len(u) - (Len(s) + 1) + 1
      /\ \A i \in 1..(Len(u) - (Len(s) + 1) + 1) : v[i] = u[Len(s) + 1 + i - 1]
  BY <1>1, <1>2, SeqPart
<1> HIDE DEF v
<1>4. Len(v) = Len(t)
  BY <1>1, <1>3
<1>4a. ASSUME NEW i \in 1..Len(t) PROVE v[i] = t[i]
  <2>1. i \in 1..(Len(u) - (Len(s) + 1) + 1) /\ Len(s) + 1 + i - 1 = Len(s) + i
        /\ Len(s) + i \in 1..Len(u) /\ ~(Len(s) + i <= Len(s)) /\ Len(s) + i - Len(s) = i
    BY <1>1
  <2>2. v[i] = u[Len(s) + i]
    BY <1>3, <2>1
  <2>3. u[Len(s) + i] = t[Len(s) + i - Len(s)]
    BY <1>1, <2>1
  <2> QED BY <2>1, <2>2, <2>3
<1>5. PICK S, T : v \in Seq(S) /\ t \in Seq(T)
  BY <1>3 DEF IsSeq
<1>6. v \in Seq(S \cup T) /\ t \in Seq(S \cup T)
  BY <1>5, SeqMonotonic
<1>7. v = t
  BY <1>4, <1>4a, <1>6, SeqEqual
<1> QED BY <1>7 DEF v, u

Reply(line, bytes, n, h, answer) ==
  IF socket # "in" THEN <<>> ELSE
  IF line.owing # <<>> THEN Reader!SwBytes(line.owing[1].n, line.owing[1].h) ELSE
  IF bytes = Reader!HeaderBytes(n, h) THEN Reader!Reaction(n, h, answer) ELSE Reader!SwBytes(n, h)

LEMMA SentInTime ==
  ASSUME NEW line, NEW bytes, NEW n, NEW h, NEW answer, IsSeq(bytes), line.inbox = <<>>,
         IsSeq(Reply(line, bytes, n, h, answer))
  PROVE  LET after == Reader!Sent(line, bytes, n, h, answer, 0) IN
         /\ after.inbox = bytes \o Reply(line, bytes, n, h, answer)
         /\ SubSeq(after.inbox, Len(bytes) + 1, Len(after.inbox)) = Reply(line, bytes, n, h, answer)
<1> DEFINE reply == Reply(line, bytes, n, h, answer)
           after == Reader!Sent(line, bytes, n, h, answer, 0)
<1>1. Len(reply) \in Nat
  BY LenProperties DEF IsSeq
<1>2. after.inbox = line.inbox \o bytes \o SubSeq(reply, 1, IF 0 > Len(reply) THEN 0 ELSE Len(reply) - 0)
  BY DEF Reader!Sent, Reply
<1> HIDE DEF reply, after
<1>3. (IF 0 > Len(reply) THEN 0 ELSE Len(reply) - 0) = Len(reply)
  BY <1>1
<1>4. SubSeq(reply, 1, Len(reply)) = reply
  BY SubSeqFull DEF IsSeq, reply
<1>5. <<>> \o bytes = bytes
  BY ConcatEmptySeq DEF IsSeq
<1>6. after.inbox = bytes \o reply
  BY <1>2, <1>3, <1>4, <1>5
<1>7. IsSeq(reply)
  BY DEF reply
<1> QED BY <1>6, <1>7, SeqRest DEF reply, after

\* Bytes of one call, ending in its status word.
OwnBytes(s, n) ==
  /\ IsSeq(s) /\ Len(s) >= 2 /\ \A i \in 1..Len(s) : s[i].n = n
  /\ s[Len(s) - 1].b = <<"sw1">> /\ s[Len(s)].b = <<"sw2">>

LEMMA OwnRead ==
  ASSUME NEW s, NEW n, OwnBytes(s, n), NEW full
  PROVE  Reader!Read(s, full).of = {n} /\ Reader!Read(s, full).full = full
<1>1. Len(s) \in Nat /\ DOMAIN s = 1..Len(s) /\ 1 \in 1..Len(s)
  BY LenProperties DEF OwnBytes, IsSeq
<1>2. Reader!ToSet(s) = {s[i] : i \in 1..Len(s)}
  BY <1>1 DEF Reader!ToSet
<1>3. {t.n : t \in Reader!ToSet(s)} = {n}
  BY <1>1, <1>2 DEF OwnBytes
<1> QED BY <1>3 DEF Reader!Read, Reader!Returned

LEMMA OwnSw ==
  ASSUME NEW n, NEW h
  PROVE  OwnBytes(Reader!SwBytes(n, h), n)
<1> DEFINE bytes == Reader!SwBytes(n, h)
<1>1. BlockOf(bytes, h) /\ Len(bytes) = 2 /\ bytes[1].b = <<"sw1">> /\ bytes[2].b = <<"sw2">>
      /\ bytes[1].n = n /\ bytes[2].n = n
  BY SwBlock
<1> HIDE DEF bytes
<1>2. \A i \in 1..2 : bytes[i].n = n
  <2>1. \A i \in 1..2 : i = 1 \/ i = 2
    OBVIOUS
  <2> QED BY <1>1, <2>1
<1>3. IsSeq(bytes)
  BY <1>1 DEF BlockOf
<1>4. OwnBytes(bytes, n)
  BY <1>1, <1>2, <1>3 DEF OwnBytes
<1> QED BY <1>4 DEF bytes

LEMMA OwnData ==
  ASSUME NEW n, NEW h, NEW answer \in Answers
  PROVE  LET bytes == OutBytes(n, h, answer) \o Reader!SwBytes(n, h) IN
         OwnBytes(bytes, n) /\ Len(bytes) = answer.data + 2
<1> DEFINE s == OutBytes(n, h, answer)
           t == Reader!SwBytes(n, h)
           u == s \o t
<1>1. IsSeq(s) /\ Len(s) = answer.data /\ \A i \in 1..Len(s) : s[i].n = n
  BY OutBlock DEF BlockOf
<1>2. OwnBytes(t, n) /\ Len(t) = 2
  BY OwnSw, SwBlock
<1> HIDE DEF s, t
<1>3. /\ IsSeq(u) /\ Len(s) \in Nat /\ Len(u) = Len(s) + 2
      /\ \A i \in 1..Len(u) : u[i] = IF i <= Len(s) THEN s[i] ELSE t[i - Len(s)]
  <2>1. IsSeq(s) /\ IsSeq(t)
    BY <1>1, <1>2 DEF OwnBytes
  <2> QED BY <1>2, <2>1, SeqJoin
<1> HIDE DEF u
<1>4. ASSUME NEW i \in 1..Len(u) PROVE u[i].n = n
  <2>1. CASE i <= Len(s)
    <3>1. i \in 1..Len(s) /\ u[i] = s[i]
      BY <1>3, <2>1
    <3> QED BY <1>1, <3>1
  <2>2. CASE i > Len(s)
    <3>1. i - Len(s) \in 1..Len(t) /\ u[i] = t[i - Len(s)]
      BY <1>2, <1>3, <2>2
    <3> QED BY <1>2, <3>1 DEF OwnBytes
  <2> QED BY <1>3, <2>1, <2>2
<1>5. u[Len(u) - 1] = t[1] /\ u[Len(u)] = t[2]
  BY <1>3
<1>6. t[1].b = <<"sw1">> /\ t[2].b = <<"sw2">>
  BY SwBlock DEF t
<1>7. OwnBytes(u, n)
  BY <1>3, <1>4, <1>5, <1>6 DEF OwnBytes
<1> QED BY <1>1, <1>3, <1>7 DEF s, t, u

LEMMA OwnReceive ==
  ASSUME NEW line, NEW n, NEW h, OwnBytes(line.inbox, n),
         Len(line.inbox) = (IF Headers[h].case = 3 THEN 0 ELSE Headers[h].p3) + 2
  PROVE  LET res == Reader!Receive(line, h).res IN res.of = {n} /\ res.full
<1> DEFINE got == SubSeq(line.inbox, 1, Len(line.inbox))
           full == got[Len(line.inbox) - 1].b = <<"sw1">> /\ got[Len(line.inbox)].b = <<"sw2">>
<1>1. Len(line.inbox) \in Nat /\ Len(line.inbox) >= 2
  BY LenProperties DEF OwnBytes, IsSeq
<1>2. Reader!Receive(line, h).res = Reader!Read(got, full)
  BY <1>1 DEF Reader!Receive
<1>3. got = line.inbox
  BY SubSeqFull DEF OwnBytes, IsSeq
<1>4. full = TRUE
  BY <1>3 DEF OwnBytes
<1> HIDE DEF got, full
<1>5. Reader!Receive(line, h).res = Reader!Read(line.inbox, TRUE)
  BY <1>2, <1>3, <1>4
<1>6. Reader!Read(line.inbox, TRUE).of = {n} /\ Reader!Read(line.inbox, TRUE).full = TRUE
  BY OwnRead
<1> QED BY <1>5, <1>6

\* The card asks for the rest of the command, or sends its data.
Acks(line, n, h, more) ==
  /\ IsSeq(more) /\ DOMAIN line = {"inbox", "late", "owing"}
  /\ line.inbox = <<Reader!Byte(n, h, <<"ins", Headers[h].ins>>)>> \o more
AckSeen(proc, line, more) == proc.ack /\ proc.line.inbox = more /\ proc.line.owing = line.owing

LEMMA Acked ==
  ASSUME NEW line, NEW n, NEW h, NEW more, Acks(line, n, h, more)
  PROVE  AckSeen(Reader!Procedure(line, h), line, more)
<1> DEFINE ins == <<Reader!Byte(n, h, <<"ins", Headers[h].ins>>)>>
           all == line.inbox
           proc == Reader!Procedure(line, h)
<1>1. ins[1] = Reader!Byte(n, h, <<"ins", Headers[h].ins>>) /\ Len(ins) = 1 /\ IsSeq(ins)
  BY ByteBlock DEF BlockOf
<1>2. ins[1].b = <<"ins", Headers[h].ins>>
  BY <1>1 DEF Reader!Byte
<1>3. all = ins \o more /\ IsSeq(more) /\ DOMAIN line = {"inbox", "late", "owing"}
  BY DEF Acks
<1> HIDE DEF ins
<1>4. Len(more) \in Nat /\ Len(all) = 1 + Len(more)
  BY <1>1, <1>3, LenJoin
<1>5. all[1] = ins[1]
  <2>1. \A i \in 1..Len(ins \o more) : (ins \o more)[i] = IF i <= Len(ins) THEN ins[i] ELSE more[i - Len(ins)]
    BY <1>1, <1>3, SeqJoin
  <2> QED BY <1>1, <1>3, <1>4, <2>1
<1>6. SubSeq(all, 1 + 1, Len(all)) = more
  BY <1>1, <1>3, SeqRest
<1>7. all # <<>>
  BY <1>4
<1>8. proc = [ack |-> TRUE, line |-> Reader!Skipped(line, 1), res |-> Reader!Raised]
  BY <1>2, <1>5, <1>7 DEF Reader!Procedure
<1>9. /\ Reader!Skipped(line, 1).inbox = SubSeq(all, 1 + 1, Len(all))
      /\ Reader!Skipped(line, 1).owing = line.owing
  BY <1>3 DEF Reader!Skipped
<1>10. proc.ack /\ proc.line = Reader!Skipped(line, 1)
  BY <1>8
<1> HIDE DEF proc
<1> QED BY <1>6, <1>9, <1>10 DEF proc, AckSeen

Own(res, n) == res.ok => res.of = {n} /\ res.full

LEMMA SerialOwnAnswer ==
  ASSUME NEW n, NEW h \in DOMAIN Headers, NEW answer \in Answers, NEW late \in Nat,
         inbox = <<>>, owing = <<>>, Reader!Fair(h, answer, late)
  PROVE  Own(Reader!SerialCall(n, h, answer, late).res, n)
<1> DEFINE header == Reader!HeaderBytes(n, h)
           data == Reader!DataBytes(n, h)
           sw == Reader!SwBytes(n, h)
           ins == <<Reader!Byte(n, h, <<"ins", Headers[h].ins>>)>>
           out == OutBytes(n, h, answer) \o sw
           line0 == [inbox |-> inbox, late |-> <<>>, owing |-> owing]
           line1 == Reader!Sent(line0, header, n, h, answer, late)
           line2 == Reader!Skipped(line1, HeaderLength)
           proc == Reader!Procedure(line2, h)
           line3 == Reader!Sent(proc.line, data, n, h, answer, late)
           line4 == Reader!Skipped(line3, HeaderLength)
           reply == Reply(line0, header, n, h, answer)
           call == Reader!SerialCall(n, h, answer, late)
<1> SUFFICES ASSUME call.res.ok PROVE call.res.of = {n} /\ call.res.full
  BY DEF Own
<1>1. late = 0 /\ ~answer.nul /\ (Headers[h].case = 3 \/ answer.direct \/ answer.data = Headers[h].p3)
  BY DEF Reader!Fair
<1>2. /\ IsSeq(header) /\ Len(header) = HeaderLength /\ IsSeq(data) /\ Len(data) = HeaderLength
      /\ OwnBytes(sw, n) /\ Len(sw) = 2 /\ sw[1].b = <<"sw1">> /\ sw[2].b = <<"sw2">>
      /\ OwnBytes(out, n) /\ Len(out) = answer.data + 2
  BY HeaderBlock, DataBlock, SwBlock, OwnSw, OwnData DEF BlockOf
<1>3. IsSeq(ins) /\ Len(ins) = 1 /\ ins[1].b = <<"ins", Headers[h].ins>> /\ IsSeq(<<>>)
  <2>1. BlockOf(ins, h) /\ BlockOf(<<>>, h)
    BY ByteBlock, NoBlock
  <2>2. ins[1] = Reader!Byte(n, h, <<"ins", Headers[h].ins>>) /\ Len(ins) = 1
    OBVIOUS
  <2> QED BY <2>1, <2>2 DEF BlockOf, Reader!Byte
<1>4. reply = IF socket # "in" THEN <<>> ELSE IF answer.direct THEN sw
              ELSE IF Headers[h].case = 3 THEN ins \o <<>> ELSE ins \o out
  <2>1. Reader!Reaction(n, h, answer) =
          <<>> \o (IF answer.direct THEN sw ELSE IF Headers[h].case = 3 THEN ins \o <<>> ELSE ins \o out)
    BY <1>1 DEF Reader!Reaction, OutBytes
  <2> DEFINE rest == IF answer.direct THEN sw ELSE IF Headers[h].case = 3 THEN ins \o <<>> ELSE ins \o out
  <2>2. IsSeq(rest)
    <3>1. IsSeq(ins \o <<>>) /\ IsSeq(ins \o out) /\ IsSeq(sw)
      BY <1>2, <1>3, SeqJoin DEF OwnBytes
    <3> QED BY <3>1
  <2>3. <<>> \o rest = rest
    BY <2>2, ConcatEmptySeq DEF IsSeq
  <2>4. Reader!Reaction(n, h, answer) = rest
    BY <2>1, <2>3
  <2> HIDE DEF rest, header, sw, ins, out
  <2>5. reply = IF socket # "in" THEN <<>> ELSE rest
    BY <2>4 DEF Reply, header
  <2> QED BY <2>5 DEF rest
<1>5. call.res = IF ~Reader!Echoed(line1, header) THEN Reader!Raised
                 ELSE IF ~proc.ack THEN proc.res
                 ELSE IF Headers[h].case # 3 THEN Reader!Receive(proc.line, h).res
                 ELSE IF ~Reader!Echoed(line3, data) THEN Reader!Raised
                 ELSE Reader!Receive(line4, h).res
  BY DEF Reader!SerialCall
<1>6. DOMAIN line1 = {"inbox", "late", "owing"} /\ DOMAIN line3 = {"inbox", "late", "owing"}
  BY DEF Reader!Sent
<1>7. line1.owing = IF socket = "in" /\ Headers[h].case = 3 /\ ~answer.direct THEN <<Reader!Ask(n, h)>> ELSE <<>>
  BY DEF Reader!Sent
<1>8. line0.inbox = <<>>
  OBVIOUS
<1> HIDE DEF header, data, sw, ins, out, line0, line1, line2, proc, line3, line4, call, reply
<1>9. IsSeq(reply) /\ IsSeq(ins \o out) /\ IsSeq(ins \o <<>>)
  <2>1. IsSeq(ins \o <<>>) /\ IsSeq(ins \o out)
    BY <1>2, <1>3, SeqJoin DEF OwnBytes
  <2> QED BY <1>2, <1>3, <1>4, <2>1 DEF OwnBytes
<1>10. line2.inbox = reply /\ line2.owing = line1.owing /\ DOMAIN line2 = DOMAIN line1
  <2>1. SubSeq(line1.inbox, Len(header) + 1, Len(line1.inbox)) = reply
    <3>1. line1 = Reader!Sent(line0, header, n, h, answer, 0) /\ reply = Reply(line0, header, n, h, answer)
      BY <1>1 DEF line1, reply
    <3>2. IsSeq(header) /\ IsSeq(Reply(line0, header, n, h, answer))
      BY <1>2, <1>9, <3>1
    <3>3. LET after == Reader!Sent(line0, header, n, h, answer, 0)
          IN SubSeq(after.inbox, Len(header) + 1, Len(after.inbox)) = Reply(line0, header, n, h, answer)
      BY <1>8, <3>2, SentInTime
    <3> QED BY <3>1, <3>3
  <2>2. line2.inbox = SubSeq(line1.inbox, HeaderLength + 1, Len(line1.inbox)) /\ line2.owing = line1.owing
        /\ DOMAIN line2 = DOMAIN line1
    BY <1>6 DEF line2, Reader!Skipped
  <2> QED BY <1>2, <2>1, <2>2
<1>11. Reader!Echoed(line1, header)
  BY <1>5 DEF Reader!Raised
<1>12. CASE reply = <<>>
  <2>1. ~proc.ack /\ proc.res = Reader!Raised
    BY <1>10, <1>12 DEF proc, Reader!Procedure
  <2> QED BY <1>5, <1>11, <2>1 DEF Reader!Raised
<1>13. CASE reply = sw
  <2>1. reply # <<>> /\ Len(reply) = 2 /\ reply[1].b # <<"ins", Headers[h].ins>>
    <3>1. Len(reply) = 2 /\ reply[1].b = <<"sw1">>
      BY <1>2, <1>13
    <3>2. reply[1].b[1] = "sw1"
      BY <3>1
    <3>3. reply[1].b # <<"ins", Headers[h].ins>>
      BY <3>2
    <3>4. reply # <<>>
      <4>1. Len(<<>>) = 0
        OBVIOUS
      <4>2. Len(reply) # Len(<<>>)
        BY <3>1, <4>1
      <4> QED BY <4>2, Zenon
    <3> QED BY <3>1, <3>3, <3>4
  <2> DEFINE full == Reader!ValuesOf(reply) = <<<<"sw1">>, <<"sw2">>>>
  <2>2. ~proc.ack /\ proc.res = Reader!Read(reply, full)
    BY <1>10, <2>1 DEF proc, Reader!Procedure
  <2>3. full = TRUE
    <3>1. DOMAIN reply = 1..2
      BY <1>9, <2>1, LenProperties DEF IsSeq
    <3>2. Reader!ValuesOf(reply) = [i \in 1..2 |-> reply[i].b]
      BY <3>1 DEF Reader!ValuesOf
    <3>3. reply[1].b = <<"sw1">> /\ reply[2].b = <<"sw2">>
      BY <1>2, <1>13
    <3>4. [i \in 1..2 |-> reply[i].b] = <<<<"sw1">>, <<"sw2">>>>
      BY <3>3
    <3> QED BY <3>2, <3>4
  <2> HIDE DEF full
  <2>4. Reader!Read(reply, TRUE).of = {n} /\ Reader!Read(reply, TRUE).full = TRUE
    <3>1. OwnBytes(reply, n)
      BY <1>2, <1>13
    <3> QED BY <3>1, OwnRead
  <2> QED BY <1>5, <1>11, <2>2, <2>3, <2>4
<1>14. CASE socket = "in" /\ ~answer.direct /\ Headers[h].case # 3
  <2>1. reply = ins \o out
    BY <1>4, <1>14
  <2>2. proc.ack /\ proc.line.inbox = out
    <3>1. IsSeq(out)
      BY <1>2 DEF OwnBytes
    <3>2. DOMAIN line2 = {"inbox", "late", "owing"}
      BY <1>6, <1>10
    <3>3. line2.inbox = <<Reader!Byte(n, h, <<"ins", Headers[h].ins>>)>> \o out
      BY <1>10, <2>1 DEF ins
    <3>4. AckSeen(proc, line2, out)
      <4>1. Acks(line2, n, h, out)
        BY <3>1, <3>2, <3>3 DEF Acks
      <4> QED BY <4>1, Acked DEF proc
    <3> QED BY <3>4 DEF AckSeen
  <2>3. Len(out) = (IF Headers[h].case = 3 THEN 0 ELSE Headers[h].p3) + 2
    BY <1>1, <1>2, <1>14
  <2>4. Reader!Receive(proc.line, h).res.of = {n} /\ Reader!Receive(proc.line, h).res.full
    BY <1>2, <2>2, <2>3, OwnReceive
  <2> QED BY <1>5, <1>11, <1>14, <2>2, <2>4
<1>15. CASE socket = "in" /\ ~answer.direct /\ Headers[h].case = 3
  <2>1. reply = ins \o <<>>
    BY <1>4, <1>15
  <2>2. proc.ack /\ proc.line.inbox = <<>> /\ proc.line.owing = line1.owing
    <3>1. IsSeq(<<>>)
      BY <1>3
    <3>2. DOMAIN line2 = {"inbox", "late", "owing"} /\ line2.owing = line1.owing
      BY <1>6, <1>10
    <3>3. line2.inbox = <<Reader!Byte(n, h, <<"ins", Headers[h].ins>>)>> \o <<>>
      BY <1>10, <2>1 DEF ins
    <3>4. AckSeen(proc, line2, <<>>)
      <4>1. Acks(line2, n, h, <<>>)
        BY <3>1, <3>2, <3>3 DEF Acks
      <4> QED BY <4>1, Acked DEF proc
    <3> QED BY <3>2, <3>4 DEF AckSeen
  <2>3. Reply(proc.line, data, n, h, answer) = sw
    <3>1. proc.line.owing = <<Reader!Ask(n, h)>>
      BY <1>7, <1>15, <2>2
    <3>2. proc.line.owing # <<>> /\ proc.line.owing[1].n = n /\ proc.line.owing[1].h = h
      BY <3>1 DEF Reader!Ask
    <3> QED BY <1>15, <3>2 DEF Reply, sw
  <2>4. SubSeq(line3.inbox, Len(data) + 1, Len(line3.inbox)) = sw
    <3>1. line3 = Reader!Sent(proc.line, data, n, h, answer, 0)
      BY <1>1 DEF line3
    <3>2. IsSeq(data) /\ IsSeq(Reply(proc.line, data, n, h, answer))
      BY <1>2, <2>3 DEF OwnBytes
    <3>3. LET after == Reader!Sent(proc.line, data, n, h, answer, 0)
          IN SubSeq(after.inbox, Len(data) + 1, Len(after.inbox)) = Reply(proc.line, data, n, h, answer)
      BY <2>2, <3>2, SentInTime
    <3> QED BY <2>3, <3>1, <3>3
  <2>5. line4.inbox = sw
    <3>1. line4.inbox = SubSeq(line3.inbox, HeaderLength + 1, Len(line3.inbox))
      BY <1>6 DEF line4, Reader!Skipped
    <3> QED BY <1>2, <2>4, <3>1
  <2>6. Reader!Receive(line4, h).res.of = {n} /\ Reader!Receive(line4, h).res.full
    <3>1. OwnBytes(line4.inbox, n) /\ Len(line4.inbox) = (IF Headers[h].case = 3 THEN 0 ELSE Headers[h].p3) + 2
      BY <1>2, <1>15, <2>5
    <3> QED BY <3>1, OwnReceive
  <2>7. Reader!Echoed(line3, data)
    BY <1>5, <1>11, <1>15, <2>2 DEF Reader!Raised
  <2> QED BY <1>5, <1>11, <1>15, <2>2, <2>6, <2>7
<1> QED BY <1>4, <1>12, <1>13, <1>14, <1>15

-----------------------------------------------------------------------------
\* A wait for a card that has not found contact bounce has, once no card is there, either an empty
\* socket or a card put in since it began.
WaitOk(w) ==
  \/ w = Reader!NotWaiting
  \/ /\ DOMAIN w = {"on", "existing", "pe", "since", "glitch"} /\ w.on = TRUE
     /\ w.since \in Nat /\ w.since <= inserted
     /\ w.existing \in BOOLEAN /\ w.glitch \in BOOLEAN
     /\ ~w.existing /\ ~w.glitch => socket = "out" \/ inserted > w.since

ReadersInv ==
  /\ inserted \in Nat /\ socket \in {"in", "out", "half"}
  /\ driver = "none" => inbox = <<>> /\ unsent = <<>> /\ last.what = "start" /\ waiting = Reader!NotWaiting
  /\ driver = "serial" /\ ~swallowed => \E h : LineOk(inbox) /\ EndsIn(inbox, h) /\ BlockOf(unsent, h)
  /\ driver \in {"modem", "modem_with_echo"} => IsSeq(unsent)
  /\ WaitOk(waiting)
  /\ Reader!ReadersTrusted

LEMMA ReadersStart == Reader!ReadersInit => ReadersInv
<1> SUFFICES ASSUME Reader!ReadersInit PROVE ReadersInv
  OBVIOUS
<1>1. /\ driver = "none" /\ inbox = <<>> /\ unsent = <<>> /\ socket = "in" /\ inserted = 0
      /\ last.what = "start" /\ waiting = Reader!NotWaiting
  BY DEF Reader!ReadersInit
<1>2. Reader!ReadersTrusted
  BY <1>1 DEF Reader!ReadersTrusted, Reader!OwnAnswer, Reader!EchoMatches, Reader!NewCardIsNew
<1> QED BY <1>1, <1>2 DEF ReadersInv, WaitOk

\* A call that ended.
LEMMA EndedCall ==
  ASSUME NEW what \in {"tpdu", "reset"}, NEW header, NEW res, NEW fair, Reader!Ended(what, header, res, fair),
         driver' = driver,
         what = "tpdu" =>
           /\ Reader!Clean /\ fair => Own(res, calls + 1)
           /\ driver = "serial" /\ ~swallowed' => AnsweredBy(res, header)
  PROVE  Reader!ReadersTrusted'
<1>1. /\ last'.n = calls + 1 /\ last'.what = what /\ last'.header = header /\ last'.res = res
      /\ (last'.clean <=> Reader!Clean) /\ (last'.fair <=> fair) /\ (last'.swallowed <=> swallowed')
  BY DEF Reader!Ended
<1> QED BY <1>1 DEF Reader!ReadersTrusted, Reader!OwnAnswer, Reader!EchoMatches, Reader!NewCardIsNew, Own, AnsweredBy

LEMMA LastKept ==
  ASSUME Reader!ReadersTrusted, driver' = driver, last' = last
  PROVE  Reader!ReadersTrusted'
BY DEF Reader!ReadersTrusted, Reader!OwnAnswer, Reader!EchoMatches, Reader!NewCardIsNew

LEMMA SerialTpduKeeps ==
  ASSUME ReadersInv, NEW h \in DOMAIN Headers, NEW answer \in Answers, NEW late \in {0, 1, HeaderLength},
         Reader!SerialTpdu(h, answer, late)
  PROVE  ReadersInv'
<1> DEFINE call == Reader!SerialCall(calls + 1, h, answer, late)
<1>1. /\ driver = "serial" /\ UNCHANGED <<driver, socket, inserted, waiting>> /\ unsent = <<>>
      /\ inbox' = call.line.inbox /\ unsent' = call.line.late /\ (swallowed' <=> swallowed \/ owing # <<>>)
      /\ Reader!Ended("tpdu", h, call.res, Reader!Fair(h, answer, late))
  BY DEF Reader!SerialTpdu, Reader!Standing
<1>2. late \in Nat
  BY ReaderAssumption
<1> HIDE DEF call
<1>3. ASSUME ~swallowed' PROVE MidLine(call.line, calls + 1, h) /\ AnsweredBy(call.res, h)
  BY <1>1, <1>2, <1>3, SerialCallKeeps DEF ReadersInv, call
<1>4. Reader!Clean /\ Reader!Fair(h, answer, late) => Own(call.res, calls + 1)
  BY <1>2, SerialOwnAnswer DEF call, Reader!Clean
<1>5. Reader!ReadersTrusted'
  BY <1>1, <1>3, <1>4, EndedCall
<1>6. ~swallowed' => LineOk(inbox') /\ EndsIn(inbox', h) /\ BlockOf(unsent', h)
  BY <1>1, <1>3 DEF MidLine
<1>7. WaitOk(waiting)'
  BY <1>1 DEF ReadersInv, WaitOk
<1> QED BY <1>1, <1>5, <1>6, <1>7 DEF ReadersInv

LEMMA LateBytesKeep ==
  ASSUME ReadersInv, Reader!LateBytes
  PROVE  ReadersInv'
<1>1. /\ driver = "serial" /\ inbox' = inbox \o unsent /\ unsent' = <<>>
      /\ UNCHANGED <<driver, swallowed, socket, inserted, last, waiting>>
  BY DEF Reader!LateBytes
<1>2. Reader!ReadersTrusted'
  BY <1>1, LastKept DEF ReadersInv
<1>3. ASSUME ~swallowed' PROVE \E h : LineOk(inbox') /\ EndsIn(inbox', h) /\ BlockOf(unsent', h)
  <2>1. PICK h : LineOk(inbox) /\ EndsIn(inbox, h) /\ BlockOf(unsent, h)
    BY <1>1, <1>3 DEF ReadersInv
  <2>2. LineOk(inbox \o unsent) /\ EndsIn(inbox \o unsent, h)
    BY <2>1, BlockOnEnd
  <2> QED BY <1>1, <2>2, NoBlock
<1>4. WaitOk(waiting)'
  BY <1>1 DEF ReadersInv, WaitOk
<1> QED BY <1>1, <1>2, <1>3, <1>4 DEF ReadersInv

\* What a reset finds on the line.
LEMMA AtrLine == \E h : LineOk(<<Reader!Byte(0, 0, <<"atr">>)>>) /\ EndsIn(<<Reader!Byte(0, 0, <<"atr">>)>>, h)
                        /\ LineOk(<<>>) /\ EndsIn(<<>>, h) /\ BlockOf(<<>>, h)
<1> DEFINE atr == <<Reader!Byte(0, 0, <<"atr">>)>>
<1>1. BlockOf(<<>>, 0)
  BY NoBlock
<1>2. LineOk(<<>>) /\ EndsIn(<<>>, 0)
  <2>1. IsSeq(<<>>) /\ Len(<<>>) = 0
    BY <1>1 DEF BlockOf
  <2> QED BY <2>1 DEF LineOk, EndsIn
<1>3. atr[1] = Reader!Byte(0, 0, <<"atr">>) /\ Len(atr) = 1
  OBVIOUS
<1>4. BlockOf(atr, 0)
  <2>1. <<"atr">>[1] # "header"
    OBVIOUS
  <2> QED BY <2>1, ByteBlock
<1>5. ~Reader!IsEcho(atr[1]) /\ atr[1].h = 0
  BY <1>3 DEF Reader!IsEcho, Reader!Byte
<1> HIDE DEF atr
<1>6. LineOk(atr) /\ EndsIn(atr, 0)
  BY <1>3, <1>4, <1>5 DEF LineOk, EndsIn, BlockOf
<1> QED BY <1>1, <1>2, <1>6 DEF atr

LEMMA ResetLine ==
  ASSUME inbox' = (IF socket = "half" THEN <<Reader!Byte(0, 0, <<"atr">>)>> ELSE <<>>), unsent' = <<>>
  PROVE  \E h : LineOk(inbox') /\ EndsIn(inbox', h) /\ BlockOf(unsent', h)
<1>1. PICK h : LineOk(<<Reader!Byte(0, 0, <<"atr">>)>>) /\ EndsIn(<<Reader!Byte(0, 0, <<"atr">>)>>, h)
               /\ LineOk(<<>>) /\ EndsIn(<<>>, h) /\ BlockOf(<<>>, h)
  BY AtrLine
<1>2. CASE socket = "half"
  BY <1>1, <1>2
<1>3. CASE socket # "half"
  BY <1>1, <1>3
<1> QED BY <1>2, <1>3

LEMMA SerialResetKeeps ==
  ASSUME ReadersInv, Reader!SerialReset
  PROVE  ReadersInv'
<1>1. /\ driver = "serial" /\ UNCHANGED <<driver, socket, inserted, waiting>>
      /\ inbox' = (IF socket = "half" THEN <<Reader!Byte(0, 0, <<"atr">>)>> ELSE <<>>) /\ unsent' = <<>>
  BY DEF Reader!SerialReset, Reader!Standing
<1>2. \E h : LineOk(inbox') /\ EndsIn(inbox', h) /\ BlockOf(unsent', h)
  BY <1>1, ResetLine
<1>3. Reader!ReadersTrusted'
  <2>1. PICK res : Reader!Ended("reset", 0, res, TRUE)
    BY DEF Reader!SerialReset
  <2> QED BY <1>1, <2>1, EndedCall
<1>4. WaitOk(waiting)'
  BY <1>1 DEF ReadersInv, WaitOk
<1> QED BY <1>1, <1>2, <1>3, <1>4 DEF ReadersInv

LEMMA HandKeeps ==
  ASSUME ReadersInv, driver \in {"serial", "pcsc"}, Reader!Hand
  PROVE  ReadersInv'
<1>1. /\ socket' \in {"in", "out", "half"}
      /\ inserted' = (IF socket = "out" THEN inserted + 1 ELSE inserted) /\ unsent' = <<>>
      /\ UNCHANGED <<driver, inbox, swallowed, last, waiting>>
  BY DEF Reader!Hand
<1>2. Reader!ReadersTrusted'
  BY <1>1, LastKept DEF ReadersInv
<1>3. ASSUME driver' = "serial" /\ ~swallowed'
      PROVE  \E h : LineOk(inbox') /\ EndsIn(inbox', h) /\ BlockOf(unsent', h)
  <2>1. PICK h : LineOk(inbox) /\ EndsIn(inbox, h)
    BY <1>1, <1>3 DEF ReadersInv
  <2> QED BY <1>1, <2>1, NoBlock
<1>4. inserted \in Nat /\ inserted' \in Nat /\ inserted' >= inserted /\ (socket = "out" => inserted' > inserted)
  BY <1>1 DEF ReadersInv
<1>5. WaitOk(waiting)'
  <2>1. CASE waiting = Reader!NotWaiting
    BY <1>1, <2>1 DEF WaitOk
  <2>2. CASE waiting # Reader!NotWaiting
    <3>1. /\ DOMAIN waiting = {"on", "existing", "pe", "since", "glitch"} /\ waiting.on = TRUE
          /\ waiting.since \in Nat /\ waiting.since <= inserted
          /\ waiting.existing \in BOOLEAN /\ waiting.glitch \in BOOLEAN
          /\ (~waiting.existing /\ ~waiting.glitch => socket = "out" \/ inserted > waiting.since)
      BY <2>2 DEF ReadersInv, WaitOk
    <3>2. waiting.since <= inserted' /\ (inserted > waiting.since \/ socket = "out" => inserted' > waiting.since)
      BY <1>4, <3>1
    <3> QED BY <1>1, <3>1, <3>2 DEF WaitOk
  <2> QED BY <2>1, <2>2
<1> QED BY <1>1, <1>2, <1>3, <1>4, <1>5 DEF ReadersInv

LEMMA WaitForCardKeeps ==
  ASSUME ReadersInv, NEW newcardonly \in BOOLEAN, Reader!WaitForCard(newcardonly)
  PROVE  ReadersInv'
<1>1. /\ driver = "serial" /\ UNCHANGED <<driver, socket, inserted>>
      /\ inbox' = (IF socket = "half" THEN <<Reader!Byte(0, 0, <<"atr">>)>> ELSE <<>>) /\ unsent' = <<>>
  BY DEF Reader!WaitForCard, Reader!PollReset
<1>2. \E h : LineOk(inbox') /\ EndsIn(inbox', h) /\ BlockOf(unsent', h)
  BY <1>1, ResetLine
<1>3. inserted \in Nat /\ socket \in {"in", "out", "half"} /\ WaitOk(waiting) /\ Reader!ReadersTrusted
  BY DEF ReadersInv
<1>4. CASE Reader!ResetOf(socket) = "ProtocolError" \/ (Reader!ResetOf(socket) = "reset" /\ ~newcardonly)
  <2>1. UNCHANGED waiting /\ \E res : Reader!Ended("reset", 0, res, TRUE)
    BY <1>4 DEF Reader!WaitForCard
  <2>2. PICK res : Reader!Ended("reset", 0, res, TRUE)
    BY <2>1
  <2>3. Reader!ReadersTrusted'
    BY <1>1, <2>2, EndedCall
  <2>4. WaitOk(waiting)'
    BY <1>1, <1>3, <2>1 DEF WaitOk
  <2> QED BY <1>1, <1>2, <1>3, <2>3, <2>4 DEF ReadersInv
<1>5. CASE ~(Reader!ResetOf(socket) = "ProtocolError" \/ (Reader!ResetOf(socket) = "reset" /\ ~newcardonly))
  <2>1. last' = last
    BY <1>5 DEF Reader!WaitForCard
  <2>2. Reader!ReadersTrusted'
    BY <1>1, <1>3, <2>1, LastKept
  <2>3. \/ socket = "in" /\ Reader!Existing(socket) = TRUE
        \/ socket = "out" /\ Reader!Existing(socket) = FALSE
    BY <1>3, <1>5 DEF Reader!Existing, Reader!ResetOf
  <2>4. WaitOk(waiting)'
    <3> DEFINE existing == Reader!Existing(socket)
               begun == [on |-> TRUE, existing |-> existing, pe |-> 0, since |-> inserted, glitch |-> FALSE]
    <3>1. waiting' = begun
      BY <1>5 DEF Reader!WaitForCard
    <3>2. (socket = "in" /\ existing = TRUE) \/ (socket = "out" /\ existing = FALSE)
      BY <2>3
    <3> HIDE DEF existing
    <3>3. /\ begun.since = inserted /\ begun.on = TRUE /\ begun.glitch = FALSE /\ begun.existing = existing
          /\ DOMAIN begun = {"on", "existing", "pe", "since", "glitch"}
      OBVIOUS
    <3> HIDE DEF begun
    <3>4. /\ begun.since \in Nat /\ begun.since <= inserted
          /\ begun.existing \in BOOLEAN /\ begun.glitch \in BOOLEAN
          /\ (~begun.existing /\ ~begun.glitch => socket = "out")
      <4>1. begun.since \in Nat /\ begun.since <= inserted
        BY <1>3, <3>3
      <4>2. begun.glitch \in BOOLEAN
        BY <3>3
      <4>3. CASE socket = "in" /\ existing = TRUE
        <5>1. begun.existing = TRUE
          BY <3>3, <4>3
        <5> QED BY <4>1, <4>2, <5>1
      <4>4. CASE socket = "out" /\ existing = FALSE
        <5>1. begun.existing = FALSE
          BY <3>3, <4>4
        <5> QED BY <4>1, <4>2, <4>4, <5>1
      <4> QED BY <3>2, <4>3, <4>4
    <3> QED BY <1>1, <3>1, <3>3, <3>4 DEF WaitOk
  <2> QED BY <1>1, <1>2, <1>3, <2>2, <2>4 DEF ReadersInv
<1> QED BY <1>4, <1>5

\* A wait that ends in a new card has had no card in the socket before it.
LEMMA WaitEnds ==
  ASSUME NEW res, NEW glitch, driver' = driver, Reader!StopsWaiting(res, glitch),
         res.ok /\ ~glitch => inserted > waiting.since
  PROVE  Reader!ReadersTrusted' /\ WaitOk(waiting)'
<1>1. /\ last'.what = "wait" /\ last'.res = res /\ (last'.clean <=> inserted > waiting.since)
      /\ (last'.fair <=> ~glitch) /\ waiting' = Reader!NotWaiting
  BY DEF Reader!StopsWaiting
<1> QED BY <1>1 DEF WaitOk, Reader!ReadersTrusted, Reader!OwnAnswer, Reader!EchoMatches, Reader!NewCardIsNew

LEMMA PolledKeeps ==
  ASSUME ReadersInv, Reader!Polled
  PROVE  ReadersInv'
<1>1. /\ waiting.on /\ UNCHANGED <<driver, socket, inserted>>
      /\ inbox' = (IF socket = "half" THEN <<Reader!Byte(0, 0, <<"atr">>)>> ELSE <<>>) /\ unsent' = <<>>
  BY DEF Reader!Polled, Reader!PollReset
<1>2. \E h : LineOk(inbox') /\ EndsIn(inbox', h) /\ BlockOf(unsent', h)
  BY <1>1, ResetLine
<1>3. inserted \in Nat /\ socket \in {"in", "out", "half"} /\ Reader!ReadersTrusted
  BY DEF ReadersInv
<1>4. waiting # Reader!NotWaiting
  BY <1>1 DEF Reader!NotWaiting
<1>5. driver # "none"
  BY <1>4 DEF ReadersInv
<1>6. /\ DOMAIN waiting = {"on", "existing", "pe", "since", "glitch"} /\ waiting.on = TRUE
      /\ waiting.since \in Nat /\ waiting.since <= inserted
      /\ waiting.existing \in BOOLEAN /\ waiting.glitch \in BOOLEAN
      /\ (~waiting.existing /\ ~waiting.glitch => socket = "out" \/ inserted > waiting.since)
  BY <1>4 DEF ReadersInv, WaitOk
<1>7. IsSeq(unsent')
  BY <1>1, NoBlock DEF BlockOf
<1>8. SUFFICES Reader!ReadersTrusted' /\ WaitOk(waiting)'
  BY <1>1, <1>2, <1>3, <1>5, <1>7 DEF ReadersInv
<1>9. CASE socket = "in" /\ ~waiting.existing
  <2>1. Reader!StopsWaiting(Reader!Returned(<<>>, TRUE), waiting.glitch)
    BY <1>9 DEF Reader!Polled, Reader!ResetOf
  <2> QED BY <1>1, <1>6, <1>9, <2>1, WaitEnds
<1>10. CASE socket = "in" /\ waiting.existing
  <2>1. UNCHANGED <<waiting, last>>
    BY <1>10 DEF Reader!Polled, Reader!ResetOf
  <2> QED BY <1>1, <1>3, <1>6, <2>1, LastKept DEF WaitOk
<1>11. CASE socket = "out"
  <2>1. waiting' = [waiting EXCEPT !.existing = FALSE] /\ last' = last
    BY <1>11 DEF Reader!Polled, Reader!ResetOf
  <2>2. /\ DOMAIN waiting' = DOMAIN waiting /\ waiting'.on = TRUE /\ waiting'.since = waiting.since
        /\ waiting'.existing = FALSE /\ waiting'.glitch = waiting.glitch
    BY <1>6, <2>1
  <2>3. WaitOk(waiting)'
    BY <1>1, <1>6, <1>11, <2>2 DEF WaitOk
  <2> QED BY <1>1, <1>3, <2>1, <2>3, LastKept
<1>12. CASE socket = "half" /\ ~waiting.existing /\ waiting.pe = 2
  <2>1. Reader!StopsWaiting(Reader!Raised, TRUE)
    BY <1>12 DEF Reader!Polled, Reader!ResetOf
  <2> QED BY <1>1, <2>1, WaitEnds DEF Reader!Raised
<1>13. CASE socket = "half" /\ ~(~waiting.existing /\ waiting.pe = 2)
  <2>1. /\ waiting' = [waiting EXCEPT !.existing = FALSE, !.glitch = TRUE,
                         !.pe = IF waiting.existing THEN @ ELSE @ + 1]
        /\ last' = last
    BY <1>13 DEF Reader!Polled, Reader!ResetOf
  <2>2. /\ DOMAIN waiting' = DOMAIN waiting /\ waiting'.on = TRUE /\ waiting'.since = waiting.since
        /\ waiting'.existing = FALSE /\ waiting'.glitch = TRUE
    BY <1>6, <2>1
  <2>3. WaitOk(waiting)'
    BY <1>1, <1>6, <2>2 DEF WaitOk
  <2> QED BY <1>1, <1>3, <2>1, <2>3, LastKept
<1> QED BY <1>3, <1>9, <1>10, <1>11, <1>12, <1>13

LEMMA WaitTimedOutKeeps ==
  ASSUME ReadersInv, Reader!WaitTimedOut
  PROVE  ReadersInv'
<1>1. /\ UNCHANGED <<driver, inbox, unsent, swallowed, socket, inserted>> /\ waiting.on
      /\ Reader!StopsWaiting(Reader!Raised, TRUE)
  BY DEF Reader!WaitTimedOut
<1>2. Reader!ReadersTrusted' /\ WaitOk(waiting)'
  BY <1>1, WaitEnds DEF Reader!Raised
<1>3. driver # "none"
  BY <1>1 DEF ReadersInv, Reader!NotWaiting
<1> QED BY <1>1, <1>2, <1>3 DEF ReadersInv

\* What is put on the end of a queue.
LEMMA Queued ==
  ASSUME NEW s, NEW x, IsSeq(s), NEW k \in 0..Len(Append(s, x))
  PROVE  /\ IsSeq(SubSeq(Append(s, x), 1, k)) /\ IsSeq(SubSeq(Append(s, x), k + 1, Len(Append(s, x))))
         /\ Len(SubSeq(Append(s, x), 1, k)) = k
         /\ s = <<>> => \A i \in 1..k : SubSeq(Append(s, x), 1, k)[i] = x
<1> DEFINE all == Append(s, x)
<1>1. PICK S : s \in Seq(S)
  BY DEF IsSeq
<1>2. /\ all \in Seq(S \union {x}) /\ Len(all) = Len(s) + 1 /\ Len(s) \in Nat
      /\ all[Len(s) + 1] = x
  <2>1. s \in Seq(S \union {x})
    BY <1>1
  <2> QED BY <2>1, AppendProperties
<1>3. IsSeq(all)
  BY <1>2 DEF IsSeq
<1> HIDE DEF all
<1>4. k \in 0..Len(all) /\ Len(all) \in Nat /\ k \in Nat
  BY <1>2 DEF all
<1>5. IsSeq(SubSeq(all, 1, k)) /\ Len(SubSeq(all, 1, k)) = k - 1 + 1
      /\ \A i \in 1..(k - 1 + 1) : SubSeq(all, 1, k)[i] = all[1 + i - 1]
  <2>1. 1 \in 1..Len(all) + 1 /\ k \in (1 - 1)..Len(all)
    BY <1>4
  <2> QED BY <1>3, <2>1, SeqPart
<1>6. IsSeq(SubSeq(all, k + 1, Len(all)))
  <2>1. k + 1 \in 1..Len(all) + 1 /\ Len(all) \in ((k + 1) - 1)..Len(all)
    BY <1>4
  <2> QED BY <1>3, <2>1, SeqPart
<1>7. ASSUME s = <<>> PROVE \A i \in 1..k : SubSeq(all, 1, k)[i] = x
  <2>1. Len(s) = 0
    BY <1>7
  <2>2. all[1] = x /\ Len(all) = 1
    BY <1>2, <2>1
  <2>3. \A i \in 1..k : i = 1
    BY <1>4, <2>2
  <2> QED BY <1>4, <1>5, <2>2, <2>3
<1> QED BY <1>4, <1>5, <1>6, <1>7 DEF all

\* An answer that is one message.
LEMMA OneAnswer ==
  ASSUME NEW s, IsSeq(s), Len(s) = 1, NEW full
  PROVE  Reader!Returned(s, full).of = {s[1].n} /\ Reader!Returned(s, full).full = full
<1>1. DOMAIN s = {1}
  BY LenProperties DEF IsSeq
<1>2. Reader!ToSet(s) = {s[1]}
  BY <1>1 DEF Reader!ToSet
<1> QED BY <1>2 DEF Reader!Returned

LEMMA SendAtCmdKeeps ==
  ASSUME ReadersInv, Reader!Modem, UNCHANGED <<driver, socket, inserted, waiting>>,
         NEW what, NEW k, NEW echoed \in BOOLEAN, Reader!SendAtCmd(what, k, echoed)
  PROVE  ReadersInv'
<1> DEFINE asked == Append(unsent, Reader!Ask(calls + 1, what))
           answered == SubSeq(asked, 1, k)
           res == IF Reader!Understood(answered, echoed) /\ (what = Reader!Plain <=> answered[1].h = Reader!Plain)
                  THEN Reader!Returned(answered, TRUE) ELSE Reader!Raised
<1>1. /\ k \in 0..Len(asked) /\ unsent' = SubSeq(asked, k + 1, Len(asked)) /\ inbox' = <<>>
      /\ Reader!Ended("tpdu", what, res, TRUE)
  BY DEF Reader!SendAtCmd
<1>2. driver \in {"modem", "modem_with_echo"} /\ IsSeq(unsent)
  BY DEF Reader!Modem, ReadersInv
<1>3. /\ IsSeq(answered) /\ IsSeq(unsent')
      /\ Len(answered) = k
      /\ unsent = <<>> => \A i \in 1..k : answered[i] = Reader!Ask(calls + 1, what)
  BY <1>1, <1>2, Queued
<1>4. ASSUME res.ok
      PROVE  res = Reader!Returned(answered, TRUE) /\ Len(answered) = 1
  BY <1>4 DEF Reader!Raised, Reader!Understood
<1>5. Reader!Ask(calls + 1, what).n = calls + 1
  BY DEF Reader!Ask
<1> HIDE DEF asked, answered, res
<1>6. ASSUME res.ok
      PROVE  res.of = {answered[1].n} /\ res.full /\ k = 1
  <2>1. Len(answered) = 1
    BY <1>4, <1>6
  <2>2. Reader!Returned(answered, TRUE).of = {answered[1].n} /\ Reader!Returned(answered, TRUE).full = TRUE
    BY <1>3, <2>1, OneAnswer
  <2>3. k = 1
    BY <1>3, <2>1
  <2>4. res.of = {answered[1].n} /\ res.full = TRUE
    BY <1>4, <1>6, <2>2
  <2> QED BY <2>1, <2>3, <2>4
<1>7. Reader!Clean => Own(res, calls + 1)
  <2>1. ASSUME Reader!Clean, res.ok PROVE res.of = {calls + 1} /\ res.full
    <3>1. answered[1] = Reader!Ask(calls + 1, what)
      BY <1>3, <1>6, <2>1 DEF Reader!Clean
    <3> QED BY <1>5, <1>6, <2>1, <3>1
  <2> QED BY <2>1 DEF Own
<1>8. Reader!ReadersTrusted'
  BY <1>1, <1>2, <1>7, EndedCall
<1>9. WaitOk(waiting)'
  BY DEF ReadersInv, WaitOk
<1> QED BY <1>2, <1>3, <1>8, <1>9 DEF ReadersInv

LEMMA ModemCatchesUpKeeps ==
  ASSUME ReadersInv, Reader!ModemCatchesUp
  PROVE  ReadersInv'
<1>1. /\ driver \in {"modem", "modem_with_echo"} /\ unsent # <<>> /\ unsent' = Tail(unsent)
      /\ UNCHANGED <<driver, inbox, swallowed, socket, inserted, last, waiting>>
  BY DEF Reader!ModemCatchesUp, Reader!Modem
<1>2. IsSeq(unsent')
  <2>1. PICK S : unsent \in Seq(S)
    BY <1>1 DEF ReadersInv, IsSeq
  <2>2. Tail(unsent) \in Seq(S)
    BY <1>1, <2>1
  <2> QED BY <1>1, <2>2 DEF IsSeq
<1>3. Reader!ReadersTrusted'
  BY <1>1, LastKept DEF ReadersInv
<1>4. WaitOk(waiting)'
  BY <1>1 DEF ReadersInv, WaitOk
<1> QED BY <1>1, <1>2, <1>3, <1>4 DEF ReadersInv

LEMMA CalypsoCallKeeps ==
  ASSUME ReadersInv, NEW what, NEW k \in 0..2, Reader!CalypsoCall(what, k)
  PROVE  ReadersInv'
<1> DEFINE asked == Append(unsent, Reader!Ask(calls + 1, what))
           there == inbox \o SubSeq(asked, 1, k)
           all == what = Reader!Plain
           res == IF there # <<>> /\ (all <=> there[1].h = Reader!Plain)
                  THEN Reader!Returned(<<there[1]>>, TRUE) ELSE Reader!Raised
<1>1. /\ driver = "calypso" /\ UNCHANGED <<driver, socket, inserted, waiting>>
      /\ k \in 0..Len(asked) /\ Reader!Ended("tpdu", what, res, TRUE)
  BY DEF Reader!CalypsoCall, Reader!Standing
<1>2. Reader!Ask(calls + 1, what).n = calls + 1
  BY DEF Reader!Ask
<1>3. ASSUME res.ok PROVE there # <<>> /\ res = Reader!Returned(<<there[1]>>, TRUE)
  BY <1>3 DEF Reader!Raised
<1> HIDE DEF res
<1>4. ASSUME res.ok PROVE res.of = {there[1].n} /\ res.full
  <2>1. IsSeq(<<there[1]>>) /\ Len(<<there[1]>>) = 1 /\ <<there[1]>>[1] = there[1]
    <3> HIDE DEF there
    <3>1. <<there[1]>> \in Seq({there[1]})
      OBVIOUS
    <3> QED BY <3>1 DEF IsSeq
  <2> HIDE DEF there
  <2>2. Reader!Returned(<<there[1]>>, TRUE).of = {<<there[1]>>[1].n} /\ Reader!Returned(<<there[1]>>, TRUE).full = TRUE
    BY <2>1, OneAnswer
  <2> QED BY <1>3, <1>4, <2>1, <2>2
<1>5. ASSUME Reader!Clean, res.ok PROVE res.of = {calls + 1} /\ res.full
  <2>1. inbox = <<>> /\ unsent = <<>> /\ IsSeq(<<>>)
    BY <1>5, NoBlock DEF Reader!Clean, BlockOf
  <2> DEFINE part == SubSeq(asked, 1, k)
  <2>2. IsSeq(part) /\ Len(part) = k /\ \A i \in 1..k : part[i] = Reader!Ask(calls + 1, what)
    <3>1. k \in 0..Len(asked)
      BY <1>1
    <3>2. IsSeq(unsent)
      BY <2>1
    <3>3. /\ IsSeq(part) /\ Len(part) = k
          /\ unsent = <<>> => \A i \in 1..k : part[i] = Reader!Ask(calls + 1, what)
      BY <3>1, <3>2, Queued
    <3> QED BY <2>1, <3>3
  <2> HIDE DEF part, asked
  <2>3. there = part
    <3>1. <<>> \o part = part
      BY <2>2, ConcatEmptySeq DEF IsSeq
    <3> QED BY <2>1, <3>1 DEF part
  <2>4. part # <<>>
    BY <1>3, <1>5, <2>3
  <2>5. k >= 1
    <3>1. ASSUME Len(part) = 0 PROVE FALSE
      BY <2>2, <2>4, <3>1, EmptySeq DEF IsSeq
    <3> QED BY <2>2, <3>1
  <2>6. there[1] = Reader!Ask(calls + 1, what)
    BY <2>2, <2>3, <2>5
  <2> QED BY <1>2, <1>4, <1>5, <2>6
<1> HIDE DEF asked, there, all
<1>6. Reader!Clean => Own(res, calls + 1)
  BY <1>5 DEF Own
<1>7. Reader!ReadersTrusted'
  BY <1>1, <1>6, EndedCall
<1>8. WaitOk(waiting)'
  BY <1>1 DEF ReadersInv, WaitOk
<1> QED BY <1>1, <1>7, <1>8 DEF ReadersInv

LEMMA PhoneCatchesUpKeeps ==
  ASSUME ReadersInv, Reader!PhoneCatchesUp
  PROVE  ReadersInv'
<1>1. driver = "calypso" /\ UNCHANGED <<driver, socket, inserted, last, waiting>>
  BY DEF Reader!PhoneCatchesUp
<1>2. Reader!ReadersTrusted'
  BY <1>1, LastKept DEF ReadersInv
<1>3. WaitOk(waiting)'
  BY <1>1 DEF ReadersInv, WaitOk
<1> QED BY <1>1, <1>2, <1>3 DEF ReadersInv

LEMMA PcscKeeps ==
  ASSUME ReadersInv, Reader!PcscConnect \/ \E h \in DOMAIN Headers : Reader!PcscTpdu(h)
  PROVE  ReadersInv'
<1>1. driver = "pcsc" /\ UNCHANGED <<driver, socket, inserted, waiting>>
  BY DEF Reader!PcscTpdu, Reader!PcscConnect, Reader!Standing
<1>2. Reader!ReadersTrusted'
  <2>1. CASE Reader!PcscConnect
    <3>1. PICK res : Reader!Ended("reset", 0, res, TRUE)
      BY <2>1 DEF Reader!PcscConnect
    <3> QED BY <1>1, <3>1, EndedCall
  <2>2. ASSUME NEW h \in DOMAIN Headers, Reader!PcscTpdu(h) PROVE Reader!ReadersTrusted'
    <3> DEFINE asked == <<Reader!Ask(calls + 1, h)>>
               res == IF socket = "in" THEN Reader!Returned(asked, TRUE) ELSE Reader!Raised
    <3>1. Reader!Ended("tpdu", h, res, TRUE)
      BY <2>2 DEF Reader!PcscTpdu
    <3>2. IsSeq(asked) /\ Len(asked) = 1 /\ asked[1].n = calls + 1
      <4>1. asked \in Seq({Reader!Ask(calls + 1, h)})
        OBVIOUS
      <4> QED BY <4>1 DEF IsSeq, Reader!Ask
    <3> HIDE DEF asked
    <3>3. Own(res, calls + 1)
      <4>1. Reader!Returned(asked, TRUE).of = {asked[1].n} /\ Reader!Returned(asked, TRUE).full = TRUE
        BY <3>2, OneAnswer
      <4> QED BY <3>2, <4>1 DEF Own, Reader!Raised
    <3> HIDE DEF res
    <3> QED BY <1>1, <3>1, <3>3, EndedCall
  <2> QED BY <2>1, <2>2
<1>3. WaitOk(waiting)'
  BY <1>1 DEF ReadersInv, WaitOk
<1> QED BY <1>1, <1>2, <1>3 DEF ReadersInv

LEMMA OpenReaderKeeps ==
  ASSUME ReadersInv, Reader!OpenReader
  PROVE  ReadersInv'
<1>1. /\ driver = "none" /\ inbox' = <<>> /\ unsent' = <<>> /\ last'.what = "start" /\ waiting' = Reader!NotWaiting
      /\ UNCHANGED <<socket, inserted>>
  BY DEF Reader!OpenReader, ReadersInv
<1>2. \E h : LineOk(inbox') /\ EndsIn(inbox', h) /\ BlockOf(unsent', h)
  BY <1>1, AtrLine
<1>3. IsSeq(unsent')
  BY <1>2 DEF BlockOf
<1>4. Reader!ReadersTrusted'
  BY <1>1 DEF Reader!ReadersTrusted, Reader!OwnAnswer, Reader!EchoMatches, Reader!NewCardIsNew
<1>5. WaitOk(waiting)'
  BY <1>1 DEF WaitOk
<1>6. inserted' \in Nat /\ socket' \in {"in", "out", "half"}
  BY <1>1 DEF ReadersInv
<1> QED BY <1>1, <1>2, <1>3, <1>4, <1>5, <1>6 DEF ReadersInv

LEMMA ReadersKeep ==
  ASSUME ReadersInv, [Reader!ReadersNext]_readerVars
  PROVE  ReadersInv'
<1>1. CASE Reader!OpenReader
  BY <1>1, OpenReaderKeeps
<1>2. ASSUME NEW h \in DOMAIN Headers, NEW answer \in Answers, NEW late \in {0, 1, HeaderLength},
             Reader!SerialTpdu(h, answer, late)
      PROVE  ReadersInv'
  BY <1>2, SerialTpduKeeps
<1>3. CASE Reader!LateBytes \/ Reader!SerialReset
  BY <1>3, LateBytesKeep, SerialResetKeeps
<1>4. CASE driver \in {"serial", "pcsc"} /\ Reader!Hand
  BY <1>4, HandKeeps
<1>5. ASSUME NEW newcardonly \in BOOLEAN, Reader!WaitForCard(newcardonly)
      PROVE  ReadersInv'
  BY <1>5, WaitForCardKeeps
<1>6. CASE Reader!Polled \/ Reader!WaitTimedOut
  BY <1>6, PolledKeeps, WaitTimedOutKeeps
<1>7. ASSUME NEW h, NEW k \in 0..2, Reader!ModemTpdu(h, k) \/ Reader!CalypsoCall(h, k) \/ Reader!ModemReset(k)
      PROVE  ReadersInv'
  <2>1. CASE Reader!ModemTpdu(h, k)
    <3>1. Reader!Modem /\ UNCHANGED <<driver, socket, inserted, waiting>>
          /\ \E echoed \in BOOLEAN : Reader!SendAtCmd(h, k, echoed)
      BY <2>1 DEF Reader!ModemTpdu, Reader!Standing
    <3> QED BY <3>1, SendAtCmdKeeps
  <2>2. CASE Reader!ModemReset(k)
    <3>1. Reader!Modem /\ UNCHANGED <<driver, socket, inserted, waiting>>
          /\ \E echoed \in BOOLEAN : Reader!SendAtCmd(Reader!Plain, k, echoed)
      BY <2>2 DEF Reader!ModemReset, Reader!Standing
    <3> QED BY <3>1, SendAtCmdKeeps
  <2>3. CASE Reader!CalypsoCall(h, k)
    BY <2>3, CalypsoCallKeeps
  <2> QED BY <1>7, <2>1, <2>2, <2>3
<1>8. CASE Reader!ModemCatchesUp \/ Reader!PhoneCatchesUp
  BY <1>8, ModemCatchesUpKeeps, PhoneCatchesUpKeeps
<1>9. CASE Reader!PcscConnect \/ \E h \in DOMAIN Headers : Reader!PcscTpdu(h)
  BY <1>9, PcscKeeps
<1>10. CASE UNCHANGED readerVars
  <2>1. UNCHANGED <<driver, inbox, unsent, swallowed, socket, inserted, last, waiting>>
    BY <1>10 DEF readerVars
  <2>2. Reader!ReadersTrusted'
    BY <2>1, LastKept DEF ReadersInv
  <2>3. WaitOk(waiting)'
    BY <2>1 DEF ReadersInv, WaitOk
  <2> QED BY <2>1, <2>2, <2>3 DEF ReadersInv
<1> QED BY <1>1, <1>2, <1>3, <1>4, <1>5, <1>6, <1>7, <1>8, <1>9, <1>10 DEF Reader!ReadersNext

LEMMA ReadersGive == ReadersInv => Reader!ReadersTrusted
BY DEF ReadersInv

-----------------------------------------------------------------------------
\* Bound profiles.

\* A set of numbers that is not empty has a least one.
LEMMA LeastNumber ==
  ASSUME NEW A, A \subseteq Nat, A # {}
  PROVE  \E i \in A : \A j \in A : i <= j
<1>1. PICK i \in A : \A j \in A : ~(<<j, i>> \in OpToRel(<, Nat))
  BY NatLessThanWellFounded, WFMin
<1>2. \A j \in A : ~(j < i)
  BY <1>1 DEF OpToRel
<1> QED BY <1>2

\* What the sequences in s make together is told by the sums of its first ones.
LEMMA FlattenSums ==
  ASSUME NEW s, NEW n \in Nat, n # 0, Len(s) = n, NEW all,
         \A i \in 1..n : all[i] = IF i = 1 THEN s[i] ELSE all[i - 1] \o s[i]
  PROVE  Server!FlattenSeq(s) = all[n]
<1>1. PICK sums : sums = [i \in 1..n |-> all[i]]
  OBVIOUS
<1>2. \A i \in 1..n : i # 1 => i - 1 \in 1..n
  OBVIOUS
<1>3. sums = [i \in 1..n |-> IF i = 1 THEN s[i] ELSE sums[i - 1] \o s[i]]
  BY <1>1, <1>2
<1>4. sums[n] = all[n]
  BY <1>1
<1> DEFINE flatten == CHOOSE f : f = [i \in 1..n |-> IF i = 1 THEN s[i] ELSE f[i - 1] \o s[i]]
<1>5. flatten = [i \in 1..n |-> IF i = 1 THEN s[i] ELSE flatten[i - 1] \o s[i]]
  BY <1>3
<1>6. Server!FlattenSeq(s) = flatten[n]
  BY DEF Server!FlattenSeq
<1> HIDE DEF flatten
<1>7. ASSUME NEW i \in 1..n PROVE flatten[i] = sums[i]
  <2> DEFINE A == {k \in 1..n : flatten[k] # sums[k]}
  <2> SUFFICES ASSUME A # {} PROVE FALSE
    BY DEF A
  <2>1. A \subseteq Nat
    OBVIOUS
  <2>2. PICK k \in A : \A j \in A : k <= j
    <3> HIDE DEF A
    <3> QED BY <2>1, LeastNumber
  <2>3. k # 1
    BY <1>5, <1>3, <2>2
  <2>4. k - 1 \in 1..n /\ k - 1 \notin A
    BY <2>2, <2>3
  <2>5. flatten[k - 1] = sums[k - 1]
    BY <2>4
  <2>6. k \in 1..n /\ flatten[k] # sums[k]
    OBVIOUS
  <2>7. sums[k] = sums[k - 1] \o s[k]
    BY <1>3, <2>3, <2>6
  <2>8. flatten[k] = flatten[k - 1] \o s[k]
    BY <1>5, <2>3, <2>6
  <2> QED BY <2>5, <2>6, <2>7, <2>8
<1> QED BY <1>6, <1>7, <1>4

\* How many pieces a text makes, and where they begin.
LEMMA PieceBounds ==
  ASSUME NEW L \in Nat, NEW n, n = (L + MaxPayload - 1) \div MaxPayload
  PROVE  /\ n \in Nat /\ (n = 0 <=> L = 0)
         /\ \A i \in 1..n : (i - 1) * MaxPayload \in 0..L /\ i * MaxPayload \in Nat
         /\ n * MaxPayload >= L
<1>1. MaxPayload \in Nat /\ MaxPayload >= 1
  BY PackageAssumption
<1>2. PICK M \in Nat : M = MaxPayload /\ M >= 1
  BY <1>1
<1>3. n \in Int /\ n * M <= L + M - 1 /\ L + M - 1 < n * M + M
  BY <1>2
<1>4. n >= 0
  BY <1>2, <1>3
<1>5. n = 0 <=> L = 0
  BY <1>2, <1>3, <1>4
<1>6. ASSUME NEW i \in 1..n PROVE (i - 1) * M \in 0..L /\ i * M \in Nat
  <2>1. i * M <= n * M
    BY <1>2, <1>3
  <2>2. (i - 1) * M = i * M - M /\ (i - 1) * M >= 0 /\ i * M \in Nat
    BY <1>2
  <2> QED BY <1>2, <1>3, <2>1, <2>2
<1>7. n * M >= L
  BY <1>2, <1>3
<1> QED BY <1>2, <1>3, <1>4, <1>5, <1>6, <1>7

\* Pieces of a text, put together, are the text.
LEMMA PiecesMakeText ==
  ASSUME NEW S, NEW text \in Seq(S)
  PROVE  /\ Server!FlattenSeq(Server!Pieces(text)) = text
         /\ DOMAIN Server!Pieces(text) = 1..Len(Server!Pieces(text)) /\ Len(Server!Pieces(text)) \in Nat
         /\ text # <<>> => Len(Server!Pieces(text)) # 0
<1>1. PICK L \in Nat, M \in Nat : L = Len(text) /\ M = MaxPayload
  BY PackageAssumption
<1>2. PICK n : n = (L + M - 1) \div M
  OBVIOUS
<1>3. /\ n \in Nat /\ (n = 0 <=> L = 0) /\ n * M >= L
      /\ \A i \in 1..n : (i - 1) * M \in 0..L /\ i * M \in Nat
  <2>1. n = (L + MaxPayload - 1) \div MaxPayload
    BY <1>1, <1>2
  <2>2. /\ n \in Nat /\ (n = 0 <=> L = 0) /\ n * MaxPayload >= L
        /\ \A i \in 1..n : (i - 1) * MaxPayload \in 0..L /\ i * MaxPayload \in Nat
    BY <2>1, PieceBounds
  <2> QED BY <1>1, <2>2
<1> DEFINE hi(i) == IF i * M > L THEN L ELSE i * M
           pieces == Server!Pieces(text)
<1>4. pieces = [i \in 1..n |-> SubSeq(text, (i - 1) * M + 1, hi(i))]
  BY <1>1, <1>2 DEF Server!Pieces
<1> HIDE DEF pieces
<1>5. ASSUME NEW i \in 1..n
      PROVE  hi(i) \in Nat /\ hi(i) <= L /\ (i - 1) * M <= hi(i) /\ (i > 1 => hi(i - 1) = (i - 1) * M)
  <2>1. (i - 1) * M \in 0..L /\ i * M \in Nat /\ i * M = (i - 1) * M + M
    BY <1>3
  <2>2. M \in Nat /\ i \in Nat
    OBVIOUS
  <2> QED BY <2>1, <2>2
<1>6. ASSUME NEW i \in 1..n PROVE pieces[i] = SubSeq(text, (i - 1) * M + 1, hi(i)) /\ pieces[i] \in Seq(S)
  <2>1. pieces[i] = SubSeq(text, (i - 1) * M + 1, hi(i))
    BY <1>4
  <2>2. (i - 1) * M + 1 \in Nat /\ (i - 1) * M + 1 >= 1 /\ hi(i) \in Nat /\ hi(i) <= L
    BY <1>3, <1>5
  <2> HIDE DEF hi
  <2>3. \A k \in ((i - 1) * M + 1)..hi(i) : text[k] \in S
    BY <1>1, <2>2, ElementOfSeq
  <2>4. SubSeq(text, (i - 1) * M + 1, hi(i)) \in Seq(S)
    BY <2>2, <2>3, SubSeqProperties
  <2> QED BY <2>1, <2>4
<1>7. DOMAIN pieces = 1..n /\ Len(pieces) = n
  <2>1. pieces \in [1..n -> Seq(S)]
    BY <1>4, <1>6
  <2>2. pieces \in Seq(Seq(S))
    BY <1>3, <2>1
  <2> QED BY <1>3, <2>1, <2>2, LenProperties
<1>8. CASE n = 0
  <2>1. Len(pieces) = 0
    BY <1>7, <1>8
  <2>2. Server!FlattenSeq(pieces) = pieces
    BY <2>1 DEF Server!FlattenSeq
  <2>3. pieces = <<>> /\ text = <<>>
    <3>1. L = 0 /\ 1..n = {}
      BY <1>3, <1>8
    <3>2. text = <<>>
      BY <1>1, <3>1, EmptySeq
    <3>3. pieces = <<>>
      BY <1>4, <3>1
    <3> QED BY <3>2, <3>3
  <2> QED BY <1>7, <1>8, <2>2, <2>3 DEF pieces
<1>9. CASE n # 0
  <2> HIDE DEF hi
  <2>1. PICK sums : sums = [i \in 1..n |-> SubSeq(text, 1, hi(i))]
    OBVIOUS
  <2>2. ASSUME NEW i \in 1..n PROVE sums[i] = IF i = 1 THEN pieces[i] ELSE sums[i - 1] \o pieces[i]
    <3>1. CASE i = 1
      <4>1. (i - 1) * M + 1 = 1
        BY <3>1
      <4> QED BY <1>6, <2>1, <3>1, <4>1
    <3>2. CASE i # 1
      <4>1. i - 1 \in 1..n /\ i > 1
        BY <1>3, <3>2
      <4>2. PICK a, b : a = hi(i - 1) /\ b = hi(i)
        OBVIOUS
      <4>3. a = (i - 1) * M /\ a \in 0..L /\ b \in a..L
        BY <1>3, <1>5, <4>1, <4>2
      <4>4. SubSeq(text, 1, a) \o SubSeq(text, a + 1, b) = SubSeq(text, 1, b)
        <5>1. 1 \in 1..(Len(text) + 1) /\ a \in (1 - 1)..Len(text) /\ b \in a..Len(text)
          BY <1>1, <4>3
        <5> QED BY <5>1, ConcatAdjacentSubSeq
      <4>5. pieces[i] = SubSeq(text, a + 1, b) /\ sums[i - 1] = SubSeq(text, 1, a) /\ sums[i] = SubSeq(text, 1, b)
        BY <1>6, <2>1, <4>1, <4>2, <4>3
      <4> QED BY <3>2, <4>4, <4>5
    <3> QED BY <3>1, <3>2
  <2>4. Server!FlattenSeq(pieces) = sums[n]
    <3>1. n \in Nat /\ n # 0 /\ Len(pieces) = n
      BY <1>3, <1>7, <1>9
    <3> QED BY <2>2, <3>1, FlattenSums
  <2>5. hi(n) = L /\ n \in 1..n
    BY <1>3, <1>9 DEF hi
  <2>6. sums[n] = text
    BY <1>1, <2>1, <2>5, SubSeqFull
  <2> QED BY <1>3, <1>7, <1>9, <2>4, <2>6 DEF pieces
<1> QED BY <1>8, <1>9

\* Of n bodies, those of a text's pieces, n segments were made with the keys b.
BodiesOf(bodies, text) ==
  DOMAIN bodies = DOMAIN Server!Pieces(text) /\ \A i \in DOMAIN bodies : bodies[i].text = Server!Pieces(text)[i]
SegmentsOf(s, b, bodies, n) ==
  /\ DOMAIN s.tlvs = 1..n /\ Len(s.tlvs) = n /\ \E T : s.tlvs \in Seq(T)
  /\ \A i \in 1..n :
       /\ s.tlvs[i].segment.body = bodies[i] /\ s.tlvs[i].mac[1] = b.s_mac
       /\ Server!Genuine(b, [j \in 1..n |-> s.tlvs[j].segment], i, s.tlvs[i].mac)
  /\ s.bsp = Server!Advanced(b, [j \in 1..n |-> s.tlvs[j].segment])

LEMMA SealedSegments ==
  ASSUME NEW b, NEW tag, NEW n \in Nat, NEW bodies, DOMAIN bodies = 1..n, NEW s,
         s = Server!Sealed(b, tag, bodies)
  PROVE  SegmentsOf(s, b, bodies, n)
<1>1. PICK segments : segments = [i \in 1..n |-> [tag |-> tag, body |-> bodies[i]]]
  OBVIOUS
<1>2. PICK tlvs : tlvs = [i \in 1..n |-> [segment |-> segments[i], mac |-> Server!Mac(b, segments, i)]]
  OBVIOUS
<1>3. s.tlvs = tlvs /\ s.bsp = Server!Advanced(b, segments)
  BY <1>1, <1>2 DEF Server!Sealed
<1>4. ASSUME NEW i \in 1..n
      PROVE  /\ tlvs[i].segment = segments[i] /\ tlvs[i].mac = Server!Mac(b, segments, i)
             /\ segments[i].body = bodies[i]
  BY <1>1, <1>2
<1>5. segments = [i \in 1..n |-> tlvs[i].segment]
  BY <1>1, <1>4
<1>6. DOMAIN tlvs = 1..n /\ Len(tlvs) = n /\ \E T : tlvs \in Seq(T)
  <2>1. PICK T : T = {tlvs[i] : i \in 1..n}
    OBVIOUS
  <2>2. tlvs \in [1..n -> T]
    BY <1>2, <2>1
  <2>3. tlvs \in Seq(T)
    BY <2>2
  <2> QED BY <2>2, <2>3, LenProperties
<1>7. \A i \in 1..n : tlvs[i].mac[1] = b.s_mac
  BY <1>4 DEF Server!Mac
<1> QED BY <1>3, <1>4, <1>5, <1>6, <1>7 DEF Server!Genuine, SegmentsOf

\* It is in order for who has the keys, and both sides go on alike.
LEMMA SealedOpens ==
  ASSUME NEW b, NEW tag, NEW S, NEW text \in Seq(S), NEW bodies, NEW s,
         s = Server!Sealed(b, tag, bodies), BodiesOf(bodies, text)
  PROVE  /\ Server!DemacOnly(b, s.tlvs).ok /\ Server!DemacOnly(b, s.tlvs).bsp = s.bsp
         /\ Server!DemacOnly(b, s.tlvs).text = text
<1>1. PICK pieces, n : pieces = Server!Pieces(text) /\ n = Len(pieces)
  OBVIOUS
<1>2. n \in Nat /\ DOMAIN pieces = 1..n /\ Server!FlattenSeq(pieces) = text
  BY <1>1, PiecesMakeText
<1>3. pieces = [i \in 1..n |-> pieces[i]]
  BY <1>1, <1>2 DEF Server!Pieces
<1>4. PICK tlvs, segments : tlvs = s.tlvs /\ segments = [j \in 1..n |-> s.tlvs[j].segment]
  OBVIOUS
<1>5. /\ DOMAIN tlvs = 1..n /\ s.bsp = Server!Advanced(b, segments)
      /\ \A i \in 1..n : tlvs[i].segment.body = bodies[i] /\ Server!Genuine(b, segments, i, tlvs[i].mac)
  <2>1. DOMAIN bodies = 1..n
    BY <1>1, <1>2 DEF BodiesOf
  <2>2. SegmentsOf(s, b, bodies, n)
    BY <1>2, <2>1, SealedSegments
  <2> QED BY <1>4, <2>2 DEF SegmentsOf
<1>6. segments = [i \in DOMAIN tlvs |-> tlvs[i].segment]
  BY <1>4, <1>5
<1>7. pieces = [i \in DOMAIN tlvs |-> segments[i].body.text]
  BY <1>1, <1>2, <1>3, <1>5, <1>6 DEF BodiesOf
<1> QED BY <1>2, <1>4, <1>5, <1>6, <1>7 DEF Server!DemacOnly

LEMMA EncipheredOpens ==
  ASSUME NEW b, NEW tag, NEW S, NEW text \in Seq(S), NEW s, s = Server!EncryptAndMac(b, tag, text)
  PROVE  /\ Server!DemacAndDecrypt(b, s.tlvs).ok /\ Server!DemacAndDecrypt(b, s.tlvs).bsp = s.bsp
         /\ Server!DemacAndDecrypt(b, s.tlvs).text = text
<1>1. PICK pieces, n, bodies :
        /\ pieces = Server!Pieces(text) /\ n = Len(pieces)
        /\ bodies = [i \in DOMAIN pieces |-> Server!Ciphered(b, pieces[i], i)]
  OBVIOUS
<1>2. s = Server!Sealed(b, tag, bodies)
  BY <1>1 DEF Server!EncryptAndMac
<1>3. n \in Nat /\ DOMAIN pieces = 1..n
  BY <1>1, PiecesMakeText
<1>4. DOMAIN bodies = 1..n
  BY <1>1, <1>3
<1>5. \A i \in 1..n :
        bodies[i].text = pieces[i] /\ bodies[i].key = b.s_enc /\ bodies[i].nr = b.block_nr + i - 1
  BY <1>1, <1>3 DEF Server!Ciphered
<1>6. /\ Server!DemacOnly(b, s.tlvs).ok /\ Server!DemacOnly(b, s.tlvs).bsp = s.bsp
      /\ Server!DemacOnly(b, s.tlvs).text = text
  <2>1. BodiesOf(bodies, text)
    BY <1>1, <1>3, <1>4, <1>5 DEF BodiesOf
  <2> QED BY <1>2, <2>1, SealedOpens
<1>7. DOMAIN s.tlvs = 1..n /\ \A i \in 1..n : s.tlvs[i].segment.body = bodies[i]
  <2>1. SegmentsOf(s, b, bodies, n)
    BY <1>2, <1>3, <1>4, SealedSegments
  <2> QED BY <2>1 DEF SegmentsOf
<1>8. \A i \in DOMAIN s.tlvs : Server!Deciphers(b, s.tlvs[i].segment.body, i)
  BY <1>5, <1>7 DEF Server!Deciphers
<1>9. PICK opened : opened = Server!DemacOnly(b, s.tlvs)
  OBVIOUS
<1>10. DOMAIN opened = {"ok", "bsp", "text"}
  BY <1>9 DEF Server!DemacOnly
<1>11. Server!DemacAndDecrypt(b, s.tlvs) =
         [opened EXCEPT !.ok = @ /\ \A i \in DOMAIN s.tlvs : Server!Deciphers(b, s.tlvs[i].segment.body, i)]
  BY <1>9 DEF Server!DemacAndDecrypt
<1> QED BY <1>6, <1>8, <1>9, <1>10, <1>11

\* The segments are numbered, and have MACs of its key.
LEMMA EncipheredSegments ==
  ASSUME NEW b, NEW tag, NEW S, NEW text \in Seq(S), NEW tlvs, tlvs = Server!EncryptAndMac(b, tag, text).tlvs
  PROVE  /\ Len(tlvs) \in Nat /\ DOMAIN tlvs = 1..Len(tlvs) /\ \E T : tlvs \in Seq(T)
         /\ text # <<>> => Len(tlvs) # 0
         /\ \A i \in 1..Len(tlvs) : tlvs[i].mac[1] = b.s_mac /\ tlvs[i].segment.body.nr = b.block_nr + i - 1
<1>1. PICK pieces, n, bodies, s :
        /\ pieces = Server!Pieces(text) /\ n = Len(pieces) /\ s = Server!EncryptAndMac(b, tag, text)
        /\ bodies = [i \in DOMAIN pieces |-> Server!Ciphered(b, pieces[i], i)]
  OBVIOUS
<1>2. s = Server!Sealed(b, tag, bodies) /\ tlvs = s.tlvs
  BY <1>1 DEF Server!EncryptAndMac
<1>3. n \in Nat /\ DOMAIN pieces = 1..n /\ (text # <<>> => n # 0)
  BY <1>1, PiecesMakeText
<1>4. DOMAIN bodies = 1..n /\ \A i \in 1..n : bodies[i].nr = b.block_nr + i - 1
  BY <1>1, <1>3 DEF Server!Ciphered
<1>5. /\ DOMAIN tlvs = 1..n /\ Len(tlvs) = n /\ \E T : tlvs \in Seq(T)
      /\ \A i \in 1..n : tlvs[i].mac[1] = b.s_mac /\ tlvs[i].segment.body = bodies[i]
  <2>1. SegmentsOf(s, b, bodies, n)
    BY <1>2, <1>3, <1>4, SealedSegments
  <2> QED BY <1>2, <2>1 DEF SegmentsOf
<1> QED BY <1>3, <1>4, <1>5

LEMMA MacedOpens ==
  ASSUME NEW b, NEW tag, NEW S, NEW text \in Seq(S), NEW s, s = Server!MacOnly(b, tag, text)
  PROVE  /\ Server!DemacOnly(b, s.tlvs).ok /\ Server!DemacOnly(b, s.tlvs).bsp = s.bsp
         /\ Server!DemacOnly(b, s.tlvs).text = text
<1>1. PICK bodies : bodies = [i \in DOMAIN Server!Pieces(text) |-> Server!Clear(Server!Pieces(text)[i])]
  OBVIOUS
<1>2. s = Server!Sealed(b, tag, bodies)
  BY <1>1 DEF Server!MacOnly
<1>3. BodiesOf(bodies, text)
  BY <1>1 DEF Server!Clear, BodiesOf
<1> QED BY <1>2, <1>3, SealedOpens

\* The parts of a package, each sealed where the one before it ended.
PartsOf(k, isdp, smr, rsk, metadata, keys, secret, hostId, eid) ==
  /\ isdp = Server!EncryptAndMac(Server!FromKdf(secret, hostId, eid), "87", <<"ConfigureISDP">>)
  /\ smr = Server!MacOnly(isdp.bsp, "88", metadata)
  /\ rsk = Server!EncryptAndMac(smr.bsp, "87", keys)
  /\ k.host = hostId /\ k.isdp = isdp.tlvs /\ k.smr = smr.tlvs /\ k.rsk = rsk.tlvs
  /\ DOMAIN k = {"host", "isdp", "smr", "rsk", "upp"}
\* Its keys travel in it.
KeysOf(keys) == keys # <<>> /\ (\E K : keys \in Seq(K)) /\ Server!WithKeys(keys) = Server!PppBsp

LEMMA PackageParts ==
  ASSUME NEW upp, NEW metadata, NEW secret, NEW hostId, NEW eid, NEW k,
         k = Server!Encode(Server!Protect(upp, Server!PppBsp), upp, metadata, secret, hostId, eid)
  PROVE  \E isdp, smr, rsk, keys :
           /\ PartsOf(k, isdp, smr, rsk, metadata, keys, secret, hostId, eid) /\ KeysOf(keys)
           /\ k.upp = Server!EncryptAndMac(Server!PppBsp, "86", upp).tlvs
<1>1. PICK keys : keys = <<Server!PppBsp.s_enc, Server!PppBsp.s_mac, Server!PppBsp.mac_chain>>
  OBVIOUS
<1>2. KeysOf(keys)
  <2>1. keys = <<"ppk-enc", "ppk-mac", <<"ppk-mcv">>>>
    BY <1>1 DEF Server!PppBsp, Server!Bsp
  <2>2. Server!WithKeys(keys) = Server!PppBsp
    BY <2>1 DEF Server!WithKeys, Server!PppBsp
  <2>3. keys \in Seq({"ppk-enc", "ppk-mac", <<"ppk-mcv">>})
    BY <2>1
  <2>4. keys # <<>>
    BY <2>1
  <2> QED BY <2>2, <2>3, <2>4 DEF KeysOf
<1>3. PICK ppp : ppp = Server!Protect(upp, Server!PppBsp)
  OBVIOUS
<1>4. ppp = [keys |-> keys, encoded |-> Server!EncryptAndMac(Server!PppBsp, "86", upp).tlvs]
  BY <1>1, <1>3 DEF Server!Protect
<1>5. /\ ppp.keys = keys /\ ppp.encoded = Server!EncryptAndMac(Server!PppBsp, "86", upp).tlvs
      /\ ppp # Server!NoKeys
  <2>1. "keys" \in DOMAIN ppp /\ "keys" \notin DOMAIN <<>>
    BY <1>4
  <2>2. ppp # <<>>
    BY <2>1
  <2> QED BY <1>4, <2>2 DEF Server!NoKeys
<1>6. PICK isdp, smr, rsk :
        /\ isdp = Server!EncryptAndMac(Server!FromKdf(secret, hostId, eid), "87", <<"ConfigureISDP">>)
        /\ smr = Server!MacOnly(isdp.bsp, "88", metadata)
        /\ rsk = Server!EncryptAndMac(smr.bsp, "87", keys)
  OBVIOUS
<1>7. k = [host |-> hostId, isdp |-> isdp.tlvs, smr |-> smr.tlvs, rsk |-> rsk.tlvs, upp |-> ppp.encoded]
  BY <1>3, <1>5, <1>6 DEF Server!Encode
<1>8. PartsOf(k, isdp, smr, rsk, metadata, keys, secret, hostId, eid)
  BY <1>6, <1>7 DEF PartsOf
<1> QED BY <1>2, <1>5, <1>7, <1>8

\* What comes out of a package when its last segments gave upp.
Gives(d, metadata, upp) ==
  (upp.ok => d.ok /\ d.metadata = metadata /\ d.upp = upp.text) /\ (d.ok => upp.ok)

\* Whoever the package is for opens what is before the segments, and gets the keys of these.
LEMMA PartsOpen ==
  ASSUME NEW T, NEW metadata \in Seq(T), NEW secret, NEW hostId, NEW eid, NEW keys, KeysOf(keys),
         NEW k, NEW isdp, NEW smr, NEW rsk,
         PartsOf(k, isdp, smr, rsk, metadata, keys, secret, hostId, eid)
  PROVE  Gives(Server!Decode(k, secret, eid), metadata, Server!DemacAndDecrypt(Server!PppBsp, k.upp))
<1>1. /\ Server!DemacAndDecrypt(Server!FromKdf(secret, hostId, eid), isdp.tlvs).ok
      /\ Server!DemacAndDecrypt(Server!FromKdf(secret, hostId, eid), isdp.tlvs).bsp = isdp.bsp
  <2>1. PICK b, text : b = Server!FromKdf(secret, hostId, eid) /\ text = <<"ConfigureISDP">>
    OBVIOUS
  <2>2. text \in Seq({"ConfigureISDP"})
    BY <2>1
  <2>3. isdp = Server!EncryptAndMac(b, "87", text)
    BY <2>1 DEF PartsOf
  <2>4. Server!DemacAndDecrypt(b, isdp.tlvs).ok /\ Server!DemacAndDecrypt(b, isdp.tlvs).bsp = isdp.bsp
    BY <2>2, <2>3, EncipheredOpens
  <2> QED BY <2>1, <2>4
<1>2. /\ Server!DemacOnly(isdp.bsp, smr.tlvs).ok /\ Server!DemacOnly(isdp.bsp, smr.tlvs).bsp = smr.bsp
      /\ Server!DemacOnly(isdp.bsp, smr.tlvs).text = metadata
  BY MacedOpens DEF PartsOf
<1>3. PICK K : keys \in Seq(K)
  BY DEF KeysOf
<1>4. /\ Server!DemacAndDecrypt(smr.bsp, rsk.tlvs).ok
      /\ Server!DemacAndDecrypt(smr.bsp, rsk.tlvs).text = keys
  BY <1>3, EncipheredOpens DEF PartsOf
<1>5. rsk.tlvs # <<>>
  BY <1>3, EncipheredSegments, EmptySeq DEF PartsOf, KeysOf
<1>6. PICK d1, d2, d3 :
        /\ d1 = Server!DemacAndDecrypt(Server!FromKdf(secret, k.host, eid), k.isdp)
        /\ d2 = Server!DemacOnly(d1.bsp, k.smr) /\ d3 = Server!DemacAndDecrypt(d2.bsp, k.rsk)
  OBVIOUS
<1>7. d1.ok /\ d1.bsp = isdp.bsp /\ d2.ok /\ d2.bsp = smr.bsp /\ d2.text = metadata
  BY <1>1, <1>2, <1>6 DEF PartsOf
<1>8. d3.ok /\ d3.text = keys /\ k.rsk # <<>>
  BY <1>4, <1>5, <1>6, <1>7 DEF PartsOf
<1>9. Server!Decode(k, secret, eid) =
        Server!Delivered(d1.ok /\ d2.ok /\ d3.ok, d2.text,
          Server!DemacAndDecrypt(IF k.rsk = <<>> THEN d2.bsp ELSE Server!WithKeys(d3.text), k.upp))
  BY <1>6 DEF Server!Decode
<1>10. PICK d, upp : d = Server!Decode(k, secret, eid) /\ upp = Server!DemacAndDecrypt(Server!PppBsp, k.upp)
  OBVIOUS
<1>11. d = Server!Delivered(d1.ok /\ d2.ok /\ d3.ok, metadata, upp)
  BY <1>7, <1>8, <1>9, <1>10 DEF KeysOf
<1>12. CASE upp.ok
  <2>1. d = [ok |-> TRUE, metadata |-> metadata, upp |-> upp.text]
    BY <1>7, <1>8, <1>11, <1>12 DEF Server!Delivered
  <2> QED BY <1>10, <1>12, <2>1 DEF Gives
<1>13. CASE ~upp.ok
  <2>1. d = [ok |-> FALSE, metadata |-> <<>>, upp |-> <<>>]
    BY <1>11, <1>13 DEF Server!Delivered
  <2> QED BY <1>10, <1>13, <2>1 DEF Gives
<1> QED BY <1>12, <1>13

\* Profiles and metadata are texts.
LEMMA ProfileIsText ==
  ASSUME NEW m \in MatchingIds, NEW version
  PROVE  \E S : Server!Der(m, version) \in Seq(S)
<1>1. PICK n, der : n = Sizes[m] /\ der = Server!Der(m, version)
  OBVIOUS
<1>2. n \in Nat /\ der = [i \in 1..n |-> <<m, version, i>>]
  BY <1>1, PackageAssumption DEF Server!Der
<1>3. PICK S : S = {<<m, version, i>> : i \in 1..n}
  OBVIOUS
<1>4. der \in [1..n -> S]
  BY <1>2, <1>3
<1>5. der \in Seq(S)
  BY <1>2, <1>4
<1> QED BY <1>1, <1>5

LEMMA MetadataIsText ==
  ASSUME NEW m, NEW version
  PROVE  \E S : Server!Metadata(m, version) \in Seq(S)
<1>1. PICK S : S = {m, version}
  OBVIOUS
<1>2. <<m, version>> \in Seq(S)
  BY <1>1
<1> QED BY <1>2 DEF Server!Metadata

\* It is opened with what was put in.
LEMMA PackageOpens ==
  ASSUME NEW S, NEW upp \in Seq(S), NEW T, NEW metadata \in Seq(T), NEW secret, NEW hostId, NEW eid, NEW k,
         k = Server!Encode(Server!Protect(upp, Server!PppBsp), upp, metadata, secret, hostId, eid)
  PROVE  /\ Server!Decode(k, secret, eid).ok /\ Server!Decode(k, secret, eid).metadata = metadata
         /\ Server!Decode(k, secret, eid).upp = upp
<1>1. PICK isdp, smr, rsk, keys :
        /\ PartsOf(k, isdp, smr, rsk, metadata, keys, secret, hostId, eid) /\ KeysOf(keys)
        /\ k.upp = Server!EncryptAndMac(Server!PppBsp, "86", upp).tlvs
  BY PackageParts
<1>2. Gives(Server!Decode(k, secret, eid), metadata, Server!DemacAndDecrypt(Server!PppBsp, k.upp))
  BY <1>1, PartsOpen
<1>3. /\ Server!DemacAndDecrypt(Server!PppBsp, k.upp).ok
      /\ Server!DemacAndDecrypt(Server!PppBsp, k.upp).text = upp
  BY <1>1, EncipheredOpens
<1> QED BY <1>2, <1>3 DEF Gives

\* Others do not get past its first MAC.
LEMMA PackageClosed ==
  ASSUME NEW upp, NEW metadata, NEW secret, NEW hostId, NEW eid, NEW k, NEW d, d # eid, NEW other,
         k = Server!Encode(Server!Protect(upp, Server!PppBsp), upp, metadata, secret, hostId, eid)
  PROVE  ~Server!Decode(k, other, d).ok
<1>1. PICK isdp, smr, rsk, keys :
        /\ PartsOf(k, isdp, smr, rsk, metadata, keys, secret, hostId, eid) /\ KeysOf(keys)
        /\ k.upp = Server!EncryptAndMac(Server!PppBsp, "86", upp).tlvs
  BY PackageParts
<1>2. PICK b, text : b = Server!FromKdf(secret, hostId, eid) /\ text = <<"ConfigureISDP">>
  OBVIOUS
<1>3. text \in Seq({"ConfigureISDP"}) /\ text # <<>>
  BY <1>2
<1>4. k.isdp = Server!EncryptAndMac(b, "87", text).tlvs
  BY <1>1, <1>2 DEF PartsOf
<1>5. DOMAIN k.isdp = 1..Len(k.isdp) /\ 1 \in 1..Len(k.isdp) /\ k.isdp[1].mac[1] = b.s_mac
  BY <1>3, <1>4, EncipheredSegments
<1>6. PICK e : e = Server!FromKdf(other, k.host, d)
  OBVIOUS
<1>7. b.s_mac # e.s_mac
  <2>1. b.s_mac = <<"mac", secret, hostId, eid>> /\ e.s_mac = <<"mac", other, k.host, d>>
    BY <1>2, <1>6 DEF Server!FromKdf, Server!Bsp
  <2> QED BY <2>1
<1>8. ~Server!DemacAndDecrypt(e, k.isdp).ok
  <2>1. PICK opened : opened = Server!DemacOnly(e, k.isdp)
    OBVIOUS
  <2>2. PICK segments : segments = [i \in DOMAIN k.isdp |-> k.isdp[i].segment]
    OBVIOUS
  <2>3. Server!Mac(e, segments, 1)[1] = e.s_mac
    BY DEF Server!Mac
  <2>4. 1 \in DOMAIN k.isdp /\ ~Server!Genuine(e, segments, 1, k.isdp[1].mac)
    BY <1>5, <1>7, <2>3 DEF Server!Genuine
  <2>5. opened = [ok |-> \A i \in DOMAIN k.isdp : Server!Genuine(e, segments, i, k.isdp[i].mac),
                  bsp |-> Server!Advanced(e, segments),
                  text |-> Server!FlattenSeq([i \in DOMAIN k.isdp |-> segments[i].body.text])]
    BY <2>1, <2>2 DEF Server!DemacOnly
  <2>6. DOMAIN opened = {"ok", "bsp", "text"}
    BY <2>5
  <2>7. opened.ok = (\A i \in DOMAIN k.isdp : Server!Genuine(e, segments, i, k.isdp[i].mac))
    BY <2>5
  <2>8. ~opened.ok
    BY <2>4, <2>7
  <2>9. Server!DemacAndDecrypt(e, k.isdp) =
          [opened EXCEPT !.ok = @ /\ \A i \in DOMAIN k.isdp : Server!Deciphers(e, k.isdp[i].segment.body, i)]
    BY <2>1 DEF Server!DemacAndDecrypt
  <2> QED BY <2>6, <2>8, <2>9
<1> QED BY <1>6, <1>8 DEF Server!Decode, Server!Delivered

\* With other segments it opens only when these do.
LEMMA PackageGuarded ==
  ASSUME NEW upp, NEW T, NEW metadata \in Seq(T), NEW secret, NEW hostId, NEW eid, NEW k, NEW tlvs,
         k = Server!Encode(Server!Protect(upp, Server!PppBsp), upp, metadata, secret, hostId, eid),
         Server!Decode([k EXCEPT !.upp = tlvs], secret, eid).ok
  PROVE  Server!DemacAndDecrypt(Server!PppBsp, tlvs).ok
<1>1. PICK isdp, smr, rsk, keys :
        /\ PartsOf(k, isdp, smr, rsk, metadata, keys, secret, hostId, eid) /\ KeysOf(keys)
        /\ k.upp = Server!EncryptAndMac(Server!PppBsp, "86", upp).tlvs
  BY PackageParts
<1>2. PICK q : q = [k EXCEPT !.upp = tlvs]
  OBVIOUS
<1>3. PartsOf(q, isdp, smr, rsk, metadata, keys, secret, hostId, eid) /\ q.upp = tlvs
  BY <1>1, <1>2 DEF PartsOf
<1>4. Gives(Server!Decode(q, secret, eid), metadata, Server!DemacAndDecrypt(Server!PppBsp, q.upp))
  BY <1>1, <1>3, PartsOpen
<1> QED BY <1>2, <1>3, <1>4 DEF Gives

\* A segment in a place that is not its own does not open.
LEMMA OutOfPlace ==
  ASSUME NEW tlvs, NEW i \in Nat, i \in DOMAIN tlvs, NEW n \in Nat, n # i,
         tlvs[i].segment.body.nr = Server!PppBsp.block_nr + n - 1
  PROVE  ~Server!DemacAndDecrypt(Server!PppBsp, tlvs).ok
<1>1. Server!PppBsp.block_nr = 1
  BY DEF Server!PppBsp, Server!Bsp
<1>2. ~Server!Deciphers(Server!PppBsp, tlvs[i].segment.body, i)
  BY <1>1 DEF Server!Deciphers
<1>3. PICK opened : opened = Server!DemacOnly(Server!PppBsp, tlvs)
  OBVIOUS
<1>4. DOMAIN opened = {"ok", "bsp", "text"}
  BY <1>3 DEF Server!DemacOnly
<1> QED BY <1>2, <1>3, <1>4 DEF Server!DemacAndDecrypt

-----------------------------------------------------------------------------
\* The server and its clients: what each request may find.

ClientFields == {"stage", "setup", "mid", "tx", "challenge", "sig2", "bpp", "metadata", "upp"}
SessionFields == {"challenge", "euicc_cert", "matchingId", "metadata", "sig2", "euicc_otpk", "smdp_ot"}
\* A client in one of these has been given a session.
Begun == {"initiated", "authenticating", "authenticated", "binding", "bound", "stored",
          "notifying", "notified"}

StoreOk ==
  /\ fresh \in Nat /\ ever \subseteq Transactions /\ DOMAIN rss \subseteq ever
  /\ \A tx \in DOMAIN rss : DOMAIN rss[tx] = SessionFields
  /\ DOMAIN clients = Clients /\ \A c \in Clients : DOMAIN clients[c] = ClientFields
  /\ DOMAIN upp_dir = MatchingIds

\* A profile is there in the version of its last change, or was missed.
ProfileOk(p) ==
  /\ DOMAIN p = {"version", "changes", "missed"}
  /\ p.changes \in 0..MaxChanges /\ p.missed \in BOOLEAN
  /\ p.version = p.changes + 1 \/ (p.version = 0 /\ p.missed)

\* A request is of a client that waits for its answer, or has given up, and says of the client what
\* is so.
RequestOk(r) ==
  /\ r.from \in Clients
  /\ \/ /\ r.api = "initiateAuthentication" /\ clients[r.from].stage \in {"initiating", "timed out"}
        /\ r.setup = clients[r.from].setup
     \/ /\ r.api = "authenticateClient" /\ clients[r.from].stage \in {"authenticating", "timed out"}
        /\ clients[r.from].tx # "none" /\ r.tx = clients[r.from].tx /\ r.setup = clients[r.from].setup
        /\ r.challenge = clients[r.from].challenge /\ r.mid = clients[r.from].mid
     \/ /\ r.api = "getBoundProfilePackage" /\ clients[r.from].stage \in {"binding", "timed out"}
        /\ clients[r.from].tx # "none" /\ r.tx = clients[r.from].tx /\ r.sig2 = clients[r.from].sig2
        /\ r.otpk = r.from
     \/ r.api = "handleNotification" /\ clients[r.from].stage \in {"notifying", "timed out"}
\* A client sends each request once.
SentOnce == \A r, s \in requests : r.from = s.from /\ r.api = s.api => r = s

\* A package is of the profile that was named, in a version that was there when it was made, with the
\* metadata of one that was there before, sealed for its client.
PackageOk(c, k) ==
  \E v, w \in 1..(MaxChanges + 1), n \in Nat :
    /\ k.bpp.smdp_otpk = n
    /\ k.bpp.bpp = Server!Encode(Server!Protect(Server!Der(k.mid, v), Server!PppBsp), Server!Der(k.mid, v),
                                 Server!Metadata(k.mid, w), Server!Secret(n, c), Server!HostId, c)
    /\ w <= v /\ v <= upp_dir[k.mid].changes + 1

\* What is filed away is a profile in a version that was there, with metadata of this or one before.
FiledOk(k) ==
  \E v, w \in 1..(MaxChanges + 1) :
    /\ k.upp = Server!Der(k.mid, v) /\ k.metadata = Server!Metadata(k.mid, w)
    /\ w <= v /\ v <= upp_dir[k.mid].changes + 1

\* The client c is as k.
ClientOk(c, k) ==
  /\ k.setup \in {"good", "other address", "other CI", "bad chain", "EID out of range"}
  /\ k.stage # "idle" => k.mid \in MatchingIds
  /\ k.stage \in {"idle", "initiating"} => k.tx = "none"
  /\ k.stage \in Begun => k.tx # "none"
  /\ k.tx # "none" =>
       /\ k.tx \in ever /\ k.setup \notin {"other address", "other CI"} /\ k.stage # "idle"
       /\ k.tx \in DOMAIN rss => rss[k.tx].challenge = k.challenge
  /\ k.stage \in {"authenticated", "binding"} /\ k.tx \in DOMAIN rss =>
       rss[k.tx].euicc_cert = c /\ rss[k.tx].sig2 = k.sig2
  /\ k.stage = "refused" /\ k.setup = "good" => k.tx \in ever \ DOMAIN rss \/ upp_dir[k.mid].missed
  /\ k.stage = "bound" => PackageOk(c, k)
  /\ k.stage # "undecodable" /\ (k.stage \in {"stored", "notifying", "notified"} => FiledOk(k))
\* A session is given to one client.
OwnSessions ==
  \A c, d \in Clients : clients[c].tx = clients[d].tx /\ c # d => clients[c].tx = "none"

\* The session s of tx belongs to the client whose certificate it has.
SessionOk(tx, s) ==
  /\ s.smdp_ot # 0 => s.euicc_cert # "none"
  /\ s.euicc_cert # "none" =>
       /\ s.euicc_cert \in Clients /\ clients[s.euicc_cert].tx = tx
       /\ clients[s.euicc_cert].setup = "good" /\ clients[s.euicc_cert].mid = s.matchingId
       /\ s.matchingId \in MatchingIds
       /\ s.smdp_ot # 0 => s.euicc_otpk = s.euicc_cert
       /\ \E w \in 1..(MaxChanges + 1) :
            s.metadata = Server!Metadata(s.matchingId, w) /\ w <= upp_dir[s.matchingId].changes + 1

ServerInv ==
  /\ StoreOk /\ SentOnce /\ OwnSessions
  /\ \A m \in MatchingIds : ProfileOk(upp_dir[m])
  /\ \A r \in requests : RequestOk(r)
  /\ \A c \in Clients : ClientOk(c, clients[c])
  /\ \A tx \in DOMAIN rss : SessionOk(tx, rss[tx])

LEMMA ServerStarts == Server!SmdppInit => ServerInv
<1> SUFFICES ASSUME Server!SmdppInit PROVE ServerInv
  OBVIOUS
<1>1. /\ DOMAIN rss = {} /\ ever = {} /\ requests = {} /\ fresh = 0
      /\ upp_dir = [m \in MatchingIds |-> [Server!NoProfile EXCEPT !.version = 1]]
      /\ clients = [c \in Clients |-> Server!Idle]
  BY DEF Server!SmdppInit
<1>2. ASSUME NEW m \in MatchingIds PROVE ProfileOk(upp_dir[m])
  <2>1. upp_dir[m] = [version |-> 1, changes |-> 0, missed |-> FALSE]
    BY <1>1 DEF Server!NoProfile
  <2>2. /\ DOMAIN upp_dir[m] = {"version", "changes", "missed"}
        /\ upp_dir[m].version = 1 /\ upp_dir[m].changes = 0 /\ upp_dir[m].missed = FALSE
    BY <2>1
  <2>3. MaxChanges \in Nat
    BY ServerAssumption
  <2>4. 0 \in 0..MaxChanges /\ 1 = 0 + 1
    BY <2>3
  <2> QED BY <2>2, <2>4 DEF ProfileOk
<1>3. /\ DOMAIN Server!Idle = ClientFields /\ Server!Idle.stage = "idle" /\ Server!Idle.setup = "good"
      /\ Server!Idle.tx = "none"
  BY DEF Server!Idle, ClientFields
<1>4. ASSUME NEW c \in Clients PROVE clients[c] = Server!Idle /\ ClientOk(c, clients[c])
  BY <1>1, <1>3 DEF ClientOk, Begun
<1>5. StoreOk
  BY <1>1, <1>3 DEF StoreOk
<1>6. SentOnce /\ OwnSessions
  BY <1>1, <1>3, <1>4 DEF SentOnce, OwnSessions
<1> QED BY <1>1, <1>2, <1>4, <1>5, <1>6 DEF ServerInv

\* A step of a client, whose record becomes k.
LEMMA ClientStep ==
  ASSUME ServerInv, UNCHANGED <<rss, ever, upp_dir, fresh>>, NEW c \in Clients, NEW k,
         clients' = [clients EXCEPT ![c] = k], DOMAIN k = ClientFields, k.tx = clients[c].tx,
         k.tx # "none" => k.mid = clients[c].mid /\ k.setup = clients[c].setup,
         ClientOk(c, k), \A r \in requests' : RequestOk(r)', SentOnce'
  PROVE  ServerInv'
<1>1. /\ clients'[c] = k /\ DOMAIN clients' = Clients
      /\ \A d \in Clients : d # c => clients'[d] = clients[d]
  BY DEF ServerInv, StoreOk
<1>2. StoreOk'
  BY <1>1 DEF ServerInv, StoreOk
<1>3. OwnSessions'
  BY <1>1 DEF ServerInv, OwnSessions
<1>4. \A m \in MatchingIds : ProfileOk(upp_dir[m])'
  BY DEF ServerInv, ProfileOk
<1>5. ASSUME NEW d \in Clients PROVE ClientOk(d, clients[d])'
  <2>1. ClientOk(d, clients'[d])
    BY <1>1 DEF ServerInv
  <2> QED BY <2>1 DEF ClientOk, PackageOk, FiledOk
<1>6. ASSUME NEW tx \in DOMAIN rss PROVE SessionOk(tx, rss[tx])'
  <2>1. SessionOk(tx, rss[tx]) /\ tx # "none"
    BY ServerAssumption DEF ServerInv, StoreOk
  <2>2. \A d \in Clients : clients[d].tx = tx =>
          clients'[d].tx = tx /\ clients'[d].setup = clients[d].setup /\ clients'[d].mid = clients[d].mid
    BY <1>1, <2>1
  <2> QED BY <2>1, <2>2 DEF SessionOk
<1> QED BY <1>2, <1>3, <1>4, <1>5, <1>6 DEF ServerInv

\* A client that asks has no other request on its way.
LEMMA NewRequest ==
  ASSUME ServerInv, NEW c \in Clients, NEW k, clients' = [clients EXCEPT ![c] = k], NEW new,
         clients[c].stage \notin {"initiating", "authenticating", "binding", "notifying", "timed out"},
         requests' = requests \cup {new}, new.from = c, RequestOk(new)'
  PROVE  (\A r \in requests' : RequestOk(r)') /\ SentOnce'
<1>1. ASSUME NEW r \in requests PROVE r.from # c /\ RequestOk(r)'
  <2>1. r.from # c /\ RequestOk(r) /\ r.from \in Clients
    BY DEF ServerInv, RequestOk
  <2>2. clients'[r.from] = clients[r.from]
    BY <2>1 DEF ServerInv, StoreOk
  <2> QED BY <2>1, <2>2 DEF RequestOk
<1>2. SentOnce'
  BY <1>1 DEF ServerInv, SentOnce
<1> QED BY <1>1, <1>2

LEMMA StartDownloadKeeps ==
  ASSUME ServerInv, NEW c \in Clients, NEW mid \in MatchingIds, NEW setup \in Setups,
         Server!StartDownload(c, mid, setup)
  PROVE  ServerInv'
<1>1. PICK k, new :
        /\ k = [clients[c] EXCEPT !.stage = "initiating", !.setup = setup, !.mid = mid]
        /\ new = [from |-> c, api |-> "initiateAuthentication", setup |-> setup]
        /\ clients[c].stage = "idle" /\ requests' = requests \cup {new} /\ clients' = [clients EXCEPT ![c] = k]
        /\ UNCHANGED <<rss, ever, upp_dir, fresh>>
  BY DEF Server!StartDownload, ServerInv, StoreOk
<1>2. DOMAIN clients[c] = ClientFields /\ ClientOk(c, clients[c]) /\ DOMAIN clients = Clients
  BY DEF ServerInv, StoreOk
<1>3. /\ k.stage = "initiating" /\ k.setup = setup /\ k.mid = mid /\ k.tx = clients[c].tx
      /\ DOMAIN k = ClientFields
  BY <1>1, <1>2 DEF ClientFields
<1>4. new.from = c /\ new.api = "initiateAuthentication" /\ new.setup = setup
  BY <1>1
<1>5. clients[c].tx = "none"
  BY <1>1, <1>2 DEF ClientOk
<1>6. ClientOk(c, k)
  BY <1>3, <1>5, ServerAssumption DEF ClientOk, Begun
<1>7. RequestOk(new)'
  BY <1>1, <1>2, <1>3, <1>4 DEF RequestOk
<1>8. (\A r \in requests' : RequestOk(r)') /\ SentOnce'
  BY <1>1, <1>4, <1>7, NewRequest
<1> QED BY <1>1, <1>3, <1>5, <1>6, <1>8, ClientStep

\* A client that goes on, or gives up, and asks nothing.
LEMMA OldRequests ==
  ASSUME ServerInv, NEW c \in Clients, NEW k, clients' = [clients EXCEPT ![c] = k], requests' = requests,
         \/ clients[c].stage \notin {"initiating", "authenticating", "binding", "notifying", "timed out"}
         \/ /\ k.stage = "timed out" /\ k.tx = clients[c].tx /\ k.setup = clients[c].setup
            /\ k.challenge = clients[c].challenge /\ k.mid = clients[c].mid /\ k.sig2 = clients[c].sig2
  PROVE  (\A r \in requests' : RequestOk(r)') /\ SentOnce'
<1>1. clients'[c] = k /\ \A d \in Clients : d # c => clients'[d] = clients[d]
  BY DEF ServerInv, StoreOk
<1>2. ASSUME NEW r \in requests PROVE RequestOk(r)'
  <2>1. RequestOk(r) /\ r.from \in Clients
    BY DEF ServerInv, RequestOk
  <2>2. CASE r.from # c
    BY <1>1, <2>1, <2>2 DEF RequestOk
  <2>3. CASE r.from = c
    BY <1>1, <2>1, <2>3 DEF RequestOk
  <2> QED BY <2>2, <2>3
<1>3. SentOnce'
  BY DEF ServerInv, SentOnce
<1> QED BY <1>2, <1>3

LEMMA AuthenticateKeeps ==
  ASSUME ServerInv, NEW c \in Clients, Server!Authenticate(c)
  PROVE  ServerInv'
<1>1. PICK k, new :
        /\ k = [clients[c] EXCEPT !.stage = "authenticating"]
        /\ new = [from |-> c, api |-> "authenticateClient", tx |-> clients[c].tx, setup |-> clients[c].setup,
                  challenge |-> clients[c].challenge, mid |-> clients[c].mid]
        /\ clients[c].stage = "initiated" /\ requests' = requests \cup {new} /\ clients' = [clients EXCEPT ![c] = k]
        /\ UNCHANGED <<rss, ever, upp_dir, fresh>>
  BY DEF Server!Authenticate, Server!Asks, ServerInv, StoreOk
<1>2. DOMAIN clients[c] = ClientFields /\ ClientOk(c, clients[c]) /\ DOMAIN clients = Clients
  BY DEF ServerInv, StoreOk
<1>3. /\ k.stage = "authenticating" /\ k.setup = clients[c].setup /\ k.mid = clients[c].mid
      /\ k.tx = clients[c].tx /\ k.challenge = clients[c].challenge /\ DOMAIN k = ClientFields
  BY <1>1, <1>2 DEF ClientFields
<1>4. /\ new.from = c /\ new.api = "authenticateClient" /\ new.tx = k.tx /\ new.setup = k.setup
      /\ new.challenge = k.challenge /\ new.mid = k.mid
  BY <1>1, <1>3
<1>5. k.tx # "none"
  BY <1>1, <1>2, <1>3 DEF ClientOk, Begun
<1>6. ClientOk(c, k)
  BY <1>1, <1>2, <1>3, <1>5 DEF ClientOk
<1>7. RequestOk(new)'
  BY <1>1, <1>2, <1>4, <1>3, <1>5 DEF RequestOk
<1>8. (\A r \in requests' : RequestOk(r)') /\ SentOnce'
  BY <1>1, <1>4, <1>7, NewRequest
<1> QED BY <1>1, <1>3, <1>6, <1>8, ClientStep

LEMMA AskPackageKeeps ==
  ASSUME ServerInv, NEW c \in Clients, Server!AskPackage(c)
  PROVE  ServerInv'
<1>1. PICK k, new :
        /\ k = [clients[c] EXCEPT !.stage = "binding"]
        /\ new = [from |-> c, api |-> "getBoundProfilePackage", tx |-> clients[c].tx,
                  sig2 |-> clients[c].sig2, otpk |-> c]
        /\ clients[c].stage = "authenticated" /\ requests' = requests \cup {new}
        /\ clients' = [clients EXCEPT ![c] = k] /\ UNCHANGED <<rss, ever, upp_dir, fresh>>
  BY DEF Server!AskPackage, Server!Asks, ServerInv, StoreOk
<1>2. DOMAIN clients[c] = ClientFields /\ ClientOk(c, clients[c]) /\ DOMAIN clients = Clients
  BY DEF ServerInv, StoreOk
<1>3. /\ k.stage = "binding" /\ k.setup = clients[c].setup /\ k.mid = clients[c].mid
      /\ k.tx = clients[c].tx /\ k.challenge = clients[c].challenge /\ k.sig2 = clients[c].sig2
      /\ DOMAIN k = ClientFields
  BY <1>1, <1>2 DEF ClientFields
<1>4. /\ new.from = c /\ new.api = "getBoundProfilePackage" /\ new.tx = k.tx
      /\ new.sig2 = k.sig2 /\ new.otpk = c
  BY <1>1, <1>3
<1>5. k.tx # "none"
  BY <1>1, <1>2, <1>3 DEF ClientOk, Begun
<1>6. ClientOk(c, k)
  BY <1>1, <1>2, <1>3, <1>5 DEF ClientOk
<1>7. RequestOk(new)'
  BY <1>1, <1>2, <1>4, <1>3, <1>5 DEF RequestOk
<1>8. (\A r \in requests' : RequestOk(r)') /\ SentOnce'
  BY <1>1, <1>4, <1>7, NewRequest
<1> QED BY <1>1, <1>3, <1>6, <1>8, ClientStep

LEMMA NotifyInstalledKeeps ==
  ASSUME ServerInv, NEW c \in Clients, Server!NotifyInstalled(c)
  PROVE  ServerInv'
<1>1. PICK k, new :
        /\ k = [clients[c] EXCEPT !.stage = "notifying"]
        /\ new = [from |-> c, api |-> "handleNotification", tx |-> clients[c].tx]
        /\ clients[c].stage = "stored" /\ requests' = requests \cup {new}
        /\ clients' = [clients EXCEPT ![c] = k] /\ UNCHANGED <<rss, ever, upp_dir, fresh>>
  BY DEF Server!NotifyInstalled, Server!Asks, ServerInv, StoreOk
<1>2. DOMAIN clients[c] = ClientFields /\ ClientOk(c, clients[c]) /\ DOMAIN clients = Clients
  BY DEF ServerInv, StoreOk
<1>3. /\ k.stage = "notifying" /\ k.setup = clients[c].setup /\ k.mid = clients[c].mid
      /\ k.tx = clients[c].tx /\ k.challenge = clients[c].challenge /\ DOMAIN k = ClientFields
      /\ k.upp = clients[c].upp /\ k.metadata = clients[c].metadata
  BY <1>1, <1>2 DEF ClientFields
<1>4. new.from = c /\ new.api = "handleNotification"
  BY <1>1
<1>5. k.tx # "none"
  BY <1>1, <1>2, <1>3 DEF ClientOk, Begun
<1>6. ClientOk(c, k)
  BY <1>1, <1>2, <1>3, <1>5 DEF ClientOk, FiledOk
<1>7. RequestOk(new)'
  BY <1>1, <1>2, <1>4, <1>3 DEF RequestOk
<1>8. (\A r \in requests' : RequestOk(r)') /\ SentOnce'
  BY <1>1, <1>4, <1>7, NewRequest
<1> QED BY <1>1, <1>3, <1>6, <1>8, ClientStep

LEMMA StoreProfileKeeps ==
  ASSUME ServerInv, NEW c \in Clients, Server!StoreProfile(c)
  PROVE  ServerInv'
<1>1. PICK opened, stage, k :
        /\ opened = Server!Decode(clients[c].bpp.bpp, Server!Secret(clients[c].bpp.smdp_otpk, c), c)
        /\ stage = IF opened.ok THEN "stored" ELSE "undecodable"
        /\ k = [clients[c] EXCEPT !.stage = stage, !.metadata = opened.metadata, !.upp = opened.upp]
        /\ clients[c].stage = "bound" /\ clients' = [clients EXCEPT ![c] = k]
        /\ UNCHANGED <<rss, ever, upp_dir, requests, fresh>>
  BY DEF Server!StoreProfile, ServerInv, StoreOk
<1>2. /\ DOMAIN clients[c] = ClientFields /\ ClientOk(c, clients[c]) /\ DOMAIN clients = Clients
      /\ clients[c].mid \in MatchingIds /\ clients[c].tx # "none" /\ PackageOk(c, clients[c])
  BY <1>1 DEF ServerInv, StoreOk, ClientOk, Begun
<1>3. PICK v, w, mid, upp, metadata :
        /\ v \in 1..(MaxChanges + 1) /\ w \in 1..(MaxChanges + 1)
        /\ mid = clients[c].mid /\ upp = Server!Der(mid, v) /\ metadata = Server!Metadata(mid, w)
        /\ opened.ok /\ opened.upp = upp /\ opened.metadata = metadata
        /\ w <= v /\ v <= upp_dir[mid].changes + 1
  <2>1. PICK v, w, n, mid, upp, metadata, secret :
          /\ v \in 1..(MaxChanges + 1) /\ w \in 1..(MaxChanges + 1) /\ n \in Nat
          /\ mid = clients[c].mid /\ upp = Server!Der(mid, v) /\ metadata = Server!Metadata(mid, w)
          /\ clients[c].bpp.smdp_otpk = n /\ secret = Server!Secret(n, c)
          /\ clients[c].bpp.bpp = Server!Encode(Server!Protect(upp, Server!PppBsp), upp, metadata, secret,
                                                Server!HostId, c)
          /\ w <= v /\ v <= upp_dir[mid].changes + 1
    BY <1>2 DEF PackageOk
  <2>2. \E S : upp \in Seq(S)
    BY <1>2, <2>1, ProfileIsText
  <2>3. \E T : metadata \in Seq(T)
    BY <2>1, MetadataIsText
  <2>4. opened = Server!Decode(clients[c].bpp.bpp, secret, c)
    BY <1>1, <2>1
  <2>5. opened.ok /\ opened.metadata = metadata /\ opened.upp = upp
    BY <2>1, <2>2, <2>3, <2>4, PackageOpens
  <2> QED BY <2>1, <2>5
<1>4. /\ k.stage = "stored" /\ k.setup = clients[c].setup /\ k.mid = clients[c].mid
      /\ k.tx = clients[c].tx /\ k.challenge = clients[c].challenge /\ DOMAIN k = ClientFields
      /\ k.metadata = metadata /\ k.upp = upp
  BY <1>1, <1>2, <1>3 DEF ClientFields
<1>5. FiledOk(k)
  BY <1>3, <1>4 DEF FiledOk
<1>6. ClientOk(c, k)
  BY <1>1, <1>2, <1>4, <1>5 DEF ClientOk
<1>7. (\A r \in requests' : RequestOk(r)') /\ SentOnce'
  BY <1>1, OldRequests
<1> QED BY <1>1, <1>4, <1>6, <1>7, ClientStep

LEMMA TimeOutKeeps ==
  ASSUME ServerInv, NEW c \in Clients, Server!TimeOut(c)
  PROVE  ServerInv'
<1> DEFINE k == [clients[c] EXCEPT !.stage = "timed out"]
<1>1. /\ clients[c].stage \in {"initiating", "authenticating", "binding", "notifying"}
      /\ clients' = [clients EXCEPT ![c] = k] /\ UNCHANGED <<rss, ever, upp_dir, requests, fresh>>
  BY DEF Server!TimeOut, Server!Waiting, ServerInv, StoreOk
<1>2. DOMAIN clients[c] = ClientFields /\ ClientOk(c, clients[c]) /\ DOMAIN clients = Clients
  BY DEF ServerInv, StoreOk
<1>3. /\ k.stage = "timed out" /\ k.setup = clients[c].setup /\ k.mid = clients[c].mid
      /\ k.tx = clients[c].tx /\ k.challenge = clients[c].challenge /\ k.sig2 = clients[c].sig2
      /\ DOMAIN k = ClientFields
  BY <1>2 DEF ClientFields
<1> HIDE DEF k
<1>4. ClientOk(c, k)
  BY <1>1, <1>2, <1>3 DEF ClientOk, Begun
<1>5. (\A r \in requests' : RequestOk(r)') /\ SentOnce'
  BY <1>1, <1>3, OldRequests
<1> QED BY <1>1, <1>3, <1>4, <1>5, ClientStep

\* While a client waits, its request is the only one it has on its way.
LEMMA OnlyRequest ==
  ASSUME ServerInv, NEW r \in requests, clients[r.from].stage # "timed out"
  PROVE  \A s \in requests \ {r} : s.from # r.from
<1> SUFFICES ASSUME NEW s \in requests, s.from = r.from, s # r PROVE FALSE
  OBVIOUS
<1>1. RequestOk(r) /\ RequestOk(s)
  BY DEF ServerInv
<1>2. r.api # s.api
  BY DEF ServerInv, SentOnce
<1> QED BY <1>1, <1>2 DEF RequestOk

\* The answer reaches a client that still waits.
LEMMA AnswerGiven ==
  ASSUME DOMAIN clients = Clients, NEW c \in Clients, NEW k, NEW stage,
         clients' = IF clients[c].stage = stage THEN [clients EXCEPT ![c] = k] ELSE clients
  PROVE  /\ DOMAIN clients' = Clients /\ \A d \in Clients : d # c => clients'[d] = clients[d]
         /\ clients'[c] = IF clients[c].stage = stage THEN k ELSE clients[c]
OBVIOUS

\* A step of the server that touches the session tx and answers c, if that is a client.
LEMMA StoreStep ==
  ASSUME ServerInv, StoreOk', UNCHANGED upp_dir, NEW tx, NEW c,
         DOMAIN rss' \subseteq DOMAIN rss \cup {tx}, \A t \in DOMAIN rss' : t # tx => rss'[t] = rss[t],
         ever \subseteq ever', tx \in DOMAIN rss' => tx \in DOMAIN rss \/ tx \notin ever,
         tx \in DOMAIN rss' => SessionOk(tx, rss[tx])',
         \A d \in Clients : d # c => clients'[d] = clients[d] /\ (tx \in DOMAIN rss' => clients[d].tx # tx),
         c \in Clients =>
           /\ ClientOk(c, clients[c])' /\ clients'[c].mid = clients[c].mid
           /\ clients'[c].setup = clients[c].setup
           /\ clients'[c].tx = clients[c].tx \/ (clients[c].tx = "none" /\ clients'[c].tx \notin ever),
         requests' \subseteq requests, \A s \in requests' : s.from = c => clients'[c] = clients[c]
  PROVE  ServerInv'
<1>1. SentOnce'
  BY DEF ServerInv, SentOnce
<1>2. ASSUME NEW s \in requests' PROVE RequestOk(s)'
  <2>1. RequestOk(s) /\ s.from \in Clients
    BY DEF ServerInv, RequestOk
  <2>2. clients'[s.from] = clients[s.from]
    BY <2>1
  <2> QED BY <2>1, <2>2 DEF RequestOk
<1>3. ASSUME NEW m \in MatchingIds PROVE ProfileOk(upp_dir[m])'
  BY DEF ServerInv, ProfileOk
<1>4. ASSUME NEW d \in Clients PROVE ClientOk(d, clients[d])'
  <2>1. CASE d = c
    BY <2>1
  <2>2. CASE d # c
    <3>1. clients'[d] = clients[d] /\ ClientOk(d, clients[d]) /\ (tx \in DOMAIN rss' => clients[d].tx # tx)
      BY <2>2 DEF ServerInv
    <3>2. PackageOk(d, clients[d]) => PackageOk(d, clients[d])'
      BY <3>1 DEF PackageOk
    <3>3. ASSUME clients[d].tx # "none"
          PROVE  /\ clients[d].tx \in ever
                 /\ clients[d].tx \in DOMAIN rss' => clients[d].tx \in DOMAIN rss
                 /\ clients[d].tx \in DOMAIN rss' => rss'[clients[d].tx] = rss[clients[d].tx]
      BY <3>1, <3>3 DEF ClientOk
    <3>4. "none" \notin DOMAIN rss /\ "none" \notin DOMAIN rss' /\ "none" \notin ever /\ "none" \notin ever'
      BY ServerAssumption DEF StoreOk, ServerInv
    <3>5. PICK k : clients[d] = k /\ clients'[d] = k
      BY <3>1
    <3>6. k.tx # "none" => k.tx \in ever' /\ (k.tx \in DOMAIN rss' => rss'[k.tx] = rss[k.tx])
      BY <3>3, <3>5
    <3>7. k.stage = "refused" /\ k.setup = "good" => k.tx \in ever' \ DOMAIN rss' \/ upp_dir'[k.mid].missed
      BY <3>1, <3>3, <3>4, <3>5 DEF ClientOk
    <3>8. k.stage \in {"authenticated", "binding"} /\ k.tx \in DOMAIN rss' =>
            rss'[k.tx].euicc_cert = d /\ rss'[k.tx].sig2 = k.sig2
      BY <3>1, <3>3, <3>4, <3>5 DEF ClientOk
    <3>9. k.stage = "bound" => PackageOk(d, clients[d])'
      BY <3>1, <3>2, <3>5 DEF ClientOk
    <3>10. k.tx # "none" /\ k.tx \in DOMAIN rss' => rss'[k.tx].challenge = k.challenge
      BY <3>1, <3>3, <3>5 DEF ClientOk
    <3>11. ClientOk(d, k)
      BY <3>1, <3>5
    <3>12. FiledOk(k) => FiledOk(k)'
      BY DEF FiledOk
    <3>13. /\ k.stage # "undecodable"
           /\ k.stage \in {"stored", "notifying", "notified"} => FiledOk(k)'
      BY <3>11, <3>12 DEF ClientOk
    <3> QED BY <3>5, <3>6, <3>7, <3>8, <3>9, <3>10, <3>11, <3>13 DEF ClientOk
  <2> QED BY <2>1, <2>2
<1>5. ASSUME NEW t \in DOMAIN rss' PROVE SessionOk(t, rss[t])'
  <2>1. CASE t = tx
    BY <2>1
  <2>2. CASE t # tx
    <3>1. t \in DOMAIN rss /\ rss'[t] = rss[t] /\ SessionOk(t, rss[t]) /\ t # "none"
      BY <2>2, ServerAssumption DEF ServerInv, StoreOk
    <3>2. \A d \in Clients : clients[d].tx = t =>
            clients'[d].tx = t /\ clients'[d].setup = clients[d].setup /\ clients'[d].mid = clients[d].mid
      BY <3>1
    <3> QED BY <3>1, <3>2 DEF SessionOk
  <2> QED BY <2>1, <2>2
<1>6. OwnSessions'
  <2>1. \A d \in Clients : clients[d].tx # "none" => clients[d].tx \in ever
    BY DEF ServerInv, ClientOk
  <2> QED BY <2>1 DEF ServerInv, OwnSessions
<1> QED BY <1>1, <1>2, <1>3, <1>4, <1>5, <1>6 DEF ServerInv

\* A request that is refused, with the client waiting or not.
LEMMA FailedKeeps ==
  ASSUME ServerInv, NEW r \in requests, requests' = requests \ {r}, UNCHANGED upp_dir, NEW stage,
         Server!Failed(r, stage), stage # "timed out",
         clients[r.from].stage = stage /\ clients[r.from].setup = "good" =>
           clients[r.from].tx \in ever \ DOMAIN rss \/ upp_dir[clients[r.from].mid].missed,
         stage \in {"initiating", "authenticating", "binding"}
  PROVE  ServerInv'
<1>1. PICK c, k, tx :
        /\ c = r.from /\ k = [clients[c] EXCEPT !.stage = "refused"] /\ tx = "none"
        /\ clients' = IF clients[c].stage = stage THEN [clients EXCEPT ![c] = k] ELSE clients
        /\ UNCHANGED <<rss, ever, fresh>>
  BY DEF Server!Failed, Server!Answered, Server!Pending
<1>2. /\ c \in Clients /\ DOMAIN clients[c] = ClientFields /\ ClientOk(c, clients[c])
      /\ DOMAIN clients = Clients /\ tx \notin DOMAIN rss /\ clients[c].stage # "bound"
  BY <1>1, ServerAssumption DEF ServerInv, StoreOk, RequestOk
<1>3. /\ k.stage = "refused" /\ k.setup = clients[c].setup /\ k.mid = clients[c].mid
      /\ k.tx = clients[c].tx /\ k.challenge = clients[c].challenge /\ DOMAIN k = ClientFields
  BY <1>1, <1>2 DEF ClientFields
<1>4. \A d \in Clients : d # c => clients'[d] = clients[d]
  BY <1>1, <1>2
<1>5. clients'[c] = IF clients[c].stage = stage THEN k ELSE clients[c]
  BY <1>1, <1>2
<1>6. StoreOk'
  <2>1. DOMAIN clients' = Clients /\ \A d \in Clients : DOMAIN clients'[d] = ClientFields
    BY <1>1, <1>2, <1>3, <1>4, <1>5 DEF ServerInv, StoreOk
  <2> QED BY <1>1, <2>1 DEF ServerInv, StoreOk
<1>7. rss' = rss /\ ever' = ever /\ upp_dir' = upp_dir
  BY <1>1
<1>8. ClientOk(c, clients[c])'
  <2>1. CASE clients[c].stage = stage
    <3>1. clients'[c] = k
      BY <1>5, <2>1
    <3>2. k.setup = "good" => k.tx \in ever \ DOMAIN rss \/ upp_dir[k.mid].missed
      BY <1>1, <1>3, <2>1
    <3> QED BY <1>2, <1>3, <1>7, <2>1, <3>1, <3>2 DEF ClientOk, Begun
  <2>2. CASE clients[c].stage # stage
    <3>1. clients'[c] = clients[c]
      BY <1>5, <2>2
    <3> QED BY <1>2, <1>7, <3>1 DEF ClientOk, FiledOk
  <2> QED BY <2>1, <2>2
<1>9. ASSUME NEW s \in requests', s.from = c PROVE clients'[c] = clients[c]
  BY <1>1, <1>5, <1>9, OnlyRequest
<1>10. /\ DOMAIN rss' \subseteq DOMAIN rss \cup {tx} /\ tx \notin DOMAIN rss'
       /\ \A t \in DOMAIN rss' : t # tx => rss'[t] = rss[t]
       /\ ever \subseteq ever' /\ requests' \subseteq requests
       /\ clients'[c].mid = clients[c].mid /\ clients'[c].setup = clients[c].setup
       /\ clients'[c].tx = clients[c].tx
  BY <1>1, <1>2, <1>3, <1>5
<1>11. \A d \in Clients : d # c => clients'[d] = clients[d] /\ (tx \in DOMAIN rss' => clients[d].tx # tx)
  BY <1>4, <1>10
<1> QED BY <1>6, <1>7, <1>8, <1>9, <1>10, <1>11, StoreStep

LEMMA InitiateAuthenticationKeeps ==
  ASSUME ServerInv, NEW r \in requests, requests' = requests \ {r}, UNCHANGED upp_dir,
         r.api = "initiateAuthentication", Server!InitiateAuthentication(r)
  PROVE  ServerInv'
<1>1. CASE r.setup \in {"other address", "other CI"}
  <2>1. Server!Failed(r, "initiating")
    BY <1>1 DEF Server!InitiateAuthentication
  <2>2. clients[r.from].setup # "good"
    BY <1>1 DEF ServerInv, RequestOk
  <2> QED BY <2>1, <2>2, FailedKeeps
<1>2. CASE r.setup \notin {"other address", "other CI"}
  <2>1. PICK tx \in Transactions \ ever :
          /\ rss' = [t \in DOMAIN rss \cup {tx} |->
                        IF t = tx THEN Server!NewSession(fresh + 1) ELSE rss[t]]
          /\ ever' = ever \cup {tx} /\ fresh' = fresh + 1
          /\ clients' = Server!Answered(r, "initiating", [clients[r.from] EXCEPT
                          !.stage = "initiated", !.tx = tx, !.challenge = fresh + 1])
    BY <1>2 DEF Server!InitiateAuthentication
  <2>2. PICK c, k, s :
          /\ c = r.from /\ s = Server!NewSession(fresh + 1)
          /\ k = [clients[c] EXCEPT !.stage = "initiated", !.tx = tx, !.challenge = fresh + 1]
          /\ rss' = [t \in DOMAIN rss \cup {tx} |-> IF t = tx THEN s ELSE rss[t]]
          /\ ever' = ever \cup {tx} /\ fresh' = fresh + 1
          /\ clients' = IF clients[c].stage = "initiating" THEN [clients EXCEPT ![c] = k] ELSE clients
    BY <2>1 DEF Server!Answered, Server!Pending
  <2>3. /\ c \in Clients /\ DOMAIN clients[c] = ClientFields /\ ClientOk(c, clients[c])
        /\ DOMAIN clients = Clients /\ RequestOk(r) /\ DOMAIN rss \subseteq ever /\ tx # "none"
    BY <2>2, ServerAssumption DEF ServerInv, StoreOk, RequestOk
  <2>4. /\ k.stage = "initiated" /\ k.tx = tx /\ k.challenge = fresh + 1
        /\ k.setup = clients[c].setup /\ k.mid = clients[c].mid /\ DOMAIN k = ClientFields
    BY <2>2, <2>3 DEF ClientFields
  <2>5. s.challenge = fresh + 1 /\ s.euicc_cert = "none" /\ s.smdp_ot = 0 /\ DOMAIN s = SessionFields
    BY <2>2 DEF Server!NewSession, SessionFields
  <2>6. /\ \A d \in Clients : d # c => clients'[d] = clients[d]
        /\ clients'[c] = IF clients[c].stage = "initiating" THEN k ELSE clients[c]
        /\ DOMAIN clients' = Clients
    BY <2>2, <2>3
  <2>7. /\ DOMAIN rss' = DOMAIN rss \cup {tx} /\ rss'[tx] = s
        /\ \A t \in DOMAIN rss' : t # tx => rss'[t] = rss[t]
    BY <2>2
  <2>8. StoreOk'
    <3>1. \A d \in Clients : DOMAIN clients'[d] = ClientFields
      BY <2>3, <2>4, <2>6 DEF ServerInv, StoreOk
    <3>2. \A t \in DOMAIN rss' : DOMAIN rss'[t] = SessionFields
      BY <2>5, <2>7 DEF ServerInv, StoreOk
    <3>3. fresh' \in Nat /\ ever' \subseteq Transactions
      BY <2>2 DEF ServerInv, StoreOk
    <3> QED BY <2>2, <2>3, <2>6, <2>7, <3>1, <3>2, <3>3 DEF ServerInv, StoreOk
  <2>9. ClientOk(c, clients[c])'
    <3>1. CASE clients[c].stage = "initiating"
      <4>1. clients'[c] = k
        BY <2>6, <3>1
      <4>2. k.setup \notin {"other address", "other CI"}
        BY <1>2, <2>2, <2>3, <2>4, <3>1 DEF RequestOk
      <4>3. tx \in ever' /\ rss'[tx].challenge = k.challenge
        BY <2>2, <2>4, <2>5, <2>7
      <4> QED BY <2>3, <2>4, <3>1, <4>1, <4>2, <4>3 DEF ClientOk, Begun
    <3>2. CASE clients[c].stage # "initiating"
      <4>1. clients'[c] = clients[c] /\ clients[c].stage = "timed out"
        BY <2>2, <2>3, <2>6, <3>2 DEF RequestOk
      <4>2. clients[c].tx # "none" => clients[c].tx # tx /\ clients[c].tx \in ever'
        BY <2>2, <2>3 DEF ClientOk
      <4> QED BY <2>3, <2>7, <4>1, <4>2 DEF ClientOk, Begun
    <3> QED BY <3>1, <3>2
  <2>10. SessionOk(tx, rss[tx])'
    BY <2>5, <2>7 DEF SessionOk
  <2>11. ASSUME NEW q \in requests', q.from = c PROVE clients'[c] = clients[c]
    BY <2>2, <2>6, <2>11, OnlyRequest
  <2>12. /\ DOMAIN rss' \subseteq DOMAIN rss \cup {tx} /\ ever \subseteq ever' /\ tx \notin ever
         /\ requests' \subseteq requests
         /\ clients'[c].mid = clients[c].mid /\ clients'[c].setup = clients[c].setup
    BY <2>2, <2>4, <2>6, <2>7
  <2>13. clients'[c].tx = clients[c].tx \/ (clients[c].tx = "none" /\ clients'[c].tx \notin ever)
    BY <2>2, <2>3, <2>4, <2>6 DEF ClientOk
  <2>14. \A d \in Clients : clients[d].tx # tx
    BY <2>2, <2>3 DEF ServerInv, ClientOk
  <2> QED BY <2>6, <2>7, <2>8, <2>9, <2>10, <2>11, <2>12, <2>13, <2>14, StoreStep
<1> QED BY <1>1, <1>2

LEMMA AuthenticateClientKeeps ==
  ASSUME ServerInv, NEW r \in requests, requests' = requests \ {r}, UNCHANGED upp_dir,
         r.api = "authenticateClient", Server!AuthenticateClient(r)
  PROVE  ServerInv'
<1>1. PICK c, tx : c = r.from /\ tx = r.tx
  OBVIOUS
<1>2. /\ c \in Clients /\ DOMAIN clients[c] = ClientFields /\ ClientOk(c, clients[c])
      /\ DOMAIN clients = Clients /\ DOMAIN rss \subseteq ever /\ clients[c].tx = tx /\ tx # "none"
      /\ clients[c].stage \in {"authenticating", "timed out"}
      /\ r.setup = clients[c].setup /\ r.challenge = clients[c].challenge /\ r.mid = clients[c].mid
  BY <1>1 DEF ServerInv, StoreOk, RequestOk
<1>3. r.mid \in MatchingIds /\ ProfileOk(upp_dir[r.mid]) /\ MaxChanges \in Nat
  BY <1>2, ServerAssumption DEF ServerInv, ClientOk
<1>4. CASE ~(Server!Known(r.tx) /\ Server!Authenticates(rss[r.tx], r))
  <2>1. Server!Failed(r, "authenticating")
    BY <1>4 DEF Server!AuthenticateClient
  <2>2. ASSUME clients[c].setup = "good"
        PROVE  clients[c].tx \in ever \ DOMAIN rss \/ upp_dir[clients[c].mid].missed
    <3>1. tx \in DOMAIN rss => r.challenge = rss[tx].challenge
      BY <1>2 DEF ClientOk
    <3>2. Server!ChainHolds(r) /\ Server!EidPermitted(r)
      BY <1>2, <2>2 DEF Server!ChainHolds, Server!EidPermitted
    <3>3. ~Server!Present(r.mid) => upp_dir[r.mid].missed
      BY <1>3 DEF Server!Present, ProfileOk
    <3> QED BY <1>1, <1>2, <1>4, <3>1, <3>2, <3>3 DEF Server!Known, Server!Authenticates, ClientOk
  <2> QED BY <1>1, <2>1, <2>2, FailedKeeps
<1>5. CASE Server!Known(r.tx) /\ Server!Authenticates(rss[r.tx], r)
  <2>1. PICK s, k :
          /\ s = [rss[tx] EXCEPT !.euicc_cert = c, !.matchingId = r.mid,
                    !.metadata = Server!Metadata(r.mid, upp_dir[r.mid].version), !.sig2 = fresh + 1]
          /\ k = [clients[c] EXCEPT !.stage = "authenticated", !.sig2 = s.sig2]
          /\ rss' = [rss EXCEPT ![tx] = s] /\ fresh' = fresh + 1 /\ ever' = ever
          /\ clients' = IF clients[c].stage = "authenticating" THEN [clients EXCEPT ![c] = k] ELSE clients
    BY <1>1, <1>5 DEF Server!AuthenticateClient, Server!Answered, Server!Pending
  <2>2. /\ tx \in DOMAIN rss /\ DOMAIN rss[tx] = SessionFields /\ SessionOk(tx, rss[tx])
        /\ r.setup \notin {"bad chain", "EID out of range"} /\ Server!Present(r.mid)
    BY <1>1, <1>5 DEF Server!Known, Server!Authenticates, Server!ChainHolds, Server!EidPermitted,
                      ServerInv, StoreOk
  <2>3. /\ s.euicc_cert = c /\ s.matchingId = r.mid /\ s.sig2 = fresh + 1 /\ DOMAIN s = SessionFields
        /\ s.metadata = Server!Metadata(r.mid, upp_dir[r.mid].version)
        /\ s.challenge = rss[tx].challenge /\ s.smdp_ot = rss[tx].smdp_ot
        /\ s.euicc_otpk = rss[tx].euicc_otpk
    BY <2>1, <2>2 DEF SessionFields
  <2>4. /\ k.stage = "authenticated" /\ k.sig2 = s.sig2 /\ k.tx = tx /\ k.challenge = clients[c].challenge
        /\ k.setup = clients[c].setup /\ k.mid = clients[c].mid /\ DOMAIN k = ClientFields
    BY <1>2, <2>1 DEF ClientFields
  <2>5. /\ \A d \in Clients : d # c => clients'[d] = clients[d]
        /\ clients'[c] = IF clients[c].stage = "authenticating" THEN k ELSE clients[c]
        /\ DOMAIN clients' = Clients
    <3>1. clients' = IF clients[c].stage = "authenticating" THEN [clients EXCEPT ![c] = k] ELSE clients
      BY <2>1
    <3>2. c \in Clients /\ DOMAIN clients = Clients
      BY <1>2
    <3> QED BY <3>1, <3>2, AnswerGiven
  <2>6. /\ DOMAIN rss' = DOMAIN rss /\ rss'[tx] = s
        /\ \A t \in DOMAIN rss' : t # tx => rss'[t] = rss[t]
    BY <2>1, <2>2
  <2>7. StoreOk'
    <3>1. \A d \in Clients : DOMAIN clients'[d] = ClientFields
      BY <1>2, <2>4, <2>5 DEF ServerInv, StoreOk
    <3>2. \A t \in DOMAIN rss' : DOMAIN rss'[t] = SessionFields
      BY <2>3, <2>6 DEF ServerInv, StoreOk
    <3>3. fresh' \in Nat
      BY <2>1 DEF ServerInv, StoreOk
    <3> QED BY <2>1, <2>5, <2>6, <3>1, <3>2, <3>3 DEF ServerInv, StoreOk
  <2>8. clients[c].setup = "good" /\ clients'[c].setup = "good"
    BY <1>2, <2>2, <2>4, <2>5 DEF ClientOk
  <2>9. ClientOk(c, clients[c])'
    <3>1. CASE clients[c].stage = "authenticating"
      <4>1. clients'[c] = k
        BY <2>5, <3>1
      <4>9. rss[tx].challenge = clients[c].challenge
        BY <1>2, <2>2 DEF ClientOk
      <4>2. rss'[tx].challenge = k.challenge /\ rss'[tx].euicc_cert = c /\ rss'[tx].sig2 = k.sig2
        BY <2>3, <2>4, <2>6, <4>9
      <4>3. tx \in ever' /\ k.setup = "good"
        BY <1>2, <2>1, <2>2, <2>4, <2>8
      <4> QED BY <1>2, <1>3, <2>4, <4>1, <4>2, <4>3 DEF ClientOk
    <3>2. CASE clients[c].stage # "authenticating"
      <4>1. clients'[c] = clients[c] /\ clients[c].stage = "timed out"
        BY <1>2, <2>5, <3>2
      <4>2. rss'[tx].challenge = clients[c].challenge /\ tx \in ever'
        BY <1>2, <2>1, <2>2, <2>3, <2>6 DEF ClientOk
      <4> QED BY <1>2, <4>1, <4>2 DEF ClientOk, Begun
    <3> QED BY <3>1, <3>2
  <2>10. SessionOk(tx, rss[tx])'
    <3>1. upp_dir[r.mid].version \in 1..(MaxChanges + 1)
          /\ upp_dir[r.mid].version <= upp_dir[r.mid].changes + 1
      <4>1. /\ upp_dir[r.mid].changes \in 0..MaxChanges
            /\ upp_dir[r.mid].version = upp_dir[r.mid].changes + 1
        <5>1. upp_dir[r.mid].version # 0
          <6>1. upp_dir[r.mid].version > 0
            BY <2>2 DEF Server!Present
          <6> QED BY <6>1
        <5> QED BY <1>3, <5>1 DEF ProfileOk
      <4> QED BY <1>3, <4>1
    <3>2. s.smdp_ot # 0 => s.euicc_otpk = c
      BY <1>2, <2>2, <2>3 DEF SessionOk, ServerInv, OwnSessions
    <3>3. clients'[c].tx = tx /\ clients'[c].mid = r.mid /\ c # "none"
      BY <1>2, <2>4, <2>5, ServerAssumption
    <3>4. upp_dir' = upp_dir
      OBVIOUS
    <3> QED BY <1>2, <1>3, <2>3, <2>6, <2>8, <3>1, <3>2, <3>3, <3>4 DEF SessionOk
  <2>11. ASSUME NEW q \in requests', q.from = c PROVE clients'[c] = clients[c]
    BY <1>1, <1>2, <2>5, <2>11, OnlyRequest
  <2>12. /\ DOMAIN rss' \subseteq DOMAIN rss \cup {tx} /\ ever \subseteq ever' /\ tx \in DOMAIN rss
         /\ requests' \subseteq requests
         /\ clients'[c].mid = clients[c].mid /\ clients'[c].setup = clients[c].setup
         /\ clients'[c].tx = clients[c].tx
    BY <1>2, <2>1, <2>2, <2>4, <2>5, <2>6
  <2>13. \A d \in Clients : d # c => clients[d].tx # tx
    BY <1>2 DEF ServerInv, OwnSessions
  <2> QED BY <2>5, <2>6, <2>7, <2>9, <2>10, <2>11, <2>12, <2>13, StoreStep
<1> QED BY <1>4, <1>5

LEMMA GetBoundProfilePackageKeeps ==
  ASSUME ServerInv, NEW r \in requests, requests' = requests \ {r}, UNCHANGED upp_dir,
         r.api = "getBoundProfilePackage", Server!GetBoundProfilePackage(r)
  PROVE  ServerInv'
<1>1. PICK c, tx : c = r.from /\ tx = r.tx
  OBVIOUS
<1>2. /\ c \in Clients /\ DOMAIN clients[c] = ClientFields /\ ClientOk(c, clients[c])
      /\ DOMAIN clients = Clients /\ DOMAIN rss \subseteq ever /\ clients[c].tx = tx /\ tx # "none"
      /\ clients[c].stage \in {"binding", "timed out"}
      /\ r.sig2 = clients[c].sig2 /\ r.otpk = c /\ c # "none"
  BY <1>1, ServerAssumption DEF ServerInv, StoreOk, RequestOk
<1>3. \A m \in MatchingIds : ~Server!Present(m) => upp_dir[m].missed
  BY DEF ServerInv, Server!Present, ProfileOk
<1>4. CASE ~(Server!Known(r.tx) /\ Server!SignedByIts(rss[r.tx], r) /\ Server!Present(rss[r.tx].matchingId))
  <2>1. Server!Failed(r, "binding")
    BY <1>4 DEF Server!GetBoundProfilePackage
  <2>2. ASSUME clients[c].stage = "binding", clients[c].tx \in DOMAIN rss
        PROVE  upp_dir[clients[c].mid].missed
    <3>1. rss[tx].euicc_cert = c /\ rss[tx].sig2 = r.sig2
      BY <1>2, <2>2 DEF ClientOk
    <3>2. rss[tx].matchingId = clients[c].mid /\ clients[c].mid \in MatchingIds
      BY <1>2, <2>2, <3>1 DEF ServerInv, SessionOk
    <3>3. Server!SignedByIts(rss[r.tx], r) /\ Server!Known(r.tx)
      BY <1>1, <1>2, <2>2, <3>1 DEF Server!SignedByIts, Server!Known
    <3> QED BY <1>1, <1>3, <1>4, <3>2, <3>3
  <2>3. clients[c].tx \in ever
    BY <1>2 DEF ClientOk
  <2> QED BY <1>1, <2>1, <2>2, <2>3, FailedKeeps
<1>5. CASE Server!Known(r.tx) /\ Server!SignedByIts(rss[r.tx], r) /\ Server!Present(rss[r.tx].matchingId)
  <2>1. PICK s :
          /\ s = [rss[r.tx] EXCEPT !.euicc_otpk = r.otpk, !.smdp_ot = fresh + 1]
          /\ rss' = [rss EXCEPT ![r.tx] = s] /\ fresh' = fresh + 1 /\ ever' = ever
          /\ clients' = Server!Answered(r, "binding", [clients[r.from] EXCEPT !.stage = "bound",
               !.bpp = [bpp |-> Server!Bind(s, Server!Der(s.matchingId, upp_dir[s.matchingId].version)),
                        smdp_otpk |-> s.smdp_ot]])
    BY <1>5 DEF Server!GetBoundProfilePackage
  <2>2. PICK mid, v : mid = s.matchingId /\ v = upp_dir[mid].version
    OBVIOUS
  <2>3. PICK b : b = [bpp |-> Server!Bind(s, Server!Der(mid, v)), smdp_otpk |-> s.smdp_ot]
    OBVIOUS
  <2>4. PICK k : k = [clients[c] EXCEPT !.stage = "bound", !.bpp = b]
    OBVIOUS
  <2>5. /\ s = [rss[tx] EXCEPT !.euicc_otpk = r.otpk, !.smdp_ot = fresh + 1]
        /\ mid = s.matchingId /\ v = upp_dir[mid].version
        /\ b = [bpp |-> Server!Bind(s, Server!Der(mid, v)), smdp_otpk |-> s.smdp_ot]
        /\ k = [clients[c] EXCEPT !.stage = "bound", !.bpp = b]
        /\ rss' = [rss EXCEPT ![tx] = s] /\ fresh' = fresh + 1 /\ ever' = ever
        /\ clients' = IF clients[c].stage = "binding" THEN [clients EXCEPT ![c] = k] ELSE clients
    BY <1>1, <2>1, <2>2, <2>3, <2>4 DEF Server!Answered, Server!Pending
  <2>6. /\ tx \in DOMAIN rss /\ DOMAIN rss[tx] = SessionFields /\ SessionOk(tx, rss[tx])
        /\ rss[tx].euicc_cert = c /\ Server!Present(rss[tx].matchingId)
    BY <1>1, <1>5 DEF Server!Known, Server!SignedByIts, ServerInv, StoreOk
  <2>7. /\ s.euicc_cert = c /\ s.matchingId = rss[tx].matchingId /\ s.sig2 = rss[tx].sig2
        /\ s.metadata = rss[tx].metadata /\ s.challenge = rss[tx].challenge
        /\ s.smdp_ot = fresh + 1 /\ s.euicc_otpk = c /\ DOMAIN s = SessionFields
    BY <1>2, <2>5, <2>6 DEF SessionFields
  <2>8. /\ k.stage = "bound" /\ k.sig2 = clients[c].sig2 /\ k.tx = tx
        /\ k.challenge = clients[c].challenge /\ k.bpp = b
        /\ k.setup = clients[c].setup /\ k.mid = clients[c].mid /\ DOMAIN k = ClientFields
    BY <1>2, <2>5 DEF ClientFields
  <2>9. /\ \A d \in Clients : d # c => clients'[d] = clients[d]
        /\ clients'[c] = IF clients[c].stage = "binding" THEN k ELSE clients[c]
        /\ DOMAIN clients' = Clients
    <3>1. clients' = IF clients[c].stage = "binding" THEN [clients EXCEPT ![c] = k] ELSE clients
      BY <2>5
    <3>2. c \in Clients /\ DOMAIN clients = Clients
      BY <1>2
    <3> QED BY <3>1, <3>2, AnswerGiven
  <2>10. /\ DOMAIN rss' = DOMAIN rss /\ rss'[tx] = s
        /\ \A t \in DOMAIN rss' : t # tx => rss'[t] = rss[t]
    BY <2>5, <2>6
  <2>11. StoreOk'
    <3>1. \A d \in Clients : DOMAIN clients'[d] = ClientFields
      BY <1>2, <2>8, <2>9 DEF ServerInv, StoreOk
    <3>2. \A t \in DOMAIN rss' : DOMAIN rss'[t] = SessionFields
      BY <2>7, <2>10 DEF ServerInv, StoreOk
    <3>3. fresh' \in Nat
      BY <2>5 DEF ServerInv, StoreOk
    <3> QED BY <2>5, <2>9, <2>10, <3>1, <3>2, <3>3 DEF ServerInv, StoreOk
  <2>12. /\ clients[c].setup = "good" /\ clients[c].mid = mid /\ mid \in MatchingIds
        /\ rss[tx].matchingId = mid
    BY <1>2, <2>5, <2>6, <2>7 DEF SessionOk
  <2>13. PICK w \in 1..(MaxChanges + 1) : s.metadata = Server!Metadata(mid, w) /\ w <= upp_dir[mid].changes + 1
    BY <1>2, <2>6, <2>7, <2>12 DEF SessionOk
  <2>14. v \in 1..(MaxChanges + 1) /\ v = upp_dir[mid].changes + 1
    <3>1. upp_dir[mid].version > 0
      BY <2>6, <2>12 DEF Server!Present
    <3>2. upp_dir[mid].version # 0
      BY <3>1
    <3>3. upp_dir[mid].changes \in 0..MaxChanges /\ upp_dir[mid].version = upp_dir[mid].changes + 1
      BY <2>12, <3>2 DEF ServerInv, ProfileOk
    <3>4. MaxChanges \in Nat /\ v = upp_dir[mid].version
      BY <2>5, ServerAssumption
    <3> QED BY <3>3, <3>4
  <2>15. PackageOk(c, k)'
    <3>1. fresh + 1 \in Nat
      BY DEF ServerInv, StoreOk
    <3>2. k.mid = mid /\ k.bpp.smdp_otpk = fresh + 1 /\ k.bpp.bpp = Server!Bind(s, Server!Der(mid, v))
      BY <2>5, <2>7, <2>8, <2>12
    <3>3. Server!Bind(s, Server!Der(mid, v)) =
            Server!Encode(Server!Protect(Server!Der(mid, v), Server!PppBsp), Server!Der(mid, v),
                          Server!Metadata(mid, w), Server!Secret(fresh + 1, c), Server!HostId, c)
      BY <2>7, <2>13 DEF Server!Bind
    <3>4. w <= v /\ v <= upp_dir'[mid].changes + 1
      BY <2>13, <2>14
    <3> QED BY <2>13, <2>14, <3>1, <3>2, <3>3, <3>4 DEF PackageOk
  <2>16. ClientOk(c, clients[c])'
    <3>1. rss[tx].challenge = clients[c].challenge /\ tx \in ever /\ clients[c].stage # "idle"
      BY <1>2, <2>6 DEF ClientOk
    <3>2. rss'[tx].challenge = clients[c].challenge /\ tx \in ever'
      BY <2>5, <2>7, <2>10, <3>1
    <3>3. CASE clients[c].stage = "binding"
      <4>1. clients'[c] = k
        BY <2>9, <3>3
      <4>2. PackageOk(c, clients[c])'
        BY <2>15, <4>1 DEF PackageOk
      <4> QED BY <1>2, <2>8, <2>12, <3>1, <3>2, <4>1, <4>2 DEF ClientOk
    <3>4. CASE clients[c].stage # "binding"
      <4>1. clients'[c] = clients[c] /\ clients[c].stage = "timed out"
        BY <1>2, <2>9, <3>4
      <4> QED BY <1>2, <2>12, <3>1, <3>2, <4>1 DEF ClientOk, Begun
    <3> QED BY <3>3, <3>4
  <2>17. SessionOk(tx, rss[tx])'
    <3>1. clients'[c].tx = tx /\ clients'[c].mid = mid /\ clients'[c].setup = "good"
      BY <1>2, <2>8, <2>9, <2>12
    <3>2. upp_dir' = upp_dir
      OBVIOUS
    <3> QED BY <1>2, <2>7, <2>10, <2>12, <2>13, <3>1, <3>2 DEF SessionOk
  <2>18. ASSUME NEW q \in requests', q.from = c PROVE clients'[c] = clients[c]
    BY <1>1, <1>2, <2>9, <2>18, OnlyRequest
  <2>19. /\ DOMAIN rss' \subseteq DOMAIN rss \cup {tx} /\ ever \subseteq ever' /\ tx \in DOMAIN rss
         /\ requests' \subseteq requests
         /\ clients'[c].mid = clients[c].mid /\ clients'[c].setup = clients[c].setup
         /\ clients'[c].tx = clients[c].tx
    BY <1>2, <2>5, <2>6, <2>8, <2>9, <2>10
  <2>20. \A d \in Clients : d # c => clients[d].tx # tx
    BY <1>2 DEF ServerInv, OwnSessions
  <2> QED BY <2>9, <2>10, <2>11, <2>16, <2>17, <2>18, <2>19, <2>20, StoreStep
<1> QED BY <1>4, <1>5

LEMMA HandleNotificationKeeps ==
  ASSUME ServerInv, NEW r \in requests, requests' = requests \ {r}, UNCHANGED upp_dir,
         r.api = "handleNotification", Server!HandleNotification(r)
  PROVE  ServerInv'
<1>1. PICK c, tx, k : c = r.from /\ tx = Server!Lower(r.tx) /\ k = [clients[c] EXCEPT !.stage = "notified"]
  OBVIOUS
<1>2. /\ rss' = IF tx \in DOMAIN rss THEN [t \in DOMAIN rss \ {tx} |-> rss[t]] ELSE rss
      /\ clients' = IF clients[c].stage = "notifying" THEN [clients EXCEPT ![c] = k] ELSE clients
      /\ ever' = ever /\ fresh' = fresh
  BY <1>1 DEF Server!HandleNotification, Server!Known, Server!Forgotten, Server!Answered, Server!Pending
<1>3. /\ c \in Clients /\ DOMAIN clients[c] = ClientFields /\ ClientOk(c, clients[c])
      /\ DOMAIN clients = Clients /\ clients[c].stage \in {"notifying", "timed out"}
  BY <1>1 DEF ServerInv, StoreOk, RequestOk
<1>4. /\ k.stage = "notified" /\ k.tx = clients[c].tx /\ k.challenge = clients[c].challenge
      /\ k.setup = clients[c].setup /\ k.mid = clients[c].mid /\ DOMAIN k = ClientFields
      /\ k.upp = clients[c].upp /\ k.metadata = clients[c].metadata
  BY <1>1, <1>3 DEF ClientFields
<1>5. /\ \A d \in Clients : d # c => clients'[d] = clients[d]
      /\ clients'[c] = IF clients[c].stage = "notifying" THEN k ELSE clients[c]
      /\ DOMAIN clients' = Clients
  <2>1. clients' = IF clients[c].stage = "notifying" THEN [clients EXCEPT ![c] = k] ELSE clients
    BY <1>2
  <2>2. c \in Clients /\ DOMAIN clients = Clients
    BY <1>3
  <2> QED BY <2>1, <2>2, AnswerGiven
<1>6. tx \notin DOMAIN rss' /\ DOMAIN rss' \subseteq DOMAIN rss /\ \A t \in DOMAIN rss' : rss'[t] = rss[t]
  BY <1>2
<1>7. StoreOk'
  <2>1. \A d \in Clients : DOMAIN clients'[d] = ClientFields
    BY <1>3, <1>4, <1>5 DEF ServerInv, StoreOk
  <2> QED BY <1>2, <1>5, <1>6, <2>1 DEF ServerInv, StoreOk
<1>8. ClientOk(c, clients[c])'
  <2>1. clients[c].tx \in DOMAIN rss' => rss'[clients[c].tx].challenge = rss[clients[c].tx].challenge
    BY <1>6
  <2>2. CASE clients[c].stage = "notifying"
    <3>1. clients'[c] = k
      BY <1>5, <2>2
    <3>2. FiledOk(k)'
      BY <1>3, <1>4, <2>2 DEF ClientOk, FiledOk
    <3> QED BY <1>2, <1>3, <1>4, <1>6, <2>1, <2>2, <3>1, <3>2 DEF ClientOk, Begun
  <2>3. CASE clients[c].stage = "timed out"
    <3>1. clients'[c] = clients[c]
      BY <1>5, <2>3
    <3> QED BY <1>2, <1>3, <1>6, <2>1, <2>3, <3>1 DEF ClientOk, Begun
  <2> QED BY <1>3, <2>2, <2>3
<1>9. ASSUME NEW q \in requests', q.from = c PROVE clients'[c] = clients[c]
  BY <1>1, <1>3, <1>5, <1>9, OnlyRequest
<1>10. /\ DOMAIN rss' \subseteq DOMAIN rss \cup {tx}
       /\ ever \subseteq ever' /\ requests' \subseteq requests
       /\ clients'[c].mid = clients[c].mid /\ clients'[c].setup = clients[c].setup
       /\ clients'[c].tx = clients[c].tx
  BY <1>2, <1>4, <1>5, <1>6
<1>11. \A d \in Clients : d # c => clients'[d] = clients[d] /\ (tx \in DOMAIN rss' => clients[d].tx # tx)
  BY <1>5, <1>6
<1> QED BY <1>6, <1>7, <1>8, <1>9, <1>10, <1>11, StoreStep

LEMMA HandleKeeps ==
  ASSUME ServerInv, NEW r, Server!Handle(r)
  PROVE  ServerInv'
<1>1. r \in requests /\ requests' = requests \ {r} /\ UNCHANGED upp_dir
  BY DEF Server!Handle
<1>2. \/ r.api = "initiateAuthentication" /\ Server!InitiateAuthentication(r)
      \/ r.api = "authenticateClient" /\ Server!AuthenticateClient(r)
      \/ r.api = "getBoundProfilePackage" /\ Server!GetBoundProfilePackage(r)
      \/ r.api = "handleNotification" /\ Server!HandleNotification(r)
  BY DEF Server!Handle
<1> QED BY <1>1, <1>2, InitiateAuthenticationKeeps, AuthenticateClientKeeps,
            GetBoundProfilePackageKeeps, HandleNotificationKeeps

LEMMA CancelSessionKeeps ==
  ASSUME ServerInv, NEW tx, Server!CancelSession(tx)
  PROVE  ServerInv'
<1>1. /\ rss' = [t \in DOMAIN rss \ {tx} |-> rss[t]]
      /\ UNCHANGED <<ever, upp_dir, clients, requests, fresh>>
  BY DEF Server!CancelSession, Server!Forgotten
<1>2. tx \notin DOMAIN rss' /\ DOMAIN rss' \subseteq DOMAIN rss /\ \A t \in DOMAIN rss' : rss'[t] = rss[t]
  BY <1>1
<1>3. StoreOk'
  BY <1>1, <1>2 DEF ServerInv, StoreOk
<1>4. PICK c : c \notin Clients
  BY ServerAssumption
<1>5. /\ DOMAIN rss' \subseteq DOMAIN rss \cup {tx} /\ ever \subseteq ever' /\ requests' \subseteq requests
      /\ \A d \in Clients : d # c => clients'[d] = clients[d] /\ (tx \in DOMAIN rss' => clients[d].tx # tx)
  BY <1>1, <1>2
<1>6. \A s \in requests' : s.from = c => clients'[c] = clients[c]
  BY <1>1
<1>7. UNCHANGED upp_dir
  BY <1>1
<1> QED BY <1>2, <1>3, <1>4, <1>5, <1>6, <1>7, StoreStep

\* What holds of the clients stays so when no more than the requests change.
LEMMA ClientsStay ==
  ASSUME ServerInv, UNCHANGED <<rss, ever, upp_dir, clients>>
  PROVE  \A c \in Clients : ClientOk(c, clients[c])'
<1> SUFFICES ASSUME NEW c \in Clients PROVE ClientOk(c, clients[c])'
  OBVIOUS
<1>1. ClientOk(c, clients'[c])
  BY DEF ServerInv
<1> QED BY <1>1 DEF ClientOk, PackageOk, FiledOk

LEMMA RestartKeeps ==
  ASSUME ServerInv, Server!Restart
  PROVE  ServerInv'
<1>1. requests' = {} /\ UNCHANGED <<rss, ever, upp_dir, clients, fresh>>
  BY DEF Server!Restart
<1>2. StoreOk' /\ SentOnce' /\ OwnSessions'
  BY <1>1 DEF ServerInv, StoreOk, SentOnce, OwnSessions
<1>3. \A m \in MatchingIds : ProfileOk(upp_dir[m])'
  BY <1>1 DEF ServerInv, ProfileOk
<1>4. \A c \in Clients : ClientOk(c, clients[c])'
  BY <1>1, ClientsStay
<1>5. \A t \in DOMAIN rss' : SessionOk(t, rss[t])'
  BY <1>1 DEF ServerInv, SessionOk
<1> QED BY <1>1, <1>2, <1>3, <1>4, <1>5 DEF ServerInv

LEMMA ChangeProfileKeeps ==
  ASSUME ServerInv, NEW m \in MatchingIds, NEW removed \in BOOLEAN, Server!ChangeProfile(m, removed)
  PROVE  ServerInv'
<1>1. PICK p :
        /\ p = [version |-> IF removed THEN 0 ELSE upp_dir[m].changes + 2,
                changes |-> upp_dir[m].changes + 1, missed |-> upp_dir[m].missed \/ removed]
        /\ upp_dir' = [upp_dir EXCEPT ![m] = p] /\ upp_dir[m].changes < MaxChanges
        /\ UNCHANGED <<rss, ever, clients, requests, fresh>>
  BY DEF Server!ChangeProfile, ServerInv, StoreOk
<1>2. ProfileOk(upp_dir[m]) /\ DOMAIN upp_dir = MatchingIds /\ MaxChanges \in Nat
  BY ServerAssumption DEF ServerInv, StoreOk
<1>3. /\ p.changes = upp_dir[m].changes + 1 /\ p.missed = (upp_dir[m].missed \/ removed)
      /\ p.version = IF removed THEN 0 ELSE p.changes + 1
      /\ DOMAIN p = {"version", "changes", "missed"}
  BY <1>1, <1>2 DEF ProfileOk
<1>4. ProfileOk(p)
  BY <1>1, <1>2, <1>3 DEF ProfileOk
<1>5. upp_dir'[m] = p /\ DOMAIN upp_dir' = MatchingIds /\ \A n \in MatchingIds : n # m => upp_dir'[n] = upp_dir[n]
  BY <1>1, <1>2
<1>6. ASSUME NEW n \in MatchingIds
      PROVE  /\ ProfileOk(upp_dir[n])'
             /\ upp_dir[n].missed => upp_dir'[n].missed
             /\ upp_dir[n].changes \in Int /\ upp_dir'[n].changes \in Int
             /\ upp_dir[n].changes <= upp_dir'[n].changes
  BY <1>2, <1>3, <1>4, <1>5 DEF ServerInv, ProfileOk
<1>7. StoreOk' /\ SentOnce' /\ OwnSessions'
  BY <1>1, <1>5 DEF ServerInv, StoreOk, SentOnce, OwnSessions
<1>8. \A r \in requests' : RequestOk(r)'
  BY <1>1 DEF ServerInv, RequestOk
<1>9. ASSUME NEW c \in Clients PROVE ClientOk(c, clients[c])'
  <2>1. ClientOk(c, clients[c]) /\ clients'[c] = clients[c]
    BY <1>1 DEF ServerInv
  <2>2. clients[c].stage = "bound" => PackageOk(c, clients[c])'
    <3> SUFFICES ASSUME clients[c].stage = "bound" PROVE PackageOk(c, clients[c])'
      OBVIOUS
    <3>1. clients[c].mid \in MatchingIds /\ PackageOk(c, clients[c])
      BY <2>1 DEF ClientOk
    <3>2. \A v \in 1..(MaxChanges + 1) :
            v <= upp_dir[clients[c].mid].changes + 1 => v <= upp_dir'[clients[c].mid].changes + 1
      BY <1>6, <3>1
    <3> QED BY <2>1, <3>1, <3>2 DEF PackageOk
  <2>3. clients[c].stage = "refused" /\ upp_dir[clients[c].mid].missed => upp_dir'[clients[c].mid].missed
    BY <1>6, <2>1 DEF ClientOk
  <2>4. clients[c].stage \in {"stored", "notifying", "notified"} => FiledOk(clients[c])'
    <3> SUFFICES ASSUME clients[c].stage \in {"stored", "notifying", "notified"} PROVE FiledOk(clients[c])'
      OBVIOUS
    <3>1. clients[c].mid \in MatchingIds /\ FiledOk(clients[c])
      BY <2>1 DEF ClientOk
    <3>2. \A v \in 1..(MaxChanges + 1) :
            v <= upp_dir[clients[c].mid].changes + 1 => v <= upp_dir'[clients[c].mid].changes + 1
      BY <1>6, <3>1
    <3> QED BY <2>1, <3>1, <3>2 DEF FiledOk
  <2> QED BY <1>1, <2>1, <2>2, <2>3, <2>4 DEF ClientOk
<1>10. ASSUME NEW t \in DOMAIN rss' PROVE SessionOk(t, rss[t])'
  <2>1. SessionOk(t, rss[t]) /\ t \in DOMAIN rss /\ rss' = rss /\ clients' = clients
    BY <1>1 DEF ServerInv
  <2>2. rss[t].euicc_cert # "none" => rss[t].matchingId \in MatchingIds
    BY <2>1 DEF SessionOk
  <2>3. \A w \in 1..(MaxChanges + 1) :
          rss[t].euicc_cert # "none" /\ w <= upp_dir[rss[t].matchingId].changes + 1 =>
            w <= upp_dir'[rss[t].matchingId].changes + 1
    BY <1>6, <2>2
  <2> QED BY <2>1, <2>2, <2>3 DEF SessionOk
<1> QED BY <1>6, <1>7, <1>8, <1>9, <1>10 DEF ServerInv

LEMMA ServerKeeps ==
  ASSUME ServerInv, [Server!SmdppNext]_serverVars
  PROVE  ServerInv'
<1>1. CASE UNCHANGED serverVars
  <2>1. UNCHANGED <<rss, ever, upp_dir, clients, requests, fresh>>
    BY <1>1 DEF serverVars
  <2>2. StoreOk' /\ SentOnce' /\ OwnSessions'
    BY <2>1 DEF ServerInv, StoreOk, SentOnce, OwnSessions
  <2>3. \A m \in MatchingIds : ProfileOk(upp_dir[m])'
    BY <2>1 DEF ServerInv, ProfileOk
  <2>4. \A r \in requests' : RequestOk(r)'
    BY <2>1 DEF ServerInv, RequestOk
  <2>5. \A c \in Clients : ClientOk(c, clients[c])'
    BY <2>1, ClientsStay
  <2>6. \A t \in DOMAIN rss' : SessionOk(t, rss[t])'
    BY <2>1 DEF ServerInv, SessionOk
  <2> QED BY <2>2, <2>3, <2>4, <2>5, <2>6 DEF ServerInv
<1>2. CASE Server!SmdppNext
  <2>1. ASSUME NEW c \in Clients, NEW mid \in MatchingIds, NEW setup \in Setups,
               Server!StartDownload(c, mid, setup)
        PROVE  ServerInv'
    BY <2>1, StartDownloadKeeps
  <2>2. ASSUME NEW c \in Clients,
               \/ Server!Authenticate(c) \/ Server!AskPackage(c) \/ Server!StoreProfile(c)
               \/ Server!NotifyInstalled(c) \/ Server!TimeOut(c)
        PROVE  ServerInv'
    BY <2>2, AuthenticateKeeps, AskPackageKeeps, StoreProfileKeeps, NotifyInstalledKeeps, TimeOutKeeps
  <2>3. ASSUME NEW r \in requests, Server!Handle(r) PROVE ServerInv'
    BY <2>3, HandleKeeps
  <2>4. ASSUME NEW tx \in Transactions, Server!CancelSession(tx) PROVE ServerInv'
    BY <2>4, CancelSessionKeeps
  <2>5. ASSUME NEW m \in Changing, NEW removed \in BOOLEAN, Server!ChangeProfile(m, removed) PROVE ServerInv'
    BY <2>5, ServerAssumption, ChangeProfileKeeps
  <2> QED BY <1>2, <2>1, <2>2, <2>3, <2>4, <2>5, RestartKeeps DEF Server!SmdppNext
<1> QED BY <1>1, <1>2

\* No segment of a sealed text can be left out, but the last, or change its place with the one
\* before it.
LEMMA PlacesGuarded ==
  ASSUME NEW S, NEW text \in Seq(S), NEW tag, NEW tlvs,
         tlvs = Server!EncryptAndMac(Server!PppBsp, tag, text).tlvs,
         NEW i \in DOMAIN tlvs
  PROVE  /\ i < Len(tlvs) => ~Server!DemacAndDecrypt(Server!PppBsp, Server!RemoveAt(tlvs, i)).ok
         /\ i > 1 => ~Server!DemacAndDecrypt(Server!PppBsp,
                        [tlvs EXCEPT ![i] = tlvs[i - 1], ![i - 1] = tlvs[i]]).ok
<1>1. PICK n : n = Len(tlvs)
  OBVIOUS
<1>2. /\ n \in Nat /\ DOMAIN tlvs = 1..n
      /\ \A j \in 1..n : tlvs[j].segment.body.nr = Server!PppBsp.block_nr + j - 1
  BY <1>1, EncipheredSegments
<1>3. PICK T : tlvs \in Seq(T)
  BY EncipheredSegments
<1>4. ASSUME i < n PROVE ~Server!DemacAndDecrypt(Server!PppBsp, Server!RemoveAt(tlvs, i)).ok
  <2>1. PICK rest : rest = SubSeq(tlvs, 1, i - 1) \o SubSeq(tlvs, i + 1, n)
    OBVIOUS
  <2>2. Server!RemoveAt(tlvs, i) = rest
    BY <1>1, <2>1 DEF Server!RemoveAt
  <2>3. i \in DOMAIN rest /\ rest[i] = tlvs[i + 1] /\ i + 1 \in 1..n
    <3>1. PICK front, back : front = SubSeq(tlvs, 1, i - 1) /\ back = SubSeq(tlvs, i + 1, n)
      OBVIOUS
    <3>2. i \in 1..n /\ n = Len(tlvs) /\ \A j \in 1..n : tlvs[j] \in T
      BY <1>1, <1>2, <1>3
    <3>3. front \in Seq(T) /\ Len(front) = i - 1
      <4>1. \A j \in 1..(i - 1) : tlvs[j] \in T
        BY <1>2, <3>2
      <4> QED BY <1>2, <3>1, <3>2, <4>1, SubSeqProperties
    <3>4. back \in Seq(T) /\ Len(back) = n - i /\ back[1] = tlvs[i + 1]
      <4>1. \A j \in (i + 1)..n : tlvs[j] \in T
        BY <1>2, <3>2
      <4> QED BY <1>2, <1>4, <3>1, <3>2, <4>1, SubSeqProperties
    <3>5. i \in 1..Len(rest) /\ rest[i] = back[1] /\ rest \in Seq(T)
      <4>1. rest = front \o back
        BY <2>1, <3>1
      <4> QED BY <1>2, <1>4, <3>2, <3>3, <3>4, <4>1, ConcatProperties
    <3> QED BY <1>2, <1>4, <3>2, <3>4, <3>5
  <2>4. i \in Nat /\ i + 1 \in Nat /\ rest[i].segment.body.nr = Server!PppBsp.block_nr + (i + 1) - 1
    BY <1>2, <2>3
  <2> QED BY <2>2, <2>3, <2>4, OutOfPlace
<1>5. ASSUME i > 1
      PROVE  ~Server!DemacAndDecrypt(Server!PppBsp, [tlvs EXCEPT ![i] = tlvs[i - 1], ![i - 1] = tlvs[i]]).ok
  <2>1. PICK other : other = [tlvs EXCEPT ![i] = tlvs[i - 1], ![i - 1] = tlvs[i]]
    OBVIOUS
  <2>2. i \in DOMAIN other /\ other[i] = tlvs[i - 1] /\ i - 1 \in 1..n
    BY <1>2, <1>5, <2>1
  <2>3. i \in Nat /\ i - 1 \in Nat /\ other[i].segment.body.nr = Server!PppBsp.block_nr + (i - 1) - 1
    BY <1>2, <2>2
  <2> QED BY <2>1, <2>2, <2>3, OutOfPlace
<1> QED BY <1>1, <1>4, <1>5

\* What a client is sent.
LEMMA PackageOf ==
  ASSUME ServerInv, NEW c \in Clients, clients[c].stage = "bound"
  PROVE  \E S, T : \E upp \in Seq(S), metadata \in Seq(T) : \E secret :
           /\ secret = Server!Secret(clients[c].bpp.smdp_otpk, c)
           /\ clients[c].bpp.bpp = Server!Encode(Server!Protect(upp, Server!PppBsp), upp, metadata, secret,
                                                 Server!HostId, c)
<1>1. clients[c].mid \in MatchingIds /\ PackageOk(c, clients[c])
  BY DEF ServerInv, ClientOk
<1>2. PICK v, w, n, upp, metadata, secret :
        /\ v \in 1..(MaxChanges + 1) /\ w \in 1..(MaxChanges + 1) /\ n \in Nat
        /\ upp = Server!Der(clients[c].mid, v) /\ metadata = Server!Metadata(clients[c].mid, w)
        /\ clients[c].bpp.smdp_otpk = n /\ secret = Server!Secret(n, c)
        /\ clients[c].bpp.bpp = Server!Encode(Server!Protect(upp, Server!PppBsp), upp, metadata, secret,
                                              Server!HostId, c)
  BY <1>1 DEF PackageOk
<1>3. PICK S : upp \in Seq(S)
  BY <1>1, <1>2, ProfileIsText
<1>4. PICK T : metadata \in Seq(T)
  BY <1>2, MetadataIsText
<1> QED BY <1>2, <1>3, <1>4

LEMMA ServerGives == ServerInv => Server!DownloadTrusted
<1> SUFFICES ASSUME ServerInv PROVE Server!DownloadTrusted
  OBVIOUS
<1>1. Server!SessionOfItsClient
  BY DEF ServerInv, SessionOk, Server!SessionOfItsClient
<1>2. Server!RefusedForCause
  BY DEF ServerInv, ClientOk, Server!RefusedForCause
<1>3. Server!ProfileAsAsked
  <2> SUFFICES ASSUME NEW c \in Clients, clients[c].stage \in {"stored", "notifying", "notified"}
               PROVE  \E v, w \in 1..(MaxChanges + 1) :
                        /\ clients[c].upp = Server!Der(clients[c].mid, v)
                        /\ clients[c].metadata = Server!Metadata(clients[c].mid, w)
                        /\ w <= v
                        /\ upp_dir[clients[c].mid].changes < w => v = w
    BY DEF Server!ProfileAsAsked
  <2>1. clients[c].mid \in MatchingIds /\ FiledOk(clients[c])
    BY DEF ServerInv, ClientOk
  <2>2. upp_dir[clients[c].mid].changes \in 0..MaxChanges
    BY <2>1 DEF ServerInv, ProfileOk
  <2>3. PICK v \in 1..(MaxChanges + 1), w \in 1..(MaxChanges + 1), n \in 0..MaxChanges :
          /\ n = upp_dir[clients[c].mid].changes
          /\ clients[c].upp = Server!Der(clients[c].mid, v)
          /\ clients[c].metadata = Server!Metadata(clients[c].mid, w)
          /\ w <= v /\ v <= n + 1
    BY <2>1, <2>2 DEF FiledOk
  <2>4. n < w => v = w
    <3>1. MaxChanges \in Nat /\ n \in 0..MaxChanges /\ w <= v /\ v <= n + 1
      BY <2>2, <2>3, ServerAssumption
    <3> QED BY <3>1
  <2> QED BY <2>3, <2>4
<1>4. Server!OpensForItsClient
  <2> SUFFICES ASSUME NEW c \in Clients
               PROVE  /\ clients[c].stage # "undecodable"
                      /\ clients[c].stage = "bound" => \A d \in Clients \ {c} :
                           ~Server!Decode(clients[c].bpp.bpp, Server!Secret(clients[c].bpp.smdp_otpk, d), d).ok
    BY DEF Server!OpensForItsClient
  <2>1. clients[c].stage # "undecodable"
    BY DEF ServerInv, ClientOk
  <2>2. ASSUME clients[c].stage = "bound", NEW d \in Clients \ {c}
        PROVE  ~Server!Decode(clients[c].bpp.bpp, Server!Secret(clients[c].bpp.smdp_otpk, d), d).ok
    <3>1. PICK S, T : \E upp \in Seq(S), metadata \in Seq(T) : \E secret :
             clients[c].bpp.bpp = Server!Encode(Server!Protect(upp, Server!PppBsp), upp, metadata, secret,
                                                Server!HostId, c)
      BY <2>2, PackageOf
    <3>2. d # c
      OBVIOUS
    <3>3. PICK k, other : k = clients[c].bpp.bpp /\ other = Server!Secret(clients[c].bpp.smdp_otpk, d)
      OBVIOUS
    <3>4. ~Server!Decode(k, other, d).ok
      BY <3>1, <3>2, <3>3, PackageClosed
    <3> QED BY <3>3, <3>4
  <2> QED BY <2>1, <2>2
<1>5. Server!SegmentsGuarded
  <2> SUFFICES ASSUME NEW c \in Clients, clients[c].stage = "bound", NEW k, k = clients[c].bpp.bpp,
                      NEW secret, secret = Server!Secret(clients[c].bpp.smdp_otpk, c),
                      NEW i \in DOMAIN k.upp
               PROVE  /\ i < Len(k.upp) =>
                           ~Server!Decode([k EXCEPT !.upp = Server!RemoveAt(k.upp, i)], secret, c).ok
                      /\ i > 1 => ~Server!Decode([k EXCEPT !.upp =
                           [k.upp EXCEPT ![i] = k.upp[i - 1], ![i - 1] = k.upp[i]]], secret, c).ok
    BY DEF Server!SegmentsGuarded
  <2>1. PICK S, T : \E upp \in Seq(S), metadata \in Seq(T) :
          k = Server!Encode(Server!Protect(upp, Server!PppBsp), upp, metadata, secret, Server!HostId, c)
    BY PackageOf
  <2>2. PICK upp \in Seq(S), metadata \in Seq(T), hostId \in {Server!HostId} :
          k = Server!Encode(Server!Protect(upp, Server!PppBsp), upp, metadata, secret, hostId, c)
    BY <2>1
  <2>3. PICK tlvs : tlvs = k.upp
    OBVIOUS
  <2>4. tlvs = Server!EncryptAndMac(Server!PppBsp, "86", upp).tlvs
    BY <2>2, <2>3, PackageParts
  <2>5. ASSUME NEW others, ~Server!DemacAndDecrypt(Server!PppBsp, others).ok
        PROVE  ~Server!Decode([k EXCEPT !.upp = others], secret, c).ok
    BY <2>2, <2>5, PackageGuarded
  <2>6. /\ i < Len(tlvs) => ~Server!DemacAndDecrypt(Server!PppBsp, Server!RemoveAt(tlvs, i)).ok
        /\ i > 1 => ~Server!DemacAndDecrypt(Server!PppBsp,
                       [tlvs EXCEPT ![i] = tlvs[i - 1], ![i - 1] = tlvs[i]]).ok
    BY <2>3, <2>4, PlacesGuarded
  <2> QED BY <2>3, <2>5, <2>6
<1> QED BY <1>1, <1>2, <1>3, <1>4, <1>5 DEF Server!DownloadTrusted

=============================================================================
