------------------------------ MODULE CardData ------------------------------
(***************************************************************************)
(* The parsers of what the card returns: FCP templates, EF.DIR records,    *)
(* ICCID, IMSI and MSISDN, and the class bytes of logical channels         *)
(* (src/src/at_modem.py and src/src/app.py).  Each is run on encodings     *)
(* made by the rules of the cards' specifications, which are written here  *)
(* as reference definitions.  Bytes are numbers, indexed from 1.           *)
(***************************************************************************)
EXTENDS Integers, Sequences, SequencesExt

VARIABLES
  input,   \* what is parsed
  parsed   \* what comes out, once it has

dataVars == <<input, parsed>>

Byte == 0..255
ByteAt(b, i) == IF i \in DOMAIN b THEN b[i] ELSE -1
\* Python's b[i:j] in positions counted from 1: cut off at the end.
Slice(b, from, n) == SubSeq(b, from, IF from + n - 1 <= Len(b) THEN from + n - 1 ELSE Len(b))

\* The walk through tag, length and value that the parsers share: from one
\* position to before another, a value being cut off where the bytes end.
Items(b, from, end) ==
  LET walk[i \in Nat] ==
        IF i >= end \/ i >= Len(b) THEN <<>>
        ELSE <<[tag |-> b[i], value |-> Slice(b, i + 2, b[i + 1])]>> \o walk[i + 2 + b[i + 1]]
  IN walk[from]

FirstOf(items, tag) ==
  LET found == SelectSeq(items, LAMBDA x : x.tag = tag)
  IN IF found = <<>> THEN <<>> ELSE found[1].value
LastOf(items, tag) == FirstOf(Reverse(items), tag)

-----------------------------------------------------------------------------
\* parse_fcp.

Number(bytes) == FoldLeft(LAMBDA n, byte : 256 * n + byte, 0, bytes)

\* The file descriptor byte: its middle bits, then its last three.
StructureByLastBits(fd) ==
  CASE fd % 8 = 1 -> "transparent" [] fd % 8 = 2 -> "linear_fixed"
    [] fd % 8 = 6 -> "cyclic" [] OTHER -> "none"
Structure(fd) == IF (fd \div 8) % 8 = 7 THEN "ber_tlv" ELSE StructureByLastBits(fd)

Meta(structure, size, len, num) ==
  [structure |-> structure, file_size |-> size, record_len |-> len, num_records |-> num]
NoMeta == Meta("none", 0, 0, 0)

\* A later data object overrides an earlier one; record fields come with the long descriptor.
ParseFcpTlv(b) ==
  LET items == Items(b, 1, Len(b))
      fd == LastOf(items, 130)
      structure == IF Len(fd) < 2 THEN "none" ELSE Structure(fd[1])
      records == structure \in {"linear_fixed", "cyclic"} /\ Len(fd) >= 5
  IN Meta(structure, Number(LastOf(items, 128)),
          IF records THEN 256 * fd[3] + fd[4] ELSE 0, IF records THEN fd[5] ELSE 0)

\* The format of TS 51.011, told by its type byte.
OldFormat(b) == Len(b) >= 14 /\ b[7] \in {1, 2, 4}
ParseOld(b) ==
  LET size == 256 * b[3] + b[4]
      structure == CASE b[7] = 4 \/ Len(b) < 15 -> "none"
                     [] b[14] = 0 -> "transparent" [] b[14] = 1 -> "linear_fixed"
                     [] b[14] = 3 -> "cyclic" [] OTHER -> "none"
      len == IF structure \in {"linear_fixed", "cyclic"} /\ Len(b) >= 16 THEN b[15] ELSE 0
  IN Meta(structure, size, len, IF len > 0 THEN size \div len ELSE 0)

\* The length of the template is taken from its second byte, long form or not.
ParseFcp(b) ==
  CASE Len(b) < 2 -> NoMeta
    [] OldFormat(b) -> ParseOld(b)
    [] OTHER -> IF b[1] = 98 THEN ParseFcpTlv(Slice(b, 3, b[2])) ELSE NoMeta

\* _extract_aid_from_fcp knows the long form.
ExtractAid(b) ==
  IF ByteAt(b, 1) # 98 THEN <<>>
  ELSE FirstOf(Items(b, IF b[2] > 128 THEN 4 ELSE 3, Len(b)), 132)

\* _parse_dir_record: an application template with the AID in it, then padding.
DirRecord(b) ==
  IF Len(b) < 4 \/ b[1] # 97 THEN <<>>
  ELSE FirstOf(Items(b, 3, 3 + b[2]), 79)

-----------------------------------------------------------------------------
\* Identities.  A hexadecimal digit is a number up to 15.

High(byte) == byte \div 16
Low(byte) == byte % 16
Digit(n) == IF n <= 9 THEN <<n>> ELSE <<>>
Swapped(bytes) == FlattenSeq([i \in DOMAIN bytes |-> Digit(Low(bytes[i])) \o Digit(High(bytes[i]))])

\* _decode_iccid drops the filler F and keeps everything else.
DecodeIccid(b) ==
  IF Len(b) < 2 THEN <<>>
  ELSE SelectSeq(FlattenSeq([i \in DOMAIN b |-> <<Low(b[i]), High(b[i])>>]), LAMBDA d : d # 15)

\* _decode_imsi: a length, the parity and the first digit in one byte, the rest swapped.
DecodeImsi(b) ==
  IF Len(b) < 2 \/ b[1] \notin 1..8 THEN <<>>
  ELSE <<High(b[2])>> \o Swapped(Slice(b, 3, b[1] - 1))

\* _decode_msisdn: the last 14 bytes of the record; the length counts the type byte.
MsisdnDigits(length) == length - 1
DecodeMsisdn(b) ==
  LET at == Len(b) - 13
      length == b[at]
      plus == (b[at + 1] \div 16) % 8 = 1
  IN IF Len(b) < 14 \/ length \notin 2..12 THEN [plus |-> FALSE, digits |-> <<>>]
     ELSE [plus |-> plus, digits |-> Swapped(Slice(b, at + 2, MsisdnDigits(length)))]

-----------------------------------------------------------------------------
\* Class bytes.

\* _cla_for_lchan.
ClassByte(ch, proprietary) ==
  IF ch <= 3 THEN (IF proprietary THEN 128 ELSE 0) + (ch % 4)
  ELSE (IF proprietary THEN 192 ELSE 64) + ((ch - 4) % 16)

\* The class of the GET RESPONSE that csim_send adds after 61xx.
GetResponseClass(cla) == IF (cla \div 64) % 2 = 1 THEN 64 + (cla % 16) ELSE cla % 4

\* lchan_nr_from_cla of pySim/runtime.py: how the other side counts.
LchanFromCla(cla) ==
  CASE cla \div 16 \in {0, 8, 10} -> cla % 4
    [] cla \div 16 \in {4, 6, 12, 14} /\ (cla \div 16) % 4 = 0 -> 4 + (cla % 16)
    [] OTHER -> -1

-----------------------------------------------------------------------------
\* BER-TLV objects, as the decoder and the page take them apart.

TagLength(b, from) == IF b[from] % 32 = 31 THEN 2 ELSE 1
LengthBytes(byte) == CASE byte = 129 -> 1 [] byte = 130 -> 2 [] OTHER -> 0

\* _strip_tlv: whatever follows the tag and the length.
StripTlv(b) ==
  IF Len(b) < 2 THEN b
  ELSE LET at == TagLength(b, 1) + 1
       IN SubSeq(b, at + 1 + LengthBytes(b[at]), Len(b))

\* parseTlvFromRaw: object after object, while two bytes are left.
TlvsOfRaw(b) ==
  LET at(i) == i + TagLength(b, i)
      start(i) == at(i) + 1 + LengthBytes(b[at(i)])
      length(i) == IF LengthBytes(b[at(i)]) = 0 THEN b[at(i)] % 128
                   ELSE Number(SubSeq(b, at(i) + 1, start(i) - 1))
      walk[i \in Nat] ==
        IF i >= Len(b) THEN <<>>
        ELSE <<[tag |-> SubSeq(b, i, at(i) - 1), value |-> Slice(b, start(i), length(i))]>>
             \o walk[start(i) + length(i)]
  IN walk[1]

-----------------------------------------------------------------------------
\* PLMNs, services and access classes, as the page's editors code them.

\* encodePlmn and decodePlmn, in half bytes.
EncodePlmn(p) ==
  <<p.mcc[2], p.mcc[1], IF Len(p.mnc) = 3 THEN p.mnc[3] ELSE 15, p.mcc[3], p.mnc[2], p.mnc[1]>>
DecodePlmn(h) ==
  [mcc |-> <<h[2], h[1], h[4]>>, mnc |-> <<h[6], h[5]>> \o (IF h[3] = 15 THEN <<>> ELSE <<h[3]>>)]

\* hexToBits and bitsToHex: the first service is the lowest bit of the first byte.
BitOf(byte, n) == (byte \div 2^n) % 2 = 1
BitsOf(b) == {n \in 1..(8 * Len(b)) : BitOf(b[(n - 1) \div 8 + 1], (n - 1) % 8)}
BytesOf(bits, length) ==
  [i \in 1..length |->
     FoldLeft(LAMBDA byte, k : byte + (IF 8 * (i - 1) + k + 1 \in bits THEN 2^k ELSE 0),
              0, <<0, 1, 2, 3, 4, 5, 6, 7>>)]

\* parseAccBits and accBitsToHex: one number of two bytes.
AccBits(b) == {i \in 0..15 : BitOf(256 * b[1] + b[2], i)}
AccBytes(bits) == BytesOf({i + (IF i >= 8 THEN -7 ELSE 9) : i \in bits}, 2)

-----------------------------------------------------------------------------
\* Which definition decodes a file.

\* _init walks the top level of the MF and all of the two applications: what is under a DF of
\* the MF has no definition of its own.  _find_ef takes the path's own, or the first of its name.
FindEf(path, tree) ==
  LET known == SelectSeq(tree, LAMBDA p : p[1] # "MF" \/ Len(p) = 2)
      named == SelectSeq(known, LAMBDA p : Last(p) = Last(path))
  IN IF \E i \in DOMAIN known : known[i] = path THEN path
     ELSE IF named = <<>> THEN <<>> ELSE named[1]

-----------------------------------------------------------------------------
\* Reference definitions: how a card codes these things.

Tlv(tag, value) == <<tag, Len(value)>> \o value
Template(tag, body) ==
  IF Len(body) < 128 THEN <<tag, Len(body)>> \o body ELSE <<tag, 129, Len(body)>> \o body
Two(n) == <<n \div 256, n % 256>>
Object(o) ==
  o.tag \o (CASE o.length < 128 -> <<o.length>> [] o.length < 256 -> <<129, o.length>>
              [] OTHER -> <<130>> \o Two(o.length)) \o [i \in 1..o.length |-> 7]
PlmnOf(p) ==
  <<p.mcc[2], p.mcc[1], IF Len(p.mnc) = 3 THEN p.mnc[3] ELSE 15, p.mcc[3], p.mnc[2], p.mnc[1]>>

\* An EF's FCP by TS 102 221; f.extra bytes of security attributes come before its size.
Descriptor(f) ==
  CASE f.structure = "transparent" -> <<65, 33>>
    [] f.structure = "ber_tlv" -> <<57, 33>>
    [] OTHER -> <<IF f.structure = "cyclic" THEN 70 ELSE 66, 33>>
                  \o Two(f.record_len) \o <<f.num_records>>
Fcp(f) ==
  Template(98, Tlv(130, Descriptor(f)) \o Tlv(131, <<111, 7>>) \o Tlv(138, <<5>>)
               \o Tlv(171, [i \in 1..f.extra |-> 128]) \o Tlv(128, Two(f.file_size)))
DfFcp(a, extra) ==
  Template(98, Tlv(130, <<120, 33>>) \o Tlv(132, a) \o Tlv(171, [i \in 1..extra |-> 128]))

\* An EF.DIR record: AID and label in either order, padded to the record's length.
DirOf(a, label, labelFirst) ==
  LET body == IF labelFirst THEN Tlv(80, label) \o Tlv(79, a) ELSE Tlv(79, a) \o Tlv(80, label)
  IN Tlv(97, body) \o [i \in 1..(40 - Len(body)) |-> 255]

\* Digits two to a byte, the first of them low, filled up with F.
Bcd(d) ==
  [i \in 1..((Len(d) + 1) \div 2) |->
     d[2 * i - 1] + 16 * (IF 2 * i <= Len(d) THEN d[2 * i] ELSE 15)]
ImsiOf(d) == LET coded == Bcd(<<IF Len(d) % 2 = 1 THEN 9 ELSE 1>> \o d) IN <<Len(coded)>> \o coded
MsisdnOf(d, plus, alpha) ==
  LET coded == Bcd(d)
  IN [i \in 1..alpha |-> 255] \o <<Len(coded) + 1, IF plus THEN 145 ELSE 129>> \o coded
     \o [i \in 1..(12 - Len(coded)) |-> 255]

-----------------------------------------------------------------------------
\* Inputs.

Files ==
  {[structure |-> s, record_len |-> l, num_records |-> n, file_size |-> l * n, extra |-> e] :
     s \in {"linear_fixed", "cyclic"}, l \in {1, 28, 255, 256, 767, 768, 1024}, n \in {1, 10, 60},
     e \in {0, 9}}
  \cup {[structure |-> s, record_len |-> 0, num_records |-> 0, file_size |-> z, extra |-> e] :
     s \in {"transparent", "ber_tlv"}, z \in {0, 1, 255, 256, 65535}, e \in {0, 9, 100, 110}}
Aid(n) == [i \in 1..n |-> (7 * i) % 256]
Numbers == {[i \in 1..n |-> (k * i) % 10] : n \in 1..20, k \in 1..3}

Tags == {<<128>>, <<129>>, <<159, 2>>}
ObjectLengths == {0, 1, 127, 128, 255, 256}
\* A name of its own, one in two applications, one that also stands under a DF of the MF.
FileTree ==
  <<<<"MF", "EF.ICCID">>, <<"MF", "DF.TELECOM", "EF.ADN">>, <<"MF", "DF.TELECOM", "EF.FDN">>,
    <<"ADF.USIM", "EF.FDN">>, <<"ADF.USIM", "EF.UST">>, <<"ADF.USIM", "DF.X", "EF.UST">>,
    <<"ADF.ISIM", "EF.IST">>, <<"ADF.ISIM", "EF.FDN">>>>

Inputs ==
  {[kind |-> "fcp", of |-> f] : f \in Files}
  \cup {[kind |-> "aid", of |-> <<n, e>>] : n \in {5, 7, 16}, e \in {0, 100, 120}}
  \cup {[kind |-> "dir", of |-> <<n, l, first>>] : n \in {5, 7, 16}, l \in {0, 4}, first \in BOOLEAN}
  \cup {[kind |-> "iccid", of |-> d] : d \in {e \in Numbers : Len(e) >= 3}}
  \cup {[kind |-> "imsi", of |-> d] : d \in {e \in Numbers : Len(e) \in 2..15}}
  \cup {[kind |-> "msisdn", of |-> <<d, plus, a>>] :
          d \in Numbers, plus \in BOOLEAN, a \in {0, 10}}
  \cup {[kind |-> "objects", of |-> <<[tag |-> t, length |-> n], [tag |-> u, length |-> m]>>] :
          t \in Tags, u \in Tags, n \in ObjectLengths, m \in ObjectLengths}
  \cup {[kind |-> "plmn", of |-> [mcc |-> <<2, 6, 1>>, mnc |-> n]] :
          n \in {<<0, 1>>, <<4, 2>>, <<0, 1, 5>>, <<9, 8, 7>>}}
  \cup {[kind |-> "bits", of |-> <<a, b>>] : a \in {0, 1, 8, 96, 254, 255}, b \in {0, 5, 128, 255}}
  \cup {[kind |-> "decoder", of |-> p] : p \in Range(FileTree)}
  \cup {[kind |-> "class", of |-> <<ch, p>>] : ch \in 0..19, p \in BOOLEAN}

\* Every input, coded as the card would and parsed.
Outcome(i) ==
  CASE i.kind = "fcp" -> ParseFcp(Fcp(i.of))
    [] i.kind = "aid" -> ExtractAid(DfFcp(Aid(i.of[1]), i.of[2]))
    [] i.kind = "dir" -> DirRecord(DirOf(Aid(i.of[1]), [k \in 1..i.of[2] |-> 79], i.of[3]))
    [] i.kind = "iccid" -> DecodeIccid(Bcd(i.of))
    [] i.kind = "imsi" -> DecodeImsi(ImsiOf(i.of))
    [] i.kind = "msisdn" -> DecodeMsisdn(MsisdnOf(i.of[1], i.of[2], i.of[3]))
    [] i.kind = "objects" -> <<StripTlv(Object(i.of[1])), TlvsOfRaw(Object(i.of[1]) \o Object(i.of[2]))>>
    [] i.kind = "plmn" -> <<EncodePlmn(i.of), DecodePlmn(PlmnOf(i.of))>>
    [] i.kind = "bits" -> <<BytesOf(BitsOf(i.of), 2), AccBytes(AccBits(i.of)), BitsOf(i.of)>>
    [] i.kind = "decoder" -> FindEf(i.of, FileTree)
    [] i.kind = "class" -> LET cla == ClassByte(i.of[1], i.of[2])
                           IN <<LchanFromCla(cla), LchanFromCla(GetResponseClass(cla))>>

DataInit == input \in Inputs /\ parsed = <<>>
ParseInput == parsed = <<>> /\ parsed' = <<Outcome(input)>> /\ UNCHANGED input
DataDone == parsed # <<>> /\ UNCHANGED dataVars

-----------------------------------------------------------------------------
\* Properties.

IsParsed(kind) == parsed # <<>> /\ input.kind = kind

\* A file's structure and sizes are read out of its FCP, as long as the template
\* is shorter than 128 bytes and the high byte of its record length is not one of
\* the type bytes of TS 51.011, which stands at the same place.
FcpUnderstood ==
  IsParsed("fcp") /\ input.of.extra < 100 /\ input.of.record_len \div 256 \notin {1, 2, 4} =>
    parsed[1] = Meta(input.of.structure, input.of.file_size, input.of.record_len, input.of.num_records)

\* The application's AID is found in a STATUS answer with either length form, and
\* in an EF.DIR record in whatever order the record has its fields.
AidFound ==
  IsParsed("aid") \/ IsParsed("dir") => parsed[1] = Aid(input.of[1])

\* The card's numbers are shown digit by digit as they were coded.
IdentitiesShown ==
  /\ IsParsed("iccid") \/ IsParsed("imsi") => parsed[1] = input.of
  /\ IsParsed("msisdn") => parsed[1] = [plus |-> input.of[2], digits |-> input.of[1]]

\* A command and the GET RESPONSE after it address the channel meant, as the
\* other implementation in this repository counts channels.
ClassBytesAgree == IsParsed("class") => parsed[1] = <<input.of[1], input.of[1]>>

\* Objects of every length form, one after another, come apart into their tags and values.
ObjectsTaken ==
  IsParsed("objects") =>
    LET value(o) == [i \in 1..o.length |-> 7]
    IN parsed[1] = <<value(input.of[1]),
                     [i \in 1..2 |-> [tag |-> input.of[i].tag, value |-> value(input.of[i])]]>>

\* What the editors code is what they decode, and what TS 24.008 and TS 31.102 say.
EditorsCode ==
  /\ IsParsed("plmn") => parsed[1] = <<PlmnOf(input.of), input.of>>
  /\ IsParsed("bits") =>
       parsed[1] = <<input.of, input.of,
                     {n \in 1..16 : input.of[(n + 7) \div 8] % (2 * 2^((n - 1) % 8)) >= 2^((n - 1) % 8)}>>

\* A file of an application, or right under the MF, is decoded as itself, whatever has its name;
\* any other by a file of its name, if one has it.
DecodedAsItself ==
  IsParsed("decoder") =>
    IF input.of[1] # "MF" \/ Len(input.of) = 2 THEN parsed[1] = input.of
    ELSE parsed[1] = <<>> \/ Last(parsed[1]) = Last(input.of)

\* What the card says of files, applications, numbers and channels arrives as it was
\* meant, through every parser of the server.
AnswersUnderstood == FcpUnderstood /\ AidFound /\ IdentitiesShown /\ ClassBytesAgree
                     /\ ObjectsTaken /\ EditorsCode /\ DecodedAsItself

=============================================================================
