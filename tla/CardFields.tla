----------------------------- MODULE CardFields -----------------------------
(***************************************************************************)
(* Fields of a card that pySim encodes when they are set and decodes when  *)
(* they are shown: the identities, networks and numbers of EF.IMSI,        *)
(* EF.ICCID, EF.PLMNsel, EF.xPLMNwAcT, EF.MSISDN, EF.ePDGSelection and     *)
(* EF.PCSCF, and the tables of services with the files they stand for.     *)
(* Digits are numbers, a nibble F is 15, a byte is a number or two         *)
(* nibbles; bits of a word are the set of those that are 1.                *)
(***************************************************************************)
EXTENDS Integers, Sequences, FiniteSets, SequencesExt

CONSTANTS
  Values,         \* what users set: records with a kind and the value itself
  Plmns,          \* networks whose digits replace those of the IMSI
  TableSize,      \* bytes of the tables of services
  Services,       \* service numbers typed, some beyond the table
  FileServices,   \* file -> [need |-> "one" | "any" | "all", of |-> services]
  Pairs,          \* <<a, b>>: service a needs service b
  NotWithIsim,    \* services that an ISIM on the card excludes
  Isim,           \* is there an ISIM on the card?
  MaxSteps

VARIABLES
  want,    \* the value that was set last
  raw,     \* the file it is in
  seen,    \* what the last reading showed: {} or {<<>>} (None) or {<<value>>}
  ust,     \* the bits of EF.UST that are 1: <<byte, bit>>
  sst,     \* the bits of EF.SST that are 1
  asked,   \* the services that the users last asked to be on
  there,   \* the files on the card
  found,   \* {} or {problems}: what the last check of services reported
  steps

fieldVars == <<want, raw, seen, ust, sst, asked, there, found, steps>>

NoDigit == 15
None == <<>>
Refused == [refused |-> TRUE]
Filled(n) == [i \in 1..n |-> NoDigit]
Rpad(s, n) == s \o Filled(n - Len(s))
Lstrip(s) ==
  IF \A i \in 1..Len(s) : s[i] = NoDigit THEN <<>>
  ELSE SubSeq(s, CHOOSE i \in 1..Len(s) : s[i] # NoDigit /\ \A j \in 1..(i - 1) : s[j] = NoDigit, Len(s))
Rstrip(s) == Reverse(Lstrip(Reverse(s)))
SwapNibbles(s) == [i \in 1..(2 * (Len(s) \div 2)) |-> s[IF i % 2 = 1 THEN i + 1 ELSE i - 1]]
Byte(n) == <<n \div 16, n % 16>>
ByteAt(s, i) == s[i] * 16 + s[i + 1]

-----------------------------------------------------------------------------
(* Identities. *)

EncImsi(imsi) ==
  LET n == Len(imsi)
  IN  Byte((n + 2) \div 2) \o SwapNibbles(<<8 * (n % 2) + 1>> \o Rpad(imsi, 15))
\* None when the length does not match what stands there.
DecImsi(ef) ==
  LET swapped == Rstrip(SwapNibbles(SubSeq(ef, 3, Len(ef))))
      l == ByteAt(ef, 1) * 2 - 1 - (IF (swapped[1] \div 8) % 2 = 1 THEN 0 ELSE 1)
  IN  IF Len(ef) < 4 \/ swapped = <<>> \/ l # Len(swapped) - 1 THEN None ELSE <<Tail(swapped)>>

EncIccid(iccid) == SwapNibbles(Rpad(iccid, 20))
DecIccid(ef) == <<Lstrip(Rstrip(SwapNibbles(ef)))>>

\* Every second digit from the last one on doubled, the digits of the products added up.
CalculateLuhn(digits) ==
  LET Part(i) == LET d == 2 * digits[i]
                 IN  IF (Len(digits) - i) % 2 = 0 THEN (d \div 10) + (d % 10) ELSE digits[i]
      sum == FoldLeft(LAMBDA total, i : total + Part(i), 0, [i \in 1..Len(digits) |-> i])
  IN  (10 - (sum % 10)) % 10
VerifyLuhn(digits) == CalculateLuhn(Front(digits)) = Last(digits)
SanitizeIccid(iccid) ==
  CASE Len(iccid) = 18 -> iccid \o <<CalculateLuhn(iccid)>>
    [] Len(iccid) = 19 -> IF VerifyLuhn(iccid) THEN iccid ELSE iccid \o <<CalculateLuhn(iccid)>>
    [] Len(iccid) = 20 /\ VerifyLuhn(iccid) -> iccid
    [] OTHER -> Refused

-----------------------------------------------------------------------------
(* Networks. *)

PadMnc(mnc) ==
  CASE Len(mnc) = 0 -> <<NoDigit, NoDigit, NoDigit>>
    [] Len(mnc) = 1 -> <<0, mnc[1], NoDigit>>
    [] Len(mnc) = 2 -> mnc \o <<NoDigit>>
    [] OTHER -> mnc
PadMcc(mcc) ==
  CASE Len(mcc) = 0 -> <<NoDigit, NoDigit, NoDigit>>
    [] Len(mcc) = 1 -> <<0, 0>> \o mcc
    [] Len(mcc) = 2 -> <<0>> \o mcc
    [] OTHER -> mcc
EncPlmn(mcc, mnc) ==
  LET c == PadMcc(mcc)
      n == PadMnc(mnc)
  IN  <<c[2], c[1], n[3], c[3], n[2], n[1]>>
DecMccFromPlmnStr(p) == Lstrip(Rstrip(<<p[2], p[1], p[4]>>))
DecMncFromPlmnStr(p) == Lstrip(Rstrip(<<p[6], p[5], p[3]>>))
DecPlmn(p) == [mcc |-> DecMccFromPlmnStr(p), mnc |-> DecMncFromPlmnStr(p)]

\* The same networks as numbers, for the ePDG's display: a digit F counts nothing.
Counted(d, weight) == IF d = NoDigit THEN 0 ELSE d * weight
DeriveMcc(d1, d2, d3) == Counted(d1, 100) + Counted(d2, 10) + Counted(d3, 1)
DeriveMnc(d1, d2, d3) ==
  IF d3 = NoDigit THEN Counted(d1, 10) + Counted(d2, 1) ELSE DeriveMcc(d1, d2, d3)
Unused == 4095
DecMccFromPlmn(p) ==
  IF p[2] = NoDigit /\ p[1] = NoDigit /\ p[4] = NoDigit THEN Unused ELSE DeriveMcc(p[2], p[1], p[4])
DecMncFromPlmn(p) ==
  IF p[6] = NoDigit /\ p[5] = NoDigit /\ p[3] = NoDigit THEN Unused ELSE DeriveMnc(p[6], p[5], p[3])

EncAct(list) ==
  {bit \in {15, 11, 6, 5, 4} :
     <<bit, TRUE>> \in {<<15, "UTRAN" \in list>>, <<11, "NG-RAN" \in list>>,
                        <<6, "GSM COMPACT" \in list>>, <<5, "cdma2000 HRPD" \in list>>,
                        <<4, "cdma2000 1xRTT" \in list>>}}
  \cup (CASE {"E-UTRAN WB-S1", "E-UTRAN NB-S1"} \subseteq list -> {14}
          [] "E-UTRAN WB-S1" \in list /\ "E-UTRAN NB-S1" \notin list -> {14, 13}
          [] "E-UTRAN NB-S1" \in list /\ "E-UTRAN WB-S1" \notin list -> {14, 12}
          [] OTHER -> {})
  \cup (CASE {"GSM", "EC-GSM-IoT"} \subseteq list -> {7, 3, 2}
          [] "GSM" \in list /\ "EC-GSM-IoT" \notin list -> {7, 2}
          [] "EC-GSM-IoT" \in list /\ "GSM" \notin list -> {7, 3}
          [] OTHER -> {})
\* EC-GSM-IoT alone is looked for as 0086 under the mask 008C, which nothing is.
DecAct(bits) ==
  LET eutran == bits \cap {14, 13, 12}
      gsm == bits \cap {7, 3, 2}
      Of(bit, name) == IF bit \in bits THEN {name} ELSE {}
  IN  Of(15, "UTRAN") \cup Of(11, "NG-RAN") \cup Of(6, "GSM COMPACT")
      \cup Of(5, "cdma2000 HRPD") \cup Of(4, "cdma2000 1xRTT")
      \cup (IF eutran \in {{14}, {14, 13, 12}, {14, 13}} THEN {"E-UTRAN WB-S1"} ELSE {})
      \cup (IF eutran \in {{14}, {14, 13, 12}, {14, 12}} THEN {"E-UTRAN NB-S1"} ELSE {})
      \cup (IF gsm \in {{7}, {7, 3, 2}, {7, 2}} THEN {"GSM"} ELSE {})
      \cup (IF gsm \in {{7}, {7, 3, 2}, {7, 2, 1}} THEN {"EC-GSM-IoT"} ELSE {})
DecXplmnWAct(ef) == [net |-> DecPlmn(ef.plmn), act |-> DecAct(ef.act)]

\* EF.ePDGSelection of three places: a tag and a length, then network, priority, format.
EncEpdgSelection(mcc, mnc) ==
  Rpad(Byte(128) \o Byte(6) \o EncPlmn(mcc, mnc) \o <<0, 0, 0, 1>> \o <<0, 0>>, 40)
Place(content, i) == SubSeq(content, 12 * (i - 1) + 1, 12 * i)
\* The networks shown of it: a file not yet written has neither tag nor length.
FormatEpdgSelection(ef) ==
  LET content == IF 255 \in {ByteAt(ef, 1), ByteAt(ef, 3)} THEN ef ELSE SubSeq(ef, 5, Len(ef))
      padded == Rpad(content, Len(content) + (12 - (Len(content) % 12)))
      Net(i) == [mcc |-> DecMccFromPlmn(Place(padded, i)), mnc |-> DecMncFromPlmn(Place(padded, i))]
  IN  {Net(i) : i \in 1..(Len(padded) \div 12)} \ {[mcc |-> Unused, mnc |-> Unused]}

-----------------------------------------------------------------------------
(* Numbers and addresses. *)

EncMsisdn(number) ==
  LET ton == IF number.plus THEN 1 ELSE 3
      even == IF Len(number.digits) % 2 = 1 THEN Append(number.digits, NoDigit) ELSE number.digits
  IN  CASE number.digits = <<>> -> Filled(28)
        [] Len(number.digits) > 20 -> Refused
        [] OTHER -> Byte(Len(even) \div 2 + 1) \o Byte(1 + 16 * ton + 128)
                    \o Rpad(SwapNibbles(even), 20) \o Filled(4)
\* Behind an alpha identifier of any length stand 14 bytes.
DecMsisdn(ef) ==
  LET lhv == SubSeq(ef, Len(ef) - 27, Len(ef))
      bcd_len == ByteAt(lhv, 1)
      ton == lhv[3] % 8
  IN  CASE bcd_len = 255 -> None
        [] bcd_len \in 1..11 ->
             <<[plus |-> ton = 1,
                digits |-> Rstrip(SwapNibbles(SubSeq(lhv, 5, 4 + 2 * (bcd_len - 1))))]>>
        [] OTHER -> <<Refused>>
AlphaId == Filled(40)

\* An address is its parts between the dots: "num" a decimal number, "word" letters and
\* digits, "odd" any other; "v6" is an address with colons. A part of a name is one byte.
AddrType(addr) ==
  LET forms == {addr[i].form : i \in 1..Len(addr)}
  IN  CASE forms = {"v6"} -> <<2>>
        [] forms = {"num"} -> IF Len(addr) = 4 /\ \A i \in 1..4 : addr[i].n < 256 THEN <<1>> ELSE None
        [] "word" \in forms /\ forms \subseteq {"num", "word"} -> <<0>>
        [] OTHER -> None
Numbers(addr) == [i \in 1..Len(addr) |-> addr[i].n]
\* Nothing is written of an IPv6 address: the record is left blank.
EncAddrTlv(addr) ==
  CASE AddrType(addr) = <<0>> -> <<128, Len(addr) + 1, 0>> \o Numbers(addr)
    [] AddrType(addr) = <<1>> -> <<128, 6, 1, 255>> \o Numbers(addr)
    [] OTHER -> <<>>
RecordOf(bytes) == [i \in 1..12 |-> IF i <= Len(bytes) THEN bytes[i] ELSE 255]

FirstTlv(bytes) ==
  IF bytes[2] = 255
  THEN [tag |-> bytes[1], len |-> bytes[3] * 256 + bytes[4], val |-> SubSeq(bytes, 5, Len(bytes))]
  ELSE [tag |-> bytes[1], len |-> bytes[2],
        val |-> SubSeq(bytes, 3, IF 2 + bytes[2] < Len(bytes) THEN 2 + bytes[2] ELSE Len(bytes))]
\* The address of the first TLV that holds one; padding ends the search.
DecAddrTlv(bytes) ==
  LET Holds(tlv) ==
        tlv.tag = 128 /\ tlv.len # 0 /\ \E i \in 1..Len(tlv.val) : tlv.val[i] # 255
      Of(val) ==
        CASE val[1] = 0 -> <<[type |-> 0, parts |-> Tail(val)]>>
          [] val[1] = 1 -> <<[type |-> 1, parts |-> SubSeq(val, 3, Len(val))]>>
          [] OTHER -> None
      from[i \in 1..(Len(bytes) + 1)] ==
        IF i > Len(bytes) \/ bytes[i] = 255 THEN None
        ELSE LET tlv == FirstTlv(SubSeq(bytes, i, Len(bytes)))
                 next == i + tlv.len + (IF tlv.len > 254 THEN 4 ELSE 2)
             IN  IF Holds(tlv) THEN Of(tlv.val)
                 ELSE from[IF next <= Len(bytes) THEN next ELSE Len(bytes) + 1]
  IN  from[1]

-----------------------------------------------------------------------------
(* Setting and showing a field. *)

EncIccidField(digits) ==
  LET iccid == SanitizeIccid(digits) IN IF iccid = Refused THEN Refused ELSE EncIccid(iccid)
EncMsisdnField(number) ==
  LET lhv == EncMsisdn(number) IN IF lhv = Refused THEN Refused ELSE AlphaId \o lhv
EncXplmnWAct(v) == [plmn |-> EncPlmn(v.mcc, v.mnc), act |-> EncAct(v.act)]
\* A selection without network, and an address without text, are blanked.
EncEpdgField(mcc, mnc) ==
  IF mcc = <<>> \/ mnc = <<>> THEN Filled(40) ELSE EncEpdgSelection(mcc, mnc)
EncAddressField(addr) ==
  IF addr = <<>> THEN RecordOf(<<128>>)
  ELSE IF AddrType(addr) = None THEN Refused ELSE RecordOf(EncAddrTlv(addr))
Encoded(v) ==
  CASE v.kind = "imsi" -> EncImsi(v.digits)
    [] v.kind = "iccid" -> EncIccidField(v.digits)
    [] v.kind = "plmn" -> EncPlmn(v.mcc, v.mnc)
    [] v.kind = "act" -> EncXplmnWAct(v)
    [] v.kind = "msisdn" -> EncMsisdnField(v.number)
    [] v.kind = "epdg" -> EncEpdgField(v.mcc, v.mnc)
    [] v.kind = "address" -> EncAddressField(v.addr)
Decoded(kind, ef) ==
  CASE kind = "imsi" -> DecImsi(ef)
    [] kind = "iccid" -> DecIccid(ef)
    [] kind = "plmn" -> IF ef = Filled(6) THEN None ELSE <<DecPlmn(ef)>>
    [] kind = "act" -> IF ef.plmn = Filled(6) THEN None ELSE <<DecXplmnWAct(ef)>>
    [] kind = "msisdn" -> DecMsisdn(ef)
    [] kind = "epdg" -> <<FormatEpdgSelection(ef)>>
    [] kind = "address" -> DecAddrTlv(ef)

Blank == [kind |-> "imsi", digits |-> <<>>]

FieldsInit ==
  /\ want = Blank /\ raw = EncImsi(<<>>) /\ seen = {}
  /\ ust = {} /\ sst = {} /\ asked = {} /\ there = {} /\ found = {} /\ steps = 0

Set(v) ==
  /\ Encoded(v) # Refused
  /\ want' = v /\ raw' = Encoded(v) /\ seen' = {}
  /\ UNCHANGED <<ust, sst, asked, there, found>>

Show ==
  /\ seen = {}
  /\ seen' = {Decoded(want.kind, raw)}
  /\ UNCHANGED <<want, raw, ust, sst, asked, there, found>>

\* Reads the IMSI and puts other digits before the ten of its subscriber.
UpdateImsiPlmn(plmn) ==
  /\ want.kind = "imsi" /\ Len(plmn) \in {5, 6}
  /\ LET data == DecImsi(raw)
     IN  /\ data # None /\ Len(data[1]) - Len(plmn) = 10
         /\ raw' = EncImsi(plmn \o SubSeq(data[1], Len(plmn) + 1, Len(data[1])))
         /\ seen' = {DecImsi(raw')}
  /\ want' = [kind |-> "imsi", digits |-> plmn \o SubSeq(want.digits, 6, 15)]
  /\ UNCHANGED <<ust, sst, asked, there, found>>

-----------------------------------------------------------------------------
(* Tables of services: a bit of each in EF.UST, two in EF.SST. *)

UstBit(service) == <<(service - 1) \div 8, (service - 1) % 8>>
SstBit(service, flag) == <<(service - 1) \div 4, 2 * ((service - 1) % 4) + flag>>
ActiveServices == {8 * bit[1] + bit[2] + 1 : bit \in ust}
SstServices(flag) == {4 * bit[1] + (bit[2] \div 2) + 1 : bit \in {b \in sst : b[2] % 2 = flag}}
Put(bits, bit, on) == IF on THEN bits \cup {bit} ELSE bits \ {bit}

\* A service beyond the table raises before anything is written.
UstUpdate(service, on) ==
  /\ UstBit(service)[1] < TableSize
  /\ ust' = Put(ust, UstBit(service), on)
  /\ asked' = Put(asked, <<"ust", service>>, on)
  /\ found' = {} /\ UNCHANGED <<want, raw, seen, sst, there>>

\* pySim-prog's way to the same table: a service beyond it changes nothing.
EncSt(st, service, on) == IF UstBit(service)[1] < TableSize THEN Put(st, UstBit(service), on) ELSE st
UpdateSt(service, on) ==
  /\ ust' = EncSt(ust, service, on)
  /\ asked' = Put(asked, <<"ust", service>>, on)
  /\ found' = {} /\ UNCHANGED <<want, raw, seen, sst, there>>

\* Flag 0: allocated, flag 1: activated.
AdjustService(service, flag, on) ==
  /\ SstBit(service, flag)[1] < TableSize
  /\ sst' = Put(sst, SstBit(service, flag), on)
  /\ asked' = Put(asked, <<"sst", service, flag>>, on)
  /\ UNCHANGED <<want, raw, seen, ust, there, found>>

-----------------------------------------------------------------------------
(* The files that stand for services. *)

Files == DOMAIN FileServices
Above(f) == {SubSeq(f, 1, i) : i \in 1..Len(f)}
Selectable(f) == Above(f) \subseteq there
ShouldExist(f, active) ==
  LET of == FileServices[f].of
  IN  IF FileServices[f].need = "all" THEN of \subseteq active ELSE of \cap active # {}
\* A file of several services is in the list of each.
FilesByService == UNION {{<<service, f>> : service \in FileServices[f].of} : f \in Files}
Problems(active) ==
  Cardinality({entry \in FilesByService : Selectable(entry[2]) # ShouldExist(entry[2], active)})
  + Cardinality({pair \in Pairs : pair[1] \in active /\ pair[2] \notin active})
  + (IF Isim THEN Cardinality(NotWithIsim \cap active) ELSE 0)

ServiceCheck ==
  /\ found' = {Problems(ActiveServices)}
  /\ UNCHANGED <<want, raw, seen, ust, sst, asked, there>>

\* The administrative commands; a directory takes its files along.
CreateFile(f) ==
  /\ f \notin there /\ Above(f) \ {f} \subseteq there
  /\ there' = there \cup {f} /\ found' = {}
  /\ UNCHANGED <<want, raw, seen, ust, sst, asked>>
DeleteFile(f) ==
  /\ f \in there
  /\ there' = {g \in there : f \notin Above(g)} /\ found' = {}
  /\ UNCHANGED <<want, raw, seen, ust, sst, asked>>

FieldsNext ==
  /\ steps < MaxSteps
  /\ steps' = steps + 1
  /\ \/ \E v \in Values : Set(v)
     \/ Show
     \/ \E plmn \in Plmns : UpdateImsiPlmn(plmn)
     \/ \E service \in Services, on \in BOOLEAN :
          \/ UstUpdate(service, on)
          \/ UpdateSt(service, on)
          \/ \E flag \in {0, 1} : AdjustService(service, flag, on)
     \/ ServiceCheck
     \/ \E f \in Files : CreateFile(f) \/ DeleteFile(f)

FieldsSpec == FieldsInit /\ [][FieldsNext]_fieldVars

-----------------------------------------------------------------------------
(* What the parts are to be trusted with. *)

AsNumber(digits) == FoldLeft(LAMBDA n, d : 10 * n + d, 0, digits)
\* What a field says that was set to v.
Meaning(v) ==
  CASE v.kind = "imsi" -> <<v.digits>>
    [] v.kind = "plmn" ->
         IF v.mcc \o v.mnc = <<>> THEN None
         ELSE <<[mcc |-> Lstrip(PadMcc(v.mcc)), mnc |-> Rstrip(PadMnc(v.mnc))]>>
    [] v.kind = "act" ->
         <<[net |-> [mcc |-> PadMcc(v.mcc), mnc |-> Rstrip(PadMnc(v.mnc))],
            act |-> IF "GSM" \in v.act THEN v.act ELSE v.act \ {"EC-GSM-IoT"}]>>
    [] v.kind = "msisdn" -> IF v.number.digits = <<>> THEN None ELSE <<v.number>>
    [] v.kind = "epdg" ->
         <<IF v.mcc = <<>> \/ v.mnc = <<>> THEN {}
           ELSE {[mcc |-> AsNumber(v.mcc), mnc |-> AsNumber(v.mnc)]}>>
    [] v.kind = "address" ->
         IF AddrType(v.addr) \in {None, <<2>>} THEN None
         ELSE <<[type |-> AddrType(v.addr)[1], parts |-> Numbers(v.addr)]>>
\* A value that was set is shown as it was typed (an ICCID with its check digit), and an IMSI
\* whose network was changed keeps its subscriber.
ShownAsSet ==
  \A shown_now \in seen :
    IF want.kind = "iccid"
    THEN /\ shown_now # None
         /\ IsPrefix(want.digits, shown_now[1]) /\ Len(shown_now[1]) \in {19, 20}
         /\ VerifyLuhn(shown_now[1])
    ELSE shown_now = Meaning(want)

\* Of the services that a table has room for, those are on that were last asked to be,
\* whichever commands set them, and each is shown under its own number.
ServicesAsAsked ==
  /\ \A s \in 1..(8 * TableSize) : s \in ActiveServices <=> <<"ust", s>> \in asked
  /\ \A s \in 1..(4 * TableSize), flag \in {0, 1} :
       s \in SstServices(flag) <=> <<"sst", s, flag>> \in asked

\* A check of services that reports no problem vouches for the card: every file stands
\* exactly when its services call for it, and no service stands without what it needs.
CheckVouches ==
  found = {0} =>
    /\ \A f \in Files : Selectable(f) <=> ShouldExist(f, ActiveServices)
    /\ \A pair \in Pairs : pair[1] \in ActiveServices => pair[2] \in ActiveServices
    /\ Isim => NotWithIsim \cap ActiveServices = {}

FieldsTrusted == ShownAsSet /\ ServicesAsAsked /\ CheckVouches
=============================================================================
