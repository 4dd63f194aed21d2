-------------------------------- MODULE Saip --------------------------------
(***************************************************************************)
(* An eSIM profile as pySim keeps it (esim/saip): the sequence of profile  *)
(* elements with its indexes, the header's lists of mandatory services and *)
(* templates, what contrib/saip-tool.py does to it, personalisation, and   *)
(* the checks of validation.py.                                            *)
(*                                                                         *)
(* An element is a name; Elements says what is in it.  A personalised item *)
(* of an element is a slot, and the file a profile is read from and        *)
(* written to holds the slots' values.                                     *)
(***************************************************************************)
EXTENDS Naturals, Sequences, FiniteSets, SequencesExt

CONSTANTS
  Elements,  \* [name -> [type, mandated, adf, holds, algo]]
  Upps,      \* profile packages to start from
  Anchors,   \* types of the elements others are inserted after, and of those removed singly
  MaxEdits   \* bound: changes to a profile since it was read

VARIABLES
  upp,     \* the package on disk
  pes,     \* the ProfileElementSequence in memory
  removed, \* NAAs removed from it
  applied, \* parameters applied to it
  checked, \* the check has passed, and nothing has been done that may undo it
  edits

saipVars == <<upp, pes, removed, applied, checked, edits>>

TypeOf(p) == Elements[p].type
HasHeader(p) == TypeOf(p) # "header"
OfType(list, t) == SelectSeq(list, LAMBDA p : TypeOf(p) = t)

NaaStarts == {"mf", "usim", "isim", "csim"}
NotNaaRelated == {"securityDomain", "rfm", "application", "end"}
\* Naa.pe_types.  A file-bearing element's template is named as its type.
PeTypes ==
  [usim |-> {"usim", "opt-usim", "phonebook", "gsm-access", "eap", "df-5gs", "df-saip"},
   isim |-> {"isim", "opt-isim"},
   csim |-> {"csim", "opt-csim", "cdmaParameter"}]
Naas == {"usim", "isim", "csim"}
ManualServices == {"s16mode", "cat-tp", "mbms"}

Parameters == {"iccid", "imsi", "smsp", "puk1", "pin1", "pin2", "k", "sd key"}
SdSlots(values) == {x \in DOMAIN values : x[2] = "sd key"}
Old == "old"
New == "new"
Absent == "absent"

-----------------------------------------------------------------------------
\* The indexes.

\* An NAA's instance: the elements up to the next NAA's first, but those of no NAA.
InstanceAt(list, i) ==
  LET ends == {j \in i + 1 .. Len(list) : TypeOf(list[j]) \in NaaStarts} \cup {Len(list) + 1}
      last == (CHOOSE j \in ends : \A k \in ends : j <= k) - 1
  IN SelectSeq(SubSeq(list, i, last), LAMBDA p : TypeOf(p) \notin NotNaaRelated)
AddInstance(by_naa, naa, instance) ==
  IF \E k \in DOMAIN by_naa : by_naa[k].naa = naa
  THEN [k \in DOMAIN by_naa |->
          IF by_naa[k].naa = naa THEN [by_naa[k] EXCEPT !.instances = Append(@, instance)]
          ELSE by_naa[k]]
  ELSE Append(by_naa, [naa |-> naa, instances |-> <<instance>>])
\* _rebuild_pes_by_naa clears another, misspelt dictionary: what is there stays.
RebuildPesByNaa(by_naa, list) ==
  FoldLeft(LAMBDA b, i : IF TypeOf(list[i]) \notin NaaStarts THEN b
                         ELSE AddInstance(b, TypeOf(list[i]), InstanceAt(list, i)),
           by_naa, [i \in DOMAIN list |-> i])
InstancesOf(by_naa, naa) ==
  FlattenSeq([k \in DOMAIN by_naa |-> IF by_naa[k].naa = naa THEN by_naa[k].instances ELSE <<>>])

ProcessPelist(s, list) ==
  [s EXCEPT !.pe_list = list, !.by_naa = RebuildPesByNaa(@, list)]
RenumberIdentification(s) ==
  LET headed == SelectSeq(s.pe_list, HasHeader)
  IN [s EXCEPT !.number = [p \in DOMAIN @ |->
        IF p \in ToSet(headed) THEN SelectInSeq(headed, LAMBDA q : q = p) ELSE @[p]]]
InsertAtIndex(s, i, p) == RenumberIdentification(ProcessPelist(s, InsertAt(s.pe_list, i, p)))

\* parse_der: the numbers are as in the file.
ParseDer(file) ==
  [pe_list |-> file.pe_list, by_naa |-> RebuildPesByNaa(<<>>, file.pe_list),
   number |-> file.number, values |-> file.values,
   sd_keys |-> [x \in SdSlots(file.values) |-> file.values[x]],
   services |-> file.services, gfste |-> file.gfste, parsed |-> ToSet(file.pe_list)]

SaipInit ==
  /\ upp \in Upps
  /\ pes = ParseDer(upp)
  /\ removed = {} /\ applied = {} /\ checked = FALSE /\ edits = 0

-----------------------------------------------------------------------------
\* The checks of CheckBasicStructure, in whatever order.

Count(s, t) == Len(OfType(s.pe_list, t))
CheckStartAndEnd(s) ==
  /\ TypeOf(s.pe_list[1]) = "header" /\ TypeOf(s.pe_list[2]) = "mf"
  /\ TypeOf(Last(s.pe_list)) = "end"
CheckNumberOfOccurrence(s) ==
  /\ Count(s, "header") = 1 /\ Count(s, "mf") = 1
  /\ \A t \in {"end", "cd", "telecom", "usim", "isim", "csim", "opt-usim", "opt-isim", "opt-csim",
              "df-saip", "df-5gs"} : Count(s, t) <= 1
\* That it is there, not that it comes before.
CheckOptionalOrdering(s) ==
  \A naa \in Naas : \A t \in PeTypes[naa] \ {"eap", "cdmaParameter"} :
     Count(s, t) > 0 => Count(s, t) = 1 /\ Count(s, naa) = 1
CheckMandatoryServices(s) ==
  /\ \A naa \in Naas : naa \in s.services => Count(s, naa) = 1
  /\ \A naa \in {"usim", "isim"} : "gba-" \o naa \in s.services => naa \in s.services
  /\ \A naa \in Naas : "multiple-" \o naa \in s.services => naa \in s.services
  /\ s.services \cap {"get-identity", "profile-a-x25519"} # {} => s.services \cap {"usim", "isim"} # {}
\* An element that maps to another's parameters has no algorithm: KeyError.  The test of
\* tuak256 is the wrong way round.
CheckMandatoryServicesAka(s) ==
  LET algos == {Elements[p].algo : p \in ToSet(OfType(s.pe_list, "akaParameter"))}
  IN /\ "mapping" \notin algos
     /\ \A a \in {"milenage", "tuak128", "usim-test-algorithm"} : a \in s.services => a \in algos
     /\ "tuak256" \in s.services => "tuak256" \notin algos
     /\ "cave" \in s.services => Count(s, "cdmaParameter") = 1
CheckIdentificationUnique(s) ==
  LET headed == SelectSeq(s.pe_list, HasHeader)
  IN Cardinality({s.number[p] : p \in ToSet(headed)}) = Len(headed)
CheckBasicStructure(s) ==
  /\ CheckStartAndEnd(s) /\ CheckNumberOfOccurrence(s) /\ CheckOptionalOrdering(s)
  /\ CheckMandatoryServices(s) /\ CheckMandatoryServicesAka(s) /\ CheckIdentificationUnique(s)

Check == /\ CheckBasicStructure(pes) /\ ~checked
         /\ checked' = TRUE
         /\ UNCHANGED <<upp, pes, removed, applied, edits>>

-----------------------------------------------------------------------------
\* Changes to the sequence.

Edit(s, keeps) ==
  /\ edits < MaxEdits /\ edits' = edits + 1
  /\ pes' = s
  /\ checked' = (checked /\ keeps)
  /\ UNCHANGED upp

NewElements == DOMAIN Elements \ (ToSet(pes.pe_list) \cup pes.parsed)

InsertAfterPe(p, before) ==
  LET i == SelectInSeq(pes.pe_list, LAMBDA q : q = before)
  IN /\ Edit(InsertAtIndex(pes, i + 1, p), FALSE)
     /\ removed' = {n \in removed : TypeOf(p) \notin PeTypes[n] \cup {"rfm"}}
     /\ UNCHANGED applied
\* saip-tool add-app: with exactly one security domain, after it.
AddApp(p) ==
  /\ TypeOf(p) = "application" /\ Count(pes, "securityDomain") = 1
  /\ Edit(InsertAtIndex(pes, SelectInSeq(pes.pe_list, LAMBDA q : TypeOf(q) = "securityDomain") + 1, p),
          TRUE)
  /\ UNCHANGED <<removed, applied>>
AddSsd(p) ==
  /\ TypeOf(p) = "securityDomain" /\ Count(pes, "securityDomain") > 0
  /\ Edit(InsertAtIndex(pes, SelectInSeq(pes.pe_list, LAMBDA q : TypeOf(q) = "securityDomain") + 1, p),
          TRUE)
  /\ UNCHANGED <<removed, applied>>
\* pe_for_path: an element for the file there is none for comes last, after the end.
PeForPath(p) ==
  /\ Count(pes, TypeOf(p)) = 0 /\ TypeOf(p) \in {"telecom", "cd", "usim", "isim", "genericFileManagement"}
  /\ Edit(InsertAtIndex(pes, Len(pes.pe_list) + 1, p), FALSE)
  /\ removed' = {n \in removed : TypeOf(p) \notin PeTypes[n] \cup {"rfm"}}
  /\ UNCHANGED applied

\* do_remove_pe: by number and by type; the header's lists stay.
WithoutPes(s, numbers, types) ==
  ProcessPelist(s, SelectSeq(s.pe_list, LAMBDA p :
     ~(HasHeader(p) /\ s.number[p] \in numbers) /\ TypeOf(p) \notin types))
RemovePe(numbers, types) ==
  /\ Edit(WithoutPes(pes, numbers, types), FALSE)
  /\ applied' = {}
  /\ UNCHANGED removed
RemoveApp(p) ==
  /\ TypeOf(p) = "application" /\ p \in ToSet(pes.pe_list)
  /\ Edit(WithoutPes(pes, {pes.number[p]}, {}), TRUE)
  /\ UNCHANGED <<removed, applied>>

Doomed(naa) == UNION {ToSet(inst) : inst \in ToSet(InstancesOf(pes.by_naa, naa))}
AdfNames(naa) == {Elements[p].adf : p \in ToSet(OfType(pes.pe_list, naa))}
WithoutRfm(s, adfs) ==
  ProcessPelist(s, SelectSeq(s.pe_list, LAMBDA p : TypeOf(p) # "rfm" \/ Elements[p].adf \notin adfs))
WithoutInstances(naa) ==
  ProcessPelist([pes EXCEPT !.services = @ \ {naa}, !.gfste = @ \ PeTypes[naa]],
                SelectSeq(pes.pe_list, LAMBDA p : p \notin Doomed(naa)))
\* Leaves the remote file management of the ADF that is gone.
ForgetsRfm(naa) == WithoutInstances(naa)
\* The elements of its instances, and then the RFM of its ADFs.
RemoveNaasOfType(naa) == WithoutRfm(WithoutInstances(naa), AdfNames(naa))

\* All its elements follow one of its first ones, before the next NAA, and none of these
\* was removed by itself.
Orderly(naa) ==
  /\ \A p \in ToSet(pes.pe_list) : TypeOf(p) \in PeTypes[naa] => p \in Doomed(naa)
  /\ \A p \in pes.parsed : TypeOf(p) = naa => p \in ToSet(pes.pe_list)
NothingDependsOn(s, naa) ==
  /\ s.services \cap {"gba-" \o naa, "multiple-" \o naa} = {}
  /\ s.services \cap {"get-identity", "profile-a-x25519"} # {} => s.services \cap {"usim", "isim"} # {}
  /\ CheckMandatoryServicesAka(s)
\* Stale instances may take with them what another NAA now holds: the end is never among
\* them, nor are header and MF.
RemoveNaa(naa) ==
  LET s == RemoveNaasOfType(naa)
  IN /\ Edit(s, Orderly(naa) /\ NothingDependsOn(s, naa) /\ CheckOptionalOrdering(s))
     /\ removed' = IF Orderly(naa) THEN removed \cup {naa} ELSE removed
     /\ applied' = {}

-----------------------------------------------------------------------------
\* The header's lists.

\* What can be told from the elements, and what cannot is kept; the rest is dropped.  NAAs
\* are looked for in the index, removed ones included.
MandatedServices ==
  LET mandated(t) == {p \in ToSet(OfType(pes.pe_list, t)) : Elements[p].mandated}
  IN {n \in Naas : \E inst \in ToSet(InstancesOf(pes.by_naa, n)) : Elements[inst[1]].mandated}
       \cup ({Elements[p].algo : p \in mandated("akaParameter")} \ {"mapping"})
       \cup {svc \in {"cave", "eap", "javacard"} :
              mandated([cave |-> "cdmaParameter", eap |-> "eap", javacard |-> "application"][svc]) # {}}
       \cup {"ber-tlv" : p \in {q \in pes.parsed : "ber-tlv file" \in Elements[q].holds}}
       \cup (pes.services \cap ManualServices)
RebuildMandatoryServices ==
  /\ pes.by_naa # <<>> /\ Count(pes, "header") = 1
  /\ Edit([pes EXCEPT !.services = MandatedServices],
          removed = {} /\ \A n \in Naas : n \in MandatedServices => Count(pes, n) = 1
            /\ "tuak256" \notin MandatedServices)
  /\ UNCHANGED <<removed, applied>>
RebuildMandatoryGfstelist ==
  /\ Count(pes, "header") = 1
  /\ Edit([pes EXCEPT !.gfste = {TypeOf(p) : p \in {q \in ToSet(pes.pe_list) :
       HasHeader(q) /\ Elements[q].mandated /\ "files" \in Elements[q].holds}}], TRUE)
  /\ UNCHANGED <<removed, applied>>
EditMandSrvList(add, remove) ==
  /\ Edit([pes EXCEPT !.services = (@ \cup add) \ remove], FALSE)
  /\ UNCHANGED <<removed, applied>>

-----------------------------------------------------------------------------
\* Personalisation.  A parameter that finds nothing to patch fails, some only after having
\* patched an element or two.

Patched(s, slots) == [s EXCEPT !.values = [x \in DOMAIN @ |-> IF x \in slots THEN New ELSE @[x]]]
Failed(s) == [ok |-> FALSE, pes |-> s]
Applied(s) == [ok |-> TRUE, pes |-> s]

ApplyIccid ==
  CASE Count(pes, "header") # 1 -> Failed(pes)
    [] OTHER -> LET s == Patched(pes, {<<OfType(pes.pe_list, "header")[1], "iccid">>})
                IN IF Count(s, "mf") # 1 THEN Failed(s)
                   ELSE Applied(Patched(s, {<<OfType(s.pe_list, "mf")[1], "iccid">>}))
ApplyImsi == Applied(Patched(pes, {<<p, "imsi">> : p \in ToSet(OfType(pes.pe_list, "usim"))}))
\* ef-smsp is of the optional files.
ApplySmsp ==
  LET usims == OfType(pes.pe_list, "usim")
      lacking == SelectInSeq(usims, LAMBDA p : "smsp" \notin Elements[p].holds)
      reached == IF lacking = 0 THEN usims ELSE SubSeq(usims, 1, lacking - 1)
      s == Patched(pes, {<<p, "smsp">> : p \in ToSet(reached)})
  IN IF lacking = 0 THEN Applied(s) ELSE Failed(s)
\* SdKey: patches the decoded list, which encoding makes anew from the parsed keys.
ApplySdKey == Applied(Patched(pes, {<<p, "sd key">> : p \in ToSet(OfType(pes.pe_list, "securityDomain"))}))
MfInstance == InstancesOf(pes.by_naa, "mf")[1]
ApplyPuk ==
  LET puks == OfType(MfInstance, "pukCodes")
  IN IF Len(puks) # 1 \/ "puk1" \notin Elements[puks[1]].holds THEN Failed(pes)
     ELSE Applied(Patched(pes, {<<puks[1], "puk1">>}))
\* _apply_pinvalue: the first that has the reference.
PinPe(instance, ref) ==
  LET k == SelectInSeq(instance, LAMBDA p : TypeOf(p) = "pinCodes" /\ ref \in Elements[p].holds)
  IN IF k = 0 THEN {} ELSE {<<instance[k], ref>>}
ApplyPin1 == IF PinPe(MfInstance, "pin1") = {} THEN Failed(pes)
             ELSE Applied(Patched(pes, PinPe(MfInstance, "pin1")))
ApplyPin2 ==
  LET naas == SelectSeq(pes.by_naa, LAMBDA e : e.naa # "mf")
      instances == FlattenSeq([k \in DOMAIN naas |-> naas[k].instances])
      lacking == SelectInSeq(instances, LAMBDA inst : PinPe(inst, "pin2") = {})
      reached == IF lacking = 0 THEN instances ELSE SubSeq(instances, 1, lacking - 1)
      s == Patched(pes, UNION {PinPe(inst, "pin2") : inst \in ToSet(reached)})
  IN IF lacking = 0 THEN Applied(s) ELSE Failed(s)
ApplyAlgoConfig ==
  LET akas == {p \in ToSet(OfType(pes.pe_list, "akaParameter")) : "k" \in Elements[p].holds}
  IN IF akas = {} THEN Failed(pes) ELSE Applied(Patched(pes, {<<p, "k">> : p \in akas}))

ApplyVal(par) ==
  CASE par = "iccid" -> ApplyIccid
    [] par = "imsi" -> ApplyImsi
    [] par = "smsp" -> ApplySmsp
    [] par = "sd key" -> ApplySdKey
    [] par = "puk1" -> ApplyPuk
    [] par = "pin1" -> ApplyPin1
    [] par = "pin2" -> ApplyPin2
    [] par = "k" -> ApplyAlgoConfig
\* After a removal the codes may be patched in elements that only the index still holds.
NothingRemoved == pes.parsed \subseteq ToSet(pes.pe_list)
Personalise(par) ==
  /\ par \in {"puk1", "pin1"} => InstancesOf(pes.by_naa, "mf") # <<>>
  /\ LET result == ApplyVal(par)
     IN /\ Edit(result.pes, TRUE)
        /\ applied' = IF result.ok /\ NothingRemoved THEN applied \cup {par} ELSE applied \ {par}
  /\ UNCHANGED removed

\* Keys of a security domain, through its methods: these do reach the encoding.
SetKey(p, v) == [pes EXCEPT !.sd_keys[<<p, "sd key">>] = v, !.values[<<p, "sd key">>] = v]
AddKey(p) ==
  /\ pes.sd_keys[<<p, "sd key">>] = Absent
  /\ Edit(SetKey(p, New), TRUE) /\ UNCHANGED <<removed, applied>>
RemoveKey(p) ==
  /\ pes.sd_keys[<<p, "sd key">>] # Absent
  /\ Edit(SetKey(p, Absent), TRUE) /\ UNCHANGED <<removed, applied>>

-----------------------------------------------------------------------------
\* to_der and from_der.  _pre_encode puts the parsed keys back.
PreEncode(s) ==
  [s EXCEPT !.values = [x \in DOMAIN @ |-> IF x \in DOMAIN s.sd_keys THEN s.sd_keys[x] ELSE @[x]]]
ToDer(s) ==
  [pe_list |-> s.pe_list, number |-> s.number, values |-> PreEncode(s).values,
   services |-> s.services, gfste |-> s.gfste]
WriteUpp ==
  /\ upp # ToDer(pes)
  /\ upp' = ToDer(pes)
  /\ pes' = PreEncode(pes)
  /\ UNCHANGED <<removed, applied, checked, edits>>
ReadUpp ==
  /\ upp = ToDer(pes) /\ pes # ParseDer(upp)
  /\ pes' = ParseDer(upp) /\ applied' = {}
  /\ UNCHANGED <<upp, removed, checked, edits>>

SaipNext ==
  \/ Check \/ WriteUpp \/ ReadUpp
  \/ RebuildMandatoryServices \/ RebuildMandatoryGfstelist
  \/ \E p \in NewElements :
       \/ AddApp(p) \/ AddSsd(p) \/ PeForPath(p)
       \/ \E before \in ToSet(pes.pe_list) : TypeOf(before) \in Anchors /\ InsertAfterPe(p, before)
  \/ \E p \in ToSet(pes.pe_list) :
       \/ RemoveApp(p)
       \/ TypeOf(p) \in Anchors /\ RemovePe({pes.number[p]}, {})
  \/ RemovePe({}, {"rfm", "pinCodes"})
  \/ \E naa \in Naas : RemoveNaa(naa)
  \/ EditMandSrvList({"gba-isim"}, {"usim"})
  \/ \E par \in Parameters : Personalise(par)
  \/ \E p \in ToSet(OfType(pes.pe_list, "securityDomain")) : AddKey(p) \/ RemoveKey(p)

-----------------------------------------------------------------------------
\* Whatever is inserted and removed, the elements are numbered in ascending order.
NumbersAscend ==
  LET headed == SelectSeq(pes.pe_list, HasHeader)
  IN \A i \in 2 .. Len(headed) : pes.number[headed[i - 1]] < pes.number[headed[i]]
\* Of an NAA that was removed nothing is left: not an element, a template, or remote file
\* management of its ADF.
RemovedIsGone ==
  \A naa \in removed :
     /\ \A p \in ToSet(pes.pe_list) :
          /\ TypeOf(p) \notin PeTypes[naa]
          /\ TypeOf(p) = "rfm" => \A q \in pes.parsed : TypeOf(q) = naa => Elements[p].adf # Elements[q].adf
     /\ pes.gfste \cap PeTypes[naa] = {}
WrittenTo(p, par) == <<p, par>> \in DOMAIN upp.values /\ upp.values[<<p, par>>] = New
WrittenInNaas(naas, par) ==
  \A i \in DOMAIN upp.pe_list : TypeOf(upp.pe_list[i]) \in naas =>
     \E p \in ToSet(InstanceAt(upp.pe_list, i)) : WrittenTo(p, par)
\* A parameter that was applied is in the package written then, wherever it belongs: codes
\* in each NAA, the rest in each element that can hold it.  The keys of a security domain
\* are not.
PersonalisedIsWritten ==
  upp = ToDer(pes) => \A par \in applied \ {"sd key"} :
    CASE par \in {"pin1", "puk1"} -> WrittenInNaas({"mf"}, par)
      [] par = "pin2" -> WrittenInNaas(NaaStarts \ {"mf"}, par)
      [] OTHER -> \A x \in DOMAIN upp.values :
           x[2] = par /\ x[1] \in ToSet(upp.pe_list) \cap pes.parsed => upp.values[x] = New
\* A profile that passed the check still does after what keeps it whole: an application
\* or a security domain put in, an application or an NAA that nothing needs taken out,
\* the lists made anew, parameters applied.
EditsKeepItSound == checked => CheckBasicStructure(pes)

ProfilesTrusted ==
  NumbersAscend /\ RemovedIsGone /\ PersonalisedIsWritten /\ EditsKeepItSound

SaipSpec == SaipInit /\ [][SaipNext]_saipVars

=============================================================================
