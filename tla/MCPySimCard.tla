---------------------------- MODULE MCPySimCard ----------------------------
(* An instance of PySimCard for TLC. *)
EXTENDS PySimCard, TLC

\* Two DFs and an ADF under the MF, names that repeat in different directories,
\* an EF that pySim does not know, and files it knows that are not on the card.
Master == <<"MF">>
Dirs == {Master, <<"MF", "7F10">>, <<"MF", "7F20">>, <<"MF", "USIM">>,
         <<"MF", "7F10", "5F3A">>, <<"MF", "USIM", "5F3A">>}
Apps == {<<"MF", "USIM">>}
Unknown == <<"MF", "7F20", "6F07">>
Efs == {<<"MF", "2FE2">>, <<"MF", "7F10", "6F3A">>, <<"MF", "7F10", "5F3A", "4F30">>,
        <<"MF", "USIM", "6F07">>, Unknown, <<"MF", "USIM", "5F3A", "4F30">>}
Missing == {<<"MF", "7F10", "6F3B">>, <<"MF", "USIM", "5FC0">>, <<"MF", "USIM", "5FC0", "4F01">>}
Known == (Dirs \cup Efs \cup Missing) \ {Unknown}
Channels == 0..2
SniffedDirs == Dirs \ {<<"MF", "7F10", "5F3A">>, <<"MF", "7F20">>}
Unlisted == <<"MF", "USIM", "5F3A", "4F30">>
SniffedEfs == {<<"MF", "7F10", "6F3A">>, <<"MF", "USIM", "6F07">>, Unlisted}
SniffedKnown == (SniffedDirs \cup SniffedEfs \cup {<<"MF", "7F10", "5F3A">>}) \ {Unlisted}

\* Below, at and above one command's length; what a file is updated with.
Contents == {<<"0">>, <<"F", "F", "F">>, <<"0", "1", "0">>, <<"0", "0", "0", "0", "1">>}
Updates == {<<>>, <<"0">>, <<"1">>, <<"0", "0">>, <<"0", "1">>, <<"0", "1", "0">>,
            <<"F", "0", "1", "1">>, <<"0", "0", "0", "0", "1">>}
OnceOrTwice == {1, 2}

\* Around what a command over a secure channel can carry, and keys of whole and of
\* half blocks.
Lengths == {0, 10, 230, 240, 247}
KeyBytes == {16, 24, 32}
Basic == {0, 1}

\* A profile of three segments and one of one.
UnitsOf == [m \in MatchingIds |-> IF m = "A" THEN 5 ELSE 2]

\* The two clients are alike: no definition tells one from the other but by what it did.
Downloaders == Permutations(Clients)

\* Up to and beyond one short message; with and without counter, checksum, cipher.
Bytes == {2, 114, 115}
\* What a run of smpp-ota-tool asks for.
SpiOf(counter, ciphering, algo, rc_cc_ds, por, por_shall_be_ciphered, por_rc_cc_ds) ==
  [counter |-> counter, ciphering |-> ciphering, algo |-> algo, rc_cc_ds |-> rc_cc_ds,
   por |-> por, por_shall_be_ciphered |-> por_shall_be_ciphered, por_rc_cc_ds |-> por_rc_cc_ds]
SpiSet ==
  {SpiOf("no_counter", TRUE, 8, "cc", "por_required", TRUE, "cc"),
   SpiOf("counter_must_be_higher", TRUE, 16, "cc", "por_required", FALSE, "cc"),
   SpiOf("counter_must_be_higher", TRUE, 8, "cc", "por_required", FALSE, "no_rc_cc_ds"),
   SpiOf("counter_must_be_higher", TRUE, 16, "no_rc_cc_ds", "por_only_when_error", TRUE, "cc"),
   SpiOf("no_counter", FALSE, 8, "cc", "por_required", TRUE, "no_rc_cc_ds"),
   SpiOf("no_counter", TRUE, 8, "cc", "no_por", TRUE, "cc")}

\* Programming by the command line and by the lines of a file: one whole, one with empty
\* columns and no ADM PIN, one without IMSI; by number and by what is read from the card.
Most == {"name", "acc", "msisdn", "pin_adm", "opmode", "fplmn", "pcscf", "epdgid", "epdgSelection"}
OptionsOf(given, csv, num, read) ==
  [given |-> given, csv |-> csv, num |-> num, iccid |-> "none", imsi |-> "none",
   read_iccid |-> "iccid" \in read, read_imsi |-> "imsi" \in read]
CommandLines ==
  {OptionsOf(given, FALSE, {}, {}) : given \in {{}, {"name", "pin_adm"}, Most}}
    \cup {OptionsOf({}, TRUE, num, read) : num \in {{}, {0}, {1}}, read \in {{}, {"iccid"}, {"imsi"}}}
CsvFile ==
  <<[iccid |-> "i1", imsi |-> "m1", blank |-> {},
     given |-> Most \cup {"iccid", "imsi", "ki", "opc", "smsp"}],
    [iccid |-> "i2", imsi |-> "m2", blank |-> {"name", "acc", "smsp", "msisdn"},
     given |-> {"iccid", "imsi", "ki", "opc"}],
    [iccid |-> "i3", imsi |-> "m3", blank |-> {"imsi", "name"}, given |-> {"iccid", "ki", "pin_adm"}]>>
Cards == {[iccid |-> "i1", imsi |-> "m1"], [iccid |-> "i2", imsi |-> "m2"], [iccid |-> "i3", imsi |-> "m3"]}
UsimIsim == {{"USIM", "ISIM"}, {}}
WithAndWithout == {{}, {<<"USIM", "6FD9">>, <<"ISIM", "6F09">>}}

\* A profile with USIM and ISIM, and elements to put into it.
Pe(type, adf, items, algo) ==
  [type |-> type, mandated |-> type \notin {"header", "mf", "telecom"}, adf |-> adf,
   holds |-> items, algo |-> algo]
ElementsOf ==
  [H |-> Pe("header", "", {"iccid"}, ""), M |-> Pe("mf", "", {"files", "iccid"}, ""),
   PU |-> Pe("pukCodes", "", {"puk1"}, ""), PI |-> Pe("pinCodes", "", {"pin1"}, ""),
   U |-> Pe("usim", "a1", {"files", "imsi", "smsp"}, ""),
   OU |-> Pe("opt-usim", "", {"files", "ber-tlv file"}, ""),
   PJ |-> Pe("pinCodes", "", {"pin2"}, ""), AK |-> Pe("akaParameter", "", {"k"}, "milenage"),
   I |-> Pe("isim", "a2", {"files"}, ""), PK |-> Pe("pinCodes", "", {"pin2"}, ""),
   AM |-> Pe("akaParameter", "", {"k"}, "tuak256"),
   SD |-> Pe("securityDomain", "", {"sd key"}, ""), RF |-> Pe("rfm", "a1", {}, ""),
   AP |-> Pe("application", "", {}, ""), E |-> Pe("end", "", {}, ""),
   T |-> Pe("telecom", "", {"files"}, ""), SS |-> Pe("securityDomain", "", {"sd key"}, "")]
Items == {"iccid", "imsi", "smsp", "puk1", "pin1", "pin2", "k", "sd key"}
ItemsOf == UNION {{p} \X (ElementsOf[p].holds \cap Items) : p \in DOMAIN ElementsOf}
InOrder == <<"H", "M", "PU", "PI", "I", "PK", "AM", "U", "OU", "PJ", "AK", "SD", "RF", "AP", "E">>
PlaceOf(p) == IF \E i \in DOMAIN InOrder : InOrder[i] = p
              THEN (CHOOSE i \in DOMAIN InOrder : InOrder[i] = p) - 1 ELSE 0
UppsOf ==
  {[pe_list |-> InOrder, number |-> [p \in DOMAIN ElementsOf |-> PlaceOf(p)],
    values |-> [x \in ItemsOf |-> IF x[1] = "SS" THEN "absent" ELSE "old"],
    services |-> {"usim", "isim", "s16mode"}, gfste |-> {"usim", "isim"}]}
AnchorTypes == {"isim", "end"}

\* Reading a byte, and writing five; a card that keeps the reader waiting, or sends more than
\* it was asked for.
AllDrivers == {"serial", "modem", "modem_with_echo", "calypso", "pcsc"}
HeadersOf ==
  <<[ins |-> "read", case |-> 2, p3 |-> 1], [ins |-> "update", case |-> 3, p3 |-> 5]>>
AnswersOf ==
  {[nul |-> FALSE, direct |-> TRUE, data |-> 0], [nul |-> FALSE, direct |-> FALSE, data |-> 1],
   [nul |-> TRUE, direct |-> FALSE, data |-> 1], [nul |-> FALSE, direct |-> FALSE, data |-> 2]}

\* Profile elements as their templates have them, some files of each, and profiles of up to four of
\* them after the MF; files whose size, pattern and default agree and disagree with their bodies.
PeOf(t, parent, extends, above, files) ==
  [template |-> t, parent |-> parent, extends |-> extends, above |-> above, files |-> files]
FileOf(name, fid, type, ppath) == [name |-> name, fid |-> fid, type |-> type, ppath |-> ppath, base |-> FALSE]
BaseOf(name, fid, type) == [FileOf(name, fid, type, <<>>) EXCEPT !.base = TRUE]
PeKinds ==
  [mf |-> PeOf("mf", "none", "none", "none",
       <<BaseOf("mf", 0, "MF"), FileOf("ef-dir", 1, "LF", <<>>)>>),
   cd |-> PeOf("cd", "none", "none", "mf", <<BaseOf("df-cd", 2, "DF"), FileOf("ef-icon", 1, "TR", <<>>)>>),
   telecom |-> PeOf("telecom", "none", "none", "mf",
       <<BaseOf("df-telecom", 3, "DF"), FileOf("df-phonebook", 4, "DF", <<>>),
         FileOf("ef-pbr", 5, "LF", <<4>>), FileOf("ef-adn", 6, "LF", <<>>)>>),
   usim |-> PeOf("usim", "none", "none", "none", <<BaseOf("adf-usim", 7, "ADF"), FileOf("ef-imsi", 8, "TR", <<>>)>>),
   opt |-> PeOf("opt-usim", "none", "usim", "none", <<FileOf("ef-li", 9, "TR", <<>>)>>),
   gs |-> PeOf("df-5gs", "usim", "none", "none", <<BaseOf("df-df-5gs", 10, "DF"), FileOf("ef-5gs", 11, "TR", <<>>)>>),
   book |-> PeOf("phonebook", "none", "none", "usim", <<BaseOf("df-phonebook", 4, "DF"), FileOf("ef-pbr", 5, "LF", <<>>)>>),
   gfm |-> PeOf("gfm", "none", "none", "none",
       <<FileOf("a", 12, "DF", <<>>), FileOf("b", 13, "TR", <<12>>), FileOf("c", 14, "TR", <<7>>)>>)]
LayoutsOf == {<<PeKinds.mf>> \o [i \in 1..n |-> PeKinds[s[i]]] : n \in 0..4, s \in [1..4 -> DOMAIN PeKinds]}
Defaults == {[prefix |-> <<>>, suffix |-> <<>>, plain |-> TRUE], [prefix |-> <<9>>, suffix |-> <<9>>, plain |-> FALSE],
  [prefix |-> <<1, 9>>, suffix |-> <<1>>, plain |-> FALSE],
             [prefix |-> <<1, 9>>, suffix |-> <<>>, plain |-> TRUE]}
Bodies == UNION {[1..n -> {1, 9}] : n \in 0..5}
BodyFilesOf ==
  {[file |-> [type |-> t, size |-> 4, nb_rec |-> 2, rec_len |-> 2, fill |-> p, repeat |-> r, default |-> d], body |-> b] :
    t \in {"TR", "LF"}, p \in {<<>>, <<1, 2>>}, r \in BOOLEAN, d \in Defaults, b \in Bodies}

\* Two applications, one of them without files, and a directory that is not on the card; a walk from
\* the MF, from a DF and from an EF.  Files of each structure, with and without codec, whole and cut
\* records, one that may not be read, and records whose number the card does not tell.
WalkedDirs == {<<"MF">>, <<"MF", "TELECOM">>, <<"MF", "TELECOM", "PB">>, <<"MF", "USIM">>, <<"MF", "ARAM">>}
WalkedFiles == <<<<"MF", "ICCID">>, <<"MF", "TELECOM", "ADN">>, <<"MF", "USIM", "IMSI">>, <<"MF", "TELECOM", "PB", "PBR">>>>
WalkedEfs == {WalkedFiles[i] : i \in 1..4}
WalkedApps == {<<"MF", "USIM">>, <<"MF", "ARAM">>}
BareApps == {<<"MF", "ARAM">>}
NotThere == {<<"MF", "TELECOM", "PB">>}
WalkStarts == {<<"MF">>, <<"MF", "TELECOM">>, <<"MF", "ICCID">>}
HoldingOf(structure, data, codec, denied) ==
  [structure |-> structure, data |-> data, codec |-> codec, denied |-> denied, counted |-> TRUE,
   rec_len |-> 0, wide |-> FALSE]
Holdings ==
  LET plain == HoldingOf("transparent", <<1, 1, 1>>, "both", FALSE)
      linear == HoldingOf("linear", <<1, 1>>, "both", FALSE)
      tlv == HoldingOf("ber_tlv", <<<<1, 1>>, <<2, 1>>>>, "none", FALSE)
  IN <<plain, [plain EXCEPT !.codec = "none"], [plain EXCEPT !.codec = "fails"], [plain EXCEPT !.denied = TRUE],
       [plain EXCEPT !.rec_len = 2], [plain EXCEPT !.rec_len = 1], linear, [linear EXCEPT !.counted = FALSE],
       [linear EXCEPT !.counted = FALSE, !.denied = TRUE], [linear EXCEPT !.structure = "cyclic"],
       tlv, [tlv EXCEPT !.wide = TRUE], [tlv EXCEPT !.data = <<>>],
       [linear EXCEPT !.counted = FALSE, !.data = <<>>], [plain EXCEPT !.rec_len = 3]>>
CardsOf ==
  [k \in 1..5 |-> [f \in WalkedEfs |->
     IF f = WalkedFiles[4] THEN Holdings[1]
     ELSE Holdings[3 * k - 3 + (CHOOSE i \in 1..3 : WalkedFiles[i] = f)]]]

\* A DF two below the MF and an application, an EF in each, a new DF in either; pySim knows neither the
\* new DFs nor a new EF.
AdminTree == {<<"MF">>, <<"MF", "TELECOM">>, <<"MF", "TELECOM", "PB">>, <<"MF", "USIM">>}
NewDfs == {<<"MF", "TELECOM", "PB", "5F40">>, <<"MF", "USIM", "5F41">>}
AdminDirsOf == AdminTree \cup NewDfs
AdminEfsOf == {<<"MF", "TELECOM", "ADN">>, <<"MF", "TELECOM", "6F99">>, <<"MF", "TELECOM", "PB", "PBR">>,
               <<"MF", "USIM", "IMSI">>}
UnmodelledOf == NewDfs \cup {<<"MF", "TELECOM", "6F99">>}
IssuedOf == (AdminTree \cup AdminEfsOf) \ UnmodelledOf
AdminApps == {<<"MF", "USIM">>}

\* Two cards; a file with two lines of the first card and without PUKs, and a database with a table
\* that has no ICCIDs, an empty code and a missing one.
SimsOf == {"8901", "8902"}
CodesOf ==
  [s \in SimsOf |-> IF s = "8901" THEN [PIN1 |-> "1", PUK1 |-> "9", ADM1 |-> "7"]
                    ELSE [PIN1 |-> "2", PUK1 |-> "9", ADM1 |-> "8"]]
KeyLine(id, pin1, adm1) == [iccid |-> id, PIN1 |-> pin1, PUK1 |-> "9", ADM1 |-> adm1]
KeyTable(csv, keyed, columns, lines) == [csv |-> csv, keyed |-> keyed, columns |-> columns, rows |-> lines]
ProvidersOf ==
  LET all == {"PIN1", "PUK1", "ADM1"} IN
  <<<<KeyTable(TRUE, TRUE, {"PIN1", "ADM1"}, <<KeyLine("8901", "2", "7"), KeyLine("8901", "1", "7")>>)>>,
    <<KeyTable(FALSE, FALSE, all, <<>>),
      KeyTable(FALSE, TRUE, all, <<KeyLine("8902", "2", ""), KeyLine("8901", "1", "null")>>)>>>>

\* Cards of each kind: phones' and eUICCs' of each generation, with and without EF.DIR, a classic SIM and
\* a RUIM, one that lists an application twice, one that answers nothing.
StockCard(classes, files, apps, listed, sgp) ==
  [uicc |-> "00" \in classes, sim |-> "a0" \in classes, files |-> files, apps |-> apps,
   listed |-> [i \in DOMAIN listed |-> [app |-> listed[i], nr |-> i]], sgp |-> sgp]
StockOf ==
  [phone |-> StockCard({"00", "a0"}, {"EF.DIR", "DF.GSM"}, {"USIM", "ISIM"}, <<"USIM", "other">>, 0),
   consumer |-> StockCard({"00"}, {"EF.DIR"}, {"USIM", "ISD-R", "ECASD"}, <<"USIM">>, 22),
   iot |-> StockCard({"00"}, {}, {"ISD-R", "ECASD"}, <<>>, 32),
   m2m |-> StockCard({"00"}, {"EF.DIR"}, {"ISD-R", "ECASD"}, <<"ISD-R">>, 2),
   classic |-> StockCard({"a0"}, {"DF.GSM"}, {}, <<>>, 0),
   ruim |-> StockCard({"a0"}, {"DF.GSM", "DF.CDMA"}, {}, <<>>, 0),
   undirected |-> StockCard({"00", "a0"}, {"DF.GSM", "DF.CDMA"}, {"USIM"}, <<>>, 0),
   double |-> StockCard({"00"}, {"EF.DIR"}, {"USIM"}, <<"USIM", "USIM">>, 0),
   raw |-> StockCard({}, {}, {}, <<>>, 0)]
OpeningsOf == [skip : BOOLEAN, adm : BOOLEAN]
KnownOf == {"USIM", "ISIM", "ISD-R", "ECASD"}

\* CAP files whole, without applet, without a component, small, and with a wrong magic number.
CapOf(parts, magic, aid, applets) == [components |-> parts, magic |-> magic, aid |-> aid, applets |-> applets]
CapFilesOf ==
  LET all == Content!Required IN
  [whole |-> CapOf(all \cup {"Applet", "Export", "Debug"}, TRUE, "F1", <<"A1", "A2">>),
   library |-> CapOf(all, TRUE, "F2", <<>>),
   short |-> CapOf((all \ {"Method"}) \cup {"Applet"}, TRUE, "F2", <<"A2">>),
   small |-> CapOf(all \cup {"Applet"}, TRUE, "F2", <<"A2">>),
   wrong |-> CapOf(all \cup {"Applet"}, FALSE, "F2", <<"A2">>)]
KeysOf == {<<"30", "1">>, <<"30", "2">>, <<"31", "1">>}

\* Identities, networks, numbers and addresses of every length that has a rule of its own, and a
\* few beyond; files that stand for one service, for any and for all of several, in a directory too.
DigitsOf(n, a, b) == [i \in 1..n |-> (a * i + b) % 10]
Label(form, n) == [form |-> form, n |-> n]
Dotted(a, b) == <<Label("num", 10), Label("num", 0), Label("num", b), Label("num", a)>>
ValuesOf ==
  {[kind |-> "imsi", digits |-> DigitsOf(n, 3, 1)] : n \in {1, 6, 14, 15}}
  \cup {[kind |-> "iccid", digits |-> DigitsOf(n, a, 8)] : n \in 17..21, a \in {1, 3, 7}}
  \cup {[kind |-> "iccid", digits |-> Append(DigitsOf(18, 7, 8), 4)],
        [kind |-> "iccid", digits |-> Append(DigitsOf(19, 7, 8), 2)]}  \* with their check digits
  \cup {[kind |-> kind, mcc |-> mcc, mnc |-> mnc] : kind \in {"plmn", "epdg"},
          mcc \in {<<>>, <<1>>, <<2, 8>>, <<9, 0, 1>>}, mnc \in {<<>>, <<1>>, <<0, 1>>, <<4, 1, 0>>}}
  \cup {[kind |-> "act", mcc |-> <<0, 0, 1>>, mnc |-> <<0, 1>>, act |-> {"UTRAN", "NG-RAN"} \cup act] :
          act \in SUBSET {"E-UTRAN WB-S1", "E-UTRAN NB-S1", "GSM", "EC-GSM-IoT"}}
  \cup {[kind |-> "msisdn", number |-> [plus |-> plus, digits |-> DigitsOf(n, 7, 4)]] :
          plus \in BOOLEAN, n \in {0, 1, 11, 20, 21}}
  \cup {[kind |-> "address", addr |-> addr] :
          addr \in {<<>>, Dotted(1, 255), Dotted(1, 256), <<Label("word", 10), Label("num", 7)>>,
                    <<Label("odd", 10), Label("num", 7)>>, <<Label("v6", 10)>>}}
PlmnsOf == {<<2, 6, 2, 0, 1>>, <<3, 1, 0, 4, 1, 0>>}
FileServicesOf ==
  LET Stands(need, of) == [need |-> need, of |-> of]
  IN  [f \in {<<"A">>, <<"B">>, <<"D">>, <<"D", "E">>} |->
         CASE f = <<"A">> -> Stands("one", {1})
           [] f = <<"B">> -> Stands("any", {8, 9})
           [] f = <<"D">> -> Stands("one", {9})
           [] f = <<"D", "E">> -> Stands("all", {1, 9})]
PairsOf == {<<9, 8>>}

=============================================================================
