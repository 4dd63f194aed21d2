----------------------------- MODULE CardProgram -----------------------------
(***************************************************************************)
(* pySim-prog.py programming a card: where the parameters come from, and   *)
(* the program method of every card type of pySim/legacy/cards.py over the *)
(* card's current directory.                                               *)
(*                                                                         *)
(* What is written is the parameter, or the blank that stands for none.    *)
(* Every command raises when the card refuses it (pySim/commands.py) but   *)
(* those sent with send_apdu.                                              *)
(***************************************************************************)
EXTENDS Naturals, Sequences, SequencesExt

CONSTANTS
  Options,     \* of the command line: see Searches and Parameters
  Rows,        \* the lines of the CSV file
  CardIds,     \* [iccid, imsi] of the card in the reader
  AppSets,     \* applications EF.DIR may list
  AbsentSets,  \* files a card may be without
  MaxRefused   \* bound: commands the card refuses

VARIABLES
  program, \* card type, parameters with a value and blank ones, next step
  cwd,     \* the card's current directory
  chip,    \* the card: its names, rights, applications, absent files
  aids,    \* what read_aids has found
  written, \* what was written, and where
  refused, \* how many commands the card has refused
  unheard  \* writes it refused without the program noticing

progVars == <<program, cwd, chip, aids, written, refused, unheard>>

None == "none"
ProgInit ==
  /\ program = [kind |-> None, given |-> {}, blank |-> {}, row |-> 0, read |-> {},
              step |-> 1, pc |-> "off"]
  /\ cwd = "MF" /\ aids = {}
  /\ chip = [iccid |-> None, imsi |-> None, adm |-> FALSE, apps |-> {}, absent |-> {}]
  /\ written = {} /\ refused = 0 /\ unheard = {}

-----------------------------------------------------------------------------
\* Parameters: [given, blank].  gen_parameters makes up what a card cannot be without;
\* a line of the file has what it has, an empty column is a blank parameter.

GenParameters(opt) ==
  [given |-> opt.given \cup {"iccid", "imsi", "smsp", "ki", "opc", "plmn", "key pin_adm"}, blank |-> {}]
RowParameters(row) ==
  [given |-> row.given \cup (IF "imsi" \in row.given THEN {"plmn"} ELSE {})
               \cup (IF "pin_adm" \in row.given THEN {"key pin_adm"} ELSE {}),
   blank |-> row.blank]

\* What the function's docstring says of a number (pySim-prog.py 521-522): it is looked for
\* alone.  The code looks for a number only when there is nothing else to look for.
ByLineFirst(num, iccid, imsi) ==
  LET Fits(i) == \/ num = {i - 1}
                 \/ num = {} /\ (Rows[i].iccid = iccid \/ Rows[i].imsi = imsi)
  IN SelectInSeq([i \in 1..Len(Rows) |-> i], Fits)
\* find_row_in_csv_file, from the names looked for: the first line with either, or by its
\* number, at most one, when there are none.  Line 0 counts as no line asked for.
FindRow(num, iccid, imsi) ==
  LET Fits(i) == \/ num = {i - 1} /\ iccid = None /\ imsi = None
                 \/ Rows[i].iccid = iccid
                 \/ Rows[i].imsi = imsi
  IN IF num \subseteq {0} /\ iccid = None /\ imsi = None THEN 0
     ELSE SelectInSeq([i \in 1..Len(Rows) |-> i], Fits)
RowFor(opt, id) ==
  FindRow(opt.num, IF opt.read_iccid THEN id.iccid ELSE opt.iccid,
                   IF opt.read_imsi THEN id.imsi ELSE opt.imsi)

-----------------------------------------------------------------------------
\* Steps.  A path is selected directory by directory from the current one.  A parameter
\* is written in any case, if it is there, or if it is more than blank.
Step(op, path, ef, item, if) == [op |-> op, path |-> path, ef |-> ef, item |-> item, if |-> if]
Verify(pin) == Step("verify", <<>>, "", pin, "any")
Go(path) == Step("go", path, "", "", "any")
Adf(app) == Step("adf", <<>>, "", app, "any")
Put(path, ef, item) == Step("put", path, ef, item, "any")
PutNamed(path, ef, item) == Step("put", path, ef, item, "named")
PutIf(path, ef, item) == Step("put", path, ef, item, "given")
\* Only into a file that exists, and a blank where there is nothing to write.
PutIfThere(ef, item) == Step("if there", <<>>, ef, item, "given")
PutOrBlank(ef, item) == Step("or blank", <<>>, ef, item, "any")
\* A proprietary command, whose answer is looked at or not.
Command(ins, item) == Step("command", <<>>, ins, item, "any")
Unchecked(ins, item) == Step("unchecked", <<>>, ins, item, "any")

\* SimCard.update_*: the files of legacy/ts_51_011.py, from the MF.
Gsm == <<"MF", "GSM">>
Telecom == <<"MF", "TELECOM">>
UpdateSpn == PutNamed(Gsm, "6F46", "name")
UpdatePlmnsel == PutIf(Gsm, "6F30", "plmn")
UpdatePlmnAct == PutIf(Gsm, "6F60", "plmn")
UpdateOplmnAct == PutIf(Gsm, "6F61", "plmn")
UpdateHplmnAct == PutIf(Gsm, "6F62", "plmn")
UpdateAd == PutIf(Gsm, "6FAD", "ad")
UpdatePlmns == <<UpdatePlmnsel, UpdatePlmnAct, UpdateOplmnAct>>
UpdateMsisdn == PutNamed(Telecom, "6F40", "msisdn")

\* The name is handed to b2h, which takes no text.
ProgramMagicSim ==
  <<Go(<<"MF", "7F4D">>), Step("bytes", <<>>, "", "name", "any"), Put(<<>>, "8F0C", "name"),
    Put(<<>>, "8F0D", "magicsim"), Put(Gsm, "6F30", "plmn")>>
ProgramFakeMagicSim == <<Put(Gsm, "6F30", "plmn"), Put(<<"MF">>, "000C", "fakemagicsim")>>
ProgramGrcardSim ==
  <<Verify("or default"), Put(<<"MF">>, "2FE2", "iccid"), Put(Gsm, "6F07", "imsi"),
    PutNamed(<<>>, "6F78", "acc"), PutIf(Telecom, "6F42", "smsp"), Unchecked("D4", "ki"),
    Put(Gsm, "6F30", "plmn"), Go(Gsm)>>
ProgramSysmoUSIMgr1 == <<Verify("default"), Command("99", "sysmousim-gr1")>>
ProgramSysmoSIMgr2 ==
  <<Go(<<"MF">>), Verify("default"), Unchecked("D4", "adm"), Verify("or default"),
    Put(<<>>, "2FE2", "iccid"), Go(<<"GSM">>), Put(<<>>, "6F07", "imsi"), PutNamed(<<>>, "6F78", "acc"),
    Put(<<>>, "6F30", "plmn"), Put(<<>>, "0001", "ki"), Go(Telecom), PutIf(<<>>, "6F42", "smsp")>>
ProgramSysmoUSIMSJS1 ==
  <<Verify("pin_adm"), Go(<<"MF">>), Put(<<>>, "2FE2", "iccid"), Go(<<"GSM">>),
    Put(<<>>, "00FF", "ki"), PutNamed(<<>>, "00F7", "opc"), UpdateSpn,
    PutNamed(Gsm, "6F78", "acc"), Put(<<>>, "6F07", "imsi")>> \o UpdatePlmns \o
  <<UpdateHplmnAct, UpdateAd, PutIf(Telecom, "6F42", "smsp"), UpdateMsisdn>>
\* The PLMN is tested before the IMSI, as in the code.
ProgramFairwavesSIM ==
  <<Verify("pin_adm"), PutNamed(Telecom, "6F42", "smsp"), UpdateHplmnAct, PutNamed(Gsm, "6F07", "imsi"),
    PutNamed(Gsm, "FF02", "ki"), PutNamed(Gsm, "FF01", "opc"), PutNamed(Gsm, "6F78", "acc")>>
ProgramOpenCellsSim ==
  <<Verify("pin_adm"), Go(<<"MF">>), Put(<<>>, "2FE2", "iccid"), Go(<<"7FF0">>),
    Put(<<>>, "FF02", "ki"), Put(<<>>, "FF01", "opc"), Go(<<"GSM">>), Put(<<>>, "6F07", "imsi")>>
ProgramWavemobileSim ==
  <<Verify("pin_adm"), PutIf(Telecom, "6F42", "smsp"), PutIf(Gsm, "6F07", "imsi"),
    PutIf(Gsm, "6F78", "acc")>> \o UpdatePlmns \o <<UpdateAd>>

\* The applications' steps follow their selection.  The AD of the USIM is written also
\* when there is nothing for it: then mnc is not bound.
ProgramIsim ==
  <<Adf("ISIM"), PutIf(<<>>, "AF20", "ki"), PutIf(<<>>, "AF20", "opc"), PutOrBlank("6F09", "pcscf"),
    PutOrBlank("6F03", "ims_hdomain"), PutOrBlank("6F02", "impi"), PutOrBlank("6F04", "impu")>>
ProgramUsim ==
  <<Adf("USIM"), Put(<<>>, "6FAD", "ad"), PutIf(<<>>, "AF20", "ki"), PutIf(<<>>, "AF20", "opc"),
    PutIfThere("6FD9", "plmn"), PutOrBlank("6FF3", "epdgid"), PutOrBlank("6FF4", "epdgSelection"),
    PutOrBlank("6F38", "epdg")>>
ProgramSysmoISIMSJA2 ==
  <<Verify("pin_adm"), Step("read_aids", <<>>, "2F00", "", "any"), Go(<<"GSM">>), UpdateSpn,
    PutIf(<<>>, "6F07", "imsi")>> \o UpdatePlmns \o
  <<UpdateHplmnAct, UpdateAd, PutIf(Telecom, "6F42", "smsp"), UpdateMsisdn, PutIf(Gsm, "6F78", "acc"),
    Go(<<"MF">>), Go(<<"A515">>), PutIf(<<>>, "6F20", "ki"), PutIf(<<>>, "6F20", "opc")>>
  \o ProgramIsim \o ProgramUsim
ProgramGialerSim ==
  <<Verify("default"), PutNamed(<<"MF">>, "2FE2", "iccid"), PutNamed(Gsm, "6F07", "imsi"),
    PutNamed(Gsm, "6F78", "acc"), PutNamed(Telecom, "6F42", "smsp"), PutNamed(<<"MF">>, "0001", "ki"),
    PutNamed(<<"MF">>, "6002", "opc"), PutNamed(<<"MF", "USIM">>, "6F7B", "fplmn"), UpdateHplmnAct,
    UpdateAd>>

Kinds == {"magicsim", "fakemagicsim", "grcardsim", "sysmousim-gr1", "sysmosim-gr2", "sysmousim-sjs1",
          "fairwaves-sim", "opencells-sim", "wavemobile-sim", "sysmoisim-sja2", "gialersim"}
Program(kind) ==
  CASE kind = "magicsim" -> ProgramMagicSim
    [] kind = "fakemagicsim" -> ProgramFakeMagicSim
    [] kind = "grcardsim" -> ProgramGrcardSim
    [] kind = "sysmousim-gr1" -> ProgramSysmoUSIMgr1
    [] kind = "sysmosim-gr2" -> ProgramSysmoSIMgr2
    [] kind = "sysmousim-sjs1" -> ProgramSysmoUSIMSJS1
    [] kind = "fairwaves-sim" -> ProgramFairwavesSIM
    [] kind = "opencells-sim" -> ProgramOpenCellsSim
    [] kind = "wavemobile-sim" -> ProgramWavemobileSim
    [] kind = "sysmoisim-sja2" -> ProgramSysmoISIMSJA2
    [] kind = "gialersim" -> ProgramGialerSim

\* The parameters something written is made of; for most, just itself.
PartsOf(item) ==
  CASE item = "magicsim" -> {"ki", "iccid", "imsi", "plmn"}
    [] item = "fakemagicsim" -> {"name", "iccid", "imsi", "ki", "smsp"}
    [] item = "sysmousim-gr1" -> {"ki", "opc", "iccid", "imsi"}
    [] item = "epdg" -> {"epdgid", "epdgSelection"}
    [] item = "adm" -> {"pin_adm"}
    [] OTHER -> {item}
HasValue(item) ==
  IF item = "ad" THEN program.given \cap {"plmn", "opmode"} # {} ELSE PartsOf(item) \subseteq program.given
HasName(item) == HasValue(item) \/ PartsOf(item) \subseteq program.given \cup program.blank

-----------------------------------------------------------------------------
\* The card.  The same FID names different files in different directories.

UnderMf == {"GSM", "TELECOM", "7F4D", "7FF0", "A515"}
Efs ==
  {<<"MF", f>> : f \in {"2FE2", "2F00", "000C", "0001", "6002"}}
    \cup {<<"GSM", f>> : f \in {"6F07", "6F20", "6F30", "6F46", "6F60", "6F61", "6F62", "6F78", "6FAD",
                                "0001", "00FF", "00F7", "FF01", "FF02"}}
    \cup {<<"TELECOM", f>> : f \in {"6F40", "6F42"}}
    \cup {<<"7F4D", f>> : f \in {"8F0C", "8F0D"}}
    \cup {<<"7FF0", f>> : f \in {"6F07", "FF01", "FF02"}}
    \cup {<<"A515", "6F20">>}
    \cup {<<"ISIM", f>> : f \in {"6F02", "6F03", "6F04", "6F07", "6F09", "6FAD", "AF20"}}
    \cup {<<"USIM", f>> : f \in {"6F07", "6F38", "6F7B", "6FAD", "6FD9", "6FF3", "6FF4", "AF20"}}
There(d, ef) == <<d, ef>> \in Efs \ chip.absent

\* Where a path leads, "" for nowhere: the MF, a directory under it, an ADF by its AID.
Lead(d, x) == IF x = "MF" \/ x \in UnderMf \/ (x = "USIM" /\ x \in chip.apps) THEN x ELSE ""
Resolve(path) == FoldLeft(Lead, cwd, path)

Onward(n) == program' = [program EXCEPT !.step = @ + n]
Raise == program' = [program EXCEPT !.pc = "raised"]
Now == Program(program.kind)[program.step]
Doing(ops) == program.pc = "on" /\ program.step <= Len(Program(program.kind)) /\ Now.op \in ops
Counted(ok) == (~ok => refused < MaxRefused) /\ refused' = refused + (IF ok THEN 0 ELSE 1)

\* process_card.  The card is in its MF, or in DF.GSM when its IMSI was read to find its
\* line of the file.
NamesRead(opt) ==
  (IF opt.csv /\ opt.read_iccid THEN {"iccid"} ELSE {}) \cup (IF opt.csv /\ opt.read_imsi THEN {"imsi"} ELSE {})
ReadCard(opt) == IF opt.csv /\ opt.read_imsi THEN "GSM" ELSE "MF"
Begin(kind, opt, id, apps, absent) ==
  LET row == IF opt.csv THEN RowFor(opt, id) ELSE 0
      p == IF opt.csv THEN RowParameters(Rows[row]) ELSE GenParameters(opt)
  IN /\ program.pc = "off"
     /\ chip' = [iccid |-> id.iccid, imsi |-> id.imsi, adm |-> FALSE, apps |-> apps, absent |-> absent]
     /\ cwd' = ReadCard(opt)
     /\ program' = IF opt.csv /\ row = 0 THEN [program EXCEPT !.pc = "raised"]
                   ELSE [program EXCEPT !.kind = kind, !.given = p.given, !.blank = p.blank,
                                        !.row = row, !.read = NamesRead(opt), !.pc = "on"]
     /\ UNCHANGED <<aids, written, refused, unheard>>

\* verify_chv, with the PIN of the parameters or the one all cards of the type have.
PinKnown(pin) ==
  CASE pin = "pin_adm" -> "pin_adm" \in program.given
    [] pin = "or default" -> "key pin_adm" \in program.given
    [] pin = "default" -> TRUE
DoVerify(ok) ==
  /\ Doing({"verify"})
  /\ Counted(ok)
  /\ IF ok /\ PinKnown(Now.item)
     THEN chip' = [chip EXCEPT !.adm = TRUE] /\ Onward(1) ELSE UNCHANGED chip /\ Raise
  /\ UNCHANGED <<cwd, aids, written, unheard>>

\* select_path.
DoGo ==
  /\ Doing({"go"})
  /\ LET to == Resolve(Now.path) IN
     IF to = "" THEN Raise /\ UNCHANGED cwd ELSE Onward(1) /\ cwd' = to
  /\ UNCHANGED <<chip, aids, written, refused, unheard>>

DoBytes ==
  /\ Doing({"bytes"})
  /\ IF Now.item \in program.blank THEN Onward(1) ELSE Raise
  /\ UNCHANGED <<cwd, chip, aids, written, refused, unheard>>

\* read_aids: after any exception, the card's "not found" too, there are none.
ReadAids ==
  /\ Doing({"read_aids"})
  /\ aids' = IF There(cwd, Now.ef) THEN chip.apps ELSE {}
  /\ Onward(1)
  /\ UNCHANGED <<cwd, chip, written, refused, unheard>>

\* adf_present, select_adf_by_aid: the steps of an application that is not there are passed.
DoAdf ==
  /\ Doing({"adf"})
  /\ IF Now.item \in aids
     THEN cwd' = Now.item /\ Onward(1)
     ELSE UNCHANGED cwd /\ Onward(Len(IF Now.item = "ISIM" THEN ProgramIsim ELSE ProgramUsim))
  /\ UNCHANGED <<chip, aids, written, refused, unheard>>

\* What a write writes, and whether the step is passed or cannot be done at all.
Writing(d) == [at |-> <<d, Now.ef>>, item |-> Now.item, blank |-> ~HasValue(Now.item)]
Passed ==
  \/ Now.if = "given" /\ ~HasValue(Now.item)
  \/ Now.if = "named" /\ ~HasName(Now.item)
  \/ Now.op \in {"if there", "or blank"} /\ ~There(cwd, Now.ef)
Possible == Now.op = "or blank" \/ HasName(Now.item)
Skip ==
  /\ Doing({"put", "if there", "or blank"})
  /\ Passed
  /\ Onward(1)
  /\ UNCHANGED <<cwd, chip, aids, written, refused, unheard>>

\* update_binary and update_record: SELECT, then UPDATE.
GoesTo(path) == IF Resolve(path) = "" THEN cwd ELSE Resolve(path)
DoPut(ok) ==
  LET to == GoesTo(Now.path)
      well == ok /\ chip.adm /\ Resolve(Now.path) # "" /\ There(to, Now.ef)
  IN /\ Doing({"put", "if there", "or blank"})
     /\ ~Passed /\ Possible
     /\ Counted(ok)
     /\ cwd' = to
     /\ IF well THEN Onward(1) /\ written' = written \cup {Writing(to)}
        ELSE Raise /\ UNCHANGED written
     /\ UNCHANGED <<chip, aids, unheard>>
CannotPut ==
  /\ Doing({"put", "if there", "or blank", "command"})
  /\ ~Passed /\ ~Possible
  /\ Raise
  /\ UNCHANGED <<cwd, chip, aids, written, refused, unheard>>

\* send_apdu_checksw, and send_apdu, whose refusal nobody sees.  The ADM PIN that is set
\* is the default one when none is given.
DoCommand(ok) ==
  /\ Doing({"command"}) /\ Possible
  /\ Counted(ok)
  /\ IF ok THEN Onward(1) /\ written' = written \cup {Writing("card")} ELSE Raise /\ UNCHANGED written
  /\ UNCHANGED <<cwd, chip, aids, unheard>>
DoUnchecked(ok) ==
  /\ Doing({"unchecked"})
  /\ IF Now.item = "adm" THEN "key pin_adm" \in program.given ELSE Possible
  /\ Counted(ok)
  /\ Onward(1)
  /\ IF ok THEN written' = written \cup {Writing("card")} /\ UNCHANGED unheard
     ELSE unheard' = unheard \cup {Writing("card")} /\ UNCHANGED written
  /\ UNCHANGED <<cwd, chip, aids>>
CannotSend ==
  /\ Doing({"unchecked"})
  /\ ~(IF Now.item = "adm" THEN "key pin_adm" \in program.given ELSE Possible)
  /\ Raise
  /\ UNCHANGED <<cwd, chip, aids, written, refused, unheard>>

Return ==
  /\ program.pc = "on" /\ program.step > Len(Program(program.kind))
  /\ program' = [program EXCEPT !.pc = "returned"]
  /\ UNCHANGED <<cwd, chip, aids, written, refused, unheard>>

ProgNext ==
  \/ /\ program.pc = "off"
     /\ \E kind \in Kinds, opt \in Options, id \in CardIds, apps \in AppSets, absent \in AbsentSets :
          Begin(kind, opt, id, apps, absent)
  \/ \E ok \in BOOLEAN : DoVerify(ok) \/ DoPut(ok) \/ DoCommand(ok) \/ DoUnchecked(ok)
  \/ DoGo \/ DoBytes \/ ReadAids \/ DoAdf \/ Skip \/ CannotPut \/ CannotSend \/ Return

-----------------------------------------------------------------------------
\* Properties.

\* Where each parameter belongs, whatever the order a card is programmed in.  A card of a
\* type that has no such file keeps what it has.
HomesOf(item) ==
  CASE item = "iccid" -> {<<"MF", "2FE2">>}
    [] item = "imsi" -> {<<"GSM", "6F07">>}
    [] item = "acc" -> {<<"GSM", "6F78">>}
    [] item = "name" -> {<<"GSM", "6F46">>, <<"7F4D", "8F0C">>}
    [] item = "smsp" -> {<<"TELECOM", "6F42">>}
    [] item = "msisdn" -> {<<"TELECOM", "6F40">>}
    [] item = "plmn" -> {<<"GSM", "6F30">>, <<"GSM", "6F60">>, <<"GSM", "6F61">>, <<"GSM", "6F62">>,
                         <<"USIM", "6FD9">>}
    [] item = "ad" -> {<<"GSM", "6FAD">>, <<"USIM", "6FAD">>}
    [] item = "ki" -> {<<"card", "D4">>, <<"GSM", "0001">>, <<"GSM", "00FF">>, <<"GSM", "FF02">>,
                       <<"7FF0", "FF02">>, <<"A515", "6F20">>, <<"USIM", "AF20">>, <<"ISIM", "AF20">>,
                       <<"MF", "0001">>}
    [] item = "opc" -> {<<"GSM", "00F7">>, <<"GSM", "FF01">>, <<"7FF0", "FF01">>, <<"A515", "6F20">>,
                        <<"USIM", "AF20">>, <<"ISIM", "AF20">>, <<"MF", "6002">>}
    [] item = "fplmn" -> {<<"USIM", "6F7B">>}
    [] item = "pcscf" -> {<<"ISIM", "6F09">>}
    [] item = "ims_hdomain" -> {<<"ISIM", "6F03">>}
    [] item = "impi" -> {<<"ISIM", "6F02">>}
    [] item = "impu" -> {<<"ISIM", "6F04">>}
    [] item = "epdgid" -> {<<"USIM", "6FF3">>}
    [] item = "epdgSelection" -> {<<"USIM", "6FF4">>}
    [] item = "epdg" -> {<<"USIM", "6F38">>}
    [] item = "adm" -> {<<"card", "D4">>}
    [] item = "magicsim" -> {<<"7F4D", "8F0D">>}
    [] item = "fakemagicsim" -> {<<"MF", "000C">>}
    [] item = "sysmousim-gr1" -> {<<"card", "99">>}

\* Nothing is ever written into a file that is another parameter's, whatever was skipped,
\* refused or left current before.
NothingMisplaced == \A w \in written : w.at \in HomesOf(w.item)

\* When the program returns, every parameter the type has a place for is on the card, or
\* was refused unheard; but the applications' where their AIDs could not be read.
Items == {Program(program.kind)[i].item :
            i \in {j \in DOMAIN Program(program.kind) : Program(program.kind)[j].op # "verify"}}
Stored(item) == \E w \in written \cup unheard : w.item = item /\ ~w.blank
ProgrammedAsAsked ==
  program.pc = "returned" =>
    /\ \A item \in program.given \cap Items :
         Stored(item) \/ HomesOf(item) \subseteq chip.absent
                      \/ \A home \in HomesOf(item) : home[1] \in {"USIM", "ISIM"} \ aids
    /\ \A app \in aids, key \in {"ki", "opc"} \cap program.given :
         [at |-> <<app, "AF20">>, item |-> key, blank |-> FALSE] \in written

\* A card whose line is looked up by what was read from it gets no other card's, a line number
\* given besides notwithstanding: the docstring's reading (ByLineFirst) would break it.
OwnRow ==
  program.read # {} =>
    \E name \in program.read : Rows[program.row][name] = chip[name]

\* Together.
ProgramTrusted == NothingMisplaced /\ ProgrammedAsAsked /\ OwnRow

=============================================================================
