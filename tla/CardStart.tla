----------------------------- MODULE CardStart -----------------------------
(***************************************************************************)
(* How pySim-shell comes to a card: init_card of pySim/app.py with card    *)
(* detection (cards.py), the choice of a profile (profile.py), the state   *)
(* that is made for it (runtime.py), and equip, reset and apdu of the      *)
(* shell.                                                                  *)
(*                                                                         *)
(* The class byte stands for itself and the selection control bytes, which *)
(* are always set with it.  A card put in answers nothing until a reset.   *)
(***************************************************************************)
EXTENDS Naturals, Sequences, SequencesExt, FiniteSets

CONSTANTS
  Stock,      \* the cards: what each answers, has and lists
  KnownApps,  \* the subclasses of CardApplication
  Openings,   \* how the program may be called: card initialisation skipped, an ADM PIN given
  MaxTroubles,\* bound: commands that raise for another reason than what the card says
  MaxInits,   \* bound: calls of init_card
  MaxEvents   \* bound: exchanges of the card, resets and raw commands

VARIABLES
  slot,    \* the card in the reader, what it was told, and whether it is the shell's
  init,    \* init_card and equip under way
  shell,   \* what PysimApp has
  counted  \* troubles, inits and events so far

startVars == <<slot, init, shell, counted>>

NoState ==
  [gen |-> 0, profile |-> "none", card |-> "none", cla |-> "none", lchan |-> "none", apps |-> <<>>,
   addons |-> {}, atr |-> "none", iccid |-> "none", eid |-> "none"]
NoInit ==
  [pc |-> "idle", how |-> "none", opening |-> [skip |-> FALSE, adm |-> FALSE], card |-> "none",
   cla |-> "none", left |-> <<>>, rs |-> NoState]

StartInit ==
  /\ slot = [card |-> "none", on |-> FALSE, adm |-> FALSE, other |-> FALSE]
  /\ init = [NoInit EXCEPT !.pc = "off"]
  /\ shell = [card |-> "none", rs |-> NoState, lchan |-> 0, cmds |-> FALSE, sets |-> "none",
              errors |-> FALSE, ran |-> FALSE, strict |-> TRUE]
  /\ counted = [troubles |-> 0, inits |-> 0, events |-> 0]

Here == Stock[slot.card]

-----------------------------------------------------------------------------
\* cards.py: what the card says to a SELECT of each class.

Accepts(card, cla) == IF cla = "00" THEN card.uicc ELSE card.sim

\* Not for a file that is deactivated.
FileExists(card, cla, file) == Accepts(card, cla) /\ file \in card.files

\* A UICC may have a SIM application, so it is asked first.
CardDetect(card) ==
  CASE FileExists(card, "00", "EF.DIR") -> "uicc"
    [] FileExists(card, "a0", "DF.GSM") /\ ~FileExists(card, "00", "EF.DIR") -> "sim"
    [] OTHER -> "generic"
ClaOfCard(kind) == IF kind = "uicc" THEN "00" ELSE "a0"

\* EF.DIR's records, each once; nothing from a card that was not detected as a UICC.
ReadAids(card, kind) ==
  IF kind # "uicc" \/ "EF.DIR" \notin card.files THEN <<>> ELSE card.listed

\* The reference of the ADM PIN is known for a UICC only.
HasAdmChvNum(kind) == kind = "uicc"

-----------------------------------------------------------------------------
\* profile.py and the profiles.

ProfilesInOrder == <<"SGP32", "SGP22", "SGP02", "UICC", "RUIM", "SIM">>
IsUicc(profile) == profile \in {"SGP32", "SGP22", "SGP02", "UICC"}
ClaOfProfile(profile) == IF IsUicc(profile) THEN "00" ELSE "a0"
Addons(profile) ==
  IF IsUicc(profile) THEN {"DF.GSM", "DF.EIRENE", "DF.CDMA"}
  ELSE IF profile = "SIM" THEN {"DF.EIRENE"} ELSE {}

\* GetCerts and GetEID to the ISD-R, GET DATA to the ECASD, and SELECT of the MF.
TryMatchCard(profile, card) ==
  CASE profile = "SGP32" -> card.uicc /\ "ISD-R" \in card.apps /\ card.sgp = 32
    [] profile = "SGP22" -> card.uicc /\ "ISD-R" \in card.apps /\ card.sgp \in {22, 32}
    [] profile = "SGP02" -> card.uicc /\ "ECASD" \in card.apps /\ card.sgp # 0
    [] profile = "UICC" -> Accepts(card, "00")
    [] profile = "RUIM" -> FileExists(card, "a0", "DF.CDMA")
    [] profile = "SIM" -> Accepts(card, "a0")

\* The class is what it was before the attempt, matched or not.
ClaAfterMatch(before, tried) == before

-----------------------------------------------------------------------------
\* runtime.py: a state for the card.  The basic channel's commands are forked off the card's before
\* those get the profile's class.

\* The applications in EF.DIR, then those that can be selected though they are not in it.
MatchApplications(card, kind) ==
  LET listed == SelectSeq(ReadAids(card, kind), LAMBDA a : a.app \in KnownApps)
      taken == [i \in DOMAIN listed |-> listed[i].app]
      probed == IF kind = "uicc" THEN (KnownApps \ ToSet(taken)) \cap card.apps ELSE {}
  IN taken \o SetToSeq(probed)

\* Two entries of one application are one file too many for the MF.
AddsUp(apps) == \A i, j \in DOMAIN apps : i # j => apps[i] # apps[j]

-----------------------------------------------------------------------------
\* init_card, from wait_for_card to the EID.

In(pc) == init.pc = pc
Calm == UNCHANGED counted
Powered == slot' = [slot EXCEPT !.on = TRUE, !.adm = FALSE]

\* Started by the program's call, with some card in the reader, or by do_equip, which first lets the
\* profile's commands go.
Begin(opening, card) ==
  /\ In("off")
  /\ slot' = [slot EXCEPT !.card = card]
  /\ init' = [NoInit EXCEPT !.pc = "wait", !.how = "start", !.opening = opening]
  /\ counted' = [counted EXCEPT !.inits = @ + 1]
  /\ UNCHANGED shell
DoEquip ==
  /\ In("idle") /\ counted.inits < MaxInits
  /\ init' = [NoInit EXCEPT !.pc = "wait", !.how = "equip"]
  /\ shell' = [shell EXCEPT !.sets = "none"]
  /\ counted' = [counted EXCEPT !.inits = @ + 1]
  /\ UNCHANGED slot

\* --skip-card-init makes no state at all.
WaitForCard ==
  /\ In("wait") /\ Powered
  /\ init' = IF init.opening.skip THEN [init EXCEPT !.pc = "equip", !.card = "blank", !.cla = "a0"]
             ELSE [init EXCEPT !.pc = "detect"]
  /\ UNCHANGED shell /\ Calm

Detect ==
  LET kind == CardDetect(Here) IN
  /\ In("detect")
  /\ init' = [init EXCEPT !.pc = "pick", !.card = kind, !.cla = ClaOfCard(kind), !.left = ProfilesInOrder]
  /\ UNCHANGED <<slot, shell>> /\ Calm

\* One profile after the other; after each the card is reset.  A card that is detected as generic and
\* turns out to be a UICC is taken for one.
MatchWithCard ==
  LET profile == Head(init.left)
      cla == ClaAfterMatch(init.cla, ClaOfProfile(profile))
      kind == IF init.card = "generic" /\ IsUicc(profile) THEN "uicc" ELSE init.card
  IN
  /\ In("pick") /\ init.left # <<>>
  /\ Powered
  /\ init' = IF TryMatchCard(profile, Here)
             THEN [init EXCEPT !.pc = "state", !.card = kind,
                     !.cla = IF kind # init.card THEN ClaOfCard(kind) ELSE cla,
                     !.rs = [NoState EXCEPT !.gen = counted.inits, !.profile = profile, !.card = slot.card]]
             ELSE [init EXCEPT !.left = Tail(@), !.cla = cla]
  /\ UNCHANGED shell /\ Calm
NoProfile ==
  /\ In("pick") /\ init.left = <<>>
  /\ init' = [init EXCEPT !.pc = "equip"]
  /\ UNCHANGED <<slot, shell>> /\ Calm

\* RuntimeState, and the vendor's files by the ATR.  What answers to one class cannot be counted on to
\* decode as an answer to the other.
LchanCla(forked, profile) == forked
MakeState(decodes) ==
  LET profile == init.rs.profile
      cla == ClaOfProfile(profile)
      lchan == LchanCla(init.cla, profile)
      apps == IF IsUicc(profile) THEN MatchApplications(Here, init.card) ELSE <<>>
  IN
  /\ In("state") /\ Accepts(Here, lchan) /\ AddsUp(apps) /\ Powered
  /\ lchan = cla \/ decodes
  /\ init' = [init EXCEPT !.pc = "eid", !.cla = cla,
                !.rs = [@ EXCEPT !.cla = cla, !.lchan = lchan, !.apps = apps, !.atr = slot.card,
                                 !.addons = {a \in Addons(profile) : FileExists(Here, cla, a)}]]
  /\ UNCHANGED shell /\ Calm

\* An ISD-R is asked for the EID, and the state reset afterwards.
ObtainEid ==
  LET asked == "ISD-R" \in ToSet(init.rs.apps) IN
  /\ In("eid")
  /\ init' = [init EXCEPT !.pc = "equip",
                !.rs.eid = IF asked /\ TryMatchCard("SGP22", Here) THEN slot.card ELSE "none"]
  /\ IF asked THEN Powered ELSE UNCHANGED slot
  /\ UNCHANGED shell /\ Calm

-----------------------------------------------------------------------------
\* The shell.

\* equip: what works on the old card goes, then the new state is reset and the commands come.  The
\* channel of the shell stays what it was if there is no state.
Unequipped(s) == [s EXCEPT !.cmds = FALSE, !.sets = "none", !.card = init.card, !.rs = init.rs]
Equip(readable) ==
  /\ In("equip")
  /\ IF init.rs.gen # 0
     THEN /\ shell' = [Unequipped(shell) EXCEPT !.lchan = init.rs.gen, !.cmds = TRUE, !.sets = init.rs.profile,
                         !.rs.atr = slot.card, !.rs.iccid = IF readable THEN slot.card ELSE "none"]
          /\ slot' = [slot EXCEPT !.on = TRUE, !.adm = FALSE, !.other = FALSE]
     ELSE shell' = Unequipped(shell) /\ UNCHANGED slot
  /\ init' = IF init.how = "start" THEN [init EXCEPT !.pc = "adm"] ELSE NoInit
  /\ Calm

\* Any of it raises: a command is not answered, or the state cannot be made.  At the start the shell
\* comes up unequipped, and ends if it looks for the card that init_card did not return; later it keeps
\* what it has.
Bound == init.pc = "equip"
Raised ==
  IF init.how = "equip"
  THEN /\ init' = NoInit
       /\ shell' = IF Bound THEN Unequipped(shell) ELSE shell
  ELSE /\ shell' = [shell EXCEPT !.errors = TRUE]
       /\ init' = [init EXCEPT !.pc = IF init.opening.adm /\ ~Bound THEN "ended" ELSE "adm"]
CannotMake ==
  In("state") /\ LET apps == MatchApplications(Here, init.card) IN
    \/ IsUicc(init.rs.profile) /\ ~AddsUp(apps)
    \/ LchanCla(init.cla, init.rs.profile) # ClaOfProfile(init.rs.profile)
Trouble ==
  /\ init.pc \in {"wait", "detect", "pick", "state", "eid", "equip"} /\ (Bound => init.rs.gen # 0)
  /\ IF CannotMake THEN Calm
     ELSE counted.troubles < MaxTroubles /\ counted' = [counted EXCEPT !.troubles = @ + 1]
  /\ Raised
  /\ UNCHANGED slot

\* The ADM PIN of the command line, on the card that init_card returned.
StartAdm(right) ==
  LET works == right /\ slot.on /\ HasAdmChvNum(init.card) IN
  /\ In("adm")
  /\ init' = [init EXCEPT !.pc = "run"]
  /\ IF init.opening.adm
     THEN /\ slot' = [slot EXCEPT !.adm = @ \/ works]
          /\ shell' = [shell EXCEPT !.errors = @ \/ ~works]
     ELSE UNCHANGED <<slot, shell>>
  /\ Calm
\* The commands of the command line, unless something went wrong.
Refuses(errors) == errors
RunCommands ==
  /\ In("run")
  /\ shell' = [shell EXCEPT !.ran = ~Refuses(shell.errors)]
  /\ init' = [NoInit EXCEPT !.opening = init.opening, !.how = "ran"]
  /\ UNCHANGED slot /\ Calm

Event == In("idle") /\ counted.events < MaxEvents /\ counted' = [counted EXCEPT !.events = @ + 1]

\* do_reset: the state's, or the card's alone; without a card it raises.
DoReset ==
  /\ Event /\ shell.card # "none" /\ Powered
  /\ shell' = IF shell.rs.gen = 0 THEN shell ELSE [shell EXCEPT !.lchan = shell.rs.gen, !.rs.atr = slot.card]
  /\ init' = NoInit

\* do_apdu: the APDU is checked strictly if the user wants it, and again afterwards - unless the
\* command raises.
DoApdu(strict, raises) ==
  /\ Event /\ shell.card # "none"
  /\ slot.on \/ raises
  /\ shell' = [shell EXCEPT !.strict = strict \/ ~raises]
  /\ init' = NoInit
  /\ UNCHANGED slot

ExchangeCard(card) ==
  /\ Event
  /\ slot' = [card |-> card, on |-> FALSE, adm |-> FALSE, other |-> TRUE]
  /\ init' = NoInit
  /\ UNCHANGED shell

StartNext ==
  \/ \E opening \in Openings, card \in DOMAIN Stock : Begin(opening, card)
  \/ DoEquip \/ WaitForCard \/ Detect \/ MatchWithCard \/ NoProfile
  \/ \E yes \in BOOLEAN : MakeState(yes) \/ Equip(yes) \/ StartAdm(yes)
  \/ ObtainEid \/ Trouble \/ RunCommands \/ DoReset
  \/ \E strict, raises \in BOOLEAN : DoApdu(strict, raises)
  \/ \E card \in DOMAIN Stock : ExchangeCard(card)

-----------------------------------------------------------------------------
\* Properties.

Own == Stock[shell.rs.card]

\* Commands for a card are offered only with a state, and they work on that state's channel: after
\* initialisations that broke off at any place too.
OfferedIsEquipped ==
  shell.cmds => shell.rs.gen # 0 /\ shell.lchan = shell.rs.gen /\ shell.sets \in {"none", shell.rs.profile}

\* The profile is the first that fits the card it was made for, and both the card's commands and the
\* channel's go out with a class that the card answers to: that of the profile, unless a card without
\* EF.DIR was taken for a SIM because it has DF.GSM.
ProfileFits ==
  shell.rs.gen # 0 =>
    /\ TryMatchCard(shell.rs.profile, Own)
    /\ \A i, j \in DOMAIN ProfilesInOrder :
         ProfilesInOrder[j] = shell.rs.profile /\ TryMatchCard(ProfilesInOrder[i], Own) => j <= i
    /\ Accepts(Own, shell.rs.cla) /\ Accepts(Own, shell.rs.lchan)
    /\ shell.rs.lchan # shell.rs.cla => "EF.DIR" \notin Own.files /\ "DF.GSM" \in Own.files

\* Of the applications it knows, the state has those that the card has, each once, and those that
\* EF.DIR lists - all of them if the card was taken for a UICC.
AppsOfCard ==
  shell.rs.gen # 0 =>
    /\ AddsUp(shell.rs.apps)
    /\ ToSet(shell.rs.apps) \subseteq KnownApps \cap (Own.apps \cup {a.app : a \in ToSet(Own.listed)})
    /\ shell.card = "uicc" /\ IsUicc(shell.rs.profile) => KnownApps \cap Own.apps \subseteq ToSet(shell.rs.apps)

\* Unless another card was put in after equip, what identifies the card - ATR, ICCID and EID - is that
\* of the card in the reader, or nothing.
IdentityOfOne ==
  shell.cmds /\ ~slot.other =>
    /\ {shell.rs.atr, shell.rs.card} = {slot.card}
    /\ {shell.rs.iccid, shell.rs.eid} \subseteq {slot.card, "none"}

\* Commands given with the call run only if the card could be initialised and the PIN given with it was
\* verified.
RunsOnlyAfterAdm ==
  init.how = "ran" /\ shell.ran => (init.opening.adm => slot.adm) /\ shell.card # "none"

StartTrusted == OfferedIsEquipped /\ ProfileFits /\ AppsOfCard /\ IdentityOfOne /\ RunsOnlyAfterAdm

=============================================================================
