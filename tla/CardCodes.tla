----------------------------- MODULE CardCodes -----------------------------
(***************************************************************************)
(* pySim-shell's PIN commands: codes typed in or looked up by the ICCID in *)
(* the card key providers (src/pysim/pySim/card_key_provider.py), and the  *)
(* tries that the card counts.                                             *)
(*                                                                         *)
(* A card that was put in for another one answers nothing before it was    *)
(* reset.  An answer may be lost after the card has acted.                 *)
(***************************************************************************)
EXTENDS Naturals, Sequences, SequencesExt, FiniteSetsExt

CONSTANTS
  Sims,       \* the ICCIDs of the cards
  Codes,      \* what pin, puk and adm of each card were at first
  Providers,  \* sequences of tables, in the order of their registration
  Typed,      \* codes a user types
  MaxTries,
  MaxTurns    \* bound: commands, resets and exchanges

VARIABLES
  inReader,   \* the card in the reader
  powered,    \* it was reset since it was put in
  exchanged,  \* it was put in after pySim-shell was equipped
  iccid,      \* rs.identity['ICCID']
  codes,      \* what each card has for a code, how many tries are left, and whether it asks for the PIN
  said,       \* the last command, what it sent and how it ended
  turns

codesVars == <<inReader, powered, exchanged, iccid, codes, said, turns>>

Fields == {"PIN1", "ADM1", "PUK1"}
NothingSaid ==
  [name |-> "none", field |-> "none", code |-> "none", looked |-> FALSE, spent |-> FALSE, ok |-> FALSE]

CodesInit ==
  /\ inReader = CHOOSE s \in Sims : TRUE
  /\ powered = FALSE /\ exchanged = TRUE /\ iccid = "none"
  /\ codes = [s \in Sims |-> [f \in Fields |-> [code |-> Codes[s][f], tries |-> MaxTries, on |-> TRUE]]]
  /\ said = NothingSaid /\ turns = 0

-----------------------------------------------------------------------------
\* The card key providers.

\* Of a CSV file the last line of the card counts, of a database table the first.  A column that is
\* not there is an error: in a file if it has the card, in a table always.
InTable(table, field, id) ==
  LET lines == SelectSeq(table.rows, LAMBDA r : r.iccid = id) IN
  IF ~table.keyed \/ (lines = <<>> /\ (table.csv \/ field \in table.columns)) THEN "absent"
  ELSE IF field \notin table.columns THEN "raises"
  ELSE (IF table.csv THEN Last(lines) ELSE Head(lines))[field]

\* The first provider, and its first table, that has the card.
GetField(field, id) ==
  LET tables == FlattenSeq(Providers)
      having == {i \in DOMAIN tables : InTable(tables[i], field, id) # "absent"}
  IN IF having = {} THEN "raises" ELSE InTable(tables[Min(having)], field, id)

\* The empty string is a code of FF bytes; a missing value is none.
SanitizePinAdm(value) == IF value = "" THEN "FF" ELSE value
GetCode(typed, field) ==
  IF typed # "none" THEN typed
  ELSE LET value == GetField(field, iccid)
       IN IF value = "null" THEN "raises" ELSE SanitizePinAdm(value)

-----------------------------------------------------------------------------
\* The card: a code is compared only if there is a try left.

Compare(state, field, code) ==
  IF state[field].tries > 0 /\ code = state[field].code THEN [state EXCEPT ![field].tries = MaxTries]
  ELSE [state EXCEPT ![field].tries = IF @ = 0 THEN 0 ELSE @ - 1]
Accepts(state, field, code) == state[field].tries > 0 /\ code = state[field].code

-----------------------------------------------------------------------------
\* One command: nothing is sent if a code is not found; success is 9000, and all else is raised.

Turn == turns < MaxTurns /\ turns' = turns + 1

Command(name, field, typed, code, new, accepted) ==
  LET none == [NothingSaid EXCEPT !.name = name, !.field = field]
      state == codes[inReader]
      asks == state["PIN1"].on # (name = "enable") \/ name = "unblock" \/ field = "ADM1"
      right == asks /\ Accepts(state, field, code)
  IN
  /\ UNCHANGED <<inReader, powered, exchanged, iccid>>
  /\ IF code = "raises" \/ new = "raises" \/ ~powered THEN said' = none /\ UNCHANGED codes
     ELSE /\ codes' = [codes EXCEPT ![inReader] =
               IF right THEN accepted ELSE IF asks THEN Compare(state, field, code) ELSE state]
          /\ \E answered \in BOOLEAN :
               said' = [none EXCEPT !.code = IF new = "none" THEN code ELSE new, !.looked = typed = "none",
                          !.spent = codes'[inReader][field].tries < state[field].tries, !.ok = right /\ answered]

VerifyChv(typed) ==
  LET code == GetCode(typed, "PIN1")
  IN Turn /\ Command("verify", "PIN1", typed, code, "none", Compare(codes[inReader], "PIN1", code))

VerifyAdm(typed) ==
  LET code == GetCode(typed, "ADM1")
  IN Turn /\ Command("verify", "ADM1", typed, code, "none", Compare(codes[inReader], "ADM1", code))

\* Without an old PIN, what is looked up for it; without a new one as well, the same for both.
ChangeChv(typedNew, typed) ==
  LET new == GetCode(typedNew, "PIN1")
      code == GetCode(typed, "PIN1")
      state == Compare(codes[inReader], "PIN1", code)
  IN /\ Turn /\ (typedNew = "none" => typed = "none")
     /\ Command("change", "PIN1", typed, code, new, [state EXCEPT !["PIN1"].code = new])

UnblockChv(typed, typedNew) ==
  LET new == GetCode(typedNew, "PIN1")
      code == GetCode(typed, "PUK1")
      state == Compare(codes[inReader], "PUK1", code)
  IN /\ Turn /\ (typed = "none" => typedNew = "none")
     /\ Command("unblock", "PUK1", typed, code, new,
                [state EXCEPT !["PIN1"] = [code |-> new, tries |-> MaxTries, on |-> TRUE]])

DisableChv(typed) ==
  LET code == GetCode(typed, "PIN1")
      state == Compare(codes[inReader], "PIN1", code)
  IN Turn /\ Command("disable", "PIN1", typed, code, "none", [state EXCEPT !["PIN1"].on = FALSE])

EnableChv(typed) ==
  LET code == GetCode(typed, "PIN1")
      state == Compare(codes[inReader], "PIN1", code)
  IN Turn /\ Command("enable", "PIN1", typed, code, "none", [state EXCEPT !["PIN1"].on = TRUE])

-----------------------------------------------------------------------------
\* Cards are exchanged; equip reads the ICCID, reset does not.

Exchange(s) ==
  /\ Turn /\ s \in Sims \ {inReader}
  /\ inReader' = s /\ powered' = FALSE /\ exchanged' = TRUE /\ said' = NothingSaid
  /\ UNCHANGED <<iccid, codes>>

Equip(readable) ==
  /\ Turn
  /\ powered' = TRUE /\ exchanged' = FALSE
  /\ iccid' = IF readable THEN inReader ELSE "none"
  /\ said' = NothingSaid
  /\ UNCHANGED <<inReader, codes>>

Reset ==
  /\ Turn /\ powered' = TRUE /\ said' = NothingSaid
  /\ UNCHANGED <<inReader, exchanged, iccid, codes>>

CodesNext ==
  \/ \E typed \in Typed \cup {"none"} :
       \/ VerifyChv(typed) \/ VerifyAdm(typed) \/ DisableChv(typed) \/ EnableChv(typed)
       \/ \E other \in Typed \cup {"none"} : ChangeChv(typed, other) \/ UnblockChv(typed, other)
  \/ (\E s \in Sims : Exchange(s)) \/ (\E readable \in BOOLEAN : Equip(readable)) \/ Reset

-----------------------------------------------------------------------------
\* Properties.

\* A command that reports success has left the card with the PIN it was given, able to be tried again
\* and asked for or not as was meant.
SaidIsSo ==
  said.ok =>
    LET pin == codes[inReader]["PIN1"] IN
    /\ said.field # "ADM1" => said.code = pin.code
    /\ said.field # "ADM1" => pin.tries = MaxTries
    /\ said.name \in {"verify", "unblock", "enable", "change"} /\ said.field # "ADM1" => pin.on
    /\ said.name = "disable" => ~pin.on

\* No looked-up code costs a card a try if what is written for that card is right, wherever it is
\* written - unless the card was exchanged and only reset, which leaves the ICCID of the other one.
Written(field) ==
  LET tables == {t \in ToSet(FlattenSeq(Providers)) : t.keyed /\ field \in t.columns}
      lines == UNION {ToSet(t.rows) : t \in tables}
  IN {line[field] : line \in {l \in lines : l.iccid = inReader}}
NoTryWasted ==
  said.spent /\ said.looked /\ ~exchanged => Written(said.field) # {codes[inReader][said.field].code}

\* The ICCID that codes are looked up by is that of the card that was equipped, or none.
IccidOfCard == ~exchanged => iccid \in {inReader, "none"}

CodesTrusted == SaidIsSo /\ NoTryWasted /\ IccidOfCard

=============================================================================
