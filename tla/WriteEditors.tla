--------------------------- MODULE WriteEditors ---------------------------
(***************************************************************************)
(* The page's write popup (src/src/templates/index.html): the rule that    *)
(* offers it, the text box that is sent, and the editors that fill the     *)
(* box: tables of services, of PLMNs and of access classes, one record, or *)
(* one BER-TLV object.  A file's contents are a sequence of entries of its *)
(* kind, and perhaps bytes after them that make no whole entry.  The popup *)
(* may be closed, opened and used while writes sent from it are awaited.   *)
(* The file stays selected: what another selection does is WebClient's.    *)
(***************************************************************************)
EXTENDS Integers, Sequences, FiniteSets

CONSTANTS
  Targets,   \* files that may be opened, with what the page knows of them
  MaxSteps   \* bound, for each kind of file: how many times the user acts

VARIABLES
  target,    \* the selected file: [kind, tail, mapped, sized, rules], and its contents on the card
  verified,  \* admVerified: whether ADM1 is
  cache,     \* readCache: the file as the page has read it, if it has it
  phase,     \* whether the popup shows: "closed" or "open"
  rows,      \* the inputs of the table, or tlvTagData
  oldRows,   \* writeServiceOrig, accOrigBits: the table as it was rendered
  box,       \* writeHexInput, writeTlvHexInput
  original,  \* writeOrigHex, tlvOrigHex
  picked,    \* writeRecordSelect, writeTlvTagSelect
  buttons,   \* which of "submit" and "restore" can be pressed
  awaited,   \* writes whose answer, or the reading that follows it, is awaited
  due,       \* tables of services that are rendered when the services' names come
  posted,    \* the last write sent since the popup opened, and what the user had done up to then
  edits,     \* what the user has done since the popup showed the card's contents
  steps

editVars ==
  <<target, verified, cache, phase, rows, oldRows, box, original, picked, buttons, awaited, due,
    posted, edits, steps>>
editor == <<rows, oldRows, box, original, picked, buttons>>

Tables == {"service", "plmn", "acc"}
Singles == {"records", "tlv"}
Text(entries, tail) == [entries |-> entries, tail |-> tail]
NoText == Text(<<>>, FALSE)
Nothing == [text |-> NoText, basis |-> NoText, edits |-> [rows |-> {}], any |-> FALSE]

\* rows: entries changed in the table.  typed: the box was edited as hex.  mistyped: a code in a
\* row was too short.  aged: a table does not show what an earlier write left, or what the card
\* has; stale: the box was made from such a table, or before the services' names came.  late:
\* something was done while a write was awaited.  blind: writes overlapped, or the answer of one
\* was lost, so that the page takes for the card's contents what they no longer are.
NoEdits == [rows |-> {}, typed |-> FALSE, mistyped |-> FALSE, aged |-> FALSE, stale |-> FALSE,
            wrote |-> FALSE, late |-> FALSE, blind |-> FALSE, at |-> 0]

-----------------------------------------------------------------------------
\* The rule for writing: the first of the file's rules that speaks of updates.

Update == "update_erase"
ConditionOf(t) ==
  LET about == {i \in DOMAIN t.rules : Update \in t.rules[i].modes}
  IN IF t.rules = <<>> THEN "unread"
     ELSE IF about = {} THEN "never"
     ELSE t.rules[CHOOSE i \in about : \A j \in about : i <= j].cond

IsAdmSatisfied(cond) == cond = "adm" => verified
WriteOffered(t) == ConditionOf(t) \notin {"never", "unread"} /\ IsAdmSatisfied(ConditionOf(t))

-----------------------------------------------------------------------------
\* Between contents and tables.  A row of a PLMN table is what stands in its inputs.

ShortMcc == "short MCC"
ShortMnc == "short MNC"
Half == "one of two"
FreePlmn == [net |-> "free", act |-> "0000"]

AsRow(t, e) == IF t.kind = "plmn" /\ e.net = "free" THEN [net |-> "", act |-> ""] ELSE e

NetOf(code) ==
  CASE code = ShortMcc -> "free" [] code \in {ShortMnc, Half} -> "garbled" [] OTHER -> code

AsEntry(t, row) ==
  IF t.kind # "plmn" THEN row
  ELSE IF row.net = "" THEN FreePlmn
  ELSE [net |-> NetOf(row.net), act |-> IF row.act = "" THEN "0000" ELSE row.act]

\* A file as it may be opened: its entries are of its kind, and a PLMN's codes are whole.
IsSequence(s) == s \in Seq({s[i] : i \in DOMAIN s})
IsPlmn(e) ==
  /\ e = [net |-> e.net, act |-> e.act]
  /\ e.net \notin {"", ShortMcc, ShortMnc, Half} /\ e.act # ""
EntriesFit(kind, s) ==
  /\ IsSequence(s)
  /\ kind = "service" => \A i \in DOMAIN s : s[i] \in BOOLEAN
  /\ kind = "plmn" => \A i \in DOMAIN s : IsPlmn(s[i])
IsFile(t) ==
  /\ t = [kind |-> t.kind, contents |-> t.contents, tail |-> t.tail, sized |-> t.sized,
          mapped |-> t.mapped, rules |-> t.rules]
  /\ EntriesFit(t.kind, t.contents) /\ IsSequence(t.rules)

\* As if bits were counted from 0.
ServiceTextShifted(t, r) ==
  Text(IF t.sized THEN [i \in DOMAIN r |-> i \in t.mapped /\ i > 1 /\ r[i - 1]] ELSE <<>>, FALSE)

\* The services the map names make the whole text, in as many bytes as the FCP says the file has.
ServiceText(t, r) ==
  Text(IF t.sized THEN [i \in DOMAIN r |-> i \in t.mapped /\ r[i]] ELSE <<>>, FALSE)

BoxOf(t, r) ==
  IF t.kind = "service" THEN ServiceText(t, r)
  ELSE Text([i \in DOMAIN r |-> AsEntry(t, r[i])], FALSE)

TableOf(t) == [i \in DOMAIN t.contents |-> AsRow(t, t.contents[i])]

Pick(t, i) == IF t.contents = <<>> THEN NoText ELSE Text(<<t.contents[i]>>, FALSE)
Contents(t) == Text(t.contents, t.tail)

-----------------------------------------------------------------------------
\* openWritePopup, with the editor of the kind.

Fill(t, i) ==
  /\ rows' = IF t.kind = "service" THEN rows ELSE TableOf(t)
  /\ oldRows' = IF t.kind = "service" THEN oldRows ELSE TableOf(t)
  /\ picked' = i
  /\ original' = IF t.kind \in Singles THEN Pick(t, i) ELSE Contents(t)
  /\ box' = original'
  /\ buttons' = {}

\* It fills from the cache, also while a write is awaited; renderServiceTable does so when it
\* has the services' names.
Open ==
  /\ phase = "closed" /\ WriteOffered(target) /\ steps < MaxSteps[target.kind]
  /\ phase' = "open" /\ steps' = steps + 1 /\ posted' = Nothing
  /\ edits' = [NoEdits EXCEPT !.at = steps', !.late = awaited # {},
                 !.blind = awaited # {} \/ cache # {target}]
  /\ \E t \in cache :
       /\ Fill(t, 1)
       /\ due' = IF t.kind = "service" THEN due \cup {[file |-> t, at |-> steps']} ELSE due
  /\ UNCHANGED <<target, verified, cache, awaited>>

\* The names come: the table shows what the page had read when it asked for them.
MapArrives(d) ==
  /\ d \in due /\ due' = due \ {d}
  /\ rows' = TableOf(d.file) /\ oldRows' = TableOf(d.file)
  /\ edits' = [edits EXCEPT !.aged = d.file # target]
  /\ UNCHANGED <<target, verified, cache, phase, box, original, picked, buttons, awaited, posted,
                  steps>>

\* closeWritePopup only hides it.
Close ==
  /\ phase = "open" /\ phase' = "closed"
  /\ UNCHANGED <<target, verified, cache, editor, awaited, due, posted, edits, steps>>

\* doAdmVerify, with updateDetailButtons.
VerifyAdm ==
  /\ phase = "closed" /\ ~verified /\ steps < MaxSteps[target.kind]
  /\ verified' = TRUE /\ steps' = steps + 1
  /\ UNCHANGED <<target, cache, phase, editor, awaited, due, posted, edits>>

\* Editing goes on while a write is on its way.
Acts == phase = "open" /\ steps < MaxSteps[target.kind] /\ steps' = steps + 1
Late == edits.late \/ awaited # {}
MapDue == \E d \in due : d.at = edits.at

Buttons(changed, fits) ==
  (IF changed THEN {"restore"} ELSE {}) \cup (IF changed /\ fits THEN {"submit"} ELSE {})

\* A table's change is told by its switches, a PLMN table's by its text.
RowsChanged(r) ==
  CASE target.kind = "service" ->
         \E i \in DOMAIN oldRows : oldRows[i] # (i \in target.mapped /\ r[i])
    [] target.kind = "acc" -> r # oldRows
    [] OTHER -> BoxOf(target, r) # original

\* onServiceChange, onPlmnEdit, onAccChange: the text is made anew from the whole table.
EditRow(i, v) ==
  /\ Acts /\ target.kind \in Tables /\ i \in DOMAIN rows /\ rows[i] # v
  /\ target.kind = "service" => i \in target.mapped
  /\ rows' = [rows EXCEPT ![i] = v]
  /\ box' = BoxOf(target, rows')
  /\ buttons' = Buttons(RowsChanged(rows'), TRUE)
  /\ edits' = [edits EXCEPT !.rows = @ \cup {i}, !.typed = FALSE, !.late = Late,
                 !.stale = edits.aged \/ MapDue,
                 !.mistyped = @ \/ (target.kind = "plmn" /\ v.net \in {ShortMcc, ShortMnc, Half})]
  /\ UNCHANGED <<target, verified, cache, phase, oldRows, original, picked, awaited, due, posted>>

\* The text has the size the FCP gave the file or the record, when it gave one.
RightSize(t) ==
  \/ target.kind = "tlv" /\ t.entries # <<>>
  \/ target.kind # "tlv"
     /\ (target.sized => Len(t.entries) = Len(original.entries) /\ t.tail = original.tail)

\* checkWriteChanged, onServiceHexInput, onPlmnHexInput, checkTlvChanged.
EditBox(t) ==
  /\ Acts /\ target.kind # "acc" /\ t # box
  /\ box' = t
  /\ buttons' = Buttons(t # original, RightSize(t))
  /\ edits' = [edits EXCEPT !.typed = TRUE, !.stale = FALSE, !.late = Late]
  /\ UNCHANGED <<target, verified, cache, phase, rows, oldRows, original, picked, awaited, due,
                  posted>>

\* onTlvTagChange, onWriteRecordChange.  A written object is remembered under its tag; a record
\* is looked up in the cache, and while that has none the box keeps the one before.
PickAnother(i) ==
  /\ Acts /\ target.kind \in Singles /\ i \in DOMAIN rows /\ i # picked
  /\ picked' = i
  /\ \/ target.kind = "tlv" /\ box' = Text(<<rows[i]>>, FALSE) /\ original' = box' /\ buttons' = {}
     \/ \E t \in cache : target.kind = "records" /\ box' = Pick(t, i) /\ original' = box' /\ buttons' = {}
     \/ target.kind = "records" /\ cache = {} /\ UNCHANGED <<box, original>>
        /\ buttons' = Buttons(box # original, RightSize(box))
  /\ edits' = [edits EXCEPT !.rows = {}, !.typed = FALSE, !.late = Late]
  /\ UNCHANGED <<target, verified, cache, phase, rows, oldRows, awaited, due, posted>>

\* restoreOrigHex, tlvRestore: services go back to what was rendered, PLMNs and classes to the
\* cache if it has the file.
Restore ==
  /\ Acts /\ "restore" \in buttons
  /\ box' = original /\ buttons' = {}
  /\ LET renders == target.kind \in {"plmn", "acc"} /\ cache # {} IN
     /\ \/ ~renders /\ rows' = IF target.kind = "service" THEN oldRows ELSE rows
        \/ renders /\ \E t \in cache : rows' = TableOf(t)
     /\ oldRows' = IF renders /\ target.kind = "acc" THEN rows' ELSE oldRows
     /\ edits' = [NoEdits EXCEPT !.rows = IF renders \/ target.kind = "service" THEN {} ELSE edits.rows,
                    !.aged = edits.aged \/ (target.kind = "service" /\ edits.wrote),
                    !.mistyped = edits.mistyped /\ ~renders,
                    !.wrote = edits.wrote, !.late = Late, !.blind = edits.blind, !.at = edits.at]
  /\ UNCHANGED <<target, verified, cache, phase, original, picked, awaited, due, posted>>

-----------------------------------------------------------------------------
\* submitWrite and tlvWrite, and the answer.

HalfFilled == target.kind = "plmn" /\ \E i \in DOMAIN rows : rows[i].net = Half
TagNow == IF rows = <<>> THEN "80" ELSE rows[picked].tag
BadTlv ==
  target.kind = "tlv"
  /\ (box.entries = <<>> \/ box.entries[1].tag # TagNow \/ ~box.entries[1].fits)

\* A write of anything but an object needs the cache: without it submitWrite breaks off.
Submit ==
  /\ Acts /\ "submit" \in buttons /\ ~HalfFilled /\ ~BadTlv
  /\ target.kind = "tlv" \/ cache # {}
  /\ edits' = [edits EXCEPT !.blind = @ \/ awaited # {}]
  /\ posted' = [text |-> box, edits |-> edits', any |-> TRUE,
                basis |-> IF target.kind \in Singles THEN Pick(target, picked) ELSE Contents(target)]
  /\ awaited' = awaited \cup
       {[text |-> box, at |-> picked, nr |-> steps', stage |-> "sent", seen |-> cache]}
  /\ buttons' = buttons \ {"submit"}
  /\ UNCHANGED <<target, verified, cache, phase, rows, oldRows, box, original, picked, due>>

Goes(w, stage) == awaited' = (awaited \ {w}) \cup {[w EXCEPT !.stage = stage]}

\* The file t after write w.
Stored(t, w) ==
  IF t.kind \notin Singles
  THEN [t EXCEPT !.contents = w.text.entries, !.tail = w.text.tail]
  ELSE [t EXCEPT !.contents = IF @ = <<>> THEN w.text.entries
                              ELSE [@ EXCEPT ![w.at] = w.text.entries[1]]]

\* The card stores it.  It refuses what is no PLMN and a record of another length.
CardStores(w) ==
  /\ w \in awaited /\ w.stage = "sent"
  /\ "garbled" \notin {IF target.kind = "plmn" THEN w.text.entries[i].net ELSE "" :
                        i \in DOMAIN w.text.entries}
  /\ target.kind \in Singles => w.text.entries # <<>>
  /\ target' = Stored(target, w)
  /\ Goes(w, "stored")
  /\ UNCHANGED <<verified, cache, phase, editor, due, posted, edits, steps>>

\* The answer: what was sent is the new original, and the cache forgets the file.
WriteDone(w) ==
  /\ w \in awaited /\ w.stage = "stored"
  /\ Goes(w, "answered")
  /\ original' = w.text /\ buttons' = {} /\ cache' = {}
  /\ rows' = CASE target.kind # "tlv" -> rows
               [] target.kind = "tlv" /\ rows = <<>> -> w.text.entries
               [] OTHER -> [rows EXCEPT ![w.at] = w.text.entries[1]]
  /\ edits' = [edits EXCEPT !.rows = {}, !.wrote = TRUE, !.mistyped = FALSE,
                 !.aged = @ \/ (target.kind \in Tables /\ BoxOf(target, rows) # w.text)]
  /\ UNCHANGED <<target, verified, phase, oldRows, box, picked, due, posted, steps>>

\* A second later the file is read again.  If that fails it is believed to hold what was sent,
\* but for an object.  A table of PLMNs is rendered anew.
Reread(w, ok) ==
  /\ w \in awaited /\ w.stage = "answered"
  /\ awaited' = awaited \ {w}
  /\ cache' = CASE ok -> {target}
                [] ~ok /\ target.kind = "tlv" -> cache
                [] OTHER -> {Stored(t, w) : t \in w.seen}
  /\ \/ target.kind # "plmn" /\ UNCHANGED <<original, rows, edits>>
     \/ target.kind = "plmn" /\ \E t \in cache' :
          /\ original' = Contents(t) /\ rows' = TableOf(t)
          /\ edits' = [edits EXCEPT !.aged = t # target]
  /\ UNCHANGED <<target, verified, phase, oldRows, box, picked, buttons, due, posted, steps>>

\* An error: the card refused it, or the answer is lost.
WriteFailed(w) ==
  /\ w \in awaited /\ w.stage # "answered"
  /\ awaited' = awaited \ {w}
  /\ buttons' = buttons \cup {"submit"}
  /\ edits' = [edits EXCEPT !.blind = @ \/ w.stage = "stored"]
  /\ UNCHANGED <<target, verified, cache, phase, rows, oldRows, box, original, picked, due, posted,
                  steps>>

-----------------------------------------------------------------------------

RowChoices(kind) ==
  IF kind # "plmn" THEN BOOLEAN
  ELSE {[net |-> n, act |-> a] : n \in {"", "n1", "n2"}, a \in {"", "80"}}
       \cup {[net |-> n, act |-> ""] : n \in {ShortMcc, ShortMnc, Half}}

TlvChoices == [tag : {"80", "81"}, value : {1}, fits : BOOLEAN]
EntryChoices(kind) ==
  CASE kind \in {"service", "acc"} -> BOOLEAN
    [] kind = "plmn" -> {FreePlmn, [net |-> "n2", act |-> "80"]}
    [] kind = "tlv" -> TlvChoices
    [] OTHER -> {0, 1}

\* Typing changes an entry, or leaves the last one out.
Typed(kind) ==
  {Text([box.entries EXCEPT ![i] = e], box.tail) :
     i \in DOMAIN box.entries, e \in EntryChoices(kind)}
  \cup (IF box.entries = <<>> THEN {Text(<<e>>, FALSE) : e \in EntryChoices(kind)}
        ELSE {Text(SubSeq(box.entries, 1, Len(box.entries) - 1), box.tail)})

EditIdle ==
  /\ verified = FALSE /\ cache = {target} /\ phase = "closed"
  /\ rows = <<>> /\ oldRows = <<>> /\ box = NoText /\ original = NoText /\ picked = 1
  /\ buttons = {} /\ awaited = {} /\ due = {} /\ posted = Nothing /\ edits = NoEdits /\ steps = 0

EditInit == target \in Targets /\ EditIdle
EditStands == target = (CHOOSE t \in Targets : TRUE) /\ EditIdle

EditNext ==
  \/ Open \/ Close \/ VerifyAdm \/ Restore \/ Submit
  \/ \E d \in due : MapArrives(d)
  \/ \E w \in awaited : CardStores(w) \/ WriteDone(w) \/ WriteFailed(w) \/ \E ok \in BOOLEAN : Reread(w, ok)
  \/ \E i \in DOMAIN rows : PickAnother(i) \/ \E v \in RowChoices(target.kind) : EditRow(i, v)
  \/ \E t \in Typed(target.kind) : EditBox(t)
  \/ (steps = MaxSteps[target.kind] \/ ~WriteOffered(target) \/ cache = {}) /\ awaited = {} /\ due = {} /\ UNCHANGED editVars

-----------------------------------------------------------------------------
\* Properties.

\* A table can show all of these contents: every service that is on is in the map and the file
\* has the size its FCP says; a free PLMN has no access technology; nothing follows the entries.
Tabular(basis) ==
  /\ ~basis.tail
  /\ target.kind = "service" =>
       target.sized /\ \A i \in DOMAIN basis.entries : basis.entries[i] => i \in target.mapped
  /\ target.kind = "plmn" =>
       \A i \in DOMAIN basis.entries : basis.entries[i].net = "free" => basis.entries[i] = FreePlmn

\* A write made with a table changes only the entries the user changed, when the table can show
\* the file, the codes typed have their length, the box was not made from a table that did not
\* show the card's contents, and neither did writes overlap since the popup opened, or when it
\* did, nor was an answer lost.
EditsAreLocal ==
  posted.any /\ target.kind \in Tables /\ ~posted.edits.typed /\ ~posted.edits.mistyped
  /\ ~posted.edits.stale /\ ~posted.edits.blind /\ Tabular(posted.basis) =>
    /\ DOMAIN posted.text.entries = DOMAIN posted.basis.entries /\ ~posted.text.tail
    /\ \A i \in DOMAIN posted.basis.entries :
         posted.text.entries[i] # posted.basis.entries[i] => i \in posted.edits.rows

\* The submit button means a change: what would be sent differs from what the card has, until the
\* first write succeeds, and when nothing was done while one was on its way.
SubmitChanges ==
  "submit" \in buttons /\ phase = "open" /\ ~edits.late /\ ~edits.blind /\ ~edits.wrote
  /\ ~edits.stale /\ (target.kind \in Tables => Tabular(original)) =>
    box # original /\ original = IF target.kind \in Singles THEN Pick(target, picked)
                                 ELSE Contents(target)

\* The popup opens only under a rule that lets somebody update, and under rules for
\* administrators alone only once one is verified.
OpenedByRule ==
  phase = "open" =>
    \E i \in DOMAIN target.rules :
      /\ Update \in target.rules[i].modes /\ target.rules[i].cond # "never"
      /\ target.rules[i].cond = "adm" => verified

\* Writing from the page: what is sent is what was edited, by whom it may be.
WritesAreEdits == EditsAreLocal /\ SubmitChanges /\ OpenedByRule

=============================================================================
