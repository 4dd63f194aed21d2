----------------------------- MODULE FileExport -----------------------------
(***************************************************************************)
(* pySim-shell's walks over a card's file system - export, fsdump,         *)
(* fsdump_custom and tree (src/pysim/pySim-shell.py) - with what each file *)
(* class of filesystem.py exports; the script they write, run on a card    *)
(* again; and the commands that change one element of a decoded file.      *)
(* The card refuses some selections always and MaxDenied  others once; the *)
(* bytes of a file are 1, or 2 where somebody edited them, 0 on a blank    *)
(* card.                                                                   *)
(***************************************************************************)
EXTENDS FilePaths, FiniteSets

CONSTANTS
  Directories,  \* the DFs and ADFs that pySim knows, the MF too
  Bare,         \* those of the applications that have no file system
  Elementary,   \* the EFs that pySim knows
  Missing,      \* the files that are not on the card
  Cards,        \* what the EFs may hold: a sequence of functions from Elementary
  Starts,       \* the files selected when a walk begins
  MaxDenied     \* bound: selections refused once

VARIABLES
  card,     \* what the EFs hold
  command,  \* what the walk is for, and whether it asks for JSON
  frames,   \* the directories being walked, each with what is left to do in it
  sel,      \* lchan.selected_file
  entries,  \* the script, or the result: an entry for each file, in order
  skipped,  \* context['DF_SKIP_REASON']
  stopped,  \* an exception ended the walk
  denials,  \* how often a selection was refused once
  lost,     \* a select() that failed did not find back
  edit      \* a change of one element: what came of it

walkVars == <<card, command, frames, sel, entries, skipped, stopped, denials, lost, edit>>

NoCommand == [name |-> "none", json |-> FALSE, start |-> MF]
NoEdit == [file |-> MF]

WalkInit ==
  /\ card = <<>> /\ command = NoCommand /\ frames = <<>> /\ sel = MF /\ entries = <<>>
  /\ skipped = {} /\ stopped = FALSE /\ denials = 0 /\ lost = FALSE /\ edit = NoEdit

-----------------------------------------------------------------------------
\* The tree, and selecting in it.

Known == Directories \cup Elementary
Cwd(f) == IF f \in Elementary THEN Parent(f) ELSE f
Children(d) == {x \in Known : x # MF /\ Parent(x) = d}

\* get_selectables with names of files and applications: an EF has those of its directory.
Listed(f) == SetToSeq(IF f \in Elementary THEN Children(Parent(f)) \ {f} ELSE Children(f))

\* get_file_by_name, and the lookup of select(): a child goes before all others.
Named(from, name) ==
  LET near == {x \in Children(Cwd(from)) \cup {from} : Last(x) = name}
      far == {x \in Applications \cup {SubSeq(from, 1, n) : n \in 1..Len(from)} : Last(x) = name}
  IN IF near # {} THEN near ELSE far

\* select_file: the way to a file; out of an application without file system by way of one that
\* has one.
Escape == CHOOSE a \in (Applications \cap Directories) \ Bare : TRUE
Way(from, to) ==
  IF from \in Bare /\ to \notin Applications /\ ~(Applications \cap Directories \subseteq Bare)
  THEN <<Escape>> \o SelectPathTo(Escape, to) ELSE SelectPathTo(from, to)

\* Where the selection stands afterwards.  A selection refused on the way leaves it there.
Along(way, to) ==
  LET absent == {i \in DOMAIN way : way[i] \in Missing}
      last == IF absent = {} THEN Len(way) ELSE CHOOSE i \in absent : \A j \in absent : i <= j
  IN {IF absent = {} THEN [ok |-> TRUE, at |-> to, refused |-> 0, strayed |-> FALSE]
      ELSE [ok |-> FALSE, at |-> way[last - 1], refused |-> 0, strayed |-> FALSE]}
     \cup {[ok |-> FALSE, at |-> way[i - 1], refused |-> 1, strayed |-> FALSE] : i \in 2..last}
Moves(from, to) == Along(<<from>> \o Way(from, to), to)

\* select(): after a failure it goes back to where it was, which may fail as well.
BackAfter(m, from) ==
  IF m.ok THEN {m}
  ELSE {[ok |-> FALSE, at |-> b.at, refused |-> m.refused + b.refused, strayed |-> ~b.ok] : b \in Moves(m.at, from)}
Selections(from, to) == UNION {BackAfter(m, from) : m \in Moves(from, to)}

Spend(n, away) ==
  /\ denials + n <= MaxDenied
  /\ denials' = denials + n /\ lost' = (lost \/ away)

-----------------------------------------------------------------------------
\* What a file is read as, and how a read ends: with the content, a status word, or another
\* exception.  A codec that fails does so at the last record.

\* TransRecEF: a transparent file of records, the last of which may be short.
Chunks(bytes, n) ==
  [i \in 1..((Len(bytes) + n - 1) \div n) |->
     SubSeq(bytes, (i - 1) * n + 1, IF i * n < Len(bytes) THEN i * n ELSE Len(bytes))]
DecodedParts(f) == IF f.rec_len > 0 THEN Chunks(f.data, f.rec_len) ELSE f.data

Decodes(f) == f.codec # "fails"
DecodesRecord(f, n) == f.codec = "fails" => n < Len(f.data)

\* A short record was decoded as raw, and that no encoder takes.
EncodesChunk(f, chunk) == f.codec = "both" /\ Len(chunk) = f.rec_len
Encodes(f) ==
  IF f.rec_len > 0 THEN \A x \in ToSet(DecodedParts(f)) : EncodesChunk(f, x) ELSE f.codec = "both"
Joined(f, elements) == IF f.rec_len > 0 THEN FlattenSeq(elements) ELSE elements
EncodesRecord(f) == f.codec \in {"both", "fails"}

\* The tags retrieve_tags makes of those on the card: one for each byte.
TagsKnown(f) == ~f.wide

\* fsdump.  It reads records until 9402 when the card did not tell how many there are.
DumpEnds(json, f) ==
  CASE f.denied -> "sw"
    [] f.structure = "ber_tlv" -> IF TagsKnown(f) THEN "read" ELSE "sw"
    [] f.structure = "transparent" -> IF json => Decodes(f) THEN "read" ELSE "raise"
    [] OTHER -> IF json => \A n \in DOMAIN f.data : DecodesRecord(f, n) THEN "read" ELSE "raise"

\* fsdump_custom: what does not decode is put down as such, beside its bytes.
CustomEnds(f) == IF f.denied \/ (f.structure = "ber_tlv" /\ ~TagsKnown(f)) THEN "sw" ELSE "read"

\* export, for each structure: whether it ends, and the script.
ExportBinary(json, f) ==
  [ok |-> ~f.denied /\ (json => Decodes(f)),
   script |-> <<[cmd |-> "update_binary", json |-> json, data |-> f.data]>>]

\* Without the number of records it raises at the first record it reads, and if it cannot read that
\* one, it is done (9402) or goes on to a number no command can hold.
FirstRecord == 1
ExportRecords(json, f) ==
  [ok |-> ~f.denied /\ IF f.counted THEN json => \A n \in DOMAIN f.data : DecodesRecord(f, n)
                       ELSE f.data = <<>>,
   script |-> [i \in 1..(Len(f.data) - FirstRecord + 1) |->
     [cmd |-> "update_record", json |-> json, n |-> i + FirstRecord - 1, data |-> f.data[i + FirstRecord - 1]]]]

ExportTlv(json, f) ==
  [ok |-> ~json /\ ~f.denied /\ TagsKnown(f),
   script |-> IF f.data = <<>> THEN <<>>
              ELSE <<[cmd |-> "delete_all"]>> \o
                   [i \in DOMAIN f.data |-> [cmd |-> "set_data", tag |-> f.data[i][1], value |-> f.data[i][2]]]]

Export(json, f) ==
  CASE f.structure = "transparent" -> ExportBinary(json, f)
    [] f.structure = "ber_tlv" -> ExportTlv(json, f)
    [] OTHER -> ExportRecords(json, f)

\* What an action on a file leaves: an entry and how it ended, or an exception that ends the walk.
Result(f) ==
  LET ends == IF command.name = "fsdump" THEN DumpEnds(command.json, card[f]) ELSE CustomEnds(card[f])
  IN CASE f \in Bare -> IF command.name = "export" THEN "read" ELSE "none"
       [] f \in Directories \ Bare -> "read"
       [] f \in Elementary /\ command.name = "export" ->
            IF Export(command.json, card[f]).ok THEN "read" ELSE "error"
       [] OTHER -> CASE ends = "sw" -> "error" [] ends = "raise" -> "stop" [] OTHER -> "read"
Content(f) ==
  IF f \in Directories THEN <<>>
  ELSE IF command.name = "export" THEN Export(command.json, card[f]).script ELSE <<card[f].data>>
Entry(f, result, content) == [file |-> f, result |-> result, content |-> content]

-----------------------------------------------------------------------------
\* The walk.

Walking == frames # <<>> /\ ~stopped
Top == Last(frames)
Opened(d) == [dir |-> d, acted |-> command.name = "tree" \/ d \in Elementary, todo |-> Listed(d)]

Begin(name, json, start, c) ==
  /\ command = NoCommand
  /\ card' = c /\ sel' = start
  /\ command' = [name |-> name, json |-> json, start |-> start]
  /\ frames' = <<[dir |-> start, acted |-> name = "tree" \/ start \in Elementary, todo |-> Listed(start)]>>
  /\ UNCHANGED <<entries, skipped, stopped, denials, lost, edit>>

\* __walk_action: the action looks the file up by its name and selects it, and what was selected
\* before is selected again - but after an exception.
Action(name, from) ==
  LET before == sel IN
  IF Named(sel, name) = {} THEN
    /\ stopped' = TRUE /\ UNCHANGED <<sel, entries, denials, lost>>
  ELSE \E f \in Named(sel, name) :
         \E m \in IF command.name = "export" THEN Moves(sel, f) ELSE Selections(sel, f) :
           LET result == IF m.ok THEN Result(f) ELSE "error" IN
           /\ entries' = IF result \in {"none", "stop"} THEN entries
                         ELSE Append(entries, Entry(f, result, IF result = "read" THEN Content(m.at) ELSE <<>>))
           /\ IF result = "stop" \/ m.at = before
              THEN /\ sel' = m.at /\ stopped' = (result = "stop") /\ Spend(m.refused, m.strayed)
              ELSE \E b \in Moves(m.at, before) :
                     sel' = b.at /\ stopped' = ~b.ok /\ Spend(m.refused + b.refused, m.strayed)

ActOnDirectory ==
  /\ Walking /\ ~Top.acted
  /\ Action(Last(sel), sel)
  /\ frames' = [frames EXCEPT ![Len(frames)] = [@ EXCEPT !.acted = TRUE, !.todo = Listed(sel')]]
  /\ UNCHANGED <<card, command, skipped, edit>>

Next1 == Head(Top.todo)
Rest == [frames EXCEPT ![Len(frames)] = [@ EXCEPT !.todo = Tail(@)]]

ActOnFile ==
  /\ Walking /\ Top.acted /\ Top.todo # <<>> /\ Next1 \in Elementary
  /\ IF command.name = "tree" THEN UNCHANGED <<sel, entries, stopped, denials, lost>>
     ELSE Action(Last(Next1), sel)
  /\ frames' = Rest
  /\ UNCHANGED <<card, command, skipped, edit>>

\* A directory that cannot be selected is noted and passed over.
Descend ==
  /\ Walking /\ Top.acted /\ Top.todo # <<>> /\ Next1 \in Directories
  /\ LET found == Named(sel, Last(Next1)) IN
     \E m \in IF found = {} THEN {[ok |-> FALSE, at |-> sel, refused |-> 0, strayed |-> FALSE]}
              ELSE UNION {Selections(sel, f) : f \in found} :
       /\ Spend(m.refused, m.strayed) /\ sel' = m.at
       /\ skipped' = IF m.ok THEN skipped ELSE skipped \cup {Next1}
       /\ frames' = IF m.ok THEN Append(Rest, Opened(m.at)) ELSE Rest
  /\ UNCHANGED <<card, command, entries, stopped, edit>>

\* The directory is done: up, from wherever the selection is.
Ascend ==
  /\ Walking /\ Top.acted /\ Top.todo = <<>>
  /\ frames' = Front(frames)
  /\ IF Len(frames) = 1 THEN UNCHANGED <<sel, stopped, denials, lost>>
     ELSE \E m \in Moves(sel, Parent(sel)) : sel' = m.at /\ stopped' = ~m.ok /\ Spend(m.refused, FALSE)
  /\ UNCHANGED <<card, command, entries, skipped, edit>>

-----------------------------------------------------------------------------
\* Changing one element: update_..._decoded with a JSON path, and the editor, which does not write
\* what it was not changed.

Changed(f, i, v) ==
  LET element == IF f.rec_len > 0 THEN [k \in DOMAIN DecodedParts(f)[i] |-> v] ELSE v
  IN Joined(f, [DecodedParts(f) EXCEPT ![i] = element])

\* Read and decoded; changed; encoded and written.
Edit(f, i, v, editor, decodes, encodes) ==
  /\ command.name = "tree" /\ frames = <<>> /\ ~stopped /\ edit = NoEdit
  /\ i \in DOMAIN DecodedParts(card[f])
  /\ LET g == card[f]
         result == IF f \in Missing \/ g.denied \/ ~decodes THEN "raised"
                   ELSE IF editor /\ Changed(g, i, v) = g.data THEN "skipped"
                   ELSE IF ~encodes THEN "raised" ELSE "written"
     IN /\ edit' = [file |-> f, at |-> i, value |-> v, before |-> g, result |-> result]
        /\ card' = IF result = "written" THEN [card EXCEPT ![f].data = Changed(g, i, v)] ELSE card
  /\ UNCHANGED <<command, frames, sel, entries, skipped, stopped, denials, lost>>

\* Without a decoder there is but the raw text, and no element in it.
EditBinary(f, i, v, editor) ==
  /\ f \in DOMAIN card /\ card[f].structure = "transparent"
  /\ Edit(f, i, v, editor, Decodes(card[f]) /\ card[f].codec # "none", Encodes(card[f]))

\* UPDATE RECORD by number is not for a cyclic file.
EditRecord(f, n, v, editor) ==
  /\ f \in DOMAIN card /\ card[f].structure \in {"linear", "cyclic"}
  /\ Edit(f, n, v, editor, DecodesRecord(card[f], n) /\ card[f].codec # "none",
          EncodesRecord(card[f]) /\ card[f].structure # "cyclic")

WalkNext ==
  \/ \E name \in {"export", "fsdump", "fsdump_custom", "tree"}, json \in BOOLEAN, start \in Starts, k \in DOMAIN Cards :
       (name = "tree" => ~json) /\ Begin(name, json, start, Cards[k])
  \/ ActOnDirectory \/ ActOnFile \/ Descend \/ Ascend
  \/ \E f \in Elementary, i \in 1..3, v \in {1, 2}, editor \in BOOLEAN :
       EditBinary(f, i, v, editor) \/ EditRecord(f, i, v, editor)

-----------------------------------------------------------------------------
\* The script, run on a card with the same files and other contents.

Blank(f) ==
  IF f.structure = "ber_tlv" THEN <<<<9, 0>>>> ELSE [i \in DOMAIN f.data |-> 0]
RunUpdateBinary(f, data, line) == IF line.json => Encodes(f) THEN line.data ELSE data
RunUpdateRecord(f, data, line) ==
  IF f.structure # "cyclic" /\ (line.json => EncodesRecord(f)) THEN [data EXCEPT ![line.n] = line.data] ELSE data
RunLine(f, data, line) ==
  CASE line.cmd = "update_binary" -> RunUpdateBinary(f, data, line)
    [] line.cmd = "update_record" -> RunUpdateRecord(f, data, line)
    [] line.cmd = "delete_all" -> <<>>
    [] line.cmd = "set_data" -> Append(data, <<line.tag, line.value>>)
Run(f, script) == FoldLeft(LAMBDA data, line : RunLine(f, data, line), Blank(f), script)

-----------------------------------------------------------------------------
\* Properties.

Below(f) == {x \in Known : IsPrefix(f, x)}
Over == command # NoCommand /\ frames = <<>> /\ ~stopped /\ ~lost
Expected ==
  LET top == IF command.start \in Elementary
             THEN UNION {Below(x) : x \in ToSet(Listed(command.start))} ELSE Below(command.start)
  IN top \ UNION {Below(d) : d \in skipped}
Entered == {entries[i].file : i \in DOMAIN entries}

\* A walk that was not ended by an exception, nor left astray by a selection back that was refused,
\* has one entry for every file below the directory it began in but those below directories it noted
\* as skipped; a dump needs none for an application without files.
WalkComplete ==
  Over /\ command.name # "tree" =>
    /\ Entered \ Bare = Expected \ Bare
    /\ command.name = "export" => Entered = Expected
    /\ Len(entries) = Cardinality(Entered)

\* And it ends where it began, its refused selections included.
WalkReturns ==
  Over /\ command.start \in Directories => sel = command.start

\* Unless a selection was refused, only directories that are not on the card are passed over.
SkippedForReason == Over /\ denials = 0 => skipped \subseteq Missing

Encoded(f) == IF f.structure = "transparent" THEN Encodes(f) ELSE EncodesRecord(f)

\* The script of a file, run on a card whose file has other contents, gives it those it was
\* exported with: unless the file is cyclic or, in JSON, without an encoder for what was decoded.
ScriptRestores ==
  command.name = "export" =>
    \A i \in DOMAIN entries :
      LET e == entries[i] IN
      e.result = "read" /\ e.file \in Elementary =>
        (card[e.file].structure # "cyclic" /\ (command.json => Encoded(card[e.file])) =>
           \/ Run(card[e.file], e.content) = card[e.file].data
           \/ card[e.file].data = <<>>)

\* An element that was changed is the only one: the bytes around it stand, a change that was not
\* written left none, and one that was is there.
EditIsLocal ==
  edit # NoEdit =>
    LET now == DecodedParts(card[edit.file])
        was == DecodedParts(edit.before)
    IN /\ edit.result # "written" => now = was
       /\ edit.result = "written" =>
            /\ Len(card[edit.file].data) = Len(edit.before.data)
            /\ \A k \in DOMAIN was : k # edit.at => now[k] = was[k]
            /\ IF edit.before.rec_len > 0 THEN ToSet(now[edit.at]) = {edit.value} ELSE now[edit.at] = edit.value

ExportTrusted == WalkComplete /\ WalkReturns /\ SkippedForReason /\ ScriptRestores /\ EditIsLocal

=============================================================================
