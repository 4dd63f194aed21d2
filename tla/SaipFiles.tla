----------------------------- MODULE SaipFiles -----------------------------
(***************************************************************************)
(* The files of an eSIM profile (src/pysim/pySim/esim/saip/__init__.py and *)
(* templates.py): the tree that reading the profile elements builds, one   *)
(* file after another under a current directory, and the contents of one   *)
(* file, taken from its tuples and put into them again.  A node is named   *)
(* by its path of file identifiers from the MF, which is <<>>.             *)
(***************************************************************************)
EXTENDS Integers, Sequences, SequencesExt, FiniteSets

CONSTANTS
  Layouts,    \* profiles: sequences of profile elements, each a template and its files
  BodyFiles   \* files with a body: what their descriptor and template say, and the bytes

VARIABLES
  layout,   \* the profile being read, or a single file
  at,       \* the profile element and the file that come next
  nodes,    \* the tree: each node with its path, and the element whose file it holds
  curDf,    \* pe_sequence.cur_df
  bases,    \* for each element read, the node of its first file
  outcome,  \* "reading", "read" or "failed"
  body,     \* of a single file: its body
  again     \* and what comes of it once it was encoded and decoded

saipFileVars == <<layout, at, nodes, curDf, bases, outcome, body, again>>

MF == <<>>
NoNode == <<-1>>
IsEf(f) == f.type \in {"TR", "LF", "CY", "BT"}

-----------------------------------------------------------------------------
\* FsNodeDF.

IsDf(path) == \E n \in nodes : n.path = path /\ ~IsEf(n.file)

\* add_child: a child with the identifier of another takes its place, and what was below it is lost.
Added(path, f, pe) ==
  {n \in nodes : ~IsPrefix(path, n.path)} \cup {[path |-> path, file |-> f, pe |-> pe]}

\* add_file of a DF's node: an ADF goes right under the MF, whatever the directory.
PathIn(df, f) == IF f.type = "ADF" THEN <<f.fid>> ELSE df \o <<f.fid>>
DfAfter(df, f) == IF IsEf(f) THEN df ELSE PathIn(df, f)

Put(df, f, pe) ==
  /\ nodes' = Added(PathIn(df, f), f, pe)
  /\ curDf' = DfAfter(df, f)

-----------------------------------------------------------------------------
\* FsProfileElement.add_file.

Pe(i) == layout[i]

\* get_closest_prev_pe_for_templateID: the last element before this one with that template.
ClosestPrev(i, template) ==
  LET before == {j \in 1..(i - 1) : Pe(j).template = template}
  IN IF before = {} THEN 0 ELSE CHOOSE j \in before : \A k \in before : k <= j

\* The directory a file goes into: inside its element's first DF, inside the DF of the element its
\* template names as parent, or wherever the last file left off.
Directory(i, f) ==
  LET pe == Pe(i)
      parent == ClosestPrev(i, pe.parent)
  IN IF pe.extends = "none" /\ ~f.base
     THEN IF bases[i] = NoNode THEN NoNode ELSE bases[i] \o f.ppath
     ELSE IF pe.parent # "none" THEN IF parent = 0 THEN NoNode ELSE bases[parent]
     ELSE curDf

AddFile(i, f) ==
  LET df == Directory(i, f)
  IN /\ IF f.type = "MF" THEN curDf = NoNode ELSE df # NoNode /\ (df = MF \/ IsDf(df))
     /\ \A n \in nodes : n.pe = i => n.file.name # f.name
     /\ IF f.type = "MF"
        THEN nodes' = {[path |-> MF, file |-> f, pe |-> i]} /\ curDf' = MF
        ELSE Put(df, f, i)
     /\ bases' = IF f.base \/ bases[i] = NoNode
                 THEN [bases EXCEPT ![i] = IF f.type = "MF" THEN MF ELSE PathIn(df, f)]
                 ELSE bases

\* ProfileElementGFM.add_file, after cd: the path is the command's own.
AddManaged(i, f) ==
  /\ f.ppath = MF \/ IsDf(f.ppath)
  /\ \A n \in nodes : n.pe = i => n.path # PathIn(f.ppath, f)
  /\ Put(f.ppath, f, i)
  /\ UNCHANGED bases

AddNext(i, f) == IF Pe(i).template = "gfm" THEN AddManaged(i, f) ELSE AddFile(i, f)

Reading == outcome = "reading" /\ at[1] \in DOMAIN layout

\* pe2files: the element's files in the order they were encoded.
ReadFile ==
  /\ Reading /\ at[2] \in DOMAIN Pe(at[1]).files
  /\ AddNext(at[1], Pe(at[1]).files[at[2]])
  /\ at' = <<at[1], at[2] + 1>>
  /\ UNCHANGED <<layout, outcome, body, again>>

\* Anything out of order is an exception, and the profile is not read.
CannotAdd(i, f) ==
  LET df == IF Pe(i).template = "gfm" THEN f.ppath ELSE Directory(i, f)
  IN IF f.type = "MF" THEN curDf # NoNode
     ELSE \/ df = NoNode \/ ~(df = MF \/ IsDf(df))
          \/ \E n \in nodes : n.pe = i /\ IF Pe(i).template = "gfm" THEN n.path = PathIn(df, f)
                                         ELSE n.file.name = f.name
ReadFails ==
  /\ Reading /\ at[2] \in DOMAIN Pe(at[1]).files
  /\ CannotAdd(at[1], Pe(at[1]).files[at[2]])
  /\ outcome' = "failed"
  /\ UNCHANGED <<layout, at, nodes, curDf, bases, body, again>>

NextElement ==
  /\ Reading /\ at[2] = Len(Pe(at[1]).files) + 1
  /\ at' = <<at[1] + 1, 1>>
  /\ outcome' = IF at[1] = Len(layout) THEN "read" ELSE outcome
  /\ UNCHANGED <<layout, nodes, curDf, bases, body, again>>

-----------------------------------------------------------------------------
\* File: its contents.  0 is a byte nobody wrote, 9 is FF.

Repeat(b, n) == [i \in 1..n |-> b]
AtLeast(n) == IF n > 0 THEN n ELSE 0

\* expand_pattern, by TS 102 222.
ExpandPattern(pattern, repeat, size) ==
  IF repeat THEN [i \in 1..size |-> pattern[((i - 1) % Len(pattern)) + 1]]
  ELSE pattern \o Repeat(Last(pattern), AtLeast(size - Len(pattern)))

\* expand_default_value_pattern: prefix...suffix, or just what is given.
ExpandDefault(d, length) ==
  IF d.plain THEN d.prefix
  ELSE LET pad == length - Len(d.prefix) - Len(d.suffix)
       IN IF pad <= 0 THEN SubSeq(d.prefix \o d.suffix, 1, length)
          ELSE d.prefix \o Repeat(Last(d.prefix), pad) \o d.suffix

HasDefault(f) == f.default.prefix # <<>>
FileSize(f) == IF f.type = "LF" THEN f.nb_rec * f.rec_len ELSE f.size

\* The body's setter enlarges the size, which is not what counts for records.
SetBody(f, b) == IF FileSize(f) < Len(b) THEN [f EXCEPT !.size = Len(b)] ELSE f

\* to_fileDescriptor and from_fileDescriptor, as far as contents depend on them: records are
\* counted again from the size.
ThroughDescriptor(f) ==
  IF f.type = "LF" THEN [f EXCEPT !.size = FileSize(f), !.nb_rec = FileSize(f) \div f.rec_len] ELSE f

Initially(f) ==
  IF f.fill # <<>> THEN ExpandPattern(f.fill, f.repeat, FileSize(f))
  ELSE IF HasDefault(f) THEN ExpandDefault(f.default, FileSize(f)) ELSE <<>>

\* file_content_from_tuples: a stream is moved in and written to.
Write(bytes, pos, b) ==
  [i \in 1..(IF pos + Len(b) > Len(bytes) THEN pos + Len(b) ELSE Len(bytes)) |->
     IF i \in (pos + 1)..(pos + Len(b)) THEN b[i - pos]
     ELSE IF i \in DOMAIN bytes THEN bytes[i] ELSE 0]
FromTuples(f, tuples) ==
  LET step(s, t) ==
        IF t.key = "fillFileOffset" THEN [s EXCEPT !.pos = @ + t.value]
        ELSE [pos |-> s.pos + Len(t.value), bytes |-> Write(s.bytes, s.pos, t.value)]
  IN FoldLeft(step, [pos |-> 0, bytes |-> Initially(f)], tuples).bytes

\* NonMatch.from_matchlist: the runs of positions that do not match, as first and last.
Runs(positions) ==
  {r \in positions \X positions :
     /\ r[1] <= r[2] /\ r[1]..r[2] \subseteq positions
     /\ r[1] - 1 \notin positions /\ r[2] + 1 \notin positions}
RunList(positions) == SetToSortSeq(Runs(positions), LAMBDA x, y : x[1] < y[1])

\* file_content_to_tuples: everything, or what is not matched in the template's default (or in FF).
\* An offset is counted from the sum of what was written, as if nothing had been passed over.
Compared(f) ==
  IF HasDefault(f) THEN ExpandDefault(f.default, Len(body)) ELSE Repeat(9, Len(body))
Matchable(f) == {i \in DOMAIN body : i \in DOMAIN Compared(f) /\ Compared(f)[i] = body[i]}
ToTuples(f, matched) ==
  LET runs == RunList((DOMAIN body) \ matched)
      size(k) == runs[k][2] - runs[k][1] + 1
      before(k) == FoldLeft(LAMBDA n, j : n + size(j), 0, [j \in 1..(k - 1) |-> j])
      tuples(k) == <<[key |-> "fillFileOffset", value |-> runs[k][1] - 1 - before(k)],
                     [key |-> "fillFileContent", value |-> SubSeq(body, runs[k][1], runs[k][2])]>>
  IN IF matched = {} THEN <<[key |-> "fillFileContent", value |-> body]>>
     ELSE FlattenSeq([k \in DOMAIN runs |-> tuples(k)])

ThroughTuples(f, matched) ==
  LET g == SetBody(f, body) IN FromTuples(ThroughDescriptor(g), ToTuples(g, matched))

EncodeAndDecode(matched) ==
  /\ outcome = "content" /\ again = <<>>
  /\ again' = <<[bytes |-> ThroughTuples(layout, matched), matched |-> matched,
                 size |-> FileSize(ThroughDescriptor(SetBody(layout, body)))]>>
  /\ UNCHANGED <<layout, at, nodes, curDf, bases, outcome, body>>

-----------------------------------------------------------------------------

SaipFilesInit ==
  /\ layout = <<>> /\ at = <<1, 1>> /\ nodes = {} /\ curDf = NoNode /\ bases = <<>>
  /\ outcome = "none" /\ body = <<>> /\ again = <<>>

OpenProfile ==
  /\ outcome = "none" /\ layout' \in Layouts /\ outcome' = "reading"
  /\ bases' = [i \in DOMAIN layout' |-> NoNode]
  /\ UNCHANGED <<at, nodes, curDf, body, again>>

TakeFile ==
  /\ outcome = "none" /\ outcome' = "content"
  /\ \E c \in BodyFiles : layout' = c.file /\ body' = c.body
  /\ UNCHANGED <<at, nodes, curDf, bases, again>>

SaipFilesNext ==
  \/ OpenProfile \/ TakeFile \/ ReadFile \/ ReadFails \/ NextElement
  \/ outcome = "content" /\ \E matched \in SUBSET Matchable(layout) : EncodeAndDecode(matched)

-----------------------------------------------------------------------------
\* Properties.

\* An element whose template has no parent counts on its predecessor: one that extends comes right
\* after what it extends, a base DF of its own right after an element of the directory above.
Adjacent(i) ==
  /\ Pe(i).extends # "none" =>
       i > 1 /\ (Pe(i - 1).template = Pe(i).extends \/ Pe(i - 1).extends = Pe(i).extends)
  /\ Pe(i).extends = "none" /\ Pe(i).parent = "none" /\ Pe(i).above # "none" =>
       i > 1 /\ Pe(i - 1).template = Pe(i).above
InOrder == \A i \in DOMAIN layout : Adjacent(i)

\* Where a file belongs, whatever was read before.
Place(i, f) ==
  LET of(template) == bases[ClosestPrev(i, template)]
  IN CASE Pe(i).template = "gfm" -> PathIn(f.ppath, f)
       [] f.type = "MF" -> MF
       [] f.type = "ADF" -> <<f.fid>>
       [] f.base -> of(IF Pe(i).parent # "none" THEN Pe(i).parent ELSE Pe(i).above) \o <<f.fid>>
       [] OTHER -> (IF Pe(i).extends = "none" THEN bases[i] ELSE of(Pe(i).extends))
                   \o f.ppath \o <<f.fid>>

\* Every file read is under the directory of its template, in the application the element before it
\* belongs to, when the elements follow one another as their templates need.
FilesInPlace ==
  outcome = "read" /\ InOrder =>
    \A n \in nodes : n.path = Place(n.pe, n.file)

\* Encoding a file and decoding it again gives its bytes, and a size that holds them: without
\* matching, for any file, records excepted that no longer fit; with it, when the template's default
\* is what the file starts from and no second stretch is passed over.
ContentKept ==
  again # <<>> /\ (layout.type = "LF" => Len(body) <= FileSize(layout)) =>
    LET runs == RunList((DOMAIN body) \ again[1].matched)
    IN (\/ again[1].matched = {}
        \/ HasDefault(layout) /\ layout.fill = <<>> /\ Len(body) = again[1].size
           /\ Len(runs) <= (IF runs # <<>> /\ runs[1][1] = 1 THEN 2 ELSE 1)) =>
         /\ SubSeq(again[1].bytes, 1, Len(body)) = body
         /\ Len(body) <= again[1].size

\* A profile's files stand where they belong and keep what they hold.
ProfileFilesTrusted == FilesInPlace /\ ContentKept

=============================================================================
