----------------------------- MODULE CardFiles -----------------------------
(***************************************************************************)
(* pySim-shell's administrative commands (TS 102 222): files created,      *)
(* resized, deleted, terminated, deactivated and activated                 *)
(* (src/pysim/pySim/ts_102_222.py), and the selections around them.        *)
(*                                                                         *)
(* FIDs are unique on the card.  It selects, beside the MF and an          *)
(* application: the current DF, its parent, and what is below either.  A   *)
(* file that is not activated it answers with a warning, and has selected  *)
(* it.  What it creates or resizes it selects; when it has deleted a file, *)
(* the directory.  It may refuse any administrative command.               *)
(***************************************************************************)
EXTENDS FilePaths, FiniteSets

CONSTANTS
  AdminDirs,   \* the DFs and ADFs there may be, the MF too
  AdminEfs,    \* the EFs there may be
  Issued,      \* the files on the card at first
  Unmodelled,  \* the files that pySim does not know
  Volumes,     \* sizes
  MaxAdmin     \* bound: commands

VARIABLES
  holds,   \* the files on the card, each with its size and life cycle status
  onCard,  \* the card's current file
  chosen,  \* lchan.selected_file
  fcp,     \* lchan.selected_file_fcp
  away,    \* the card was left in a directory that pySim could not come back from
  did      \* how many commands there were, the last one, and how it ended

adminVars == <<holds, onCard, chosen, fcp, away, did>>

FileOfSize(size) == [size |-> size, status |-> "activated"]

AdminInit ==
  /\ holds = [f \in Issued |-> FileOfSize(1)]
  /\ onCard = MF /\ chosen = MF /\ fcp = FileOfSize(1)
  /\ away = FALSE
  /\ did = [n |-> 0, name |-> "none", ends |-> "none"]

Cwd(f) == IF f \in AdminEfs THEN Parent(f) ELSE f

-----------------------------------------------------------------------------
\* The card.

Selects(files, cur, f) ==
  LET d == Cwd(cur) IN
  /\ f \in DOMAIN files
  /\ \/ f \in Applications \cup {MF, d, Parent(d)}
     \/ Parent(f) = d
     \/ f \in AdminDirs /\ Parent(f) = Parent(d)

\* An administrative command names a file of the current directory by its FID.
InPlace(f) == f \in DOMAIN holds \ {MF} /\ Parent(f) = Cwd(onCard)

-----------------------------------------------------------------------------
\* RuntimeLchan.

Selectables ==
  {f \in (AdminDirs \cup AdminEfs) \ Unmodelled : f # MF /\ Parent(f) = Cwd(chosen)}
    \cup {chosen, Parent(chosen), MF} \cup (Applications \ Unmodelled)

\* select_file, one SELECT after the other: any answer but 9000 is a failure, after which the last
\* file that was selected counts as selected.
SelectStep(files, p, f) ==
  CASE ~p.ok -> p
    [] p.ok /\ ~Selects(files, p.at, f) -> [p EXCEPT !.ok = FALSE]
    [] p.ok /\ Selects(files, p.at, f) /\ files[f].status # "activated" ->
         [p EXCEPT !.ok = FALSE, !.at = f, !.away = @ \/ f \in AdminDirs]
    [] OTHER -> [p EXCEPT !.at = f, !.chosen = f, !.fcp = files[f]]
SelectFile(files, p, f) ==
  FoldLeft(LAMBDA q, x : SelectStep(files, q, x), p, SelectPathTo(p.chosen, f))
Standing(cur) == [ok |-> TRUE, at |-> cur, chosen |-> chosen, fcp |-> fcp, away |-> away]

\* select(): back to where it was when the selection failed.
SelectOrReturn(f) ==
  LET p == SelectFile(holds, Standing(onCard), f)
      back == SelectFile(holds, [p EXCEPT !.ok = TRUE], chosen)
  IN IF p.ok THEN p ELSE [back EXCEPT !.ok = FALSE]

Ends(p, name) ==
  /\ onCard' = p.at /\ chosen' = p.chosen /\ fcp' = p.fcp /\ away' = p.away
  /\ did' = [n |-> did.n + 1, name |-> name, ends |-> IF p.ok THEN "done" ELSE "raised"]
Fails(name) ==
  /\ did' = [n |-> did.n + 1, name |-> name, ends |-> "raised"]
  /\ UNCHANGED <<holds, onCard, chosen, fcp, away>>
Turn == did.n < MaxAdmin /\ did.name # "terminate_card_usage"

-----------------------------------------------------------------------------
\* The commands.

SelectName(f) ==
  /\ Turn /\ f \in Selectables
  /\ Ends(SelectOrReturn(f), "select") /\ UNCHANGED holds

\* After the new file was selected by the card, the file that was selected is selected again: from
\* a new DF two below the MF, by way of a directory that the card does not select from there.
Reselected(files, f) ==
  LET p == SelectFile(files, Standing(f), chosen)
      deep == f \in AdminDirs /\ Len(f) > 3 /\ SubSeq(f, 1, 2) \notin Applications
  IN [p EXCEPT !.away = @ \/ (deep /\ ~p.ok)]

CreateFile(name, f, size) ==
  IF f \in DOMAIN holds \/ Parent(f) # Cwd(onCard) THEN Fails(name)
  ELSE /\ holds' = holds @@ (f :> FileOfSize(size))
       /\ Ends(Reselected(holds', f), name)
CreateEf(f, size) == Turn /\ f \in AdminEfs /\ CreateFile("create_ef", f, size)
CreateDf(f) == Turn /\ f \in AdminDirs \ {MF} /\ CreateFile("create_df", f, 1)

ResizeEf(f, size) ==
  /\ Turn /\ f \in Selectables
  /\ IF ~InPlace(f) \/ f \notin AdminEfs THEN Fails("resize_ef")
     ELSE /\ holds' = [holds EXCEPT ![f].size = size]
          /\ Ends(Reselected(holds', f), "resize_ef")

\* Nothing is selected again: the program still has the deleted file selected, if it had.
DeleteFile(f, force) ==
  /\ Turn /\ f \in Selectables
  /\ IF ~force \/ ~InPlace(f) THEN Fails("delete_file")
     ELSE /\ holds' = [x \in {y \in DOMAIN holds : ~IsPrefix(f, y)} |-> holds[x]]
          /\ Ends(Standing(Parent(f)), "delete_file")

SetStatus(name, f, status) ==
  /\ holds' = [holds EXCEPT ![f].status = status]
  /\ Ends(Standing(onCard), name)

TerminateDf(f, force) ==
  /\ Turn /\ f \in Selectables
  /\ IF ~force \/ ~InPlace(f) \/ f \in AdminEfs THEN Fails("terminate_df")
     ELSE SetStatus("terminate_df", f, "terminated")
TerminateEf(f, force) ==
  /\ Turn /\ f \in Selectables
  /\ IF ~force \/ ~InPlace(f) \/ f \notin AdminEfs THEN Fails("terminate_ef")
     ELSE SetStatus("terminate_ef", f, "terminated")
TerminateCardUsage(force) ==
  /\ Turn
  /\ IF ~force THEN Fails("refused") ELSE Ends(Standing(onCard), "terminate_card_usage") /\ UNCHANGED holds

\* The file that is current on the card, and one by its name.
DeactivateFile ==
  /\ Turn
  /\ IF onCard \notin AdminEfs \cap DOMAIN holds \/ holds[onCard].status = "terminated"
     THEN Fails("deactivate_file")
     ELSE SetStatus("deactivate_file", onCard, "deactivated")
ActivateFile(f) ==
  /\ Turn /\ f \in Selectables
  /\ IF ~InPlace(f) \/ holds[f].status = "terminated" THEN Fails("activate_file")
     ELSE SetStatus("activate_file", f, "activated")

CardRefuses == Turn /\ Fails("refused")

AdminNext ==
  \/ \E f \in AdminDirs \cup AdminEfs :
       \/ SelectName(f)
       \/ \E size \in Volumes : CreateEf(f, size) \/ ResizeEf(f, size)
       \/ CreateDf(f)
       \/ \E force \in BOOLEAN : DeleteFile(f, force) \/ TerminateDf(f, force) \/ TerminateEf(f, force)
       \/ ActivateFile(f)
  \/ DeactivateFile \/ (\E force \in BOOLEAN : TerminateCardUsage(force)) \/ CardRefuses

-----------------------------------------------------------------------------
\* Properties.

\* But for a directory that was entered with a warning, or created too deep to come back from, the
\* directory in which the next command works is the one that the user was shown.
DirectoryKnown == ~away => Cwd(onCard) = Cwd(chosen)

\* No read or update of the file that is shown as selected reaches another one.
NoOtherFile ==
  ~away /\ chosen \in AdminEfs /\ onCard \in AdminEfs => onCard = chosen

\* And what it is checked against - its size - is that of the file, however it was resized, or
\* deleted and created again.
SizeKnown ==
  ~away /\ chosen \in AdminEfs /\ onCard = chosen => fcp.size = holds[chosen].size

\* What the shell shows after each administrative command is what the next one works on.
FilesTracked == DirectoryKnown /\ NoOtherFile /\ SizeKnown

=============================================================================
