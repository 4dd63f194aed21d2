----------------------------- MODULE FilePaths -----------------------------
(* The tree of files as pySim/filesystem.py walks it.  A file is its path from the MF. *)
EXTENDS Naturals, Sequences, SequencesExt

CONSTANT Applications \* the ADFs, selected by AID from anywhere

MF == <<"MF">>
Parent(f) == IF f = MF THEN MF ELSE Front(f)

\* build_select_path_to: up to the first directory on the way to the target, down
\* to the target, and nothing before an application.
CommonLength(from, to) ==
  CHOOSE n \in 1..Len(from) :
    /\ n < Len(to) /\ SubSeq(to, 1, n) = SubSeq(from, 1, n)
    /\ \A k \in (n + 1)..Len(from) : k >= Len(to) \/ SubSeq(to, 1, k) # SubSeq(from, 1, k)
Clip(path) ==
  LET apps == {i \in DOMAIN path : path[i] \in Applications}
  IN IF apps = {} THEN path
     ELSE SubSeq(path, CHOOSE i \in apps : \A j \in apps : j <= i, Len(path))
SelectPathTo(from, to) ==
  IF to = MF THEN <<MF>>
  ELSE LET n == CommonLength(from, to)
           up == [i \in 1..(Len(from) - n) |-> SubSeq(from, 1, Len(from) - i)]
           down == [i \in 1..(Len(to) - n) |-> SubSeq(to, 1, n + i)]
       IN Clip(up \o down)

=============================================================================
