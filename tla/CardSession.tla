---------------------------- MODULE CardSession ----------------------------
(***************************************************************************)
(* pySim/runtime.py and the path building of pySim/filesystem.py, as the   *)
(* commands of pySim-shell drive them: for every logical channel the       *)
(* program keeps which file is selected, next to what the card has         *)
(* selected.                                                               *)
(*                                                                         *)
(* A file is its path from the MF.  FIDs are unique within a directory     *)
(* only.  Applications without a file system are left out.                 *)
(***************************************************************************)
EXTENDS FilePaths, FiniteSets

CONSTANTS
  Directories,  \* the DFs and ADFs on the card, the MF too
  Elementary,   \* the EFs on the card
  Modelled,     \* the files pySim knows before it meets the card
  ChannelNumbers,
  MaxHidden,    \* bound: answers that hide what the card did
  MaxOps        \* bound: commands of the user

CardTree == Directories \cup Elementary

VARIABLES
  lchan,    \* RuntimeState.lchan: the file selected, as pySim has it, and NotOpen
  active,   \* the number of the shell's channel
  tree,     \* the files pySim knows; probing adds some
  current,  \* the card: the file selected on each channel, and NotOpen
  adm,      \* the ADM PIN is verified: on the card, and as pySim has it
  job,      \* the selection under way
  hidden,   \* how many answers hid from pySim what the card had done
  strayed,  \* a file was found in another directory than pySim has it in
  ops

sessionVars == <<lchan, active, tree, current, adm, job, hidden, strayed, ops>>

NotOpen == <<>>
NoJob == [kind |-> "none", path |-> <<>>, at |-> MF, prev |-> MF, raised |-> FALSE, met |-> FALSE]

SessionInit ==
  /\ lchan = [c \in ChannelNumbers |-> IF c = 0 THEN MF ELSE NotOpen]
  /\ active = 0
  /\ tree = Modelled
  /\ current = [c \in ChannelNumbers |-> IF c = 0 THEN MF ELSE NotOpen]
  /\ adm = [card |-> FALSE, shown |-> FALSE]
  /\ job = NoJob
  /\ hidden = 0
  /\ strayed = FALSE
  /\ ops = 0

-----------------------------------------------------------------------------
\* filesystem.py.

Fid(f) == Last(f)

\* What is selectable from f: itself, the directories above it, the MF, the
\* applications, and its children, or its directory's if f is an EF.
IsDirectory(f) == f \in Directories \/ f \notin CardTree
Cwd(f) == IF f \in Elementary THEN Parent(f) ELSE f
Above(f) == {SubSeq(f, 1, n) : n \in 1..Len(f)}
Selectable(f) ==
  Above(f) \cup (Applications \cap tree) \cup {x \in tree : x # MF /\ Parent(x) = Cwd(f)}

-----------------------------------------------------------------------------
\* The card: SELECT by AID, and by FID as TS 102 221 has it: a child, the current
\* directory, its parent, a sibling directory, the MF.

ByFid(cur, fid) ==
  LET d == IF cur \in Elementary THEN Parent(cur) ELSE cur IN
  {x \in CardTree \ Applications :
     /\ Fid(x) = fid
     /\ \/ x # MF /\ Parent(x) = d
        \/ x \in {d, Parent(d), MF}
        \/ x \in Directories /\ x # MF /\ Parent(x) = Parent(d)}
\* A child goes before a directory of the same name elsewhere.
Found(cur, f) ==
  IF f \in Applications THEN {f} \cap CardTree
  ELSE LET all == ByFid(cur, Fid(f))
           near == {x \in all : x # MF /\ Parent(x) = Cwd(cur)}
       IN IF near # {} THEN near ELSE all

-----------------------------------------------------------------------------
\* RuntimeLchan.

Here == lchan[active]
Usable == job.kind = "none" /\ ops < MaxOps

\* select_file, called for target f: the path is built from the file selected.
Going(kind, from, f, prev, raised) ==
  [NoJob EXCEPT !.kind = kind, !.path = SelectPathTo(from, f), !.at = from, !.prev = prev,
                !.raised = raised]

\* select() keeps the file it started from and goes back there after a failure;
\* select_file alone does not.
Select(f, direct) ==
  /\ Usable /\ lchan[active] # NotOpen /\ f \in Selectable(Here)
  /\ job' = Going(IF direct THEN "select_file" ELSE "select", Here, f, Here, FALSE)
  /\ ops' = ops + 1
  /\ UNCHANGED <<lchan, active, tree, current, adm, hidden, strayed>>

\* A failed SELECT: what was selected on the way is recorded, and select() goes back.
Recorded(j) == j.at
Failed(from) ==
  IF job.kind = "select" THEN Going("restore", from, job.prev, job.prev, TRUE)
  ELSE [NoJob EXCEPT !.raised = TRUE]

\* One SELECT of the loop.  Only the status 9000 tells the program that the card
\* did it; 91xx, which says so too, is a failure here (SimCardCommands.select_file).
SelectStep(noisy) ==
  LET f == Head(job.path)
      found == Found(current[active], f)
      moved == found # {}
  IN /\ job.kind \in {"select", "select_file", "restore"}
     /\ noisy => moved /\ hidden < MaxHidden
     /\ hidden' = IF noisy THEN hidden + 1 ELSE hidden
     /\ \E x \in IF moved THEN found ELSE {current[active]} :
          /\ current' = [current EXCEPT ![active] = x]
          /\ strayed' = (strayed \/ (moved /\ x # f))
     /\ IF moved /\ ~noisy
        THEN IF Len(job.path) > 1
             THEN job' = [job EXCEPT !.path = Tail(@), !.at = f] /\ UNCHANGED lchan
             ELSE /\ lchan' = [lchan EXCEPT ![active] = f]
                  /\ job' = [NoJob EXCEPT !.raised = job.raised, !.met = TRUE, !.prev = job.prev]
        ELSE /\ lchan' = [lchan EXCEPT ![active] = Recorded(job)]
             /\ job' = Failed(Recorded(job))
     /\ UNCHANGED <<active, tree, adm, ops>>

\* probe_file, for a FID that is not among the selectables: the card finds a file
\* or not; a file found from a directory becomes a child of that directory, and
\* from an EF raises, as an EF has no add_files.
Probe(fid, noisy) ==
  LET found == Found(current[active], Append(MF, fid))
      new == Append(Here, fid)
      known == ~noisy /\ found # {} /\ IsDirectory(Here)
  IN /\ Usable /\ lchan[active] # NotOpen
     /\ fid \notin {Fid(x) : x \in Selectable(Here)} /\ Len(Here) < 3
     /\ noisy => found # {} /\ hidden < MaxHidden
     /\ hidden' = IF noisy THEN hidden + 1 ELSE hidden
     /\ ops' = ops + 1
     /\ \E x \in IF found # {} THEN found ELSE {current[active]} :
          /\ current' = [current EXCEPT ![active] = x]
          /\ strayed' = (strayed \/ (known /\ x # new))
     /\ tree' = IF known THEN tree \cup {new} ELSE tree
     /\ lchan' = IF known THEN [lchan EXCEPT ![active] = new] ELSE lchan
     /\ job' = IF known THEN [NoJob EXCEPT !.met = TRUE]
               ELSE Going("restore", Here, Here, Here, TRUE)
     /\ UNCHANGED <<active, adm>>

-----------------------------------------------------------------------------
\* RuntimeState.reset and the commands for channels.

\* The card is reset and its channels go; then MF is selected on the basic one.
LchansStay == lchan
LchansAfterReset == [c \in ChannelNumbers |-> IF c = 0 THEN lchan[0] ELSE NotOpen]
AdmAfterReset == [card |-> FALSE, shown |-> FALSE]
ResetCard ==
  /\ Usable
  /\ current' = [c \in ChannelNumbers |-> IF c = 0 THEN MF ELSE NotOpen]
  /\ lchan' = LchansAfterReset
  /\ active' = 0
  /\ adm' = AdmAfterReset
  /\ job' = Going("select", lchan[0], MF, lchan[0], FALSE)
  /\ ops' = ops + 1
  /\ UNCHANGED <<tree, hidden, strayed>>

\* do_open_channel: what the card selects on a new channel follows from the channel
\* the command came on (TS 102 221, table 8.3), and add_lchan does the same.  An
\* answer other than 9000 raises first.
NewLchan == IF active = 0 THEN MF ELSE Cwd(Here)
OpenChannel(n, noisy) ==
  /\ Usable /\ current[active] # NotOpen /\ current[n] = NotOpen /\ lchan[n] = NotOpen
  /\ noisy => hidden < MaxHidden
  /\ hidden' = IF noisy THEN hidden + 1 ELSE hidden
  /\ current' = [current EXCEPT ![n] = IF active = 0 THEN MF ELSE Cwd(current[active])]
  /\ lchan' = IF noisy THEN lchan ELSE [lchan EXCEPT ![n] = NewLchan]
  /\ ops' = ops + 1
  /\ job' = NoJob
  /\ UNCHANGED <<active, tree, adm, strayed>>

\* do_close_channel.  The shell stays on the channel it closes.
CloseChannel(n, noisy) ==
  /\ Usable /\ n # 0 /\ current[active] # NotOpen /\ current[n] # NotOpen
  /\ noisy => hidden < MaxHidden
  /\ hidden' = IF noisy THEN hidden + 1 ELSE hidden
  /\ current' = [current EXCEPT ![n] = NotOpen]
  /\ lchan' = IF noisy THEN lchan ELSE [lchan EXCEPT ![n] = NotOpen]
  /\ ops' = ops + 1
  /\ job' = NoJob
  /\ UNCHANGED <<active, tree, adm, strayed>>

SwitchChannel(n) ==
  /\ Usable /\ lchan[n] # NotOpen /\ n # active
  /\ active' = n
  /\ ops' = ops + 1
  /\ job' = NoJob
  /\ UNCHANGED <<lchan, tree, current, adm, hidden, strayed>>

\* do_verify_adm: shown only after 9000.
VerifyAdm(right, noisy) ==
  /\ Usable /\ current[active] # NotOpen
  /\ noisy => right /\ hidden < MaxHidden
  /\ hidden' = IF noisy THEN hidden + 1 ELSE hidden
  /\ adm' = [card |-> adm.card \/ right, shown |-> adm.shown \/ (right /\ ~noisy)]
  /\ ops' = ops + 1
  /\ job' = NoJob
  /\ UNCHANGED <<lchan, active, tree, current, strayed>>

FidsOnCard == {Fid(x) : x \in CardTree \ Applications}

SessionNext ==
  \/ \E f \in tree, direct \in BOOLEAN : Select(f, direct)
  \/ \E noisy \in BOOLEAN : SelectStep(noisy)
  \/ \E fid \in FidsOnCard, noisy \in BOOLEAN : Probe(fid, noisy)
  \/ ResetCard
  \/ \E n \in ChannelNumbers, noisy \in BOOLEAN : OpenChannel(n, noisy) \/ CloseChannel(n, noisy)
  \/ \E n \in ChannelNumbers : SwitchChannel(n)
  \/ \E right, noisy \in BOOLEAN : VerifyAdm(right, noisy)

SessionSpec == SessionInit /\ [][SessionNext]_sessionVars

-----------------------------------------------------------------------------
\* Properties.

Quiet == hidden = 0 /\ ~strayed

\* Between commands the program has the file selected that the card has, on every
\* channel, and knows just the channels that are open: after paths that broke off,
\* files that do not exist, resets and channels opened from one another, as long
\* as no answer hid what the card did.
TracksCard == Quiet /\ job.kind = "none" => lchan = current

\* A select that fails leaves the selection where it was before it.
FailureGoesBack ==
  Quiet /\ job.kind = "none" /\ job.raised /\ job.met => Here = job.prev

\* The prompt shows ADM rights only when the card grants them.
AdmShownIsReal == adm.shown => adm.card

\* Together: what the program believes of the card's session is so.
SessionTracked == TracksCard /\ FailureGoesBack /\ AdmShownIsReal

=============================================================================
