------------------------------ MODULE CardTrace ------------------------------
(***************************************************************************)
(* pySim-trace.py: commands between a phone and its card, sniffed and      *)
(* decoded.  What is selected on the card is followed from the commands    *)
(* alone: pySim/apdu/__init__.py pairs commands with their answers, and    *)
(* pySim/apdu/ts_102_221.py moves a RuntimeState (pySim/runtime.py).       *)
(*                                                                         *)
(* A file is its path from the MF; a short identifier stands for the FID   *)
(* of an EF in the directory.  Every packet arrives.                       *)
(***************************************************************************)
EXTENDS Naturals, Sequences, FiniteSets, SequencesExt

CONSTANTS
  Directories,  \* the DFs and ADFs on the card, the MF too
  Applications, \* those of them that are ADFs
  Elementary,   \* the EFs on the card
  Modelled,     \* the files pySim knows
  ChannelNumbers,
  MaxPackets    \* bound

VARIABLES
  sim,      \* the card: what is selected on each channel
  fetch,    \* the command whose answer the phone has still to fetch
  last_cmd, \* TpduFilter.last_cmd
  traced,   \* RuntimeState.lchan, and whether the tracer is still running
  shown,    \* the last command that was printed
  astray,   \* what cannot be followed has happened: "no", "until reset", "for good"
  packets

traceVars == <<sim, fetch, last_cmd, traced, shown, astray, packets>>

Root == <<"MF">>
OnCard == Directories \cup Elementary
Closed == [at |-> <<>>, app |-> <<>>]
Fresh == [at |-> Root, app |-> <<>>]
NoCmd == [ins |-> "none", chan |-> 0, how |-> "none", path |-> <<>>, of |-> 0, read |-> <<>>,
          target |-> 0]
NoShow(at) == [cmd |-> NoCmd, answer |-> 0, file |-> <<>>, at |-> at]
AtStart == [c \in ChannelNumbers |-> IF c = 0 THEN Fresh ELSE Closed]

TraceInit ==
  /\ sim = AtStart /\ traced = [alive |-> TRUE, lchan |-> AtStart]
  /\ fetch = NoCmd /\ last_cmd = NoCmd
  /\ shown = NoShow(0)
  /\ astray = "no" /\ packets = 0

IsDf(f) == f \in Directories \/ \E g \in Modelled : g # Root /\ Front(g) = f
Cwd(f) == IF IsDf(f) THEN f ELSE Front(f)
Above(f) == {SubSeq(f, 1, i) : i \in 1..Len(f)}

-----------------------------------------------------------------------------
\* The tracer's idea of what a FID or a short identifier names: a file of the
\* directory, the MF, a directory above, the file itself.
GetSelectables(f, fid) ==
  LET child == Append(Cwd(f), fid)
      others == {g \in Above(f) \ Applications : Last(g) = fid}
  IN IF child \in Modelled THEN child
     ELSE IF others # {} THEN CHOOSE g \in others : \A h \in others : Len(g) <= Len(h)
     ELSE <<>>
LookupFileBySfid(f, fid) ==
  LET child == Append(Cwd(f), fid) IN IF child \in Modelled THEN child ELSE <<>>

\* UiccSelect.process_on_lchan: step by step, over what it does not know; on a failure
\* from wherever the path starts.
Walk(f, fids, successful) ==
  FoldLeft(LAMBDA at, fid : LET next == GetSelectables(at, fid)
                            IN IF successful /\ next # <<>> THEN next ELSE at, f, fids)
ProcessSelect(l, cmd, successful) ==
  CASE cmd.how \in {"fid", "path from df"} -> [l EXCEPT !.at = Walk(@, cmd.path, successful)]
    [] cmd.how = "path from mf" -> [l EXCEPT !.at = Walk(Root, cmd.path, successful)]
    [] cmd.how = "path from app" ->
         LET adf == IF l.app = <<>> THEN CHOOSE a \in Applications : TRUE ELSE l.app
         IN [at |-> Walk(adf, cmd.path, successful), app |-> adf]
    [] cmd.how = "aid" -> [at |-> cmd.path, app |-> cmd.path]
    [] cmd.how = "short aid" -> l

\* add_lchan, from the channel of the command; get_lchan_by_cla.
Opened(chan) == IF chan = 0 THEN Fresh ELSE [traced.lchan[chan] EXCEPT !.at = Cwd(@)]
Has(chan) == traced.lchan[chan] # Closed

\* ApduCommand.process of a command with its answer; an exception ends the tracer.
Dies == traced' = [traced EXCEPT !.alive = FALSE] /\ UNCHANGED shown
Shows(cmd, answer, file) ==
  shown' = [cmd |-> cmd, answer |-> answer, file |-> file, at |-> packets + 1]
Process(cmd, sw, answer) ==
  LET successful == sw \in {"9000", "91"}
      l == traced.lchan[cmd.chan]
      Becomes(chan, to) == traced' = [traced EXCEPT !.lchan[chan] = to]
  IN CASE cmd.ins = "SELECT" ->
            IF ~Has(cmd.chan) \/ cmd.how = "parent" THEN Dies
            ELSE LET to == ProcessSelect(l, cmd, successful)
                 IN Becomes(cmd.chan, to) /\ Shows(cmd, answer, to.at)
       [] cmd.ins = "READ" ->
            IF ~Has(cmd.chan) THEN Dies
            ELSE /\ UNCHANGED traced
                 /\ Shows(cmd, answer, IF cmd.how = "sfi" THEN LookupFileBySfid(l.at, Last(cmd.path)) ELSE l.at)
       [] cmd.ins = "OPEN" ->
            IF ~Has(cmd.chan) \/ Has(cmd.target) THEN Dies
            ELSE Becomes(cmd.target, Opened(cmd.chan)) /\ Shows(cmd, answer, <<>>)
       [] cmd.ins = "CLOSE" -> Becomes(cmd.target, Closed) /\ Shows(cmd, answer, <<>>)
       [] OTHER -> Shows(cmd, answer, <<>>) /\ UNCHANGED traced

\* TpduFilter.input_tpdu: an announced answer is waited for, and goes with the command
\* it was announced to; GET RESPONSE is never that command.
KeepsLatest(cmd) == cmd
Keeps(cmd) == IF cmd.ins = "GET RESPONSE" THEN last_cmd ELSE cmd
InputTpdu(cmd, sw, answer) ==
  IF ~traced.alive THEN UNCHANGED <<last_cmd, traced, shown>>
  ELSE IF cmd.ins = "STATUS" /\ sw = "6c" THEN Dies /\ UNCHANGED last_cmd
  ELSE IF sw \in {"61", "6c"} THEN last_cmd' = Keeps(cmd) /\ UNCHANGED <<traced, shown>>
  ELSE last_cmd' = NoCmd /\ Process(IF last_cmd # NoCmd THEN last_cmd ELSE cmd, sw, answer)

-----------------------------------------------------------------------------
\* The card and the phone.

\* A FID names a file of the directory, the directory, the one above, the MF, or a
\* directory beside.
Beside(d, fid) ==
  {e \in Directories \ (Applications \cup {d, Root}) : Front(e) = Front(d) /\ Last(e) = fid}
CardFinds(d, fid) ==
  LET near == ({Append(d, fid)} \cap OnCard)
      own == {g \in Above(d) \ Applications : Len(g) \in {1, Len(d) - 1, Len(d)} /\ Last(g) = fid}
  IN IF near # {} THEN Append(d, fid)
     ELSE IF own # {} THEN CHOOSE g \in own : \A h \in own : Len(g) >= Len(h)
     ELSE IF d # Root /\ Beside(d, fid) # {} THEN CHOOSE e \in Beside(d, fid) : TRUE
     ELSE <<>>
CardSelects(l, how, path) ==
  LET d == Cwd(l.at)
      anchor == CASE how = "path from mf" -> Root
                  [] how = "path from df" -> d
                  [] how = "path from app" -> l.app
                  [] OTHER -> <<>>
      found == IF how = "fid" THEN CardFinds(d, path[1])
               ELSE IF how \in {"aid", "short aid"} THEN path
               ELSE IF how = "parent" THEN Front(d)
               ELSE IF anchor # <<>> THEN anchor \o path ELSE <<>>
  IN IF found \in OnCard
     THEN [at |-> found, app |-> IF found \in Applications THEN found ELSE l.app]
     ELSE Closed

\* A packet: the command, the status, and the number of the command it answers.
Packet(cmd, sw, answer) ==
  /\ packets' = packets + 1
  /\ InputTpdu(cmd, sw, answer)
  /\ fetch' = IF sw \in {"61", "6c"} THEN (IF cmd.ins = "GET RESPONSE" THEN fetch ELSE cmd) ELSE NoCmd
Open(c) == sim[c] # Closed
Strays(how) == astray' = IF astray = "for good" THEN astray ELSE how
Follows == UNCHANGED astray

\* An answer that is not fetched, before another command, is lost to the tracer.
Select(c, how, path, sw) ==
  LET to == CardSelects(sim[c], how, path)
      cmd == [NoCmd EXCEPT !.ins = "SELECT", !.chan = c, !.how = how, !.path = path, !.of = packets + 1]
      d == Cwd(sim[c].at)
      hidden == \/ fetch # NoCmd
                \/ to = Closed /\ how \in {"path from mf", "path from app"}
                \/ to # Closed /\ (to.at \notin Modelled \/ sw = "6283" \/ how = "short aid")
                \/ to # Closed /\ how = "fid" /\ to.at \in Beside(d, path[1])
  IN /\ to = Closed <=> sw = "6a82"
     /\ sim' = IF to = Closed THEN sim ELSE [sim EXCEPT ![c] = to]
     /\ Packet(cmd, sw, cmd.of)
     /\ IF how = "parent" THEN Strays("for good")
        ELSE IF hidden THEN Strays("until reset") ELSE Follows

\* A file that is read by its short identifier becomes the selected one.
ReadFile(c, how, f, sw) ==
  LET cmd == [NoCmd EXCEPT !.ins = "READ", !.chan = c, !.how = how, !.path = f,
                           !.of = packets + 1, !.read = f]
  IN /\ IF how = "sfi" THEN Front(f) = Cwd(sim[c].at) ELSE f = sim[c].at
     /\ fetch.ins = "READ" => sw = "9000" /\ [fetch EXCEPT !.of = 0] = [cmd EXCEPT !.of = 0]
     /\ sim' = [sim EXCEPT ![c].at = f]
     /\ Packet(cmd, sw, IF fetch.ins = "READ" THEN fetch.of ELSE cmd.of)
     /\ IF fetch.ins = "SELECT" \/ f # sim[c].at \/ f \notin Modelled
        THEN Strays("until reset") ELSE Follows

\* GET RESPONSE; the card may announce more.
GetResponse(sw) ==
  /\ fetch.ins = "SELECT"
  /\ UNCHANGED sim
  /\ Packet([NoCmd EXCEPT !.ins = "GET RESPONSE", !.chan = fetch.chan], sw, fetch.of)
  /\ Follows

\* MANAGE CHANNEL: the card chooses the channel's number, or closes the one named in P2,
\* or with 0 there the command's own.
ManageOpen(c, new) ==
  /\ ~Open(new) /\ fetch = NoCmd
  /\ sim' = [sim EXCEPT ![new] = IF c = 0 THEN Fresh ELSE [sim[c] EXCEPT !.at = Cwd(@)]]
  /\ Packet([NoCmd EXCEPT !.ins = "OPEN", !.chan = c, !.target = new, !.of = packets + 1], "9000", packets + 1)
  /\ Follows
ManageClose(c, p2) ==
  LET closed == IF p2 = 0 THEN c ELSE p2
  IN /\ closed # 0 /\ Open(closed) /\ fetch = NoCmd
     /\ sim' = [sim EXCEPT ![closed] = Closed]
     /\ Packet([NoCmd EXCEPT !.ins = "CLOSE", !.chan = c, !.target = p2, !.of = packets + 1], "9000", packets + 1)
     /\ IF p2 = 0 THEN Strays("for good") ELSE Follows

\* STATUS is taken for GET STATUS, of which the bytes behind P3 are data: of a packet
\* that only tells the right length no status word is left.
Status(c, sw) ==
  /\ fetch = NoCmd
  /\ UNCHANGED sim
  /\ Packet([NoCmd EXCEPT !.ins = "STATUS", !.chan = c, !.of = packets + 1], sw, packets + 1)
  /\ IF sw = "6c" THEN Strays("for good") ELSE Follows

\* Tracer.main on a CardReset; the filter is not told, and keeps a command whose
\* answer will not come.
ResetCard ==
  /\ packets' = packets + 1
  /\ sim' = AtStart
  /\ fetch' = NoCmd
  /\ traced' = IF Has(0) THEN [traced EXCEPT !.lchan = AtStart] ELSE [traced EXCEPT !.alive = FALSE]
  /\ shown' = NoShow(packets + 1)
  /\ UNCHANGED last_cmd
  /\ Strays(IF fetch # NoCmd THEN "for good" ELSE "no")

\* What a phone may ask for: FIDs and paths of files that are there or could be.
Paths ==
  {SubSeq(f, 2, Len(f)) : f \in {g \in OnCard \cup Modelled : Len(g) > 1 /\ Above(g) \cap Applications = {}}}
    \cup {SubSeq(f, 3, Len(f)) : f \in {g \in OnCard \cup Modelled : Len(g) > 2}}
NextPacket(c) ==
  \/ \E how \in {"fid", "path from mf", "path from df", "path from app"},
        sw \in {"9000", "91", "61", "6283", "6a82"} :
       \E path \in Paths : (how = "fid" <=> Len(path) = 1) /\ Select(c, how, path, sw)
  \/ \E app \in Applications, how \in {"aid", "short aid"}, sw \in {"9000", "61"} :
       Select(c, how, app, sw)
  \/ sim[c].at # Root /\ Select(c, "parent", <<>>, "9000")
  \/ \E how \in {"selected", "sfi"}, f \in Elementary, sw \in {"9000", "6c"} : ReadFile(c, how, f, sw)
  \/ \E d \in ChannelNumbers : ManageOpen(c, d) \/ ManageClose(c, d)
  \/ \E sw \in {"9000", "6c"} : Status(c, sw)

TraceNext ==
  /\ packets < MaxPackets
  /\ \/ \E c \in ChannelNumbers : Open(c) /\ NextPacket(c)
     \/ \E sw \in {"9000", "61"} : GetResponse(sw)
     \/ ResetCard

-----------------------------------------------------------------------------
\* Properties.

\* Between commands, what the tracer takes for selected on each channel is selected
\* there; after a reset also when it was not before.
Followed == astray = "no" /\ fetch = NoCmd => traced.alive /\ traced.lchan = sim

\* A command is printed with its own answer, and a read with the file it read.
ShownTruly ==
  astray = "no" =>
    /\ shown.answer = shown.cmd.of
    /\ shown.cmd.ins = "READ" => shown.file = shown.cmd.read

\* No command is skipped: when it has its answer it is printed.
NoneSkipped == astray = "no" /\ fetch = NoCmd => shown.at = packets

\* Together: the trace is what happened.
TraceTrue == Followed /\ ShownTruly /\ NoneSkipped

=============================================================================
