------------------------------ MODULE CardBatch ------------------------------
(***************************************************************************)
(* Working off a pile of cards: bulk_script of pySim-shell.py and the main *)
(* loop of pySim-prog.py, with the card handlers of card_handler.py.       *)
(*                                                                         *)
(* A card is its number in the pile; an identity (ICCID, IMSI and keys) is *)
(* the number gen_parameters makes it from.                                *)
(***************************************************************************)
EXTENDS Naturals, Sequences, FiniteSets, SequencesExt

CONSTANTS
  PileSize,   \* cards
  TriesSet,   \* values of --tries
  MaxTrouble, \* bound: steps that fail
  MaxStarts   \* bound: runs of pySim-prog

VARIABLES
  batch,   \* the program: tool, options, place in the loop and its counters
  pile,    \* cards still to come
  bay,     \* the card in the reader, 0 for none
  bins,    \* cards in the done bin and the error bin, and those put aside unsorted
  identity,\* what each card was programmed with last, 0 for nothing
  records, \* the CSV file: numbers written to it
  saved,   \* the batch state file: the next number, 0 if there is no file
  trouble

batchVars == <<batch, pile, bay, bins, identity, records, saved, trouble>>

Cards == 1..PileSize

NoBatch == [tool |-> "none", auto |-> FALSE, tries |-> 1, halt |-> FALSE, pc |-> "off", first |-> TRUE,
            try |-> 0, rc |-> 0, num |-> 1, success |-> 0, fail |-> 0, starts |-> 0]

BatchInit ==
  /\ batch = NoBatch
  /\ pile = [i \in 1..PileSize |-> i]
  /\ bay = 0
  /\ bins = [done |-> {}, error |-> {}, aside |-> {}]
  /\ identity = [c \in Cards |-> 0]
  /\ records = <<>>
  /\ saved = 0
  /\ trouble = 0

Fail == trouble < MaxTrouble /\ trouble' = trouble + 1
Well == UNCHANGED trouble
At(tool, pc) == batch.tool = tool /\ batch.pc = pc
To(pc) == batch' = [batch EXCEPT !.pc = pc]

-----------------------------------------------------------------------------
\* card_handler.py.

\* CardHandler: on the first card, whatever is in the reader; after that
\* wait_for_card(newcardonly) until a card has been taken out and one put in, the
\* same or the next.  CardHandlerAuto: the machine brings the next card, or leaves
\* the one in the bay; if its command fails the handler exits (SystemExit).
Bring ==
  \/ /\ pile # <<>>
     /\ bay' = Head(pile) /\ pile' = Tail(pile)
     /\ bins' = [bins EXCEPT !.aside = @ \cup ({bay} \ {0})]
  \/ bay # 0 /\ UNCHANGED <<bay, pile, bins>>

Sort(bin) ==
  /\ bay' = 0
  /\ bins' = IF bay = 0 THEN bins ELSE [bins EXCEPT ![bin] = @ \cup {bay}]

-----------------------------------------------------------------------------
\* pySim-shell: bulk_script.

ShellStart(tries, auto, halt) ==
  /\ batch = NoBatch
  /\ batch' = [NoBatch EXCEPT !.tool = "shell", !.tries = tries, !.auto = auto, !.halt = halt,
                              !.pc = "get", !.try = 1]
  /\ UNCHANGED <<pile, bay, bins, identity, records, saved, trouble>>

\* ch.get at every try.  An exception of it (ProtocolError of a reader, say) is
\* counted and the loop goes on with the next card; SystemExit ends the command.
ShellGet ==
  /\ At("shell", "get")
  /\ Bring /\ To("process") /\ Well
  /\ UNCHANGED <<identity, records, saved>>
ShellGetFails ==
  /\ At("shell", "get") /\ Fail
  /\ batch' = IF batch.auto THEN [batch EXCEPT !.pc = "off"]
              ELSE [batch EXCEPT !.fail = @ + 1, !.try = 1, !.first = FALSE]
  /\ UNCHANGED <<pile, bay, bins, identity, records, saved>>

\* _process_card: any exception of init_card, an unequipped shell and an exception
\* in the transcript of the script make -1.
ShellProcess(good) ==
  /\ At("shell", "process")
  /\ IF good THEN Well ELSE Fail
  /\ batch' = [batch EXCEPT !.rc = IF good THEN 0 ELSE 1,
                            !.success = IF good THEN @ + 1 ELSE @,
                            !.fail = IF good THEN @ ELSE @ + 1,
                            !.try = @ + 1,
                            !.pc = IF good \/ batch.try = batch.tries THEN "sort" ELSE "get"]
  /\ identity' = [identity EXCEPT ![bay] = IF good THEN 1 ELSE 0]
  /\ UNCHANGED <<pile, bay, bins, records, saved>>

BinAlways(rc) == "done"
Bin(rc) == IF rc = 0 THEN "done" ELSE "error"
Halts(rc) == batch.halt /\ rc # 0
ShellSort ==
  /\ At("shell", "sort")
  /\ Sort(Bin(batch.rc))
  /\ batch' = [batch EXCEPT !.pc = IF Halts(batch.rc) THEN "halted" ELSE "get", !.try = 1, !.first = FALSE]
  /\ Well
  /\ UNCHANGED <<pile, identity, records, saved>>
\* The machine fails to put the card away: the command stops, the card in the bay.
ShellSortFails ==
  /\ At("shell", "sort") /\ batch.auto /\ Fail
  /\ To("off")
  /\ UNCHANGED <<pile, bay, bins, identity, records, saved>>

-----------------------------------------------------------------------------
\* pySim-prog, in batch mode with --num 1 and a state file.

\* init_batch.  A state file is read with d.iteritems(), which dictionaries do not
\* have any more: AttributeError, and the program ends.
Resume == [NoBatch EXCEPT !.tool = "prog", !.pc = IF saved # 0 THEN "crashed" ELSE "get"]
ProgStart(auto) ==
  /\ batch = NoBatch \/ (At("prog", "off") /\ batch.starts < MaxStarts)
  /\ batch' = [Resume EXCEPT !.auto = auto, !.starts = batch.starts + 1]
  /\ UNCHANGED <<pile, bay, bins, identity, records, saved, trouble>>

ProgGet ==
  /\ At("prog", "get")
  /\ Bring /\ To("program") /\ Well
  /\ UNCHANGED <<identity, records, saved>>

\* An exception, and a card that is not detected: the error bin.  SystemExit of the
\* handler, an interrupt and a crash end the program where it is.
ProgFails ==
  /\ batch.tool = "prog" /\ batch.pc \in {"get", "program", "record", "count", "save"} /\ Fail
  /\ To("error")
  /\ UNCHANGED <<pile, bay, bins, identity, records, saved>>
ProgEnds ==
  /\ batch.tool = "prog" /\ batch.pc \notin {"off", "crashed"} /\ Fail
  /\ To("off")
  /\ UNCHANGED <<pile, bay, bins, identity, records, saved>>

\* card.program: file after file, so that it may also break off with some written.
ProgProgram(whole) ==
  /\ At("prog", "program") /\ bay # 0
  /\ identity' = [identity EXCEPT ![bay] = batch.num]
  /\ IF whole THEN To("record") /\ Well ELSE To("error") /\ Fail
  /\ UNCHANGED <<pile, bay, bins, records, saved>>
ProgRecord ==
  /\ At("prog", "record") /\ To("count")
  /\ records' = Append(records, batch.num)
  /\ Well
  /\ UNCHANGED <<pile, bay, bins, identity, saved>>
\* opts.num += 1, then save_batch.
Count(n) == n + 1
ProgCount ==
  /\ At("prog", "count")
  /\ batch' = [batch EXCEPT !.num = Count(@), !.pc = "save"]
  /\ Well
  /\ UNCHANGED <<pile, bay, bins, identity, records, saved>>
ProgSave ==
  /\ At("prog", "save") /\ To("done")
  /\ saved' = batch.num
  /\ Well
  /\ UNCHANGED <<pile, bay, bins, identity, records>>
\* ch.done; ch.error after rc # 0.
ProgSort ==
  /\ batch.tool = "prog" /\ batch.pc \in {"done", "error"}
  /\ Sort(batch.pc)
  /\ batch' = [batch EXCEPT !.pc = "get", !.first = FALSE]
  /\ Well
  /\ UNCHANGED <<pile, identity, records, saved>>

BatchNext ==
  \/ \E tries \in TriesSet, auto, halt \in BOOLEAN : ShellStart(tries, auto, halt)
  \/ ShellGet \/ ShellGetFails \/ ShellSort \/ ShellSortFails
  \/ \E good \in BOOLEAN : ShellProcess(good)
  \/ \E auto \in BOOLEAN : ProgStart(auto)
  \/ ProgGet \/ ProgFails \/ ProgEnds \/ ProgRecord \/ ProgCount \/ ProgSave \/ ProgSort
  \/ \E whole \in BOOLEAN : ProgProgram(whole)

BatchSpec == BatchInit /\ [][BatchNext]_batchVars

-----------------------------------------------------------------------------
\* Properties.

\* A card in the done bin is one that was worked on to the end, last of all: by the
\* script without an exception, or programmed with an identity that is on record.
DoneBinIsDone ==
  \A c \in bins.done :
    /\ identity[c] # 0
    /\ batch.tool = "prog" => \E i \in DOMAIN records : records[i] = identity[c]

\* No two cards in the done bin have the same identity, through failures, through
\* cards put into the error bin half programmed, and through restarts.
IdentitiesDistinct ==
  batch.tool = "prog" =>
    \A c, d \in bins.done : c # d => identity[c] # identity[d]

\* With --halt_on_error no card is fetched after one in the error bin.
HaltsAtError == batch.tool = "shell" /\ batch.halt /\ bins.error # {} => batch.pc = "halted"

\* Together: the bins tell which cards are done, and no two of those are the same.
BinsTrusted == DoneBinIsDone /\ IdentitiesDistinct /\ HaltsAtError

=============================================================================
