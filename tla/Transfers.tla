----------------------------- MODULE Transfers -----------------------------
(***************************************************************************)
(* What passes between the server and one file of the card, of each kind:  *)
(* the binary transfers, the BER-TLV objects, the bytes that describe      *)
(* files and identities, and the page's editors of a file's contents.      *)
(* They share nothing, so a behaviour is of one kind, and the others stand *)
(* still.                                                                  *)
(***************************************************************************)
EXTENDS BinaryTransfer, TlvTransfer

CONSTANTS Targets, MaxSteps

VARIABLES
  kind, input, parsed, target, verified, cache, phase, rows, oldRows, box, original, picked, buttons,
  awaited, due, posted, edits, steps

Data == INSTANCE CardData
Edit == INSTANCE WriteEditors

\* Every file that may be opened holds entries of its kind.
ASSUME TargetsAssumption == \A t \in Targets : Edit!IsFile(t)

editVars ==
  <<target, verified, cache, phase, rows, oldRows, box, original, picked, buttons, awaited, due,
    posted, edits, steps>>
transferVars == <<kind, vars, tlvVars, input, parsed, editVars>>

AnyBinary == op = "read_csim" /\ size = 0 /\ offset = 0 /\ file = <<>> /\ stray = FALSE
             /\ data = <<>> /\ result = "none"
NoData == input = "none" /\ parsed = <<>>
NoTlv ==
  /\ object = NoObject /\ sent = 0 /\ call = NoCall /\ part = <<>>
  /\ told = "none" /\ calls = 0 /\ losses = 0

TransfersInit ==
  \/ kind = "binary" /\ Init /\ NoTlv /\ NoData /\ Edit!EditStands
  \/ kind = "tlv" /\ TlvInit /\ AnyBinary /\ NoData /\ Edit!EditStands
  \/ kind = "data" /\ Data!DataInit /\ NoTlv /\ AnyBinary /\ Edit!EditStands
  \/ kind = "edit" /\ Edit!EditInit /\ NoTlv /\ AnyBinary /\ NoData

TransfersNext ==
  \/ kind = "binary" /\ Next /\ UNCHANGED <<kind, tlvVars, input, parsed, editVars>>
  \/ kind = "tlv" /\ TlvNext /\ UNCHANGED <<kind, vars, input, parsed, editVars>>
  \/ kind = "data" /\ (Data!ParseInput \/ Data!DataDone) /\ UNCHANGED <<kind, vars, tlvVars, editVars>>
  \/ kind = "edit" /\ Edit!EditNext /\ UNCHANGED <<kind, vars, tlvVars, input, parsed>>

\* A request thread that reads goes on: Flask leaves it alone until it answers.
TransfersSpec ==
  /\ TransfersInit /\ [][TransfersNext]_transferVars
  /\ WF_transferVars(kind = "tlv" /\ UNCHANGED <<kind, vars, input, parsed, editVars>>
                     /\ \E r \in Outcomes : Retrieve(r))

\* WriteEditors' property, under a name the configuration can use: what is sent is what was edited.
WritesAreEdits == Edit!WritesAreEdits

\* CardData's property, under a name the configuration can use: the server's
\* parsers of FCPs, AIDs, numbers and class bytes.
AnswersUnderstood == Data!AnswersUnderstood

=============================================================================
