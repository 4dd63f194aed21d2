----------------------------- MODULE CardParts -----------------------------
(***************************************************************************)
(* The parts of pySim that CardPartsProofs is about, each with variables   *)
(* of its own; PySimCard sets the others beside them.                      *)
(***************************************************************************)
EXTENDS Integers, Sequences

CONSTANTS
  MaxPieces, MaxProactive, MaxCommands,
  PileSize, TriesSet, MaxTrouble, MaxStarts,
  Tools, ApduLengths, Spis, Counters, MaxOta,
  DataLengths, KeyLengths, SecureChans, MaxSecure,
  CapFiles, ChunkLen, MaxDataLen, BlockNumbers, PageSize, Payloads, AllKeys, Iccids, LongNames, MaxRefusals, MaxJobs

VARIABLES
  apdu, tpdu, uicc, handler, sends,
  batch, pile, bay, bins, identity, records, saved, trouble,
  tools, smsc, deliver, secured,
  host, isd, exch, faults,
  registry, profiles, task, report, refusals, jobs

ASSUME LinkAssumption == MaxPieces \in Nat
ASSUME BatchAssumption == PileSize \in Nat /\ TriesSet \subseteq Int

\* What a run of smpp-ota-tool.py can ask for.
SpiType ==
  [counter : {"no_counter", "counter_must_be_higher"}, ciphering : BOOLEAN, algo : {8, 16},
   rc_cc_ds : {"no_rc_cc_ds", "cc"}, por : {"no_por", "por_required", "por_only_when_error"},
   por_shall_be_ciphered : BOOLEAN, por_rc_cc_ds : {"no_rc_cc_ds", "cc"}]
ASSUME OtaAssumption == Spis \subseteq SpiType /\ ApduLengths \subseteq Nat /\ Counters \subseteq Nat
ASSUME SecureAssumption ==
  DataLengths \subseteq Nat /\ KeyLengths \subseteq Nat /\ SecureChans \subseteq Nat

Link == INSTANCE CardLink
Batch == INSTANCE CardBatch
Ota == INSTANCE OtaSms
Secure == INSTANCE SecureChannel
Content == INSTANCE CardContent

linkVars == <<apdu, tpdu, uicc, handler, sends>>
batchVars == <<batch, pile, bay, bins, identity, records, saved, trouble>>
otaVars == <<tools, smsc, deliver, secured>>
secureVars == <<host, isd, exch, faults>>
contentVars == <<registry, profiles, task, report, refusals, jobs>>

\* The code of a load file is some of its components in their order, and it fits into the blocks that
\* have numbers: 256 of up to 255 bytes.
ASSUME ContentAssumption ==
  /\ ChunkLen \in Nat /\ MaxDataLen \in Nat /\ PageSize \in Nat /\ BlockNumbers \in Nat \ {0}
  /\ Payloads \subseteq Nat
  /\ "none" \notin DOMAIN CapFiles
  /\ \A c \in DOMAIN CapFiles :
       /\ Content!GetLoadFile(CapFiles[c]) \in Seq(Content!ToSet(Content!OrderOfLoadFile))
       /\ Len(Content!Contents(c)) <= ChunkLen * BlockNumbers

=============================================================================
