----------------------------- MODULE PySimCard -----------------------------
(***************************************************************************)
(* The parts of pySim that work on a card, one beside the other: in a      *)
(* reader, over a secure channel, in short messages, the eSIM server, the  *)
(* tracer, and the profiles it prepares.                                   *)
(* Each models the calls of the layer below as single steps, so they       *)
(* share no state: a behaviour is of one part, and the others stand still. *)
(***************************************************************************)
EXTENDS CardParts, ReadersServer

CONSTANTS
  Directories, Applications, Elementary, Modelled, ChannelNumbers, MaxHidden, MaxOps,
  FileContents, CallData, Ff, MaxCmdLen, MaxFlaws,
  TracedDirectories, TracedElementary, TracedModelled, TracedChannels, MaxPackets,
  Options, Rows, CardIds, AppSets, AbsentSets, MaxRefused,
  Elements, Upps, Anchors, MaxEdits,
  Layouts, BodyFiles,
  ExportedDirs, ExportedApps, ExportedBare, ExportedEfs, ExportedMissing, ExportedCards, ExportedStarts, MaxDenied,
  AdminApplications, AdminDirs, AdminEfs, Issued, Unmodelled, Volumes, MaxAdmin,
  Sims, Codes, Providers, Typed, MaxTries, MaxTurns,
  Stock, KnownApps, Openings, MaxTroubles, MaxInits, MaxEvents,
  Values, Plmns, TableSize, Services, FileServices, Pairs, NotWithIsim, Isim, MaxSteps

VARIABLES
  part,
  lchan, active, tree, current, adm, job, hidden, strayed, ops,
  file, call, flaws,
  sim, fetch, last_cmd, traced, shown, astray, packets,
  program, cwd, chip, aids, written, refused, unheard,
  upp, pes, removed, applied, checked, edits,
  layout, at, nodes, curDf, bases, outcome, body, again,
  card, command, frames, sel, entries, skipped, stopped, denials, lost, edit,
  holds, onCard, chosen, fcp, away, did,
  inReader, powered, exchanged, iccid, codes, said, turns,
  slot, init, shell, counted,
  want, raw, seen, ust, sst, asked, there, found, steps

Session == INSTANCE CardSession
Commands == INSTANCE CardCommands
Trace == INSTANCE CardTrace WITH Directories <- TracedDirectories,
  Elementary <- TracedElementary, Modelled <- TracedModelled, ChannelNumbers <- TracedChannels
Programmer == INSTANCE CardProgram
Profile == INSTANCE Saip
Saipfs == INSTANCE SaipFiles
Export == INSTANCE FileExport WITH Directories <- ExportedDirs,
  Applications <- ExportedApps, Bare <- ExportedBare, Elementary <- ExportedEfs,
  Missing <- ExportedMissing, Cards <- ExportedCards, Starts <- ExportedStarts
Admin == INSTANCE CardFiles WITH Applications <- AdminApplications
Codebook == INSTANCE CardCodes
Start == INSTANCE CardStart
Fields == INSTANCE CardFields

sessionVars == <<lchan, active, tree, current, adm, job, hidden, strayed, ops>>
commandVars == <<file, call, flaws>>
traceVars == <<sim, fetch, last_cmd, traced, shown, astray, packets>>
programVars == <<program, cwd, chip, aids, written, refused, unheard>>
profileVars == <<upp, pes, removed, applied, checked, edits>>
filesVars == <<layout, at, nodes, curDf, bases, outcome, body, again>>
exportVars == <<card, command, frames, sel, entries, skipped, stopped, denials, lost, edit>>
adminVars == <<holds, onCard, chosen, fcp, away, did>>
codesVars == <<inReader, powered, exchanged, iccid, codes, said, turns>>
startVars == <<slot, init, shell, counted>>
fieldsVars == <<want, raw, seen, ust, sst, asked, there, found, steps>>

cardVars ==
  <<part, linkVars, sessionVars, commandVars, batchVars, secureVars, serverVars, otaVars,
    traceVars, programVars, profileVars, readerVars, filesVars, exportVars, adminVars, codesVars,
    startVars, contentVars, fieldsVars>>

CardInit ==
  /\ part \in {"link", "session", "commands", "batch", "secure", "server", "ota", "trace",
              "program", "profile", "reader", "files", "export", "admin", "codes",
              "start", "content", "fields"}
  /\ Link!LinkInit /\ Session!SessionInit /\ Commands!CommandsInit /\ Batch!BatchInit
  /\ Secure!SecureInit /\ Server!SmdppInit /\ Ota!OtaInit /\ Trace!TraceInit
  /\ Programmer!ProgInit /\ Profile!SaipInit
  /\ Reader!ReadersInit
  /\ Saipfs!SaipFilesInit
  /\ Export!WalkInit
  /\ Admin!AdminInit
  /\ Codebook!CodesInit
  /\ Start!StartInit
  /\ Content!ContentInit
  /\ Fields!FieldsInit

OthersStand ==
  /\ part # "link" => UNCHANGED linkVars
  /\ part # "session" => UNCHANGED sessionVars
  /\ part # "commands" => UNCHANGED commandVars
  /\ part # "batch" => UNCHANGED batchVars
  /\ part # "secure" => UNCHANGED secureVars
  /\ part # "server" => UNCHANGED serverVars
  /\ part # "ota" => UNCHANGED otaVars
  /\ part # "trace" => UNCHANGED traceVars
  /\ part # "program" => UNCHANGED programVars
  /\ part # "profile" => UNCHANGED profileVars
  /\ part # "reader" => UNCHANGED readerVars
  /\ part # "files" => UNCHANGED filesVars
  /\ part # "export" => UNCHANGED exportVars
  /\ part # "admin" => UNCHANGED adminVars
  /\ part # "codes" => UNCHANGED codesVars
  /\ part # "start" => UNCHANGED startVars
  /\ part # "content" => UNCHANGED contentVars
  /\ part # "fields" => UNCHANGED fieldsVars

CardNext ==
  /\ UNCHANGED part
  /\ OthersStand
  /\ \/ part = "link" /\ Link!LinkNext
     \/ part = "session" /\ Session!SessionNext
     \/ part = "commands" /\ Commands!CommandsNext
     \/ part = "batch" /\ Batch!BatchNext
     \/ part = "secure" /\ Secure!SecureNext
     \/ part = "server" /\ Server!SmdppNext
     \/ part = "ota" /\ Ota!OtaNext
     \/ part = "trace" /\ Trace!TraceNext
     \/ part = "program" /\ Programmer!ProgNext
     \/ part = "profile" /\ Profile!SaipNext
     \/ part = "reader" /\ Reader!ReadersNext
     \/ part = "files" /\ Saipfs!SaipFilesNext
     \/ part = "export" /\ Export!WalkNext
     \/ part = "admin" /\ Admin!AdminNext
     \/ part = "codes" /\ Codebook!CodesNext
     \/ part = "start" /\ Start!StartNext
     \/ part = "content" /\ Content!ContentNext
     \/ part = "fields" /\ Fields!FieldsNext

CardSpec == CardInit /\ [][CardNext]_cardVars

-----------------------------------------------------------------------------
\* The parts' properties, under the names the configuration can use, each of the behaviours of its
\* own parts: in those of another they speak of initial values only.
\* send_apdu: executed once, answered whole, no proactive command left behind.
CommandDoneOnce == part = "link" =>
  Link!CommandDoneOnce
\* RuntimeState and RuntimeLchan: what they believe selected and verified is so; a walk over the files
\* with them is complete, returns, and writes a script that restores the files; a code they look up for
\* the card is that card's; and the state that init_card makes is one of the card in the reader.
SessionTracked == part \in {"session", "export", "codes", "start"} =>
  Session!SessionTracked /\ Export!ExportTrusted /\ Codebook!CodesTrusted /\ Start!StartTrusted
\* update_binary, update_record, set_data: what they say of the file is so; a file that was created,
\* resized, deleted or terminated is not taken for another one; and a field and a service that were
\* set are shown as they were.
UpdatesTrusted == part \in {"commands", "admin", "fields"} =>
  Commands!UpdatesTrusted /\ Admin!FilesTracked /\ Fields!FieldsTrusted
\* bulk_script and pySim-prog: the done bin holds done cards, all different.
BinsTrusted == part = "batch" =>
  Batch!BinsTrusted
\* SCP02 and SCP03: what passes over a secure channel is what was meant to; and the commands to security
\* domains and eUICCs leave on the card what they say.
ChannelTrusted == part \in {"secure", "content"} =>
  Secure!ChannelTrusted /\ Content!ContentTrusted
\* osmo-smdpp and es9p_client: a download gives the profile that was asked for.
DownloadTrusted == part = "server" =>
  Server!DownloadTrusted
\* smpp-ota-tool: what it reports of its command is so.
OtaTrusted == part = "ota" =>
  Ota!OtaTrusted
\* pySim-trace: what it takes for selected is, and each answer is its command's.
TraceTrue == part = "trace" =>
  Trace!TraceTrue
\* pySim-prog: the right parameters, each in its own file, or a failure that shows.
ProgramTrusted == part = "program" =>
  Programmer!ProgramTrusted
\* saip-tool and personalisation: a profile stays sound, what was set in it is in it, and its files
\* stand where they belong and keep what they hold.
ProfilesTrusted == part \in {"profile", "files"} =>
  Profile!ProfilesTrusted /\ Saipfs!ProfileFilesTrusted
\* The reader drivers: an answer is its command's, a new card is new.
ReadersTrusted == part = "reader" =>
  Reader!ReadersTrusted

=============================================================================
