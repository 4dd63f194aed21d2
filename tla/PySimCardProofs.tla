-------------------------- MODULE PySimCardProofs --------------------------
(***************************************************************************)
(* What CardPartsProofs and ReadersServerProofs show of a part holds of    *)
(* the parts side by side: a step of another part leaves the variables of  *)
(* this one alone.                                                         *)
(***************************************************************************)
EXTENDS PySimCard, CardPartsProofs, ReadersServerProofs

LEMMA PartSteps ==
  ASSUME [CardNext]_cardVars
  PROVE  /\ [Link!LinkNext]_linkVars
         /\ [Batch!BatchNext]_batchVars
         /\ [Ota!OtaNext]_otaVars
         /\ [Secure!SecureNext]_secureVars
         /\ [Content!ContentNext]_contentVars
         /\ [Reader!ReadersNext]_readerVars
         /\ [Server!SmdppNext]_serverVars
<1>1. CASE UNCHANGED cardVars
  BY <1>1 DEF cardVars
<1>2. CASE CardNext
  <2>1. CASE part = "link"
    BY <1>2, <2>1 DEF CardNext, OthersStand
  <2>2. CASE part = "batch"
    BY <1>2, <2>2 DEF CardNext, OthersStand
  <2>3. CASE part = "ota"
    BY <1>2, <2>3 DEF CardNext, OthersStand
  <2>4. CASE part = "secure"
    BY <1>2, <2>4 DEF CardNext, OthersStand
  <2>5. CASE part = "content"
    BY <1>2, <2>5 DEF CardNext, OthersStand
  <2>6. CASE part = "reader"
    BY <1>2, <2>6 DEF CardNext, OthersStand
  <2>7. CASE part = "server"
    BY <1>2, <2>7 DEF CardNext, OthersStand
  <2>8. CASE part \notin {"link", "batch", "ota", "secure", "content", "reader", "server"}
    BY <1>2, <2>8 DEF CardNext, OthersStand
  <2> QED BY <2>1, <2>2, <2>3, <2>4, <2>5, <2>6, <2>7, <2>8
<1> QED BY <1>1, <1>2

\* send_apdu: a command that returned was done once, its answer is whole and its status the
\* card's, and no proactive command is left waiting.
THEOREM CommandsAreDoneOnce == CardSpec => []CommandDoneOnce
<1>1. CardInit => LinkInv
  BY LinkStarts DEF CardInit
<1>2. LinkInv /\ [CardNext]_cardVars => LinkInv'
  BY PartSteps, LinkKeeps
<1>3. LinkInv => CommandDoneOnce
  BY LinkGives DEF CommandDoneOnce
<1> QED BY <1>1, <1>2, <1>3, PTL DEF CardSpec

\* bulk_script and pySim-prog: the done bin holds done cards, all different.
THEOREM BinsCanBeTrusted == CardSpec => []BinsTrusted
<1>1. CardInit => BatchInv
  BY BatchStarts DEF CardInit
<1>2. BatchInv /\ [CardNext]_cardVars => BatchInv'
  BY PartSteps, BatchKeeps
<1>3. BatchInv => BinsTrusted
  BY BatchGives DEF BinsTrusted
<1> QED BY <1>1, <1>2, <1>3, PTL DEF CardSpec

\* smpp-ota-tool.py and pySim-smpp2sim.py: what a tool shows of its command is so.
THEOREM OtaCanBeTrusted == CardSpec => []OtaTrusted
<1>1. CardInit => OtaInv
  BY OtaStarts DEF CardInit
<1>2. OtaInv /\ [CardNext]_cardVars => OtaInv'
  BY PartSteps, OtaKeeps
<1>3. OtaInv => OtaTrusted
  BY OtaGives DEF OtaTrusted
<1> QED BY <1>1, <1>2, <1>3, PTL DEF CardSpec

\* scp.py: while nothing was lost both ends of a secure channel are in step, a loss is noticed, and a
\* key that is put is the key that was given.
THEOREM SecureChannelCanBeTrusted == CardSpec => []Secure!ChannelTrusted
<1>1. CardInit => SecureInv
  BY SecureStarts DEF CardInit
<1>2. SecureInv /\ [CardNext]_cardVars => SecureInv'
  BY PartSteps, SecureKeeps
<1> QED BY <1>1, <1>2, SecureGives, PTL DEF CardSpec

\* scp.py, global_platform/__init__.py, javacard.py and euicc.py: besides, what a command to a security
\* domain or an eUICC says it did is what the card holds: the whole of a load file and its applet, all
\* of the data, no key that was deleted, the registry as it is listed, the profile as it is shown.
THEOREM ChannelCanBeTrusted == CardSpec => []ChannelTrusted
<1>1. CardInit => SecureInv /\ ContentInv
  BY SecureStarts, ContentStarts DEF CardInit
<1>2. SecureInv /\ ContentInv /\ [CardNext]_cardVars => SecureInv' /\ ContentInv'
  BY PartSteps, SecureKeeps, ContentKeeps
<1>3. SecureInv /\ ContentInv => ChannelTrusted
  BY SecureGives, ContentGives DEF ChannelTrusted
<1> QED BY <1>1, <1>2, <1>3, PTL DEF CardSpec

\* transport/serial.py, modem_atcmd.py, calypso.py and pcsc.py: with nothing left over from before, and
\* a card in time, an answer is the command's own, whole; whatever is left over, what the serial driver
\* reads before the echo of a later command is about the header it sent, unless a card that waited for
\* data took that header for it; a modem with echo answers with its own; and the card that a wait for a
\* new one ends with was put in since.
THEOREM ReadersCanBeTrusted == CardSpec => []ReadersTrusted
<1>1. CardInit => ReadersInv
  BY ReadersStart DEF CardInit
<1>2. ReadersInv /\ [CardNext]_cardVars => ReadersInv'
  BY PartSteps, ReadersKeep
<1>3. ReadersInv => ReadersTrusted
  BY ReadersGive DEF ReadersTrusted
<1> QED BY <1>1, <1>2, <1>3, PTL DEF CardSpec

\* osmo-smdpp.py, es9p_client.py and esim/: however downloads interleave, give up, and meet a restart, a
\* cancelled session or another profile under their name, what a client files away is the profile it
\* named, all of it, with metadata of its own; its package opens for its eUICC alone and with each
\* segment in its place; and a sound client is turned away only when its session or profile was gone.
THEOREM DownloadCanBeTrusted == CardSpec => []DownloadTrusted
<1>1. CardInit => ServerInv
  BY ServerStarts DEF CardInit
<1>2. ServerInv /\ [CardNext]_cardVars => ServerInv'
  BY PartSteps, ServerKeeps
<1>3. ServerInv => DownloadTrusted
  BY ServerGives DEF DownloadTrusted
<1> QED BY <1>1, <1>2, <1>3, PTL DEF CardSpec

=============================================================================
