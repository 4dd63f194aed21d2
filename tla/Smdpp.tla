-------------------------------- MODULE Smdpp --------------------------------
(***************************************************************************)
(* osmo-smdpp.py, the SM-DP+ that hands out profiles (ES9+), with the      *)
(* session store of pySim/esim/rsp.py; pySim/esim/bsp.py and es8p.py, a    *)
(* profile cut into segments, enciphered and MACed, bound to one eUICC and *)
(* opened again; and contrib/es9p_client.py, which downloads one.          *)
(*                                                                         *)
(* The server does one request after another, each handler to its end; a   *)
(* client may have given up (after 10 seconds) when its request is         *)
(* handled.  Signatures are the texts they sign; times and the server's    *)
(* random numbers are drawn from a counter.  A text is a sequence of       *)
(* units, a ciphertext the text with the key and the block counter it was  *)
(* made with, a MAC its key and all that it chains.                        *)
(***************************************************************************)
EXTENDS Integers, Sequences, SequencesExt, FiniteSets

CONSTANTS
  MaxPayload,    \* units of a segment
  Clients,       \* runs of es9p_client.py, each with an eUICC of its own
  MatchingIds,   \* names of profiles
  Transactions,  \* transaction ids
  Digits,        \* those without a letter
  Sizes,         \* units of a profile
  Setups,        \* "good", or what is wrong: other address, other CI, bad chain, EID out of range
  Changing,      \* profiles that may be replaced or removed
  MaxChanges     \* bound: how often

VARIABLES
  rss,       \* the session store
  ever,      \* transaction ids given out
  upp_dir,   \* the profiles
  clients,   \* the downloads
  requests,  \* on their way or waiting in the server
  fresh      \* random numbers drawn

smdppVars == <<rss, ever, upp_dir, clients, requests, fresh>>

NoProfile == [version |-> 0, changes |-> 0, missed |-> FALSE]
\* RspSessionState
NewSession(challenge) ==
  [challenge |-> challenge, euicc_cert |-> "none", matchingId |-> "none", metadata |-> <<>>,
   sig2 |-> 0, euicc_otpk |-> "none", smdp_ot |-> 0]
Idle == [stage |-> "idle", setup |-> "good", mid |-> "none", tx |-> "none", challenge |-> 0,
         sig2 |-> 0, bpp |-> <<>>, metadata |-> <<>>, upp |-> <<>>]

SmdppInit ==
  /\ rss = <<>> /\ ever = {} /\ requests = {} /\ fresh = 0
  /\ upp_dir = [m \in MatchingIds |-> [NoProfile EXCEPT !.version = 1]]
  /\ clients = [c \in Clients |-> Idle]

\* Both sides get the same secret from their own and the other's one-time key.
Secret(smdp_otpk, euicc_otpk) == <<smdp_otpk, euicc_otpk>>
Der(m, version) == [i \in 1..Sizes[m] |-> <<m, version, i>>]
Metadata(m, version) == <<m, version>>
Present(m) == m \in MatchingIds /\ upp_dir[m].version > 0

-----------------------------------------------------------------------------
\* A bound profile.

\* BspInstance
Bsp(s_enc, s_mac, initial_mcv) ==
  [s_enc |-> s_enc, s_mac |-> s_mac, mac_chain |-> initial_mcv, block_nr |-> 1]
\* bsp_key_derivation, from the secret both sides have and what names the two.
FromKdf(secret, host, eid) ==
  Bsp(<<"enc", secret, host, eid>>, <<"mac", secret, host, eid>>, <<<<"mcv", secret, host, eid>>>>)

\* The pieces a text is sealed in: none for an empty one.
Pieces(text) ==
  [i \in 1..((Len(text) + MaxPayload - 1) \div MaxPayload) |->
     SubSeq(text, (i - 1) * MaxPayload + 1,
            IF i * MaxPayload > Len(text) THEN Len(text) ELSE i * MaxPayload)]

\* What a segment carries: its piece as it is, or enciphered under its number.
Clear(piece) == [text |-> piece, key |-> "none", nr |-> 0]
Ciphered(b, piece, i) == [text |-> piece, key |-> b.s_enc, nr |-> b.block_nr + i - 1]

\* auth: the MAC of the i-th segment covers that and all before it.  Each segment takes
\* a number, one with a MAC only too.
Mac(b, segments, i) == <<b.s_mac, b.mac_chain \o SubSeq(segments, 1, i)>>
Advanced(b, segments) ==
  [b EXCEPT !.mac_chain = @ \o segments, !.block_nr = @ + Len(segments)]

\* encrypt_and_mac and mac_only, piece after piece.
Sealed(b, tag, bodies) ==
  LET segments == [i \in DOMAIN bodies |-> [tag |-> tag, body |-> bodies[i]]]
  IN [bsp |-> Advanced(b, segments),
      tlvs |-> [i \in DOMAIN bodies |-> [segment |-> segments[i], mac |-> Mac(b, segments, i)]]]
EncryptAndMac(b, tag, text) ==
  Sealed(b, tag, [i \in DOMAIN Pieces(text) |-> Ciphered(b, Pieces(text)[i], i)])
MacOnly(b, tag, text) == Sealed(b, tag, [i \in DOMAIN Pieces(text) |-> Clear(Pieces(text)[i])])

\* demac_only and demac_and_decrypt, one after another: ok when none of them fails.
Genuine(b, segments, i, mac) == mac = Mac(b, segments, i)
Deciphers(b, body, i) == body.key = b.s_enc /\ body.nr = b.block_nr + i - 1
DemacOnly(b, tlvs) ==
  LET segments == [i \in DOMAIN tlvs |-> tlvs[i].segment]
  IN [ok |-> \A i \in DOMAIN tlvs : Genuine(b, segments, i, tlvs[i].mac),
      bsp |-> Advanced(b, segments),
      text |-> FlattenSeq([i \in DOMAIN tlvs |-> segments[i].body.text])]
DemacAndDecrypt(b, tlvs) ==
  LET opened == DemacOnly(b, tlvs)
  IN [opened EXCEPT !.ok = @ /\ \A i \in DOMAIN tlvs : Deciphers(b, tlvs[i].segment.body, i)]

\* ProtectedProfilePackage.from_upp: the keys as they are when it begins.
Protect(upp, b) ==
  [keys |-> <<b.s_enc, b.s_mac, b.mac_chain>>, encoded |-> EncryptAndMac(b, "86", upp).tlvs]

\* BoundProfilePackage.encode: ConfigureISDP, StoreMetadata, the session keys of a
\* package that was protected before, and its segments.
NoKeys == <<>>
Encode(ppp, upp, metadata, secret, host, eid) ==
  LET isdp == EncryptAndMac(FromKdf(secret, host, eid), "87", <<"ConfigureISDP">>)
      smr == MacOnly(isdp.bsp, "88", metadata)
  IN [host |-> host, isdp |-> isdp.tlvs, smr |-> smr.tlvs,
      rsk |-> IF ppp = NoKeys THEN <<>> ELSE EncryptAndMac(smr.bsp, "87", ppp.keys).tlvs,
      upp |-> IF ppp = NoKeys THEN Protect(upp, smr.bsp).encoded ELSE ppp.encoded]

\* BoundProfilePackage.decode.
WithKeys(keys) == Bsp(keys[1], keys[2], keys[3])
Delivered(opens, metadata, upp) ==
  IF opens /\ upp.ok THEN [ok |-> TRUE, metadata |-> metadata, upp |-> upp.text]
  ELSE [ok |-> FALSE, metadata |-> <<>>, upp |-> <<>>]
Decode(bpp, secret, eid) ==
  LET isdp == DemacAndDecrypt(FromKdf(secret, bpp.host, eid), bpp.isdp)
      smr == DemacOnly(isdp.bsp, bpp.smr)
      rsk == DemacAndDecrypt(smr.bsp, bpp.rsk)
      bsp == IF bpp.rsk = <<>> THEN smr.bsp ELSE WithKeys(rsk.text)
  IN Delivered(isdp.ok /\ smr.ok /\ rsk.ok, smr.text, DemacAndDecrypt(bsp, bpp.upp))

-----------------------------------------------------------------------------
\* The client: each call blocks until it is answered or has lasted too long.

Asks(c, r, stage) ==
  /\ requests' = requests \cup {r}
  /\ clients' = [clients EXCEPT ![c] = [@ EXCEPT !.stage = stage]]
  /\ UNCHANGED <<rss, ever, upp_dir, fresh>>

StartDownload(c, mid, setup) ==
  LET r == [from |-> c, api |-> "initiateAuthentication", setup |-> setup]
  IN /\ clients[c].stage = "idle"
     /\ requests' = requests \cup {r}
     /\ clients' = [clients EXCEPT ![c] = [@ EXCEPT !.stage = "initiating", !.setup = setup, !.mid = mid]]
     /\ UNCHANGED <<rss, ever, upp_dir, fresh>>
Authenticate(c) ==
  /\ clients[c].stage = "initiated"
  /\ Asks(c, [from |-> c, api |-> "authenticateClient", tx |-> clients[c].tx,
              setup |-> clients[c].setup, challenge |-> clients[c].challenge, mid |-> clients[c].mid],
             "authenticating")
AskPackage(c) ==
  /\ clients[c].stage = "authenticated"
  /\ Asks(c, [from |-> c, api |-> "getBoundProfilePackage", tx |-> clients[c].tx, sig2 |-> clients[c].sig2,
              otpk |-> c], "binding")

\* The package is opened with the one-time key and the files are written.
StoreProfile(c) ==
  LET ss == clients[c].bpp
      opened == Decode(ss.bpp, Secret(ss.smdp_otpk, c), c)
  IN /\ clients[c].stage = "bound"
     /\ clients' = [clients EXCEPT ![c] =
          [@ EXCEPT !.stage = IF opened.ok THEN "stored" ELSE "undecodable",
                    !.metadata = opened.metadata, !.upp = opened.upp]]
     /\ UNCHANGED <<rss, ever, upp_dir, requests, fresh>>

\* notification-install, with the transaction id of a download.
NotifyInstalled(c) ==
  /\ clients[c].stage = "stored"
  /\ Asks(c, [from |-> c, api |-> "handleNotification", tx |-> clients[c].tx], "notifying")

Waiting == {"initiating", "authenticating", "binding", "notifying"}
TimeOut(c) ==
  /\ clients[c].stage \in Waiting
  /\ clients' = [clients EXCEPT ![c] = [@ EXCEPT !.stage = "timed out"]]
  /\ UNCHANGED <<rss, ever, upp_dir, requests, fresh>>

-----------------------------------------------------------------------------
\* The server.  The session a handler works on is a copy: what it changes counts
\* when it is stored.

Pending(r, stage) == clients[r.from].stage = stage
Answered(r, from, to) ==
  IF Pending(r, from) THEN [clients EXCEPT ![r.from] = to] ELSE clients
Failed(r, from) ==
  /\ clients' = Answered(r, from, [clients[r.from] EXCEPT !.stage = "refused"])
  /\ UNCHANGED <<rss, ever, fresh>>
Known(tx) == tx \in DOMAIN rss

InitiateAuthentication(r) ==
  IF r.setup \in {"other address", "other CI"} THEN Failed(r, "initiating")
  ELSE \E tx \in Transactions \ ever :
         /\ rss' = [t \in DOMAIN rss \cup {tx} |-> IF t = tx THEN NewSession(fresh + 1) ELSE rss[t]]
         /\ ever' = ever \cup {tx}
         /\ fresh' = fresh + 1
         /\ clients' = Answered(r, "initiating", [clients[r.from] EXCEPT
              !.stage = "initiated", !.tx = tx, !.challenge = fresh + 1])

\* The certificates chain, the EID is its maker's, the challenge is this session's,
\* and the profile is there.
ChainUnchecked(r) == TRUE
ChainHolds(r) == r.setup # "bad chain"
EidPermitted(r) == r.setup # "EID out of range"
Authenticates(ss, r) ==
  /\ ChainHolds(r) /\ EidPermitted(r)
  /\ r.challenge = ss.challenge
  /\ Present(r.mid)
AuthenticateClient(r) ==
  IF ~(Known(r.tx) /\ Authenticates(rss[r.tx], r)) THEN Failed(r, "authenticating")
  ELSE LET ss == [rss[r.tx] EXCEPT !.euicc_cert = r.from, !.matchingId = r.mid,
                    !.metadata = Metadata(r.mid, upp_dir[r.mid].version), !.sig2 = fresh + 1]
       IN /\ rss' = [rss EXCEPT ![r.tx] = ss]
          /\ fresh' = fresh + 1
          /\ clients' = Answered(r, "authenticating", [clients[r.from] EXCEPT
               !.stage = "authenticated", !.sig2 = ss.sig2])
          /\ UNCHANGED ever

\* Signed by the eUICC of the session, over the signature that session was sent.
\* Without authentication before there is no certificate, and an AttributeError.
SignedByIts(ss, r) == ss.euicc_cert # "none" /\ ss.euicc_cert = r.from /\ ss.sig2 = r.sig2
\* The package is protected under keys of its own, which travel in it.
HostId == "mahlzeit"
PppBsp == Bsp("ppk-enc", "ppk-mac", <<"ppk-mcv">>)
Bind(ss, upp) ==
  Encode(Protect(upp, PppBsp), upp, ss.metadata, Secret(ss.smdp_ot, ss.euicc_otpk), HostId, ss.euicc_cert)
GetBoundProfilePackage(r) ==
  IF ~(Known(r.tx) /\ SignedByIts(rss[r.tx], r) /\ Present(rss[r.tx].matchingId))
  THEN Failed(r, "binding")
  ELSE LET ss == [rss[r.tx] EXCEPT !.euicc_otpk = r.otpk, !.smdp_ot = fresh + 1]
           upp == Der(ss.matchingId, upp_dir[ss.matchingId].version)
       IN /\ rss' = [rss EXCEPT ![r.tx] = ss]
          /\ fresh' = fresh + 1
          /\ clients' = Answered(r, "binding", [clients[r.from] EXCEPT
               !.stage = "bound", !.bpp = [bpp |-> Bind(ss, upp), smdp_otpk |-> ss.smdp_ot]])
          /\ UNCHANGED ever

\* The transaction id is put in lower case here; the store has it in upper case.
Forgotten(tx) == [t \in DOMAIN rss \ {tx} |-> rss[t]]
Lower(tx) == IF tx \in Digits THEN tx ELSE "lower"
HandleNotification(r) ==
  /\ rss' = IF Known(Lower(r.tx)) THEN Forgotten(Lower(r.tx)) ELSE rss
  /\ clients' = Answered(r, "notifying", [clients[r.from] EXCEPT !.stage = "notified"])
  /\ UNCHANGED <<ever, fresh>>

Handle(r) ==
  /\ r \in requests
  /\ requests' = requests \ {r}
  /\ \/ r.api = "initiateAuthentication" /\ InitiateAuthentication(r)
     \/ r.api = "authenticateClient" /\ AuthenticateClient(r)
     \/ r.api = "getBoundProfilePackage" /\ GetBoundProfilePackage(r)
     \/ r.api = "handleNotification" /\ HandleNotification(r)
  /\ UNCHANGED upp_dir

\* cancelSession, from a device that signs with the session's eUICC; a response that
\* tells of an error ends nothing.
CancelSession(tx) ==
  /\ Known(tx) /\ rss[tx].euicc_cert # "none"
  /\ rss' = Forgotten(tx)
  /\ UNCHANGED <<ever, upp_dir, clients, requests, fresh>>

\* Sessions are in a file; the requests in the old process are gone.
Restart ==
  /\ requests # {}
  /\ requests' = {}
  /\ UNCHANGED <<rss, ever, upp_dir, clients, fresh>>

\* Somebody puts another profile under a name, or removes it.
ChangeProfile(m, removed) ==
  /\ upp_dir[m].changes < MaxChanges
  /\ removed => upp_dir[m].version > 0
  /\ upp_dir' = [upp_dir EXCEPT ![m] =
       [version |-> IF removed THEN 0 ELSE @.changes + 2, changes |-> @.changes + 1,
        missed |-> @.missed \/ removed]]
  /\ UNCHANGED <<rss, ever, clients, requests, fresh>>

SmdppNext ==
  \/ \E c \in Clients :
       \/ \E mid \in MatchingIds, setup \in Setups : StartDownload(c, mid, setup)
       \/ Authenticate(c) \/ AskPackage(c) \/ StoreProfile(c) \/ NotifyInstalled(c) \/ TimeOut(c)
  \/ \E r \in requests : Handle(r)
  \/ \E tx \in Transactions : CancelSession(tx)
  \/ Restart
  \/ \E m \in Changing, removed \in BOOLEAN : ChangeProfile(m, removed)

-----------------------------------------------------------------------------
\* Properties.

\* What a client files away is the profile it named, all of it, with metadata of the
\* same profile, and of the same version unless that was replaced between.
ProfileAsAsked ==
  \A c \in Clients : clients[c].stage \in {"stored", "notifying", "notified"} =>
    \E v, w \in 1..(MaxChanges + 1) :
      /\ clients[c].upp = Der(clients[c].mid, v)
      /\ clients[c].metadata = Metadata(clients[c].mid, w)
      /\ w <= v
      /\ upp_dir[clients[c].mid].changes < w => v = w

\* Every package that arrives can be opened, and only by the eUICC that asked.
OpensForItsClient ==
  \A c \in Clients :
    /\ clients[c].stage # "undecodable"
    /\ clients[c].stage = "bound" =>
         \A d \in Clients \ {c} :
           ~Decode(clients[c].bpp.bpp, Secret(clients[c].bpp.smdp_otpk, d), d).ok

\* No segment of a package can be missing, but for the last ones, or out of order.
SegmentsGuarded ==
  \A c \in Clients : clients[c].stage = "bound" =>
    LET bpp == clients[c].bpp.bpp
        Opens86(tlvs) == Decode([bpp EXCEPT !.upp = tlvs], Secret(clients[c].bpp.smdp_otpk, c), c)
    IN \A i \in DOMAIN bpp.upp :
         /\ i < Len(bpp.upp) => ~Opens86(RemoveAt(bpp.upp, i)).ok
         /\ i > 1 => ~Opens86([bpp.upp EXCEPT ![i] = bpp.upp[i - 1], ![i - 1] = bpp.upp[i]]).ok

\* A sound client is turned away only when its session was cancelled or its profile
\* was not there: not by other downloads, late requests or a restart.
RefusedForCause ==
  \A c \in Clients : clients[c].stage = "refused" /\ clients[c].setup = "good" =>
    \/ clients[c].tx \in ever \ DOMAIN rss
    \/ upp_dir[clients[c].mid].missed

\* A session is one client's: what is stored for it is what that client asked.
SessionOfItsClient ==
  \A tx \in DOMAIN rss : rss[tx].euicc_cert # "none" =>
    LET c == clients[rss[tx].euicc_cert]
    IN c.tx = tx /\ c.setup = "good" /\ c.mid = rss[tx].matchingId
       /\ (rss[tx].smdp_ot # 0 => rss[tx].euicc_otpk = rss[tx].euicc_cert)

\* Together: a download gives the profile that was asked for.
DownloadTrusted ==
  ProfileAsAsked /\ OpensForItsClient /\ SegmentsGuarded /\ RefusedForCause /\ SessionOfItsClient

=============================================================================
