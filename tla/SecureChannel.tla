--------------------------- MODULE SecureChannel ---------------------------
(***************************************************************************)
(* pySim/global_platform/scp.py and its use by commands.py and             *)
(* global_platform/__init__.py: SCP02 and SCP03 between the shell and a    *)
(* security domain of the card.                                            *)
(*                                                                         *)
(* A MAC is the sequence of the commands it chains; a cryptogram is the    *)
(* counter it was made with (SCP03; SCP02 has none).  Commands are         *)
(* numbered.  Exchanges block, so that one is one step.                    *)
(***************************************************************************)
EXTENDS Integers, Sequences, FiniteSets, SequencesExt

CONSTANTS
  DataLengths,  \* of the commands' data
  KeyLengths,   \* of keys to put
  SecureChans,  \* logical channels
  MaxSecure     \* bound: commands

VARIABLES
  host,   \* the SCP instance, and whether scc.scp holds it
  isd,    \* the security domain
  exch,   \* the last exchange
  faults  \* what went wrong since the channel was established

secureVars == <<host, isd, exch, faults>>

NoHost == [open |-> FALSE, proto |-> 2, level |-> 0, s_mode |-> 8, lchan |-> 0,
           chain |-> <<>>, block_nr |-> 0]
NoIsd == [open |-> FALSE, level |-> 0, lchan |-> 0, chain |-> <<>>, block_nr |-> 0, done |-> <<>>, key |-> 0]
NoExch == [n |-> 0, wrapped |-> FALSE, arrived |-> FALSE, accepted |-> FALSE, result |-> "none",
           len |-> 0, key |-> 0]
NoFaults == [lost |-> FALSE, late |-> FALSE, ended |-> FALSE]

SecureInit == host = NoHost /\ isd = NoIsd /\ exch = NoExch /\ faults = NoFaults

\* The bits of the security level.
Cmac(l) == l % 2 = 1
Cenc(l) == (l \div 2) % 2 = 1
Rmac(l) == (l \div 16) % 2 = 1
Renc(l) == (l \div 32) % 2 = 1
Levels(proto) == IF proto = 2 THEN {0, 1, 3} ELSE {0, 1, 3, 17, 19, 51}

-----------------------------------------------------------------------------
\* Wrapping.  An exception leaves what the instance has changed before it.

Padded(len, bs) == (len \div bs + 1) * bs
Chained(h, n) == [h EXCEPT !.chain = Append(@, n)]
RaisedAfter(h) == [ok |-> FALSE, host |-> h, chain |-> <<>>, block |-> 0, lchan |-> 0]

\* The MAC is computed of the APDU before it is enciphered; bytes() refuses a
\* length of three digits, of the MACed data first and of the enciphered data last.
Wrap02(h, n, len, lchan) ==
  LET maced == Chained(h, n)
      lc == (IF Cenc(h.level) THEN Padded(len, 8) ELSE len) + 8
  IN IF lchan # 0 \/ len + 8 > 255 THEN RaisedAfter(h)
     ELSE IF lc > 255 THEN RaisedAfter(maced)
     ELSE [ok |-> TRUE, host |-> maced, chain |-> maced.chain, block |-> 0, lchan |-> 0]

\* The counter goes up before every command when C-ENC is on, also before one
\* without data.  The class byte of the result names channel 0.
CountedNot(h, len) == IF Cenc(h.level) /\ len > 0 THEN h.block_nr + 1 ELSE h.block_nr
Counted(h, len) == IF Cenc(h.level) THEN h.block_nr + 1 ELSE h.block_nr
Wrap03(h, n, len) ==
  LET lc == IF Cenc(h.level) /\ len > 0 THEN Padded(len, 16) ELSE len
      counted == [h EXCEPT !.block_nr = Counted(h, len)]
      maced == Chained(counted, n)
  IN IF lc >= 256 THEN RaisedAfter(h)
     ELSE IF lc + h.s_mode >= 256 THEN RaisedAfter(counted)
     ELSE [ok |-> TRUE, host |-> maced, chain |-> maced.chain, block |-> maced.block_nr, lchan |-> 0]

\* Without C-MAC, and without the bit of GlobalPlatform's classes, as it is.
Wrap(h, n, len, lchan, gp) ==
  IF ~gp \/ ~Cmac(h.level)
  THEN [ok |-> TRUE, host |-> h, chain |-> <<>>, block |-> 0, lchan |-> lchan]
  ELSE IF h.proto = 2 THEN Wrap02(h, n, len, lchan) ELSE Wrap03(h, n, len)

\* encrypt_key: as many zeros behind the key as it is longer than whole blocks, which
\* makes whole blocks of it or else the cipher raises; then its length in front.
BlockSize(h) == IF h.proto = 2 THEN 8 ELSE 16
EncryptKey(klen, bs) == klen + (klen % bs) + (IF klen % bs = 0 THEN 0 ELSE 1)
KeyEnciphers(klen, bs) == (klen + (klen % bs)) % bs = 0
\* put_key: the new version, and type, block and check value of the key.
PutKeyLength(klen, bs) == 1 + 2 + EncryptKey(klen, bs) + 4

\* max_cmd_len, by which the callers cut their data; LOAD cuts at 240.
Overhead(h) == IF h.proto = 2 THEN 8 ELSE h.s_mode
MaxCmdLenOf(h) == 255 - Overhead(h)
LoadChunk == 240

-----------------------------------------------------------------------------
\* The security domain: a MAC that does not chain, or data that does not decipher,
\* ends its session.

Verifies(d, a, n) ==
  a.chain = Append(d.chain, n) /\ (a.block # 0 => a.block = d.block_nr + 1)
Executed(d, n) ==
  [d EXCEPT !.chain = IF Cmac(d.level) THEN Append(@, n) ELSE @, !.done = Append(@, n),
            !.block_nr = IF Cenc(d.level) THEN @ + 1 ELSE @]

\* What it makes of a GlobalPlatform command on its channel; on another channel
\* there is no session, and the command is refused.
Receives(d, a, n) ==
  IF ~d.open \/ a.lchan # d.lchan THEN [accepted |-> FALSE, isd |-> d]
  ELSE IF ~Cmac(d.level) \/ Verifies(d, a, n)
       THEN [accepted |-> TRUE, isd |-> Executed(d, n)]
  ELSE [accepted |-> FALSE, isd |-> [d EXCEPT !.open = FALSE]]

\* The key it finds in a key block: with a length in front, or all of it.
KeyOfBlock(klen, bs) ==
  LET block == EncryptKey(klen, bs) IN IF block % bs = 0 THEN block ELSE klen

\* unwrap_rsp_apdu.  Every answer is taken for one with an R-MAC, that of a command
\* which was not wrapped too; without data there is nothing to decipher, and
\* unpad80 raises.
Unwraps(h, gp, accepted, data) ==
  Rmac(h.level) /\ accepted => gp /\ (Renc(h.level) => data)

-----------------------------------------------------------------------------
\* The shell.

\* The key versions an instance can be made for.
KvnPermitted(proto, kvn) ==
  kvn = 0 \/ IF proto = 2 THEN kvn \in {1, 112} \cup 32..47 ELSE kvn \in 48..63

\* EXTERNAL AUTHENTICATE starts the chain.  SCP02's is always MACed, SCP03's by the
\* common wrapping, which does nothing without C-MAC; the card wants the MAC.
ExtAuth02(level) == <<0>>
ExtAuth03(level) == IF Cmac(level) THEN <<0>> ELSE <<>>
ExtAuth(proto, level) == IF proto = 2 THEN ExtAuth02(level) ELSE ExtAuth03(level)

\* parse_init_update_resp: the card's cryptogram is the one these keys give.
CryptogramVerifies(good) == good # "wrong"

\* _establish_scp: INITIALIZE UPDATE, the card's cryptogram, EXTERNAL AUTHENTICATE.
\* The instance is kept only when all went well.
Establish(proto, kvn, level, s_mode, lchan, good) ==
  LET chain == ExtAuth(proto, level)
      works == CryptogramVerifies(good) /\ chain # <<>>
  IN /\ ~host.open /\ exch.n < MaxSecure
     /\ KvnPermitted(proto, kvn) /\ level \in Levels(proto) /\ (proto = 2 => s_mode = 8)
     /\ isd' = IF works
               THEN [NoIsd EXCEPT !.open = TRUE, !.level = level, !.lchan = lchan, !.chain = chain]
               ELSE NoIsd
     /\ host' = IF works /\ good = "yes"
                THEN [open |-> TRUE, proto |-> proto, level |-> level, s_mode |-> s_mode,
                      lchan |-> lchan, chain |-> chain, block_nr |-> 0]
                ELSE NoHost
     /\ exch' = [NoExch EXCEPT !.n = exch.n]
     /\ faults' = NoFaults

\* A command over the channel: wrapped, sent, done or not, unwrapped.  It may be
\* lost on its way, or its answer may.  data: whether an answer has any; klen: the
\* key it puts, or 0.
Exchange(len, gp, data, klen, fate) ==
  LET n == exch.n + 1
      w == Wrap(host, n, len, host.lchan, gp)
      r == IF ~w.ok \/ fate = "lost" THEN [accepted |-> FALSE, isd |-> isd]
           ELSE IF gp THEN Receives(isd, w, n)
           ELSE [accepted |-> TRUE, isd |-> isd]
  IN /\ host.open /\ n <= MaxSecure
     /\ ~w.ok => fate = "arrives"
     /\ host' = w.host
     /\ isd' = [r.isd EXCEPT !.key = IF klen # 0 /\ r.accepted THEN KeyOfBlock(klen, BlockSize(host)) ELSE @]
     /\ exch' = [n |-> n, wrapped |-> w.ok, arrived |-> w.ok /\ fate # "lost",
                 accepted |-> r.accepted, len |-> len, key |-> klen,
                 result |-> IF w.ok /\ fate = "arrives" /\ r.accepted
                               /\ Unwraps(host, gp, r.accepted, data)
                            THEN "returned" ELSE "raised"]
     /\ faults' = [faults EXCEPT !.lost = @ \/ (fate = "lost" /\ gp /\ Cmac(host.level)),
                                 !.late = @ \/ (~w.ok /\ w.host # host)]
Command(len, gp, data, fate) == Exchange(len, gp, data, 0, fate)
PutKey(klen, fate) ==
  /\ host.open /\ KeyEnciphers(klen, BlockSize(host))
  /\ Exchange(PutKeyLength(klen, BlockSize(host)), TRUE, TRUE, klen, fate)

\* release_scp tells the card nothing; so does RuntimeState.reset, after which the
\* card has no session.
Release == NoHost
ReleaseScp ==
  /\ host.open
  /\ host' = Release
  /\ UNCHANGED <<isd, exch, faults>>
ResetBoth ==
  /\ isd.open \/ host.open
  /\ host' = Release
  /\ isd' = NoIsd
  /\ UNCHANGED <<exch, faults>>
\* Selecting another application ends the card's session, and the shell's not.
SelectOther ==
  /\ host.open /\ isd.open
  /\ isd' = NoIsd
  /\ faults' = [faults EXCEPT !.ended = TRUE]
  /\ UNCHANGED <<host, exch>>

SecureNext ==
  \/ ~host.open /\ \E proto \in {2, 3}, kvn \in {0, 32, 48, 64}, level \in {0, 1, 3, 17, 19, 51},
        s_mode \in {8, 16}, lchan \in SecureChans, good \in {"yes", "wrong", "unanswered"} :
       Establish(proto, kvn, level, s_mode, lchan, good)
  \/ \E len \in DataLengths, gp, data \in BOOLEAN, fate \in {"arrives", "lost", "unanswered"} :
       Command(len, gp, data, fate)
  \/ \E klen \in KeyLengths, fate \in {"arrives", "lost", "unanswered"} : PutKey(klen, fate)
  \/ ReleaseScp \/ ResetBoth \/ SelectOther

-----------------------------------------------------------------------------
\* Properties.

\* While nothing was lost and no wrap raised after it had changed the instance,
\* the card takes every command wrapped on the basic channel: through commands
\* without data, refused lengths, lost answers and answers that did not unwrap.
StaysInStep ==
  host.open /\ host.lchan = 0 /\ faults = NoFaults /\ exch.result # "none" =>
    /\ isd.open /\ isd.chain = host.chain
    /\ exch.arrived => exch.accepted

\* The card does every command once and in order, and what returned was done, by
\* an instance that still has its session.
DoneInOrder ==
  /\ \A i, j \in DOMAIN isd.done : i < j => isd.done[i] < isd.done[j]
  /\ host.open /\ isd.open /\ exch.result = "returned" => exch.accepted

\* A lost command is noticed: the next one that is MACed is refused, not taken.
LossNoticed ==
  host.open /\ faults.lost /\ isd.open => Len(isd.chain) < Len(host.chain)

\* Data cut to max_cmd_len, and LOAD's blocks, can be wrapped unless they are
\* enciphered.
ChunksFit ==
  host.open /\ ~Cenc(host.level) /\ host.lchan = 0 /\ exch.result # "none"
    /\ exch.len <= MaxCmdLenOf(host) /\ (host.s_mode = 16 => exch.len # LoadChunk) => exch.wrapped

\* The key a PUT KEY leaves on the card is the key the shell was given.
KeyArrives == exch.key # 0 /\ exch.accepted => isd.key \in {0, exch.key}

\* Together: what passes over a secure channel is what was meant to.
ChannelTrusted == StaysInStep /\ DoneInOrder /\ LossNoticed /\ ChunksFit /\ KeyArrives

=============================================================================
