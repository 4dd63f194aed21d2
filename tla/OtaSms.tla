------------------------------- MODULE OtaSms -------------------------------
(***************************************************************************)
(* Commands to a card in short messages: contrib/smpp-ota-tool.py, which   *)
(* encodes one with pySim/ota.py and waits for the card's answer, and      *)
(* pySim-smpp2sim.py, which plays the SMSC for the card in its reader.     *)
(*                                                                         *)
(* Keys are right; a checksum is the length it covers.  Lengths are bytes; *)
(* the server does one message after another.                              *)
(***************************************************************************)
EXTENDS Integers, Sequences, FiniteSets

CONSTANTS
  Tools,        \* runs of smpp-ota-tool.py
  ApduLengths,  \* of commands
  Spis,         \* what the tools ask for.  counter: no_counter or counter_must_be_higher;
                \* ciphering, with blocks of algo; rc_cc_ds: no_rc_cc_ds or cc; por:
                \* no_por, por_required or por_only_when_error; por_shall_be_ciphered;
                \* por_rc_cc_ds: no_rc_cc_ds or cc
  Counters,     \* replay counters
  MaxOta        \* bound: runs that have sent

VARIABLES
  tools,    \* what each has sent and received
  smsc,     \* SUBMIT-SMs the server has not handled yet
  deliver,  \* DELIVER-SMs on their way to the tools
  secured   \* the card's application: its counter, and the commands it did

otaVars == <<tools, smsc, deliver, secured>>

NoTool == [stage |-> "idle", len |-> 0, spi |-> <<>>, cntr |-> 0, result |-> <<>>]
OtaInit ==
  /\ tools = [t \in Tools |-> NoTool]
  /\ smsc = <<>> /\ deliver = {}
  /\ secured = [cntr |-> 0, done |-> <<>>]

-----------------------------------------------------------------------------
\* ota.py

SigLen(spi) == IF spi.rc_cc_ds = "cc" THEN 8 ELSE 0
Padding(len, multiple) == (multiple - (len % multiple)) % multiple
\* CHL, SPI, KIc, KID and TAR; counter and padding count.
PartHead == 8
PartCnt == 6

\* encode_cmd.  The checksum covers the length as it is before enciphering, padding
\* included.  Only an enciphered packet has its length in front.
PadCntUnsigned(len, spi) == IF spi.ciphering THEN Padding(PartCnt + len, spi.algo) ELSE 0
PadCnt(len, spi) == IF spi.ciphering THEN Padding(PartCnt + SigLen(spi) + len, spi.algo) ELSE 0
SignedCpl(len, spi) == PartHead + PartCnt + len + PadCnt(len, spi) + SigLen(spi)
EncodedLen(len, spi) ==
  LET body == PartCnt + SigLen(spi) + len + PadCnt(len, spi)
  IN IF spi.ciphering THEN 2 + PartHead + body + Padding(body, spi.algo) ELSE PartHead + body
EncodedCpl(len, spi) == EncodedLen(len, spi) - 2
Encodes(len, spi) == EncodedLen(len, spi) <= 140
Packet(t, len, spi, cntr) ==
  [from |-> t, len |-> len, spi |-> spi, cntr |-> cntr, cpl |-> EncodedCpl(len, spi),
   signed |-> SignedCpl(len, spi), pad |-> PadCnt(len, spi),
   padded |-> len + PadCnt(len, spi)]

\* decode_resp, by the tool's own settings and then, on a ValueError, in clear and without
\* checksum: what is not whole blocks cannot be deciphered.  A checksum that is missing, or
\* was not asked for, is an OtaCheckError, which is no ValueError.
DecodeResp(m, ciphered, rc_cc_ds) == m.ciphered = ciphered /\ (m.signed <=> rc_cc_ds = "cc")
Decodable(m, spi) ==
  IF spi.por_shall_be_ciphered /\ m.bytes % spi.algo # 0
  THEN DecodeResp(m, FALSE, "no_rc_cc_ds")
  ELSE DecodeResp(m, spi.por_shall_be_ciphered, spi.por_rc_cc_ds)

-----------------------------------------------------------------------------
\* The card reads a packet with its length in front, and checks checksum and counter.
Status(p) ==
  IF ~p.spi.ciphering THEN "undefined_security_error"
  ELSE IF p.spi.rc_cc_ds = "cc" /\ p.signed # p.cpl THEN "rc_cc_ds_failed"
  ELSE IF p.spi.counter = "counter_must_be_higher" /\ p.cntr <= secured.cntr THEN "cntr_low"
  ELSE "por_ok"
Done(p) ==
  [cntr |-> IF p.cntr > secured.cntr THEN p.cntr ELSE secured.cntr,
   done |-> Append(secured.done, [from |-> p.from, len |-> p.padded - p.pad])]
\* Its answer, when one is asked for, protected as was asked; a refusal in clear, just the
\* status behind the counter; else nothing.
WantsPor(p) ==
  p.spi.por = "por_required" \/ (p.spi.por = "por_only_when_error" /\ Status(p) # "por_ok")
Response(p) ==
  LET ok == Status(p) = "por_ok" IN
  [to |-> p.from, of |-> p.from, status |-> IF WantsPor(p) THEN Status(p) ELSE "empty",
   bytes |-> IF ok THEN 2 * p.spi.algo ELSE 7,
   ciphered |-> ok /\ p.spi.por_shall_be_ciphered, signed |-> ok /\ p.spi.por_rc_cc_ds = "cc"]

-----------------------------------------------------------------------------
\* smpp-ota-tool.py

Send(t, len, spi, cntr) ==
  /\ tools[t].stage = "idle"
  /\ Cardinality({u \in Tools : tools[u].stage # "idle"}) < MaxOta
  /\ tools' = [tools EXCEPT ![t] = [@ EXCEPT !.len = len, !.spi = spi, !.cntr = cntr,
                                            !.stage = IF Encodes(len, spi) THEN "sent" ELSE "raised"]]
  /\ smsc' = IF Encodes(len, spi) THEN Append(smsc, Packet(t, len, spi, cntr)) ELSE smsc
  /\ UNCHANGED <<deliver, secured>>

\* message_received_handler, from poll; an empty message is passed over.  An answer
\* without a command's data is an error of transceive_apdu.
Heard(x, m) ==
  [x EXCEPT !.stage = IF Decodable(m, x.spi) /\ m.status = "por_ok" THEN "returned" ELSE "raised",
            !.result = IF Decodable(m, x.spi) THEN <<m.status>> ELSE <<>>]
Receive(t, m) ==
  /\ m \in deliver /\ m.to = t
  /\ deliver' = deliver \ {m}
  /\ tools' = IF tools[t].stage # "sent" \/ m.status = "empty" THEN tools
              ELSE [tools EXCEPT ![t] = Heard(@, m)]
  /\ UNCHANGED <<smsc, secured>>
TimeOutOta(t) ==
  /\ tools[t].stage = "sent"
  /\ tools' = [tools EXCEPT ![t] = [@ EXCEPT !.stage = "timed out"]]
  /\ UNCHANGED <<smsc, deliver, secured>>

-----------------------------------------------------------------------------
\* pySim-smpp2sim.py: handle_submit_sm.  The card's answer goes back to whom the
\* command came from, also one without data; nothing when the card is busy.

SubmitSm(busy) ==
  /\ smsc # <<>>
  /\ smsc' = Tail(smsc)
  /\ IF busy THEN UNCHANGED <<deliver, secured>>
     ELSE /\ deliver' = deliver \cup {Response(Head(smsc))}
          /\ secured' = IF Status(Head(smsc)) = "por_ok" THEN Done(Head(smsc)) ELSE secured
  /\ UNCHANGED tools

OtaNext ==
  \/ \E t \in Tools :
       \/ \E len \in ApduLengths, spi \in Spis, cntr \in Counters : Send(t, len, spi, cntr)
       \/ \E m \in deliver : Receive(t, m)
       \/ TimeOutOta(t)
  \/ \E busy \in BOOLEAN : SubmitSm(busy)

-----------------------------------------------------------------------------
\* Properties.

DoneBy(t) == {i \in DOMAIN secured.done : secured.done[i].from = t}

\* A command that is enciphered is never refused for the way it was encoded, at any
\* length: the length and padding that are signed are those that are sent.
EncodedAsSigned ==
  \A m \in deliver : m.status # "rc_cc_ds_failed"

\* A tool that wants answers in clear but with a checksum, its default, takes no refusal:
\* the card makes none for what it could not read.
RefusesRefusals(spi) == ~spi.por_shall_be_ciphered /\ spi.por_rc_cc_ds = "cc"

\* When a tool returns, the card did its command, once and without the padding; when it
\* raises, the card did not do it; a time-out says nothing.  What the card gives as its
\* reason is shown, but to a tool that refuses refusals.
ReportIsTrue ==
  \A t \in Tools :
    /\ \A i, j \in DoneBy(t) : i = j
    /\ \A i \in DoneBy(t) : secured.done[i].len = tools[t].len
    /\ tools[t].stage = "returned" => DoneBy(t) # {}
    /\ tools[t].stage = "raised" =>
         /\ DoneBy(t) = {}
         /\ Encodes(tools[t].len, tools[t].spi) /\ ~RefusesRefusals(tools[t].spi) =>
              tools[t].result # <<>>

\* Together: what a tool reports of its command is so.
OtaTrusted == EncodedAsSigned /\ ReportIsTrue

=============================================================================
