---------------------------- MODULE CardReaders ----------------------------
(***************************************************************************)
(* pySim's reader drivers (transport/serial.py, modem_atcmd.py, calypso.py *)
(* and pcsc.py): how each tells the answer to a command from what else     *)
(* arrives, after timeouts and resets, and how the serial one waits for a  *)
(* card.                                                                   *)
(*                                                                         *)
(* Bytes of the serial line, and messages of the others, carry the number  *)
(* of the call they are about; the drivers do not see it.                  *)
(***************************************************************************)
EXTENDS Naturals, Sequences, FiniteSets, SequencesExt

CONSTANTS
  Drivers,   \* among "serial", "modem", "modem_with_echo", "calypso", "pcsc"
  Headers,   \* command headers, as [ins, case, p3]; a header's length in bytes is HeaderLength
  Answers,   \* card's answers: [nul, direct, data]
  HeaderLength,
  MaxCalls   \* bound: commands, resets, and polls for a card

VARIABLES
  driver,
  inbox,   \* received, not read
  unsent,  \* what the other side has yet to answer or send
  owing,   \* the call the card waits for the data of, <<>> if none
  swallowed, \* since the last reset, the card has taken a header for data
  socket,  \* the card: "in", "out", or "half" inserted
  inserted, \* how often a card has been put in
  last,    \* the last call: [n, what, header, ok, of, header_of, full, clean, fair]
  waiting, \* wait_for_card between polls
  calls

readerVars == <<driver, inbox, unsent, owing, swallowed, socket, inserted, last, waiting, calls>>

Plain == 0 \* a command of the driver's own, of no header
Clean == inbox = <<>> /\ unsent = <<>> /\ owing = <<>>
NotWaiting == [on |-> FALSE]
\* What a call came to.  of: the calls its answer consists of.
Raised == [ok |-> FALSE, of |-> {}, headers |-> {}, full |-> FALSE]
Returned(answer, full) ==
  [ok |-> TRUE, of |-> {t.n : t \in ToSet(answer)}, headers |-> {t.h : t \in ToSet(answer)},
   full |-> full]

ReadersInit ==
  /\ driver = "none"
  /\ inbox = <<>> /\ unsent = <<>> /\ owing = <<>> /\ swallowed = FALSE
  /\ socket = "in" /\ inserted = 0
  /\ last = [n |-> 0, what |-> "start", header |-> 0, res |-> Raised, clean |-> TRUE, fair |-> TRUE,
             swallowed |-> FALSE]
  /\ waiting = NotWaiting /\ calls = 0

Ended(what, header, res, fair) ==
  last' = [n |-> calls + 1, what |-> what, header |-> header, res |-> res, clean |-> Clean, fair |-> fair,
           swallowed |-> swallowed']
Idle == ~waiting.on /\ calls < MaxCalls /\ calls' = calls + 1
Standing == UNCHANGED <<driver, socket, inserted, waiting>>

-----------------------------------------------------------------------------
\* serial.py.  The line echoes what is sent.

Ask(n, h) == [n |-> n, h |-> h]
Byte(n, h, b) == [n |-> n, h |-> h, b |-> b]
HeaderBytes(n, h) == [i \in 1 .. HeaderLength |-> Byte(n, h, <<"header", h, i>>)]
DataBytes(n, h) == [i \in 1 .. HeaderLength |-> Byte(n, h, <<"data", i>>)]
SwBytes(n, h) == <<Byte(n, h, <<"sw1">>), Byte(n, h, <<"sw2">>)>>
IsEcho(byte) == byte.b[1] = "header"
ValuesOf(bytes) == [i \in DOMAIN bytes |-> bytes[i].b]
\* An answer may run into the echo of a later command; headers: of what stands before that.
Read(bytes, full) ==
  [Returned(bytes, full) EXCEPT
     !.headers = {bytes[i].h : i \in {j \in DOMAIN bytes : \A k \in 1 .. j : ~IsEcho(bytes[k])}}]

\* What the card sends on a header: a procedure byte, data and SW, or SW at once.
Reaction(n, h, answer) ==
  (IF answer.nul THEN <<Byte(n, h, <<"null">>)>> ELSE <<>>) \o
  (IF answer.direct THEN SwBytes(n, h)
   ELSE <<Byte(n, h, <<"ins", Headers[h].ins>>)>> \o
        (IF Headers[h].case = 3 THEN <<>>
         ELSE [i \in 1 .. answer.data |-> Byte(n, h, <<"out", i>>)] \o SwBytes(n, h)))

\* Bytes sent: an echo, and the card takes them for the data it waits for, or for a header.
\* late: how many of the bytes it sends come too late for this call.
Sent(line, bytes, n, h, answer, late) ==
  LET reply == IF socket # "in" THEN <<>> ELSE
               IF line.owing # <<>> THEN SwBytes(line.owing[1].n, line.owing[1].h) ELSE
               IF bytes = HeaderBytes(n, h) THEN Reaction(n, h, answer) ELSE SwBytes(n, h)
      cut == IF late > Len(reply) THEN 0 ELSE Len(reply) - late
      awaits == socket = "in" /\ line.owing = <<>> /\ bytes = HeaderBytes(n, h) /\ Headers[h].case = 3 /\ ~answer.direct
  IN [inbox |-> line.inbox \o bytes \o SubSeq(reply, 1, cut),
      late |-> line.late \o SubSeq(reply, cut + 1, Len(reply)),
      owing |-> IF awaits THEN <<Ask(n, h)>> ELSE <<>>]
Echoed(line, bytes) == ValuesOf(SubSeq(line.inbox, 1, Len(bytes))) = ValuesOf(bytes)
Skipped(line, k) == [line EXCEPT !.inbox = SubSeq(@, k + 1, Len(@))]

\* The procedure byte.  NULL (0x60) is compared with a string, so it is taken for SW1.
Procedure(line, h) ==
  LET b == line.inbox
  IN CASE b = <<>> -> [ack |-> FALSE, line |-> line, res |-> Raised]
       [] b # <<>> /\ b[1].b = <<"ins", Headers[h].ins>> ->
            [ack |-> TRUE, line |-> Skipped(line, 1), res |-> Raised]
       [] OTHER ->
            [ack |-> FALSE, line |-> Skipped(line, IF Len(b) < 3 THEN Len(b) ELSE 3),
             res |-> IF Len(b) = 2 THEN Read(b, ValuesOf(b) = <<<<"sw1">>, <<"sw2">>>>) ELSE Raised]
\* As many bytes as P3 lets expect, fewer on a timeout; the last two are taken for SW.
Receive(line, h) ==
  LET to_recv == (IF Headers[h].case = 3 THEN 0 ELSE Headers[h].p3) + 2
      k == IF Len(line.inbox) < to_recv THEN Len(line.inbox) ELSE to_recv
      got == SubSeq(line.inbox, 1, k)
  IN [line |-> Skipped(line, k),
      res |-> IF k < 2 THEN Raised
              ELSE Read(got, got[k - 1].b = <<"sw1">> /\ got[k].b = <<"sw2">>)]

SerialCall(n, h, answer, late) ==
  LET line1 == Sent([inbox |-> inbox, late |-> <<>>, owing |-> owing],
                    HeaderBytes(n, h), n, h, answer, late)
      line2 == Skipped(line1, HeaderLength)
      proc == Procedure(line2, h)
      line3 == Sent(proc.line, DataBytes(n, h), n, h, answer, late)
  IN CASE ~Echoed(line1, HeaderBytes(n, h)) -> [line |-> line2, res |-> Raised]
       [] Echoed(line1, HeaderBytes(n, h)) /\ ~proc.ack -> [line |-> proc.line, res |-> proc.res]
       [] OTHER ->
            IF Headers[h].case # 3 THEN Receive(proc.line, h)
            ELSE IF ~Echoed(line3, DataBytes(n, h))
                 THEN [line |-> Skipped(line3, HeaderLength), res |-> Raised]
                 ELSE Receive(Skipped(line3, HeaderLength), h)

\* The card cannot say that P3 = 0 stands for 256: its data is more than is expected.
Fair(h, answer, late) ==
  late = 0 /\ ~answer.nul /\ (Headers[h].case = 3 \/ answer.direct \/ answer.data = Headers[h].p3)
SerialTpdu(h, answer, late) ==
  /\ driver = "serial" /\ Idle /\ Standing
  /\ unsent = <<>>
  /\ LET call == SerialCall(calls + 1, h, answer, late)
     IN /\ inbox' = call.line.inbox /\ unsent' = call.line.late
        \* Half-way through data the card of an earlier call may still be waiting.
        /\ owing' = call.line.owing
        /\ swallowed' = (swallowed \/ owing # <<>>)
        /\ Ended("tpdu", h, call.res, Fair(h, answer, late))
\* The rest has come by the next call.
LateBytes ==
  /\ driver = "serial" /\ unsent # <<>>
  /\ inbox' = inbox \o unsent /\ unsent' = <<>>
  /\ UNCHANGED <<driver, owing, swallowed, socket, inserted, last, waiting, calls>>

\* The reset pin, and the ATR to its last byte; a card that stops half-way through is not
\* told from one that breaks the driver.
ResetOf(contact) == CASE contact = "in" -> "reset" [] contact = "out" -> "NoCardError" [] OTHER -> "ProtocolError"
SerialReset ==
  /\ driver = "serial" /\ Idle /\ Standing
  /\ unsent' = <<>> /\ owing' = <<>> /\ swallowed' = FALSE
  /\ inbox' = IF socket = "half" THEN <<Byte(0, 0, <<"atr">>)>> ELSE <<>>
  /\ Ended("reset", 0, IF ResetOf(socket) = "reset" THEN Returned(<<>>, TRUE) ELSE Raised, TRUE)

\* wait_for_card: a try, then polls.  A card the try has found is not a new one.
NotNoticed(contact) == FALSE
Existing(contact) == ResetOf(contact) = "reset"
Hand ==
  /\ socket' \in {"in", "out", "half"} \ {socket}
  /\ socket' # "out" => socket # "half" \/ socket' = "in"
  /\ inserted' = IF socket = "out" THEN inserted + 1 ELSE inserted
  /\ inserted' <= 2
  /\ unsent' = <<>> /\ owing' = <<>>
  /\ UNCHANGED <<driver, inbox, swallowed, last, waiting, calls>>
PollReset == inbox' = IF socket = "half" THEN <<Byte(0, 0, <<"atr">>)>> ELSE <<>>
WaitForCard(newcardonly) ==
  /\ driver = "serial" /\ Idle
  /\ PollReset /\ unsent' = <<>> /\ owing' = <<>> /\ swallowed' = FALSE
  /\ IF ResetOf(socket) = "ProtocolError" \/ (ResetOf(socket) = "reset" /\ ~newcardonly)
     THEN /\ Ended("reset", 0, IF ResetOf(socket) = "reset" THEN Returned(<<>>, TRUE) ELSE Raised, TRUE)
          /\ UNCHANGED waiting
     ELSE /\ waiting' = [on |-> TRUE, existing |-> Existing(socket), pe |-> 0,
                         since |-> inserted, glitch |-> FALSE]
          /\ UNCHANGED last
  /\ UNCHANGED <<driver, socket, inserted>>
StopsWaiting(res, glitch) ==
  /\ waiting' = NotWaiting
  /\ last' = [n |-> calls + 1, what |-> "wait", header |-> 0, res |-> res,
              clean |-> inserted > waiting.since, fair |-> ~glitch, swallowed |-> FALSE]
Polled ==
  /\ waiting.on /\ calls < MaxCalls /\ calls' = calls + 1
  /\ PollReset /\ unsent' = <<>> /\ owing' = <<>> /\ swallowed' = FALSE
  /\ CASE ResetOf(socket) = "reset" /\ ~waiting.existing -> StopsWaiting(Returned(<<>>, TRUE), waiting.glitch)
       [] ResetOf(socket) = "reset" /\ waiting.existing -> UNCHANGED <<waiting, last>>
       [] ResetOf(socket) = "NoCardError" ->
            waiting' = [waiting EXCEPT !.existing = FALSE] /\ UNCHANGED last
       [] OTHER ->
            IF ~waiting.existing /\ waiting.pe = 2 THEN StopsWaiting(Raised, TRUE)
            ELSE /\ waiting' = [waiting EXCEPT !.existing = FALSE, !.glitch = TRUE,
                                  !.pe = IF waiting.existing THEN @ ELSE @ + 1]
                 /\ UNCHANGED last
  /\ UNCHANGED <<driver, socket, inserted>>
WaitTimedOut ==
  /\ waiting.on /\ StopsWaiting(Raised, TRUE)
  /\ UNCHANGED <<driver, inbox, unsent, owing, swallowed, socket, inserted, calls>>

-----------------------------------------------------------------------------
\* modem_atcmd.py.  The modem answers in order; send_at_cmd throws away what has come
\* before it sends, and goes on until an answer is complete or time is up.

Modem == driver \in {"modem", "modem_with_echo"}
\* What came in time holds one answer: none is a timeout, more are not taken apart.  Of a modem
\* with echo as many bytes as were sent are cut off at the front, whatever they are: no answer
\* is left unless the echo came before it.
Understood(answered, echoed) ==
  Len(answered) = 1 /\ (driver = "modem_with_echo" => echoed)
\* echoed: the command's echo has come before the first of the answers, as it does before its own.
SendAtCmd(what, k, echoed) ==
  LET asked == Append(unsent, Ask(calls + 1, what))
      answered == SubSeq(asked, 1, k)
  IN /\ k \in 0 .. Len(asked)
     /\ k > 0 /\ answered[1].n = calls + 1 => echoed
     /\ inbox' = <<>>
     /\ unsent' = SubSeq(asked, k + 1, Len(asked))
     /\ UNCHANGED <<owing, swallowed>>
     /\ Ended("tpdu", what,
              IF Understood(answered, echoed) /\ (what = Plain <=> answered[1].h = Plain)
              THEN Returned(answered, TRUE) ELSE Raised, TRUE)
ModemTpdu(h, k) == Modem /\ Idle /\ Standing /\ \E echoed \in BOOLEAN : SendAtCmd(h, k, echoed)
\* _reset_card: ATZ, then AT+CSIM=?, answered by OK alone.
ModemReset(k) == Modem /\ Idle /\ Standing /\ \E echoed \in BOOLEAN : SendAtCmd(Plain, k, echoed)
ModemCatchesUp ==
  /\ Modem /\ unsent # <<>> /\ unsent' = Tail(unsent)
  /\ UNCHANGED <<driver, inbox, owing, swallowed, socket, inserted, last, waiting, calls>>

-----------------------------------------------------------------------------
\* calypso.py.  One message in, one out; nothing is thrown away but by a reset, which reads
\* all there is.

CalypsoCall(what, k) ==
  LET asked == Append(unsent, Ask(calls + 1, what))
      there == inbox \o SubSeq(asked, 1, k)
      all == what = Plain
  IN /\ driver = "calypso" /\ Idle /\ Standing
     /\ k \in 0 .. Len(asked)
     /\ unsent' = SubSeq(asked, k + 1, Len(asked))
     /\ inbox' = IF there = <<>> \/ all THEN <<>> ELSE Tail(there)
     /\ UNCHANGED <<owing, swallowed>>
     /\ Ended("tpdu", what,
              IF there # <<>> /\ (all <=> there[1].h = Plain) THEN Returned(<<there[1]>>, TRUE)
              ELSE Raised, TRUE)
PhoneCatchesUp ==
  /\ driver = "calypso" /\ unsent # <<>>
  /\ inbox' = Append(inbox, unsent[1]) /\ unsent' = Tail(unsent)
  /\ UNCHANGED <<driver, owing, swallowed, socket, inserted, last, waiting, calls>>

-----------------------------------------------------------------------------
\* pcsc.py: the reader's own protocol, T=0 before T=1.

PcscTpdu(h) ==
  /\ driver = "pcsc" /\ Idle /\ Standing
  /\ UNCHANGED <<inbox, unsent, owing, swallowed>>
  /\ Ended("tpdu", h, IF socket = "in" THEN Returned(<<Ask(calls + 1, h)>>, TRUE) ELSE Raised, TRUE)
PcscConnect ==
  /\ driver = "pcsc" /\ Idle /\ Standing
  /\ UNCHANGED <<inbox, unsent, owing, swallowed>>
  /\ Ended("reset", 0, IF socket = "in" THEN Returned(<<>>, TRUE) ELSE Raised, TRUE)

\* init_reader.
OpenReader ==
  /\ driver = "none" /\ driver' \in Drivers
  /\ UNCHANGED <<inbox, unsent, owing, swallowed, socket, inserted, last, waiting, calls>>

ReadersNext ==
  \/ OpenReader
  \/ \E h \in DOMAIN Headers, answer \in Answers, late \in {0, 1, HeaderLength} : SerialTpdu(h, answer, late)
  \/ LateBytes \/ SerialReset
  \/ driver \in {"serial", "pcsc"} /\ Hand
  \/ \E newcardonly \in BOOLEAN : WaitForCard(newcardonly)
  \/ Polled \/ WaitTimedOut
  \/ \E h \in DOMAIN Headers, k \in 0 .. 2 : ModemTpdu(h, k) \/ CalypsoCall(h, k)
  \/ \E k \in 0 .. 2 : ModemReset(k) \/ CalypsoCall(Plain, k)
  \/ ModemCatchesUp \/ PhoneCatchesUp
  \/ \E h \in DOMAIN Headers : PcscTpdu(h)
  \/ PcscConnect

-----------------------------------------------------------------------------
\* With nothing left over from before, and a card that is in time and sends neither NULL nor
\* more than it was asked for, an answer is the command's own, with its status word, and
\* nothing is left over.  (With something left over a modem's late answer is the next command's,
\* echo or not, and so is a phone's.)
OwnAnswer ==
  last.what = "tpdu" /\ last.clean /\ last.fair /\ last.res.ok
    => last.res.of = {last.n} /\ last.res.full
\* Whatever is left over, the serial driver answers a command with bytes of commands with
\* the same header, never with another command's, up to the echo of a later command (which it
\* may run into when the answer it reads is shorter than the one expected): as long as a card
\* that was left waiting for data has not taken a header for it.
EchoMatches ==
  last.what = "tpdu" /\ driver = "serial" /\ last.res.ok /\ ~last.swallowed
    => last.res.headers \subseteq {last.header}
\* A wait for a new card that ended, without a contact that bounced, ended with a card put
\* in since.
NewCardIsNew == last.what = "wait" /\ last.res.ok /\ last.fair => last.clean

ReadersTrusted == OwnAnswer /\ EchoMatches /\ NewCardIsNew

ReadersSpec == ReadersInit /\ [][ReadersNext]_readerVars

=============================================================================
