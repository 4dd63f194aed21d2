# TLA+ models of the SIM AT Command Tool and of pySim

The repository holds two programs. The tool is a Flask server (`src/src/app.py`)
that a single web page (`src/src/templates/index.html`) drives; it talks to a
phone's modem over a serial port (`src/src/at_modem.py`), and through it to the
SIM card, with AT commands that carry APDUs. pySim (`src/pysim/`), which the tool
takes its decoders from, is a program of its own: a shell over a card in a reader,
tools that program cards and profiles, an eSIM server, a tracer. This directory
holds TLA+ models of both, the TLC configurations that check them, and TLAPS
proofs about them. Paths below that start with `src/` are relative to the
repository's parent, as in `PROJECT.json`.

## 1. The system

### The tool

| Part | State it keeps | Operations |
|---|---|---|
| Connection endpoints (`app.py` 90-238, 490-511) | globals `usim_lchan`, `isim_lchan`, `isim_ccho`, `isim_aid`, `adm_keys` | `/connect`, `/disconnect`, `/at_check`, `/isim_fallback`, `/cfun_reset`, `/apple_reset`, `/verify_adm` |
| File endpoints (`app.py` 241-316, 406-487, 534-1117) | none of its own; reads the globals, moves the card's selection | `/read`, `/write`, `/write_tlv`, `/read_info`, `/read_arr` |
| Error handling (`_serial_safe`, `app.py` 36-56) | closes the port | wraps every endpoint that talks to the modem, except `/connect` and `/disconnect` |
| Serial link (`ATModem._send` and `connect`, `at_modem.py` 27-94) | the port, its input buffer, its timeout | send a command, gather what comes in until OK, ERROR or the deadline |
| APDU log (`at_modem.py` 58-65, `app.py` 1144-1163, `index.html` 1096-1123, 1171) | `apdu_log` on the server; position and console on the page | append and cut, serve from a position, poll, clear |
| Web page (`index.html`) | connection state, `selectedFile`, `readCache`, verified keys, the write popup | connect, select and read, edit and write, verify, disconnect |
| Parsers (`at_modem.py` 257-272, 310-325, 364-573; `app.py` 319-395) | none | answers, FCP, EF.DIR records, ICCID, IMSI, MSISDN |
| File table, launcher | none that changes | look-ups, start-up |

The page calls the server over HTTP. Flask gives each call a thread, so calls
overlap as soon as the page (or a second tab) sends two of them, and **the program
holds no lock anywhere**: the globals, the modem object, its serial port, the log
and the card behind it are shared by all threads. A file request sends several AT
commands, and nothing but the card's own "current file" ties a SELECT to the READ
or UPDATE after it. In the page everything is one thread, but each function is a
chain of awaits, and what they share may have changed when one returns.

### pySim

| Part | State it keeps | Operations |
|---|---|---|
| Reader drivers (`transport/serial.py`, `modem_atcmd.py`, `calypso.py`, `pcsc.py`) | what has been received and not read | send a TPDU, reset, wait for a card |
| Transport (`transport/__init__.py`) | none between commands | APDUs over T=0, status checks, FETCH and TERMINAL RESPONSE |
| Runtime (`runtime.py`, `filesystem.py`) | selected file and application of each channel, verified ADM | select, probe, reset, open and close channels |
| Card commands (`commands.py`, `ts_102_222.py`, PIN commands of `pySim-shell.py`, `card_key_provider.py`) | FCPs, the ICCID, tables of codes | read, update, create, resize, delete, verify and change codes |
| Walks (`pySim-shell.py` export, fsdump, tree; `filesystem.py`) | a stack of directories, the script so far | export, dump, replay, edit one element |
| Piles of cards (`pySim-shell.py` bulk_script, `pySim-prog.py`, `card_handler.py`) | counters, record file, state file | get, process, sort into bins, retry |
| Programming (`pySim-prog.py`, `legacy/cards.py`) | parameters | find the row, write each item |
| Secure channels (`global_platform/scp.py`) | keys, MAC chain, counters | open, wrap, unwrap, PUT KEY |
| eSIM (`osmo-smdpp.py`, `es9p_client.py`, `esim/bsp.py`, `es8p.py`) | sessions, profiles on disk | authenticate, bind, download, notify |
| Profiles (`esim/saip/`) | list of elements, indexes, header, file tree | add, remove, personalise, check |
| OTA (`ota.py`, `smpp-ota-tool.py`, `pySim-smpp2sim.py`) | counters, the message awaited | encode, deliver, decode the answer |
| Tracing (`pySim-trace.py`, `apdu/`) | a command awaiting its answer, selections | pair, follow, show |

Each layer calls the one below and waits; only the eSIM server and the OTA gateway
serve several clients. What makes these parts hard is another thing: pySim keeps a
picture of something it does not own (the card's selection, its files, its counters,
the other end's keys), and the card may refuse, warn, move its selection unasked, or
act and lose the answer.

### What is hard, and what makes each part correct

- the exchanges of overlapping requests interleave on one channel; bytes of an
  answer carry no mark of the command they answer. *A request reads and writes the
  file it names; an answer belongs to its command.*
- at each exchange the port can be lost, and an exception passes through `finally`
  clauses, `except Exception` and a decorator. *Failures are reported, sessions
  given back; an update that says success is complete.*
- globals are written one by one and read twice; a reset makes the card forget.
  *The globals agree with each other and with the card; resets end and say success
  only with reason.*
- the log is cut while the page keeps positions in it. *Bounded, in order, complete.*
- `selectedFile` and `readCache` are read again after awaits. *A value is shown and
  kept under its own file and card; a lost port shows; nothing hangs.*
- pySim's picture and the card part when a step of several fails. *What is recorded
  as selected, verified, written, programmed or downloaded is so, or the failure
  shows.*

`PROJECT.json` lists the hazards with their lines and, for each, the properties
that would notice.

## 2. The modules

```
FileServer <-implements- FileRequests <-extends- SimServer
BinaryTransfer <-extends- TlvTransfer <-extends- Transfers = + CardData, WriteEditors
SerialLink   ModemReset   ApduLog   WebClient
PySimCard -extends- CardParts = CardLink, CardBatch, OtaSms, SecureChannel, CardContent
          -extends- ReadersServer = CardReaders, Smdpp
PySimCard = CardParts, ReadersServer, CardStart, CardSession, CardCommands, CardFields,
            CardFiles, CardCodes, FileExport (all over FilePaths where they walk),
            CardProgram, Saip, SaipFiles, CardTrace
```

`MC<Module>` gives the constants their values where a configuration alone cannot;
the other runs check the module itself. `<Module>Proofs` holds theorems and
EXTENDS the module and TLAPS; `ModemProofs` is about SerialLink and ModemReset, `SimServerProofs` about FileRequests
and SimServer.

### FileRequests: the file endpoints

`th[t]` is the request that thread `t` serves: its place (`pc`), endpoint, file,
the channel it has chosen (`lchan`), the session it holds, the exception on its
way out. `g` holds the globals, `layout` and `cur` the card (which application
each channel shows, which file is selected on each channel and session),
`sessions` the AT+CCHO sessions that are open. A step is one AT exchange with
the code up to the next: `Begin` (the request comes in), `Route` (channel or
session), `Open` (AT+CCHO), `Select`, `Delete`, `Access` (a READ or UPDATE),
`Close` (AT+CCHC in `finally`). Each exchange can answer, fail, lose its answer
after the card has acted, or raise; on a closed port it raises RuntimeError as
`_send` does. `Throw` and `Caught` are the exception paths: through `finally`,
then swallowed, answered by `_serial_safe`, or left to Flask as a 500. The two
batch endpoints run through their three files in the code's order, each with its
own exception handling.

Taken as one step although the code has several: an exchange. For a request that
nothing overlaps (`alone`) the lemma that allows it is `UnsharedReplyIsOwn` of
SerialLink. `_send` takes no lock, so a request that another overlaps may read that
one's answer in the place of its own: then `Exchange` ends with "ok" though the card
refused or has not seen the command. Such a request goes on from a SELECT that selected
nothing (its record's `own` turns false), reads a channel's AID that is not that
channel's, or is given the number of a session that another request opened and whose
answer that one has not read (`adrift`); on a session a command after a refused SELECT
finds no file rather than a wrong one, since nothing else selects there. Which *data*
a read returns when answers cross, and an answer that comes after its deadline, are
SerialLink's subject, not this module's. A SELECT with its
GET RESPONSE counts as one exchange. The globals read in `Route` are read together.
`_serial_safe`'s disconnect happens with the step that raised. A request that comes
while the port is closed answers at once and changes nothing, so `Begin` requires
the port.

### FileServer: what the file endpoints promise

FileServer knows no modem, channel or session: a request has an itinerary of files,
goes through it in order, acts on the file it has reached and on no other, and
says "ok" only from there. FileRequests ends with the mapping to it (`Stage`,
`Target`, `Itinerary`); the target of a request that another overlaps on a channel, or
whose SELECT on a session was answered by another's answer, is left out of the claim,
since there the code does not keep the promise.

### SimServer: the whole server

EXTENDS FileRequests and adds the other endpoints to the same threads: `Connect`,
`OpenPort`, `Hello`; `Disconnect`; `VerifyAt`, `ScanChannel` (one STATUS);
`SelectDir`, `ReadDir`, `ProbeIsim`, `HangUp` of the fallback; `Cfun`, `Poll`;
`VerifyAdm`. The assignments to globals wait in `todo` and `Assign` makes them
one at a time, which is how another thread can see them half made. `Status` is
what a channel reports: its application's AID, or none while the MF is current
there. A power cycle may put the applications on other channels and forgets
selections and sessions.

### SerialLink: `ATModem._send`

The input buffer `rx` is a sequence of pieces, each with the command it answers
and when it arrived; a thread resets the buffer, writes, and reads until a final
code or gives up. The modem answers in order, a body and then a final code, late
or not at all, and may send unsolicited lines. `Unshared` says that no other call
is under way and no answer is owed when a call begins.

### ModemReset: the two resets with their time

Both resets as one machine over ticks of 50 ms, because their difference is all
in numbers (`Timeout`, `Reboot`, `Pause`, `Settle`). `left` is the time to the
deadline in `_send`; a read that returns nothing takes the port's own 3 s
whatever the deadline. `cfun_reset` answers success after its last poll in any
case, as the code does. Scheduling delays and the time to execute are left out.

### Transfers: one file, byte by byte

Five parts that share nothing, so that a behaviour is of one kind:

- **BinaryTransfer**: UPDATE BINARY and READ BINARY of a whole file over AT+CSIM and
  over AT+CGLA. Bytes are named by their place, so a misplaced, doubled or missing
  byte shows. The card may refuse, may act and lose the answer, may end early with
  6282; the modem may pad an answer to AT+CSIM. `Reach` is the offset from which P1
  means a short file identifier (32768).
- **TlvTransfer**: `write_tlv` (DELETE DATA, then SET DATA with the whole object) and
  the RETRIEVE DATA loop. A value is its length and a number; the BER form of the
  length and the Lc byte are computed, so that the commands which no modem accepts
  are the model's too. A write of an empty value, which is also how the page deletes,
  is the DELETE alone: SET DATA is left out (`if data:`) and the answer is success.
- **CardData**: the parsers of FCP, EF.DIR records, ICCID, IMSI, MSISDN and class
  bytes, run on what an encoder written from the cards' specifications makes.
- **WriteEditors**: the write popup: which file it is offered for, the tables of
  services, PLMNs and access classes, one record, one object, the text box that is
  sent. Contents are a sequence of entries and perhaps bytes that make no whole one.
  A write goes on by itself (stored by the card, answered, the file read again a second
  later) while the user edits, closes the popup, opens it again from the cache and writes
  once more; several may be on their way (`awaited`), and the names of services that an
  opening asked for may come after it was closed (`due`).

### ApduLog: the log and the console

`_log_apdu` in three steps (append, slice, replace), the `/apdu_log` endpoint in
two (entries, length), the page's poll around them, and the Clear button in three.

### WebClient: the page

`doConnect`/`doPostConnect`, `doDisconnect`, `doRead`, `submitWrite` and `tlvWrite`
as coroutines: `task[k]` is the one of kind `k`, and each action runs it from one
await to the next. `Serve` and `LossStep` are the server's answers, in any order
among the coroutines. Shared are `selected`, `cache`, `reading`, the pane, the
buttons (`ui`). A cached value carries the file, card and version it was read from,
which the page does not know.

### PySimCard: the parts of pySim

Each part models the calls of the layer below as single steps, since these calls
block and nothing comes in between, so the parts share no state: `part` says whose
behaviour this is, and the others stand still. CardParts and ReadersServer hold the
parts that proofs are about, with their assumptions; PySimCard adds the others. What lies below shows as the outcomes
a step may have (refused, warned, done but the answer lost).

| Module | State | Actions, and what is particular |
|---|---|---|
| CardReaders | bytes or messages received and not read, each with the call it is about | a TPDU on each of five drivers, reset, waiting for a card. Late bytes come before the next call; the modem answers whole and in order, late or not, and of a modem with echo as many bytes as were sent are cut off, whatever they are |
| CardLink | command, T=0 exchange, card, proactive handler | 61 and GET RESPONSE, 6C and repetition, 91 with FETCH and TERMINAL RESPONSE; pieces of a response are numbered |
| CardStart | the card in the reader, `init_card` and `equip` under way, what the shell has | wait for a card, probe class bytes, choose a profile, look for applications, equip; reset, raw commands, cards exchanged at any point |
| CardSession | for each channel the recorded and the real selection, verified ADM | select by path or name step by step, the way back, probing, reset, channels opened and closed |
| CardCommands | one EF's bytes, the call under way | reads and updates in pieces, comparison before and after, SET DATA |
| CardFields | a value set and the file it is in; the service tables, the files on the card | encode, show, set and clear a service, check the services against files. Digits and bits, as each encoder and decoder places them |
| CardFiles | the card's files and sizes, its selection, pySim's FCP and selection | create, resize, delete, terminate, deactivate, activate, each with the selections around it |
| CardCodes | codes and tries of two cards, ICCID read at `equip` | verify, change, unblock, disable, enable, with codes typed or looked up in files and tables |
| CardContent | the card's registry of load files, applications and keys; the eUICC's profiles; the command under way | install a CAP file in blocks, its steps alone, personalise, delete, set and get status; enable, disable, delete and name profiles |
| FileExport | a stack of frames, the selection, the script | export, fsdump, fsdump_custom, tree; the script run on a blank card; the change of one element |
| CardBatch | the loop's counters, bay, bins, record file, state file | bulk_script and pySim-prog over a pile, with failures, retries and crashes between the writes |
| CardProgram | parameters, current directory, what was written where | the row that is taken, then every `program` method write by write, with a refusal anywhere |
| SecureChannel | both ends' keys, chains and counters | SCP02, SCP03; wrap, card, unwrap; PUT KEY; chunks at every length that matters |
| Smdpp | sessions, profiles on disk, clients, requests under way | the package with its segments, MACs and counters; every ES9+ handler, clients that give up, requests doubled by patience, profiles replaced, restarts |
| Saip, SaipFiles | elements, indexes, services; file tree and bodies | insertion, removal, personalisation, rebuilding, checks, saving; the tree that templates make |
| OtaSms | tools, messages under way, the card's counter | encode, deliver in any order, decode with the protection asked for and, on a ValueError, without, at two tools. Each answer is delivered once, to its tool |
| CardTrace | the phone's commands, the pair awaited, the followed selection | every packet in order, with the commands that move a selection |

A MAC is the sequence of what it chains and a cipher text the text with its key and
counter, so that equality means what the real check would say.

What these modules contain that their properties leave out is listed in section 3.

## 3. What is checked

Deadlock is checked except where the bounds on calls or faults stop the model
though the program would go on (FileRequests, whose closed port is reopened only
in SimServer; SerialLink; WebClient; PySimCard). ModemReset and Transfers stutter
in their last state instead.

### Runs that pass

**FileRequests_isolated** (522 000 states): two threads, the endpoints
but `/read`, whose steps are a write's and which SimServer's runs have; a
USIM and an ISIM file with the same identifier, two session numbers, up to two
data commands, one exchange that goes wrong, with and without the fallback.
`IsolatedRequestsHitTarget`: from its SELECT to its last data command the file
stays selected where the commands go, provided the globals are right and, for
`read_arr`, the USIM is on channel 0. `SessionRequestsHitTarget`: a request on a
session, whatever overlaps it, acts on its own file or, after a SELECT whose answer was
another request's, on none; on channels overlap takes it to another's file.
`PortLossReported`: a lone request that saw a serial error answers "disconnected"
and the port is closed. `NoSessionLeak`: an open session is held by a running
request, or nobody has read its number, or its closing was lost on the link. `KeepsPromise`: FileRequests implements FileServer.

**SimServer_sequence** (226 000): one client, every endpoint, any order, two
faults. `GlobalsAgree` and `ScanPublishesWhatItFound` are about long sequences
(fallback, then a reset, then a check that breaks off).

**SimServer_racing** (277 000): the isolated property again while a second client
scans and resets, with the applications swapping channels.

**SerialLink_shared** (194 000; two threads, three calls, one unsolicited line):
`NothingStale` holds under any overlap; `UnsharedReplyIsOwn` for a call with the
link to itself.

**ModemReset_polls** (98 000): four polls. `ReadyOnEvidence` and `AnswersInTime`.

**BinaryTransfer_chunks** (1 397 000): sizes 0 to 14 with commands of 3 bytes, so
that every remainder and every position of a failure occurs, and sizes beyond
`Reach` (`UpdatesInOrder`, `UpdateSuccessIsComplete`, `ReadsInOrder`). Objects at
every edge of the BER length and of Lc, and the empty value (`WriteSuccessIsStored`: an
answer of success to a write means the object is on the card or, for an empty value
whose DELETE was not lost, is gone; `ReadShowsObject`; `RetrieveEnds`). Parsers
(`AnswersUnderstood`), editors over small files of each kind (`WritesAreEdits`: what is
sent differs from what was there by the edit alone, until writes overlap or an answer
is lost, and a write is offered only where the file's rules allow it).

**ApduLog_order** (439 000): two writers, a limit of 2, five entries, a clear.
`LogBounded`: the list outgrows its limit by at most one entry for each thread
inside `_log_apdu`. `ShownInOrder`: no entry is shown twice or out of order until
the first clear, with one poll at a time.

**WebClient_page** (202 000): five clicks, two failing requests, two cards.
`CacheOfItsFile`, `PaneOfSelected`, `CacheIsCurrent`: a value belongs to the file it
is kept or shown under, and to the card that is connected. `LossShown`,
`ConnectingEnds`, `ReadingEnds` are liveness. The user is `Patient`: lets a write or
a disconnection end before the next click, and writes nothing while the page connects.
Nothing in the page enforces that: `submitWrite` and `tlvWrite` block no click. Without it
`PaneOfSelected` fails (the written file is shown under the name of the one clicked
meanwhile) and so does `CacheOfItsFile`, see WebClient_tlv.

**PySimCard_parts** (526 000): one property for each part or for parts that
stand next to each other.

| Property | Parts | What it says |
|---|---|---|
| `ReadersTrusted` | CardReaders | with nothing left over, what a driver returns is the answer to this command; whatever is left over, the serial driver's bytes before the echo of a later command are of commands with this header, as long as no card took a header for data it waited for (an answer shorter than the one expected makes it read on into that echo); a new card is reported when it is new |
| `CommandDoneOnce` | CardLink | executed once, answered whole, no proactive command left behind |
| `SessionTracked` | CardSession, FileExport, CardCodes | what is believed selected and verified is so; a walk is complete and returns, and its script restores the files; a code looked up is this card's, and no try is spent on another one |
| `UpdatesTrusted` | CardCommands, CardFiles, CardFields | success means the file holds it; a file created, resized, deleted or terminated is not taken for another; a field is shown as it was set, the services that are on are those asked for, and a check without a complaint vouches for them |
| `BinsTrusted` | CardBatch | the done bin holds done cards, all different |
| `ProgramTrusted` | CardProgram | the right row, each item in its file, or a failure that shows |
| `ChannelTrusted` | SecureChannel, CardContent | what was accepted is what was sent, in order, under this session; what a command to a security domain or an eUICC says it did is what the card holds |
| `DownloadTrusted` | Smdpp | a download gives the profile that was asked for to who asked |
| `ProfilesTrusted` | Saip, SaipFiles | a profile that passes the checks stays sound, and what was set in it is in the file that is saved; files stand where they belong and keep what they hold |
| `OtaTrusted` | OtaSms | a command whose answer is returned was done once, one that raised was not; the card's reason is shown, but to a tool that wants answers in clear with a checksum |
| `TraceTrue` | CardTrace | what is shown as selected is, and each answer is its command's |

### Runs that end in a violation

Each checks one statement of the repository that its code does not keep; the
quotes are in `PROJECT.json`.

| Run | What happens |
|---|---|
| FileRequests_overlap | a second SELECT between SELECT and UPDATE: the data goes to the wrong file |
| ApduLog_full | past the limit the console never shows another entry |
| WebClient_tlv | a click while `tlvWrite` awaits: one file's data is kept under another |

### What the models contain and the properties leave out

The properties are stated under the conditions on which the code keeps them. Where
it does not, the model has the behaviour and the property the condition; these are
the places.

*Server.* `read_arr` selects on the USIM's channel and reads on channel 0, and tests
the session number for truth (`app.py` 575), so session 0 would stay open.
`read_info` and the ISIM part of `read_arr` swallow serial errors. A channel 0
without an AID is recorded for the USIM. `cfun_reset` answers success after a scan
that found nothing. `adm_keys` survives a lost port. The "timeout (35s)" of
`apple_reset` comes after 2716 ticks (135.8 s) on a silent modem. A late answer ends
the next call; a truncated file is a successful read; deleting an object, also by an
empty value, always answers success, and one of more than 255 bytes is deleted and not
written again.
`parse_fcp` misreads record lengths whose high byte is 1, 2 or 4 and templates with
a length in two bytes (`at_modem.py` 418-455); the access rule bits of the compact
form are one off.

*Page.* `doPostConnect` ignores that the port was lost; Refresh while connecting;
`_portLostHandled` stays set; a failed write leaves the cache; losing the port does
not clear it. In the editors: the popup can be closed and opened again while a write is on
its way, with the cache of before the write, and submitted then takes the first write's
entries back; between the answer and the second reading there is no cache and `submitWrite`
breaks off; an answer that is lost leaves the old contents in the cache, as originals of the
next edit. All PLMN rows are coded again, so that a free row's
access technologies and trailing bytes go, a short MCC erases the row silently;
services outside the map are dropped; after a write the table is compared with what
was first rendered; a decoder is found by the file's name for files below a DF.

*pySim, card and files.* The serial driver compares the NULL byte with a string;
a modem's late answer is the next command's, with echo too: the first bytes are cut off
without being compared (`modem_atcmd.py` 97-99). 91xx on SELECT counts as failure.
create_df two levels below the MF cannot select its way back. A deactivated file
answers SELECT with a warning that pySim takes for failure. A card exchanged and only
reset is tried with the other one's codes; an empty column is sent as eight FF bytes.
`LinFixedEF.export` without a record count raises after the first record, or goes
on to record 255 (`filesystem.py` 1171-1188); JSON export of a file without
encoder, cyclic files and a short last record cannot be replayed.

*pySim, start and content.* Channel 0's commands are copied before the profile's class
byte is set; EF.DIR naming one application twice makes `init_card` raise, and `main`
then uses a `card` it does not have if an ADM PIN was given; `equip` without a card
leaves the old `lchan`; a raw command that raises leaves `apdu_strict` set. A block
number of STORE DATA above 255 makes an APDU that is none; `get_status` ends its list on
any error and returns it; `store_data_tlv` returns an exception instead of raising it.

*pySim, fields.* An access technology of EC-GSM-IoT alone is written and never shown;
`update_imsi_plmn` refuses every network of six digits; an IMSI of 16 digits is cut and
then shown as none; an IPv6 address is accepted and a blank record written; MNC 01 and
001 are alike in the ePDG's display; the legacy table ignores a service beyond it, the
other one raises. Service 0, which the model does not type, would change the last one.
A file is counted once for each service that names it. In `sms.py`, not modelled, a
second encoding of an address differs from the first.

*pySim, programming.* Commands sent unchecked (Grcard Ki, the ADM PIN of
sysmoSIM-GR2); keys skipped when read_aids fails (`legacy/cards.py` 1332-1336);
`init_batch` cannot read its own file (`pySim-prog.py` 697); line 0 of a CSV file
counts as none; blank columns are written as blanks.

*pySim, keys and messages.* A wrap that raises has already advanced the chain (SCP03
225-239 bytes in S16 mode, SCP02 240-247 encrypted). A notification looks its session
up in lower case, so sessions stay; a profile replaced between authentication and
binding has the old metadata; the MAC chain does not notice missing last segments;
a full encrypted segment has 1036 bytes, more than the 1020 of `bsp.py` 23-24. The
140-byte check of short messages forgets the header; answers are not matched to
commands but by their keys. A tool that wants answers in clear but with a checksum (the
default `--por-rc-cc-ds cc` with `--por-no-ciphering`) shows no refusal, which has none.

*pySim, profiles and traces.* The misspelt `pres_by_naa` keeps instances; services
of removed applications come back; keys of a security domain are lost on saving;
offsets from the second gap of a file are wrong when optimised, which nothing asks for.
A closed channel with P2=0 deletes channel 0 in the tracer; failed and parent
selections; an answer never fetched goes to the next command.

### Where a comment says otherwise

Besides the statements of the violation runs, two comments differ from their code, and
the models follow the code.

- `find_row_in_csv_file` (`pySim-prog.py` 521-522): "When num is not None, the search
  parameters iccid and imsi are ignored". They are not: line 547 looks at the number only
  when both are absent, so with `--num` and an ICCID or IMSI read from the card the number
  is what is ignored. `FindRow` is the code's; the docstring's reading, `ByLineFirst`,
  would give a card another one's row, which `ProgramTrusted` forbids.
- `message_received_handler` (`smpp-ota-tool.py` 118-119) decodes again without protection
  because "the response will contain an unencrypted error message". It does so only after a
  ValueError, which the decoding of a refusal raises when answers were to be ciphered; when
  they were not, the missing checksum is an `OtaCheckError` and the message is lost.

### Bounds, and why they are enough

Two threads: every property about overlap relates one request to one other; the
theorems below cover any number. One or two faults: handlers stop or go on at
the first failure, a second one matters only in `finally`, and in sequences of
requests (hence two in SimServer_sequence). Layouts: the usual phone, an ISIM only
behind AT+CCHO, the MF current on channel 0 with both applications elsewhere, the
two applications swapped. `MaxPieces` 2: a loop over data commands has a first and a
further one. `MaxPolls` 4 lets three OKs in a row be broken once; waits of 19 and
60 ticks hit and miss each deadline. The log's limit of 2 instead of 500 is
reached by few entries; nothing in the code depends on the number. In the editors the user
acts six times (open, edit, submit, and once more the same, with the popup closed in between),
with PLMN tables, whose rows have more values, five times. Chunk 3
instead of 255 likewise, and the proofs are for all. Five clicks: connect, read,
another file, disconnect, connect; two files and two cards tell what belongs where.

In PySimCard: a table of two bytes, with services at both edges of a byte and one beyond
the table; files that need one service, any or all of several; answers to GET STATUS
and blocks of LOAD and STORE DATA that take one command or several; a tree of four levels with an application and names that repeat,
two channels beside the basic one (one in the tracer), four commands (a selection, one that fails, its
way back and the next); four administrative commands (create, resize, delete, and
one after); three cards, two tries, two runs; two downloads of two profiles with one
change on disk; lengths on both sides of each limit of secure channels and short
messages; programs with one refused command; profiles with two applications and
two edits, since personalisation and removal meet at most in pairs; four packets
of a trace (announce, fetch or not, and two after); three calls of a reader (a
timeout, the one that gets the late bytes, and one after).

The two clients of Smdpp are alike, so the run takes them up to symmetry; so do
FileRequests_isolated and SimServer_racing with their threads. No run with a liveness
property has symmetry.

### Fairness

`EveryEntryShown` (ApduLog): the page's timer keeps polling and the server answers
each poll (`setInterval`, and a GET that takes no lock), a thread inside `_log_apdu`
leaves it, and a clear once begun is finished. `LossShown`, `ConnectingEnds`,
`ReadingEnds` (WebClient): every request is answered, since `_send` has a deadline and
Flask answers exceptions too, and a coroutine whose await is over runs, as the
browser's queue is first come first served. `RetrieveEnds` (TlvTransfer): the request
thread goes on. Nothing is assumed of the user, of new entries or of the modem.

## 4. What is proved

| Theorem | Statement | Argument |
|---|---|---|
| `SimServerProofs!TypeCorrect` | `TypeOK` always | one lemma per action; the shape of a thread's record through each control helper |
| `SimServerProofs!SessionsHit` | `SessionRequestsHitTarget` always | a held session is open, two threads never hold the same one nor one that is adrift, and on it is selected the file of its request, if the card took the SELECT, or none |
| `SimServerProofs!IsolatedHit` | `IsolatedRequestsHitTarget` always | while a request is alone no other thread is busy, so only its own steps touch the selection; its recorded channel is the one SELECT uses |
| `SimServerProofs!PortLoss` | `PortLossReported` always | the exception a lone request has met waits, if anywhere, behind the closing of its session, and a request that is alone and has met none still has its port |
| `SimServerProofs!NoLeak` | `NoSessionLeak`, if 0 is no session number | a session leaves a thread's record only through `Close`, on every exit |
| `SimServerProofs!EndpointsKeepPromise` | `KeepsPromise`: FileRequests implements FileServer | the inductive invariant makes the target of every request that is spoken for its own file, so the promise sees one thread's record only; then each action moves that record where the promise lets it go, or stutters |
| `ModemProofs!ResponsesFresh` | `NothingStale` always | pieces in the buffer and in hand are not older than the last reset; numbers of calls grow |
| `ModemProofs!UnsharedCorrect` | `UnsharedReplyIsOwn` always | while a call is alone the modem owes an answer to it only, and the buffer holds nothing else |
| `ModemProofs!ResetAnswers` | `AnswersInTime` always | a budget of ticks per command and per poll, which `now` plus what is left of the deadline never exceeds |
| `ModemProofs!ResetOnEvidence` | `ReadyOnEvidence` always | the counter of OKs is the number of OKs at the end of what the polls returned |
| `TransfersProofs!UpdateInOrder`, `UpdateComplete` | the two properties of updates | the counted offset is the length of the new prefix; a failed command adds at most its own chunk |
| `TransfersProofs!ReadInOrder` | `ReadsInOrder` always | the next offset is the length of what has been read, and an answer brings the bytes from there |
| `TransfersProofs!WrittenObjectIsStored` | `WriteSuccessIsStored` always | a success is told in the step that stores the value, or in the DELETE if there is none to store; a length that fits is one of three BER forms, each read as it was written |
| `TransfersProofs!ReadObjectIsShown` | `ReadShowsObject` always | the parts collected are those up to the last the card sent, and the loop is entered again only when no exchange has failed and more is left |
| `ApduLogProofs!LogStaysBounded` | `LogBounded` always, for finitely many threads | each entry above the limit is owed to a thread between its append and its cut; the cut of a thread leaves at most the limit |
| `ApduLogProofs!ConsoleInOrder` | `ShownInOrder` always, if there is one poll | every list in play ascends, and what a poll has in hand is newer than what is shown |
| `SimServerProofs!ScanPublishes` | `ScanPublishesWhatItFound` always | a request writes the globals one by one, so the invariant speaks of the value each will have when the assignments that wait are made (`EndsAs`), which making the next one does not change; while a scan is alone nobody else has assignments waiting |
| `SimServerProofs!OneClientAgrees` | `GlobalsAgree` always, if there is one client | the same, for every request that assigns, and wherever an exception cuts it off |
| `WebClientProofs!CachesItsFile`, `PaneShowsSelected`, `CachedIsCurrent` | `CacheOfItsFile`, `PaneOfSelected`, `CacheIsCurrent` always, if the user is `Patient` | a patient user's write keeps its file selected and is alone with the read; the file that is read, and the one that waits, have no value in the cache and so cannot be written; what is in the cache is what its card holds, but between the server's write and the page's knowing of it (`Overwritten`) and between its new connection and the page's knowing of that (`Unknowing`) |
| `WebClientProofs!CachesItsFileWithoutTlv` | `CacheOfItsFile` always, for any user, without `tlvWrite` | every coroutine carries data of its own file only, since none but `tlvWrite` asks `selectedFile` again |
| `TransfersProofs!WritesAreWhatWasEdited` | `WritesAreEdits` always | while no writes have overlapped and no answer was lost, the original, the cache and the card agree but for one write on its way (`WaitInv`), so what is sent can be compared with the card entry by entry; the button follows the comparison the code makes, not the difference itself |
| `PySimCardProofs!CommandsAreDoneOnce` | `CommandDoneOnce` always | what `send_apdu` has received is the beginning of the response and the card has exactly the rest of it, at every turn of 61, 6C and 91; a repetition with the right length finds the card before the command |
| `PySimCardProofs!BinsCanBeTrusted` | `BinsTrusted` always | a card of the done bin does not come again; the number that the next card gets is above those of the done cards, also when the run starts anew from the state file, and only while the done bin is empty there is none |
| `PySimCardProofs!OtaCanBeTrusted` | `OtaTrusted` always | padding makes whole blocks, which are not padded again, so the signed length is the sent one; a command is either on its way, or done or refused and its answer, if any, says which, and no tool sends two; a refusal of seven bytes is whole blocks of no cipher, so the tool that wants ciphered answers always tries it in clear |
| `PySimCardProofs!SecureChannelCanBeTrusted` | the channel's part of `ChannelTrusted` always | what the card has chained is never longer than what the host has, and shorter once a command is lost, so a MAC that verifies means that the chains are equal; until something goes wrong chains and counters agree, whatever wraps raised or answers did not come |
| `PySimCardProofs!ChannelCanBeTrusted` | `ChannelTrusted` always | besides, while a file is loaded what the card has and what is left make the file, and the blocks sent fill whole chunks, so that a load left open is never gone on with by one that starts anew; the same for the data of STORE DATA and the pages of GET STATUS; a report that says ok speaks of the card until the next command begins |
| `PySimCardProofs!ReadersCanBeTrusted` | `ReadersTrusted` always | on the serial line a byte is of the same header as the one before it, unless it begins an echo, and an echo names its header (`LineOk`); what is sent next, late or not, is of the header the line ends in, so an echo that compares equal is followed, up to the next echo, by bytes of its header; a wait that is no longer told of the card it began with has seen the socket empty, or a card put in since (`WaitOk`) |
| `PySimCardProofs!DownloadCanBeTrusted` | `DownloadTrusted` always | whoever has the keys goes through a package with the chain and the number it was sealed with, and the pieces put together are the profile, of any size (`PackageOpens`); the first MAC is of a key that names the eUICC (`PackageClosed`), and a segment is enciphered under the number of its place (`PlacesGuarded`). A request says of its client what is so or was so (`RequestOk`), a session is given to one client and a transaction number is not given twice, so that a request that comes late, or twice, finds its own session or none; what a client has stored is a version that was on disk (`ClientOk`) |

Each part of PySimCard has its invariant in CardPartsProofs or ReadersServerProofs, about its own variables;
a step of another part leaves those alone (`PartSteps`).

Assumptions are those the modules state for their constants (the sets of lengths and
counters, of keys and of logical channels are numbers, a load file's code is some of its components and fits into the
256 numbers that blocks have (`ContentAssumption`; longer files the loop would number from 0 again), a command's header is not empty and P3 and the length of an answer are numbers (`ReaderAssumption`), no eUICC or transaction is called "none" and only known profiles are replaced (`ServerAssumption`), profiles have a size and segments hold something (`PackageAssumption`), `SpiType` is what a short message's security settings can be, the
files given to the editors are files), and more where a theorem says so: `0 \notin SessionIds` for `NoLeak`, which `read_arr`'s truth test
makes necessary; finite `Threads`; a single poll at a time; a single client for
`OneClientAgrees`, as two that assign at once can leave the globals of one with the
flag of the other; `Patient` or no `tlvWrite` for the page, without which run
`WebClient_tlv` shows the wrong file in the cache.
None of the properties is inductive alone; the conjunctions that are carry names
such as `IInv`, `...Inv`, `OnBudget` or `InOrder` in the proof modules, with a comment
on each part. Threads, sessions, files, sizes and bounds are arbitrary.

Only model-checked are the properties of parsers (`AnswersUnderstood`) and the other
properties of pySim (run `PySimCard_parts`): `SessionTracked`, `UpdatesTrusted`,
`TraceTrue`, `ProgramTrusted`, `ProfilesTrusted`. Out of the prover's reach
are liveness under fairness (`RetrieveEnds`, `LossShown`, `ConnectingEnds`,
`ReadingEnds`, `EveryEntryShown`) and inductions over data, which the parsers and the
walks over trees would need; that the pieces of a text make the text is proved all the
same, through the least number of pieces that would not, since the model gives each
piece in closed form.

## 5. What is not modelled

*Tool.* The file table (constants), port listing and ADB model names (they ask the
operating system and keep nothing), `at_raw` and `apdu_send` (they pass on whatever a
user types), the launcher and installer. Of modelled parts: the contents of log
entries, so that the rewriting of the last one (`at_modem.py` 193), which may be
another thread's, does not show; a `disconnect` in the middle of another thread's
`_send` (it is taken at the beginning of an exchange or as a serial error); the
rendering of the page and the decoders whose result is only shown.

*pySim.* The file definitions and codecs (`ts_31_102.py`, `ts_51_011.py`, `cat.py`,
`sms.py` and others: declarations and pure conversions, thousands of lines without a
state) beyond the fields of CardFields; the tools `pySim-read.py`, `sim-rest-server.py`,
ES2+, ARA-M, generation of certificates. Of modelled parts: erasing whole cards, the
eUICC's commands that only read, AUTHENTICATE and SUSPEND, the bearer independent protocol,
trace sources other than the pairing of commands and answers, decryption of
columns of the key tables.

## 6. What is left

1. Proofs of further parts of PySimCard: `SessionTracked`, `UpdatesTrusted`,
   `TraceTrue`, and what `ProgramTrusted` and `ProfilesTrusted` say without the trees.
2. ApduLog with the data of entries, for the rewriting of the last one.
3. The rules of ARA-M, a state that pySim keeps on the card.
