# Verification of the mca66 controller

TLA+ models of a program that drives an HTD MCA-66 audio amplifier (six zones, six
inputs) over a serial line, with the configurations that check them with TLC and the
theorems proved about them with TLAPS. Paths are relative to the repository's root
(`src/` here).

## 1. The system

| Part | Source | State it keeps | Operations |
|---|---|---|---|
| libmca66 | `libmca66/mca66.c`, `mca66.h` | `serialfd`; the attributes and the unread bytes of the serial line, which belong to the kernel and are shared by all processes | `init_audio`, `process_command`, `set_interface_attribs`, `set_blocking` |
| cntl | `cntl/mca66cntl.c` | none: one invocation runs one command | `main` |
| mca66d, dispatch | `mca66d/main.go` | none | `docmd` |
| mca66d, TCP side | `mca66d/tcp_handler.go`, `main.go` | a goroutine and a connection per client | `tcp_acceptor`, `tcp_handler`, `supervisor` |
| mca66d, WebSocket side | `mca66d/ws_handler.go` | per connection: a handler, the goroutine of `keepAlive`, `lastResponse` | `ws_handler`, `keepAlive`, `ws_acceptor` |
| gorilla/websocket | `mca66d/src/github.com/gorilla/websocket` | per connection: `mu`, `writeErr`, `isWriting`, `writeBuf`, `readErr`, handlers | `WriteMessage`, `NextWriter`, `WritePreparedMessage`, `WriteControl`, `ReadMessage`, `Close`, `Upgrade` |
| takama/daemon | `mca66d/src/github.com/takama/daemon` | the unit file, or the entry, of the service and what the service manager knows of it | `Install`, `Remove`, `Start`, `Stop`, `Status` of six records: systemd, SystemV, upstart, BSD, darwin, Windows |
| htd firmware, keypad | `htd/htd.c` | `g_zoneInfo`, the table of the zones; the selected zone or group; what each browser page carries in hidden inputs | the buttons and lists of the keypad page, the frames they send, queries, volume steps |
| htd firmware, web and flash | `htd/htd.c` | `lock`, `sbuffer`; the names of zones and sources, in use and in a flash page with a key | `web_request_callback`, `writeSettingsToFlash`, `readSettingsFromFlash` |
| others | `cntl.ly`, `cntl.deprecated`, `interface`, `webui`, `testclient` | | earlier versions and front ends |

How they interact: a front end sends a line such as `VOLUME 1 UP` to mca66d, over TCP
(port 8664) or as a WebSocket message (8665). A handler splits it at white space and
`docmd` runs `cntl` and waits for it. `cntl` calls `init_audio` and
`process_command(zone, command)`, which writes the frame `codes[zone + command]` to the
line and reads the answer a byte at a time. Nothing keeps two clients, and so two
invocations of `cntl`, off the line at the same time. On a WebSocket a second goroutine
pings the peer and shares the connection's write buffer with the handler. `mca66d install`
and its like set the daemon up as a service of the machine. The htd firmware is a program of
its own, for a microcontroller with a web server: browsers talk to it, and it to the same
kind of amplifier; it shares no code with the rest.

What is hard to test here, and what makes each part correct:

* **libmca66.** `init_audio` passes through a state (VMIN = 0) that cuts short the reads of
  every other process; the read loop takes one byte more than it counts; bytes can be left
  for the next process or stolen from another. Correct: one frame per invocation, the one
  asked for; an answer is cut only by an interference; an invocation ends.
* **cntl.** A command is a sum of two numbers, unchecked. Correct: it acts on the zone asked
  for, in the direction asked for, and on nothing else; the words that do not are known.
* **mca66d, TCP.** A read may return any part of what was written; the whole buffer is split,
  its zeros too; a missing word panics and takes every client down. Correct: what runs is
  what was written, in order, once, and is answered; a client's lines are independent of
  the others'.
* **mca66d, WebSocket.** A pong may come late, not be read, or meet no handler; a ping may
  wait for ever; the ping and the answer race in one buffer. Correct: silent peers are
  closed in time and no others; nothing is written after the stream has ended.
* **gorilla/websocket, writing.** `writeErr` is read, `mu` taken, `writeErr` read again; a control
  frame gives up after a second, perhaps with half of it written. Correct: whole frames, once
  each, nothing after the last.
* **gorilla/websocket, reading.** A message comes in fragments with control frames between
  them, is read in pieces and may be abandoned; the position in the frame and in its mask are
  kept from call to call; a peer may break the rules, write before the handshake is answered,
  or leave anywhere. Correct: the application gets the messages of the peer, whole or the
  beginning of them, within the limit; no call waits for a peer that is gone.
* **takama/daemon.** `Install` and `Remove` are sequences of calls to the system, each of which
  may fail, be the last before an interruption, or run between two of somebody else's. Correct:
  what a command says is so; commands at the same time leave no half of a service; whatever is
  left behind, the commands themselves can put it right.
* **htd, keypad.** All sessions share one selection and one table; pages are stale; answers may be
  cut, or so late that they are taken for the next one; two volumes are shown as the same number. Correct: a request reaches the zones of its
  own page, with the source chosen and the volume asked for, and the table is true.
* **htd, web and flash.** A plain variable is the lock, held while a client takes its answer; the
  settings are written one by one after the page is cleared, and the power may fail; what a client
  sends is stored as it comes, wherever the buffer ends. Correct:
  forms do not mix; a restart finds the last saved names or none; only a client can hold
  everybody up.

`PROJECT.json` lists every component and every hazard with its line.

## 2. Modules

| Module | Models | State and actions |
|---|---|---|
| `Mca66Codes` | `enum zone`, `enum command`, `codes[]`, the counts of `process_command` | operators only. An entry of `codes[]` is what its name and bytes say (zone, operation, argument). The lengths of the amplifier's answers are external, from `mca66cntl-test.txt` |
| `CntlMain` | `main` of cntl | operators: `Prologue` (before `init_audio`), `Dispatch` (after it), `tozone`, `Selected`, `CodeSent`, `InTable`. The zone and the number after INPUT are any integers |
| `Cntl` | invocations one after the other, and the amplifier | `amp`, the settings of each zone; `Run(r)` |
| `SerialLink` | several invocations on one line | per process `pc`, `got` (the `i` of the loop), `fd`; of the line `vmin`, `rx`, `out`, `plugged`. One action per system call: `Open`, `SetInterfaceAttribs`, `SetBlocking`, `Write`, `WriteBeyond` (an index past `codes[]`), `ReadByte`, `Wait`, `Timeout`, `Hangup`, `ReadFailing`; the amplifier's `Deliver`; the adapter's `Unplug` |
| `CommandRun` | what a user of cntl may rely on | abstract; `SerialLink` implements it |
| `Docmd` | `docmd` and its closures | operators: from words to a request, a refusal or a panic |
| `Mca66d` | TCP handlers, acceptor, end and restart of the process | per client the lines written, what of them is unread, the handler's place, the commands run, the answers. `Read`/`Panic`, `CntlEnds`, `ReadEnd`, `Accept`, `GoDown`, `Restart` |
| `CommandServer` | what a TCP client may rely on | abstract; `Mca66d` implements it for clients that wait |
| `WsWriter` | `beginMessage`, `flushFrame`, `write`, `WriteMessage`, `NextWriter` with its `Write` and `Close`, `WritePreparedMessage`, `WriteControl`, `writeFatal` | `pc` and `frame` of each goroutine, with the part of the message it is; `mu`, `writeErr`, `isWriting`, `writeBuf`, `wire`. A step is what happens between two accesses to shared state |
| `FrameStream` | what the writing side promises | abstract; `WsWriter` implements it with one message writer |
| `WsSession` | `ws_handler`, `keepAlive`, the control handlers of the reading side | EXTENDS `WsWriter` with the two goroutines and a clock |
| `WsReader` | `Upgrade`, `NextReader`, `Read`, `advanceFrame`, the control handlers, `handleProtocolError` | the bytes on the `wire`, `readRemaining`, `readFinal`, `readLength`, `readMaskPos`, `readErr`, `readErrCount`; of the application what it `got`. `Upgrade`, `AnotherHandler`, `NextReader`, `Read`, then `Advance`, `ReadBytes`, `ReadCut`, `ReadEnds`, `ReadFails`, `NextReaderFails`; the peer's `Peer` and `Leave` |
| `Service` | the five commands of the six records | `manager`, chosen at the start; `sys`, what the machine knows of the service; per process the command, its next step, its result. `Methods` has the calls of each method in order, `Finds` what a call must find, `Done` what it leaves. `Begin`, `Step`, `Fail`, `Interrupt`; the service's `ServiceStops`, `ServiceDies` |
| `HtdKeypad` | `process_form_tags_keypad`, `sendCMD_0x04`, `sendCMD_0x06`, `sendVolToHW`, `sendGroupVolToHW`, the two conversions of volumes, `print_keypad` | `amp`, the amplifier; `table` (`g_zoneInfo`); `ui` (the selection); `page`, what each session shows; the request in hand. `Submit`, `First` (the query every request begins with), one action per button, `Send` (one frame), `Refresh`, `Volume`, `Turn` (one round of volume steps), `TurnsDone`, `PrintKeypad`; from outside `WallKeypad`, `Cable` |
| `HtdWeb` | `web_request_callback` in several web tasks, `process_form_tags_options`, the flash page | `lock`, `sbuffer`, `names`, `flash`, `key`, per task its place and its client. A step is what happens between two calls of `nice()`, where tasks change. `Request`, `Enter`, `NoBuffer`, `Read`, `TimePasses`, `Page`, `Keypad`, `Rename`, `Exchange`, `WriteName`, `WriteKey`, `Leave`; `ClientReads`, `ClientLeaves`; `Restart` is a power cut |
| `SettingsStore` | what the names of zones and sources promise | abstract; `HtdWeb` implements it |
| `CntlProofs` (with those about `SerialLink`), `Mca66dProofs`, `WsWriterProofs`, `WsSessionProofs`, `WsReaderProofs`, `ServiceProofs`, `HtdKeypadProofs`, `HtdWebProofs` | | theorems |
| `MC*` | | instances for TLC |

Composition: `CntlMain` is used by `Cntl` (one at a time), `SerialLink` (several at a time)
and, through `Docmd`, by `Mca66d` and `WsSession`. `WsSession` is `WsWriter` with two
goroutines that decide when to call; every action of the session is a call, a step within
one, or leaves the writer's variables alone (`SessionUsesWriter`, proved). `HtdWeb` and
`HtdKeypad` share a request: the first has what many of them do to the lock, the buffer and
the flash page, with a request's talk to the amplifier as a number of `Exchange`s; the second
has what one request after the other does to the amplifier. That they come one after the
other is what `HtdWeb` shows. `WsReader` has of the writing side only `writeErr`, for a control
frame that cannot be answered ends the reading.

Choices that a reader should know of:

* A plausible slip in the code is written beside the definition it would replace, under a
  name that begins with `Bad` (or says what is missing). They are no part of any
  specification; each property is tested by putting one of them in the place of the
  definition and seeing the property fail.
* In `Mca66d` a cntl invocation runs from start to end in two steps. That it may not end
  comes from `SerialLink`: one that has the line for itself ends only if its answer is longer
  than its count (`Hangs`), one that shared it may do anything (`jostled`).
* An index beyond `codes[]` takes two pointers from whatever lies there: in `SerialLink` such an
  invocation crashes or hands over nothing. That the bytes found there are a frame of the
  amplifier, and reach it, is left out.
* In `Docmd` the zeros of the TCP buffer are one token, `NUL`: a word of their own after a
  separator, the end of the last word otherwise. exec refuses an argument with a zero in it;
  `Atoi` makes zero of such a word. A read that ends within a word is as one that ends after
  it, with one word more at the front of the next, which `docmd` does not know.
* `lastResponse` is shared without a lock. `Sub` uses the monotonic part of the two times
  only, which is one word, so a read returns an old or a new value, which is what the
  interleaving of `ReadPong` and `Wake` gives.
* `isWriting` is read and written without a lock; `Test`, `Mark`, `Clear` are separate
  steps, so both outcomes of the race are there.
* `WsReader` takes a header, and the whole of a control frame, as one byte of the wire. What
  makes a frame wrong by itself (a reserved bit, no mask, a long control frame, ...) is one bit,
  `wrong`; what makes it wrong by its place is worked out. The bytes of a payload carry the
  frame and place they come from and the byte of the key they are masked with. A length is what
  `int64` makes of it, with `Half` for 2^63: it may be negative, and `readLength` wraps.
* `Service` does not follow the five commands of each manager as programs of their own: as
  sequences of calls the six records differ only in which calls they make, and that is a table.
  What the system calls do (`Finds`, `Done`) is external where it is systemd's, init's or
  Windows', modelled from how the package uses them: systemd takes an empty unit file for a
  masked one, init needs the script to be executable, Windows keeps the entry of a deleted
  service until it has stopped.
* In `Service`, a SystemV service has its script and the links of the run levels (those that start
  it and those that stop it, each kind as one). Histories: `alone` (nobody else has taken a step
  since the command began), `overlooked` (a call of it has failed and the code did not look),
  `crossed` (an `Install` and a `Remove` have been under way at once).
* In `HtdKeypad` an exchange that gives up after 500 ticks may leave something to come (`late`). What
  has come by the next frame is dropped (`FlushIn`), what comes after that is read as the answer to
  it: a query then stores bytes of another place, up to a full 98 of them, which the code takes
  for a full answer. `Misread` has what zones may then look like, `Cuts` the fields of a zone that
  are there when an answer breaks off. A number that is no source goes out as some other command
  of the amplifier or none (`Carried`). `quiet` and `coherent` are histories: nothing has come in
  between since the request began with a full answer; the table has had a full answer with
  nothing of an older one before it and been told of everything since. An answer that does not
  come in time counts against `MaxEvents`, like an event from outside.
* In `HtdWeb`, `Read` takes all that has come, past the announced length and past the end of
  `sbuffer`. What lies there may not matter, or the firmware goes `astray`: what it then does is not
  modelled, up to the next power cut, nor is that it might write to the flash page by itself.
  `Erases` is false for a firmware built for XPORT or M100, where `flsh_clr` is compiled out
  (`htd.c:1846`).

## 3. What is checked

| Run | Question | Bounds, and why they are enough |
|---|---|---|
| `cntl_language` | which words reach beyond the entries of their zone, and are they all (`NeighboursUntouched`: all but those of `Beyond` disturb no other zone)? do those that work do what they say (`CommandsAsAsked`: the level commands turn the right control the right way, POWER 0 switches every zone, the query of a zone and rejected lines change nothing)? | two invocations: the effect of one depends on the settings only, and two show a step from a changed setting. Zones 0, 1, 2, 6: no zone, two neighbours in `codes[]`, its end. The numbers after INPUT are the channels and those on either side of what is left of the zone's entries, of part mode, of the next zone and of the table. Levels -1..1: a step each way and the end of the range. As theorems both hold for all numbers |
| `serial_line` | `ImplementsCommandRun` (one frame each, the one asked for, or none if the adapter is gone); `ShortReadsAreRaces`; `EveryRunEnds` while all answers on the line are longer than the counts; `IInv`, the inductive invariant of the proof, with the types | two processes, in which every pair of system calls interleaves; requests that send (answer equal to and longer than the count), that index past `codes[]`, that send nothing after setting up the line, and that never reach it. Packets have up to 42 bytes, the longest answer; the theorems hold for any size. Fairness below |
| `tcp_protocol` | `ImplementsCommandServer`, `LinesAreAnswered` for clients that wait for each answer | two clients with two lines each: one panics or occupies the line while the other is anywhere in its turn. Of the lines there is one of each fate: run and answered (VOLUME 1 DOWN), run without an end when it has the serial line for itself (VOLUME 1 UP, 28 bytes for 28), without a zone, short of a word, too long. That the handler of the second kind answers nothing any more is the `Stuck` of `LinesAreAnswered` |
| `tcp_pipelined` | `CommandsInOrder`, `NothingInvented`, `OnlyCutReadsPanic` for a client that writes ahead | one client (clients only meet in panics and on the line), three lines, reads cut anywhere: a read can begin in one line, take a second and end in a third |
| `ws_writer` | `ImplementsFrameStream`, `ControlsReturn` with one goroutine for messages and one for control frames, as doc.go allows | two calls each, the messages of one frame or two (`MaxParts`): a control frame before, between and after the frames of a message, a call after a failure or a close frame. The refinement is a theorem for any number of either |
| `ws_session` | `SilentPeersAreClosed`, `CloseIsDeserved`, `GivesUpOnTheDeadOnly`, `LastFrameIsLast` | a timeout of two ticks, pings every tick and a clock to four, one tick past the latest Close(): pongs come before, with and after a check, and what happens between two ticks is left to the theorems, which hold for every timeout; four calls per goroutine; two frames of the peer, of which one may be a pong that waits while docmd() runs |
| `ws_reader` | does the application get what the peer sent? `MessagesAreThePeers` (in order, whole or a beginning, unmasked right); `LimitIsForMessages`; `OnlyASilentPeerHoldsUp` | four frames: two fragments, a control frame between them and the next message. Frames of no byte, for the boundary, or of two, so that a message is over a limit of three with its second fragment and the position in the mask goes on within a frame; a length of -2, and one of 5 with which `readLength` wraps (`Half` = 6). The peer writes one byte ahead, so that the handshake and every frame may be overtaken. Two handshakes, one that is refused |
| `service` | under each of the six managers: `SuccessMeansDone` (what a command says is so; a call that failed unnoticed can only cost links, or make a service seem not to be there or not to run); `TogetherTheyLeaveAWhole` (links included, unless an `Install` and a `Remove` crossed); `Repairable` (stop, remove, install and start get out of any state); `OnlyTheServiceHoldsUp` | two people, three commands, one failure, interruption or crash: a fault in one command while another runs, and a third that meets what is left. The first three are theorems for any number of each |
| `htd_keypad` | `VolumeReached`, `TableIsTrue`, `ChoicesAreInformed`, `SessionsAreApart` | two sessions with one stale page each (alike, so up to symmetry), two requests, so that the second meets what the first has changed; one event from outside or one answer that does not come in time, at any time, and what is left of it. Two zones make a group; zone 2 has the button that assigns. A scale of 0..2 has every case of the conversion (both volumes shown as 1, both ends). The theorems hold for any scale, and for any number of zones, sources, sessions, requests and events |
| `htd_web` | `FormIsMine`, `ImplementsStore`, `OnlyTheClientHoldsUp` | two tasks, two names, so that a save can be cut with one written; three requests: one in the lock, one waiting, and one after a restart; forms in two pieces, so that a late one leaves a piece, a buffer of two and clients that send up to three, announced or not; two power cuts, the second in the save the first made necessary |

The type invariants are `TypeOK` and `WriterTypeOK`. Deadlock is not checked: every one of
these systems comes to rest when its bounded inputs are used up.

Two runs are expected to fail; each shows a disagreement of the code with a document:

| Run | Says | Does |
|---|---|---|
| `serial_hangs` (`ProcessCommandReturns`) | `paper/CS490FinalPaper.ms:55`: `process_command` "returns 0 on a success" | the loop takes one byte more than it counts (`libmca66/mca66.c:267`), so an invocation that has the line for itself waits for ever for the 29th byte of VOLUME 1 UP, or the 169th of POWER 0 ON |
| `ws_writers` | gorilla `doc.go:126-128`: one goroutine writes messages at a time | the ping of `keepAlive` and the answer of the handler do so at once (`ws_handler.go:30`, `:71`) |

Disagreements met and left without a run of their own; the models have what the code does:

* `cntl/mca66cntl.c:130` says INPUT 1 2 sets channel 2 of zone 1; the number is used as the
  command, which is channel n + 1, and for 6 the volume goes up (`:134`). Larger numbers reach the
  commands for all zones (17 to 22 from zone 1 are part mode, 24 is channel 1 of zone 2) and, from
  zone 6, what lies behind `codes[]`; negative ones the zones before. `Beyond` has them all.
* `:74` and `:77` say POWER takes a zone; the all-zone commands are added to the base of a
  zone, which are its input channels 1 and 2 (`:81`). A zone out of range becomes zone 1, or
  all of them (`:65`, `:74`).
* `mca66d/main.go:74-75` says INPUT sets the channel; over TCP `parts[3]` is the padding, or has
  it at its end, and cntl is not run (`:77`).
* MUTE OFF sends the same toggle as MUTE ON (`main.go:87-88`; the comment at
  `cntl/mca66cntl.c:144` admits it). `getopt` moves an option to the front and `argv[1]` is then
  no command (`:25`, `:39`). The error `mkzone` leaves for a zone out of range is overwritten
  (`main.go:36`, `:47`). The TCP handler says it reads one line at a time and does not
  (`tcp_handler.go:18`, `:21`).
* `Install` of a service that is installed is `ErrAlreadyInstalled` (`helper.go`); with Windows it
  returns the error of `OpenService`, which is nil (`daemon_windows.go:51-55`): nothing is installed
  and only the text says "failed" (the result "nil, FAILED" of the model). The timeout of
  `stopAndWait` breaks out of the select and not of the loop (`:157`).
* `Install` of SystemV passes over the errors of its symbolic links (`daemon_linux_systemv.go:97-106`):
  it may report success and leave a script that nothing starts at boot, by itself or because a
  `Remove` that was under way takes the old links away after it. A status command that fails makes
  `Status` say "stopped" with no error (`daemon_linux_systemd.go:39`, `:190`).
* `SetReadLimit` is documented as the maximum size of a message (gorilla `conn.go:1045`). A length of
  64 bits with its top bit set becomes negative (`:844`) and lowers `readLength` (`:866`), and one near
  2^63 makes it wrap, so that more than the limit gets through: in the model a frame of length -2
  and a fragment of 5 pass a limit of 3. `NoneTooLong` is false without `Moderate`. Frames skipped
  of an abandoned message are counted to the next one (`:866`): `OneIsLonger` has that case. `Upgrade` replies with an
  HTTP error if it fails (`server.go:121-122`); for early data it only closes (`:183`).
* `htd.c:1354`: the group button of zone 2 assigns where the others compare (comment `:1353`), and
  taking zone 2 out of a group empties it.

The list of hazards in `PROJECT.json` holds those that matter most. Smaller ones left out of it:
the toggle of MUTE, which does not know the state of the zone (`mca66cntl.c:151`); the `CheckOrigin`
that every WebSocket handler sets after its first `Upgrade` and without a lock (`ws_handler.go:46`,
modelled, but no document says which origins are meant to get in); the
connections of TCP clients that have left, which are never closed (`tcp_handler.go:24`); the
acceptor, which loops without a pause when its listener fails (`:61`); the pong handler, set
after the reading may have begun (`ws_handler.go:23`; `NoPingYet` of the proofs says why no pong
is lost by it).

### Fairness

* `SerialLink.FairSpec`: weak fairness of each process's next step (the kernel schedules it;
  a blocked read is not enabled) and of `Deliver` (the amplifier sends what it has begun to
  send). Nobody is obliged to start an invocation or to pull the adapter out.
* `Mca66d.FairSpec`: weak fairness of the read of each handler and of the end of an undisturbed
  cntl. None for clients, signals, the acceptor or systemd.
* `WsWriter.WriterFairSpec`: weak fairness of each goroutine's step, except a message that
  waits in the network: nothing makes the peer read. A control frame's write has a deadline
  and is fair.
* `Service.Spec`: weak fairness of each command's next step (a command is a process the kernel
  schedules) and of the end of a service that has been told to stop. Nobody has to give a
  command. "await" is a step only once the service has stopped.
* `HtdWeb.Spec`: weak fairness of each task's work and of its saving (`nice()` gives every task its
  turn) and of the clock. None for clients: they may stop sending or reading for ever.
* `WsReader.Spec`: weak fairness of `Within`: a call that has begun goes on as far as the bytes
  allow. None for the peer, and the application need not call again.

## 4. What is proved

The theorems hold for every value of the constants: any number of processes, goroutines, tasks
or sessions, any requests, messages and frames, any packet size, timeout, limit and volume
scale, any number of failures. They assume what the modules assume of their constants
(`RequestsAssumption`, `PacketAssumption`, `WriterAssumption`, `SessionAssumption`,
`ReaderAssumption`, `ServiceAssumption`, `KeypadAssumption`, `WebAssumption`, `ClientsAssumption`,
`LinesAssumption`) and nothing else,
except where said.

| Theorem | States |
|---|---|
| `CntlProofs!TypeCorrectness` | `[]TypeOK` of `SerialLink`: for any number after INPUT, no byte is read that has not come, and the amplifier gets only entries of `codes[]` |
| `CntlProofs!Invariance` | `[]IInv` |
| `CntlProofs!ShortReads` | `[]ShortReadsAreRaces` |
| `CntlProofs!AnswersAreTooShort` | `[]SomebodyIsLeftReading`: for any number of invocations what `serial_hangs` shows of one |
| `CntlProofs!EveryRunHandsOver` | `ImplementsCommandRun`, the refinement |
| `CntlProofs!ZonesAreApart` | `NeighboursUntouched`, for all numbers |
| `CntlProofs!LanguageIsObeyed` | `CommandsAsAsked` |
| `Mca66dProofs!DaemonTypeCorrectness` | `[]TypeOK` |
| `Mca66dProofs!NoCommandOutOfOrder` | `[]CommandsInOrder`, if `NoLateCommand` |
| `Mca66dProofs!WholeLinesDoNotPanic` | `[]OnlyCutReadsPanic`, if `NoLateCommand` and `NoneShort` |
| `Mca66dProofs!WholeLinesAreObeyed` | `NothingInvented`, an action property, if `NoLateCommand` and `NoneShort` |
| `Mca66dProofs!ConversationsAreServed` | `ImplementsCommandServer`, the refinement, if `OneAtATime` |
| `WsWriterProofs!WriterTypeCorrectness` | `[]WriterTypeOK` |
| `WsWriterProofs!NothingFollowsTheLastFrame` | `[]LastFrameIsLast`, if no goroutine writes a close frame with `WriteMessage()` |
| `WsWriterProofs!ConnectionIsAStream` | `ImplementsFrameStream`, the refinement, if `OneMessageWriter` (what `doc.go` asks for) |
| `WsSessionProofs!SessionUsesWriter` | `Spec => WriterSpec` |
| `WsSessionProofs!SessionEndsCleanly` | `[]LastFrameIsLast` for the daemon |
| `WsSessionProofs!SessionTypeCorrectness` | `[]TypeOK` |
| `WsSessionProofs!SilentPeersAreNoticed` | `[]SilentPeersAreClosed` |
| `WsSessionProofs!OnlySilentPeersAreClosed` | `CloseIsDeserved`, an action property |
| `WsSessionProofs!KeeperGivesUpOnTheDead` | `[]GivesUpOnTheDeadOnly` |
| `WsReaderProofs!ReaderTypeCorrectness` | `[]TypeOK` |
| `WsReaderProofs!TheApplicationGetsThePeersMessages` | `[]MessagesAreThePeers` |
| `WsReaderProofs!TheLimitIsForMessages` | `[]LimitIsForMessages` |
| `WsReaderProofs!TheLimitHolds` | `[](Moderate => NoneTooLong)`, its first half, from less |
| `WsReaderProofs!TheReaderKeepsInStep` | `[]HeadersAreHeaders`: only what the peer sent as a header is read as one |
| `WsReaderProofs!OnlyPayloadGetsThrough` | `[]OnlyPayload`: what the application gets is payload, unmasked with the byte of the key that belongs to it |
| `ServiceProofs!ServiceTypeCorrectness` | `[]TypeOK` |
| `ServiceProofs!SuccessIsReal` | `[]SuccessMeansDone` |
| `ServiceProofs!TogetherIsWhole` | `[]TogetherTheyLeaveAWhole` |
| `ServiceProofs!CommandsRepair` | `[]Repairable` |
| `HtdKeypadProofs!KeypadTypeCorrectness` | `[]TypeOK` |
| `HtdKeypadProofs!VolumesAreReached` | `[]VolumeReached` |
| `HtdKeypadProofs!TheTableStaysTrue` | `[]TableIsTrue` |
| `HtdKeypadProofs!SessionsStayApart` | `SessionsAreApart`, an action property |
| `HtdKeypadProofs!ChoicesStayInformed` | `ChoicesAreInformed`, an action property |
| `HtdWebProofs!WebTypeCorrectness` | `[]TypeOK` |
| `HtdWebProofs!BufferIsNotShared` | `[]FormIsMine` |
| `HtdWebProofs!SettingsAreAStore` | `Store!Safety`, the refinement without its fairness, if `Erases` |

The arguments:

* **ShortReads.** A read gives up early only if VMIN was 0 when it began. `IInv` adds to the
  property that whoever is past `init_audio` while VMIN is 0 has been interfered with
  (`VminZeroIsForeign`), that so has whoever waits with a timeout (`TimedReadIsForeign`), and
  what has been decided of a request by the place its process is at (`OnItsWay`).
* **EveryRunHandsOver.** `Handing` says of each place in a process how much it has handed over and
  what it still has in hand; with it every step of `SerialLink` is one of `CommandRun` or a
  stutter.
* **AnswersAreTooShort.** `SomebodyIsLeftReading`: when the answers on the line are no longer than the
  counts, somebody who has handed over a frame goes on reading. If all who have handed over a frame had ended, each would have taken at
  least one byte more than the answer to it has, and the line would have given more than the
  amplifier ever sent. The proof keeps an account (`Accounts`) instead of a sum over the
  processes: a list of balances, frame by frame, of what the answers brought less what their
  senders have taken, the last of which covers what is still on the way. `Counting` says that
  each frame has a sender of its own, who ends with all he wanted to count; so the balances
  would go down with every frame, and the last be negative.
* **ZonesAreApart, LanguageIsObeyed.** `EntryOfCode`: base of a zone plus offset of a command is the
  entry of that zone and that command, for all zones and commands, by the arithmetic of
  `codes[]`. What is left of the sum when one of them is out of range is gone through case by
  case.
* **NoCommandOutOfOrder, WholeLinesDoNotPanic, WholeLinesAreObeyed.** `Placed` gives each token
  that waits on the wire a line and a place in it, as two functions, and `Ordered` has them
  go on to the next place or to a later line. A read takes a piece from the front, so both
  are kept however it is cut; and a command is the first word of what is read only if it
  was the first of its line, for `NoLateCommand` says that no line has another. (A line such
  as `HELLO QUERY 1` cut after its first word is run as a query, which is why the hypothesis
  is needed.) A read that ends with a line and begins with a command has either that line
  alone, or words of a later one, and then it is too long: this takes `NoneShort`, that
  lines have all the words of their command. Without it `POWER` and the line behind it make
  up one command. What `strings.Fields` returns is given by a fold over the tokens; the
  lemmas about it (`SpelledFacts`, `SpelledLine`) are by induction on the length of the piece.
* **ConversationsAreServed.** `Talk` says what is on the wire, in the handler's hand and already
  run when one line at most is unanswered; with it each step of `Mca66d` is one of
  `CommandServer` or a stutter. The padding is a word more at the end of what is read
  (`PaddedLine`), and that is why `OneAtATime` excludes a line of its hypotheses: a bare
  `QUERY` lacks a word, the padding makes up for it, and the amplifier is asked for zone 0.
  Every other line short of a word panics, or is refused, as it would without the padding.
* **ConnectionIsAStream.** `StreamInv`: what each goroutine has in its call is what it has in
  the buffer (`BufferMatches`, `MarkMatches`: nobody else builds a message there), what is on
  the wire is what the calls have handed over (`StreamMatches`), and what a call is about to
  return fits that (`OutcomesMatch`). `FrameStream` keeps the order of the parts of a message.
* **NothingFollowsTheLastFrame.** Whoever tears a frame or writes a close frame has `mu` and
  keeps it until `writeErr` says so (`MuIsHeld`, `EndIsKnown`), and `writeErr` is read again
  once `mu` is taken. The messages may spoil each other's header in the shared buffer, so one
  has to know that no header there is ever a close frame's (`ClosesAreControls`). That is
  where the assumption comes in: with a close frame written by `WriteMessage()` and a racing
  text message the close frame goes out under the call for the text, and `writeErr` is not
  set. The daemon needs no assumption, for it never does so.
* **SilentPeersAreNoticed.** `KeepsTime`: a ping starts no later than the timeout after the last
  pong, not counting the time pings waited for the network, and the sleep after it is half.
* **OnlySilentPeersAreClosed.** `HearsPongs`: the last pong sent has been handled or is unread.
  A pong read before `keepAlive` has set its handler would break this; `NoPingYet` says that
  no ping, and so no pong, is there by then.
* **KeeperGivesUpOnTheDead.** `FailureIsKept`: a message that fails leaves `writeErr` set, and
  `writeErr` is set once. It leans on the keeper writing no control frames, whose calls may
  fail for want of time.

* **ReaderTypeCorrectness, TheLimitHolds, TheReaderKeepsInStep, OnlyPayloadGetsThrough.** Three
  invariants. `Framed`: each byte on the wire is followed by the next of
  its frame, and the last of a frame by a header; it is put in a closed form, by place and not
  by recursion, so that it needs no induction. `At`: `readRemaining` and `readMaskPos` fit the
  first byte on the wire, also between the calls and after a message has been abandoned.
  `Counted`: what an application has of a message, with what is left of its frame, is at most
  `readLength`, which is at most the limit.
* **TheApplicationGetsThePeersMessages, TheLimitIsForMessages.** `InOrder`: there is a number h of
  frames that have been taken (`Placed` ties it to the first byte on the wire), and beside the
  messages that these make (`Taken`) the application has the same number, each as far as it was
  read; what is missing of the one being read is the rest of frame h (`Owed`), and if none was
  abandoned `readLength` is its length. That none was abandoned also excludes that a fragment
  is counted to the next message, the one way the limit can refuse what keeps to it. Frames
  that follow add to the messages (`SofarGrows`, `SofarMore`, by induction on the frames).
* **SuccessIsReal.** Each method is followed step by step (`Edge` is the table of what comes after
  what): `Diligent` says that a command that is alone finds at its next step what that step
  relies on (`Ready`), for the steps before have seen to it, whatever was there at the start;
  of the links only if no call has failed unnoticed.
* **TogetherIsWhole.** `Attended`: whatever the unit file lacks (its content, its mode, its being
  enabled), somebody is on the way to give it (or, if it is not enabled, to take the file away).
  Without faults whoever is on the way arrives. Of the links and of what enables a unit the same
  is true (`Clean`) as long as those who make them and those who take them away never meet
  (`Apart`), for who makes a link does not notice that an old one is in the way.
* **CommandsRepair.** `Course` follows the four commands through a machine nobody else touches,
  from whatever is there: stop ends what runs or finds nothing, remove takes away what is left
  of the unit and its links or finds none, so install finds a free place and start a whole
  unit. Only for Windows is an invariant needed (`MarkedRuns`): a service that is marked for
  deletion is one that runs, so that stop gets rid of it.
* **VolumesAreReached.** The volumes of the amplifier are put on a line (`Pos`), on which a command
  is one step; `Way` says that the position plus the steps left is the one asked for, and
  `Steps` that they fit the rounds of the loop. The two volumes shown as 1 are what the extra
  steps of `Delta` are for.
* **TheTableStaysTrue, SessionsStayApart, ChoicesStayInformed.** `Truth` says when the table is the
  amplifier's; `RequestInHand` ties the selection and the zones still to be sent to to the page
  that was submitted; `Informed` ties the source to be set to what the page shows.
* **BufferIsNotShared, SettingsAreAStore.** `OneHolder`: at most one task is past `Enter`, and none
  while `Main` saves; `Received`: the buffer holds what the holder has received, as far as there is room; `Saving`: the
  page has the key and the names in use, or somebody is saving and has written the first `pos`.

Only model-checked: all liveness properties (`EveryRunEnds`, `LinesAreAnswered`,
`ControlsReturn`, `OnlyASilentPeerHoldsUp`, `OnlyTheServiceHoldsUp`, `OnlyTheClientHoldsUp`, and
the fairness of `ImplementsStore`), which are out of the prover's reach. Every invariant and
action property that a passing run checks is a theorem, some under the hypotheses in the table.

Induction. The library's induction theorems take an operator as a parameter, which the provers
cannot instantiate. `NatSet` (of `Mca66dProofs`, `CntlProofs`, `ServiceProofs` and
`WsReaderProofs`, for none of them extends another) is induction over the numbers as a statement
about sets, from `WFMin` of `WellFoundedInduction`. It gives what the lemmas about `FlattenSeq`
use, the accounts of the serial line, the course of a command, and the messages of the peer
frame by frame.

## 5. What is not modelled

* `cntl.ly`, `cntl.deprecated`, `interface`, `webui`, `testclient`: earlier versions, layout, a
  manual client.
* gorilla's client with its masks, proxy, compression, JSON, the pool of write buffers: the
  daemon does not use them. (Neither does it use `NextWriter` and prepared messages, which are
  modelled for what they share with the rest.) Lengths of 16 and 64 bits, which differ in how
  the header is read and not in what is done with it.
* `Run` and `Execute` of the Windows service, which the daemon never calls.
* Functions of `htd.c` that nothing calls: `process_form_tags`, the volume buttons of a group,
  `serialSendRcv`. What the pages look like.
* File descriptors and other limits of the operating system; the 1024 bytes of the TCP buffer
  (lines are much shorter); logging.

What could be added: from `Mca66d` and `SerialLink` together, that an invocation that the daemon
has let run to its end was not jostled; and the writing side with `NextWriter` under two
goroutines that take turns.
