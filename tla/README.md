# TLA+ verification of AES128-Verilog

TLA+ models of the AES-GCM hardware core of this repository, of the engine that
gives it a packet interface and of the host software that drives both, TLC runs on small instances, and TLAPS proofs for every
size. `PROJECT.json` lists components, runs, mutants, hazards and theorems, and
names for every definition the source lines it stands for.

## 1. The system

Hardware (`src/RTL`, `src/realtime_env/rtl`):

| Component | Source | State it keeps | Operations | Talks to |
|---|---|---|---|---|
| Counter-mode path | `AES-CTR/`, `AES_256_CTR/` | counter, IV, J0, type register, NR + 2 pipeline registers, 16-entry FIFO, output register | load key / IV / block, emit H, keystream, E | key registers, tag unit, control unit |
| Key expansion | `Key_Expansion/`, `Key_Expansion_256/` | round keys, index, finish flag | one round key per clock while `expansion_en` | pipeline, control unit |
| Tag processing | `GCM-GHASH/` | H, E, tag_ref with their loaded flags, hash, byte counts, tag | absorb AAD / CT / length word, form and compare the tag | control unit |
| Control unit | `CU/CU.sv` | one of 11 states | ready outputs, `finish` | everything |
| Core top | `AES_GCM.sv`, `AES_256_GCM.sv` | none of its own | wiring, `finish_reset` | the user on its ports |
| Engine, parser, builder, FIFO, links | `rtl/common/` | registers, block memories, timers, two clock domains | commands in, answers out | core, wires |

Host (`src/realtime_env/host`):

| Component | Source | State it keeps | Operations | Talks to |
|---|---|---|---|---|
| Protocol, framing | `protocol.py`, `framing.py` | none | build, split, batch, parse; pad, chunk, advance the IV, join | all below |
| Software IP | `gcm_model.py` | one loaded message | execute one packet | links, emulator |
| Exchange | `links.py` | window of commands, answers read | send a window, read and compare its answers | board, file modes, camera |
| SPI host | `spi_link.py`, `spi_frames.py` | decoder buffer | CLEAR, DATA, READ frames | SPI slave |
| UART client | `uart_client.py` | position in a vector | resync, send a packet, wait for its answer | board |
| Emulator | `emulator.py` | a process: wire, radio, due times, late count | answer a burst on a link's schedule | host, over a pipe |
| File modes | `cli.py`, `packet_file.py` | stream, answers, output file, IV of the next image | raw file, raw message, images in turn | exchange |
| Camera | `camera.py`, `pipeline.py`, `codec.py` | three stage threads, two queues, a failure, encoder and decoder references, IV | compress, exchange, decrypt, stop, drop | exchange, window |
| Window | `camera_view.py` | playback, picture, failure hold | take results, redraw, close | main thread |
| Menu | `menu.py`, `cli.py` | link, port, used (key, prefix) pairs | ask a round, run a command | all modes |
| Run log | `run_log.py` | one global log | start, frame, line, finish | every thread |

Hard behaviours. *Inside the core* nothing is queued or acknowledged:
correctness rests on counts of clocks. A word in the FIFO and its counter block in the
pipeline meet only because both ways are equally long; H is encrypted while its
round keys are being written; registers of one message are cleared in a single
clock, which must not come before the last token has left; the FIFO has no full
flag and AES-256 uses every entry; the 32-bit counter must not wrap. *In the
engine* four state machines run beside each other and tell each other things by
strobes of one clock: a packet may arrive while the one before is executed or
answered, stop in the middle, or load more blocks than four bits count. *In the
host* they are those of protocols and threads: answers that are late, cut or
left over from a run that failed; a parser left in the middle of a packet by a
killed program; IVs that must never meet under a key whatever is dropped, fails
or is repeated; three threads waiting in queues for each other when one of them
fails; a decoder that depends on frames that may not arrive; a global log used
without a lock.

What makes each component correct, in a sentence. The counter path pairs every
word with its own keystream block and never uses a counter twice; the key
schedule never lets a block meet another key's round key; the tag unit absorbs
each word exactly once, in order, the length last; the control unit ends
a message only when nothing of it is left, and always ends it; the core
together is GCM. The engine executes the packets it accepts, refuses the others
by name, sends each answer whole and in order, and always listens again. An exchange returns the answers of its own commands or fails;
a file comes back as it was, and not at all when something of it was changed; a
fault is felt no longer than the link keeps its traces; no two messages share
an IV under a key; the camera ends whenever it should, accounts for each
frame, and shows no picture that did not pass; a session never repeats a pair; a log
belongs to one run.

## 2. Modules

Hardware:

| Module | Models | Notes |
|---|---|---|
| `GcmTypes` | constants and data | a word is the term that made it: AES is a free constructor on (block, set of round keys met), XOR a pair, GHASH the sequence absorbed |
| `KeySchedule` | `KeyExpansion*.sv`, `Counter*.sv` | `KeyWords` = 1 is AES-128, 2 is AES-256; a round key is named by the cipher key it derives from |
| `AesCtr` | the counter-mode path | `CtrStep` is one clock edge of every register; `CtrSpec` is the path alone under a constrained driver |
| `TagProcessing` | `TagProcessing.sv`, `GHASH.sv`, `LengthBlockCounter.sv` | `TagStep` is one clock edge |
| `CU` | `CU.sv` | `CUStep` has one disjunct per state and condition |
| `GcmSpec` | (abstract) | what the core promises: open, words in and out in order, verdict |
| `GcmCore` | `AES_GCM.sv`, `AES_256_GCM.sv` and a user | composes the five above; `Clock` is one edge of the whole core |
| `CommandSpec` | (abstract) | what the engine promises the host: packets executed, refused or dropped, answers in order |
| `Engine` | `aes_gcm_engine.sv`, `packet_parser.sv`, `packet_builder.sv`, a host and a link | `Clock` is one edge of all of it, `CU` included; implements `CommandSpec` |
| `CoreTiming` | (observer) | two stopwatches over `GcmCore` |
| `AesCtrInv`, `GcmCoreInv`, `GcmCoreProofs` | (strengthenings, proofs) | theorems about `CtrSpec`; the invariant of the whole core and what follows from it: types, the counter path, the service; the latencies |
| `EngineData`, `EngineProofs` | (strengthening, proofs) | strobes, requests and bytes of the engine are taken; it implements `CommandSpec` |
| `SequenceLemmas` | (proofs) | `FlattenSeq`, whole blocks, parts of sequences, and the least counterexample by which they are shown |

Host:

| Module | Models | Notes |
|---|---|---|
| `Protocol` | `protocol.py` | packets, and their bytes on the wire |
| `GcmModel` | `gcm_model.py` | what a packet loads, answers and clears. A byte is a set of atoms and XOR the symmetric difference, so that encrypting, decrypting and flipping a bit compose; a tag is the tuple of what it authenticates |
| `Framing` | `framing.py`, parts of `links.py` | padding, chunks, IVs, windows, splitting and joining; what is refused |
| `Transfer` | `links.py` | one exchange: windows sent, answers read one by one and judged; faults of the link |
| `RawMode`, `ImageMode` | `cli.py` | the two file modes over the software model and over `Transfer` |
| `SpiTransfer` | `spi_link.py`, `spi_frames.py` | frames and status bytes, byte by byte |
| `UartClient` | `uart_client.py`, timeout of `packet_parser.sv` | several programs in a row on one board |
| `Emulator` | `emulator.py` | server, wire, radio and pipe on an integer clock |
| `FrameQueue` | `pipeline.py` | a queue as a value, its methods as operators with their waiting conditions |
| `CameraView` | `camera_view.py` | what a redraw keeps of the frames due |
| `Camera` | `camera.py`, `codec.py`, `pipeline.py`, `camera_view.py` | source, three stages and main thread over the two modules above |
| `Session` | `menu.py`, `cli.py` | rounds of a menu session, the lock of the command line, the pairs used |
| `RunLog` | `run_log.py` | main thread and stage threads over the global log |
| `LinkProofs` | (proofs) | results and sessions of the UART client; what is decoded of an exchange over SPI |
| `FileProofs` | (proofs) | what a file's stream carries, and its IVs; the window of an image's exchanges |
| `SessionProofs`, `CommandProofs` | (proofs) | menu sessions; sessions, logs, file streams and windows of the commands run |
| `CameraProofs` | (proofs) | IVs, decoder and key frames; types, frames and window |
| `MCCommands`, `MCLinks` | (harnesses) | the host modules (in `MCLinks` the engine too) side by side: one *part* is chosen at the start and runs, the variables of the others rest at an initial state. Each action of a part is a disjunct of its own, guarded by the part |

Correspondence, hardware. Names are those of the RTL. Each action of `GcmCore`
other than `Reset` is one rising edge of `clk` with the strobes the action
names; a combinational signal is an operator on the unprimed state; a register
update is a conjunct on the primed variable. The asynchronous `finish_reset`
clears its registers at the edge that enters FINISH and holds them cleared
through that clock: `clear` in `Clock` is therefore true at both edges. The
asynchronous `H_reset` rises with `load_key`; `HStep` clears H at the edge that
samples it, one clock early or late being invisible because nothing reads H in
IDLE. `Reset` drops and raises `rst_n` between two edges. The FIFO memory has no
reset in the code and keeps its content in the model; its undefined power-up
content is a word that belongs to no message (`ZeroWord`), so reading an
unwritten entry would violate `KeystreamMatchesWord`. `fetched` is history.

`Engine` is modelled in the same way: `ParserStep`, `BufferStep`, `CaptureStep`,
`FsmStep`, `BuilderStep` are one `always_ff` block each, all conjuncts of `Clock`.
Below `CU` it has no pipeline: `CoreStep` keeps the words it was given, takes any
number of clocks for each thing it owes, and computes what `GcmModel` does (that
the pipeline does so is `core`'s business). Bytes arrive, the core finishes
and the transmitter moves on in the clocks in which `outside` holds; one choice
for the three of them, because no state machine of the engine waits for two of
them at once. The transmitter may report busy with the byte or later, as the SPI link and the
synchronised UART do. `line` is the link and the receive queue. A register nothing
reads before it is written again is shown empty (the message words after an
answer, the builder's value when idle), block memories stop at their count, and the blocks captured
stay only until they are sent; these cut the state space and hide nothing that can be
read. The inactivity timer is not counted: it runs out when a packet was
cut and everything else is at rest, being far longer (10 ms) than an answer. A link
that holds `tx_busy` for longer than that (SPI with a full FIFO that no frame empties) is outside the
model. The refinement maps `model`, `due` and `answer`, three histories: a packet
counts when its strobe reaches the buffers, an answer when its last byte has left.
`CommandSpec` departs from `gcm_model.py` in one thing: a second LOAD_AAD or
LOAD_PLAINTEXT appends to the first in the RTL (and the sixteenth block wraps the
counter), while `gcm_model.py` replaces it. The host never sends two for a message.

The core's user presents inputs only on ready outputs, may pause in any
clock (`Wait`), may load a key alone, a key with an IV, or an IV for the key in
place, and presents a right or a wrong tag reference. `aes_gcm_engine.sv` is one
such user, more restricted; the map points the user's actions to its states.
Two duties of the user are not announced by any output of the core:

* `HoldDataLast` / `LastDue`. `CU.sv` looks at `data_in_last` only in LOAD_DATA,
  so the last strobe of a one-word message must be presented again, and each
  presentation sends J0 down the pipeline. The model's user presents it no later
  than the clock in which `data_out_last` is high. Without that deadline the
  extra J0 is still in the pipeline when the message ends
  (`process_finish` sees neither `gen_J0` nor the time it needs) and
  becomes the E of the next message, whose tag is then wrong. The engine holds
  it in the next clock (`WRAP_HOLD_PT_LAST`), well inside the deadline.
* `LoadIV` excludes the clock in which WAIT_H_CAL leaves for FINISH: `IV_ready`
  is high there but the IV would be cleared unused.

Correspondence, host. Names are those of the Python code where TLA+ allows.
A step of a thread ends where it touches state another thread or process uses:
in `Camera` one action per critical section of a queue or of the stream's lock
(and two for the unlocked `failure = failure or error`), in `RunLog` one per
read of the global `_active`, in `Transfer` one per answer received, in
`SpiTransfer` one per frame. An exception is a step to the handler its function
or thread has. A queue's `wait` is the guard of the step behind it. History
variables (marked so where they are declared) are read by no action.

* `Transfer` sends each window at once and then reads its answers; the link keeps
  order, may lose an answer, cut it or change a bit. A serial port and the
  emulator keep what was not read; SPI begins with CLEAR. The bridge is, for the
  host, an ordered link like the serial port and shares its channel value.
* `UartClient` models the operating system's buffer, the way to it and the
  parser with its inactivity timeout; a program may be killed between any
  two bytes, and the next one opens the port and resynchronises.
* `Camera`'s frames are `[seq, key, chunks]`; IVs are numbers from the run's
  first. JPEG frames need no other; H.264 frames need the one before, unless
  key frames.
* `Session` follows a pair (key, first 8 bytes of IV). The last 4 bytes count
  messages within a run, which `Camera`, `ImageMode` and `RawMode` follow.

## 3. Runs

| Run | Instance | Checks | Shows |
|---|---|---|---|
| `ctr_path` | NR 1, DEPTH 3 (exactly NR + 2), CtrMax 3 | `CountersDistinct`, `CtrInv` | the invariant of the proofs holds under every driver, reset and overflow included |
| `core` | 2 keys, 2 IVs, NR 2, DEPTH 4, <= 1 AAD and <= 2 data words | `CoreTypeOK`, `KeyFresh`, `Drained`, `ImplementsService` | the core implements GCM for sequences of messages without bound |
| `core_256` | 2 keys, NR 3, KeyWords 2, DEPTH 5, <= 5 data words | `KeystreamMatchesWord`, `ImplementsService` | the AES-256 schedule; the FIFO fills to its last entry and wraps |
| `core_reset` | 2 IVs, NR 1, `Resettable` | `ImplementsService`, `DrivesCounterPath` | a reset in any clock leaves nothing behind; control unit and user keep `CtrSpec`'s assumptions |
| `core_overflow` | CtrMax 2, <= 3 data words, fairness | `OverflowIsFinal`, `Completes` | every message ends with a verdict, except one too long for the counter, which only `rst_n` ends |
| `core_timing` | NR 10, DEPTH 16 (real size) | `Latency` | exact latencies |
| `commands` | see below | 11 properties | file modes, menu sessions and logs |
| `links` | see below | 8 properties | SPI, UART, emulator, and the engine against `CommandSpec` |
| `camera` | 7 command lines, 4 frames of 1 or 2 messages, 5 IVs, fairness | 8 properties | the camera's stages, queues, IVs and window |
| `doc_timing` | NR 10, DEPTH 16 | `DocumentedLatency` (violated) | finding, section 5 |
| `image_iv` | 3 images, 1 fault | `IVFresh` (violated) | finding, section 5 |
| `camera_first` | 2 errors | `FirstErrorKept` (violated) | finding, section 5 |

**Core.** `NR` and the FIFO are small because what matters is the distance between the two
ways and the FIFO's depth relative to it. A message is longer than the pipeline in `core_256`
and `ctr_path`, so the path is full, draining and refilling; messages follow each
other without bound in every run of the core, so left-overs of any
message meet any other; two keys and two IVs tell "this message's" from
"another's". In `ctr_path` two action constraints keep the graph small: the key
schedule rests (`KeysRest`; the pairing does not depend on it) and
`data_in_last` comes only with a word (`LastWithWord`); the proofs have neither.
`core_timing` stops after three words have gone through the FIFO (`FewWords`),
the pointers being otherwise alike under rotation.

**`commands`** chooses one of six parts:

* *raw*: files of 0, 1, 2, 5 and 8 bytes with blocks of 2 bytes and at most 2
  blocks a message (empty, part of a block, a block, blocks and a rest, several full
  messages), `--chunk_blocks` 0 to 3 (two of them illegal), AAD of 0, 1 and 5 bytes
  (the last too long), IV counters 0, 6 and 7 of 8, tampering with any chunk,
  an output file of an earlier run or none; messages of the same boundaries. `StreamCarriesData`: the
  stream carries the file, each chunk under an IV of its own. `StreamReadBack`: windows neither
  lose nor repeat a command, and the bytes on the wire parse back only when whole. `OnlyGenuine`: the
  output is the file, or there is none, and a single message's outcome is the software IP's.
* *image*: images of 2, 1 and 2 chunks in one command, windows of 1 and 2
  messages, three kinds of link, up to two faults anywhere. `OkMeansEncrypted`:
  an image is OK only when the IP has encrypted each of its own chunks.
  `FaultContained`: over SPI only the image with the fault fails; elsewhere
  no image before it. `InFlight`: never more than a window of messages is in flight.
* *menu*, *session*: three rounds with two keys and two prefixes without
  `--advanced`, two rounds with one key and two prefixes with it. `PairsUsedOnce`: no
  pair encrypts twice, however each run ended. `MenuAccepted`: no line the
  menu builds is locked out, and one is refused only for a side of 0 or above 65535 or for data too long for a message, which
  the menu does not check. Lines carry the values the later checks look at: sides of 0,
  65535 and 65536, 12, 16, 240 and 241 bytes (every limit of the menu and of the command line, at
  it and beyond it; a key of 32 bytes passes the same checks as one of 16), and a name that argparse may read as an option, of which
  the property says nothing.
* *log*, *late*: two runs in two seconds, two writers of one frame each, which in
  *late* may outlive their run. `ClosedIsFinal` and `OneLogPerRun`.

**`links`** chooses one of five: *spi* (frames of 3 bytes, so that every packet is cut
somewhere, data with zeros, two retries, an answer left by an aborted run, a status that overflows or is absent);
*uart* (three programs, three vectors with different keys and AAD, one
with a wrong tag, two faults: a kill or a lost answer); *radio* and *wired*
(two bursts, costs that share the radio, clock up to 30; 16 ticks, the host's
wait, exceed every burst, so a wait that ends without an answer means a late one);
*engine* (blocks of two bytes, block counters that end at 3 instead of 15, loads of
three blocks of data and two of AAD, keys of this and the other variant, a ragged load, an unknown opcode,
the tag of one of the messages; the order of packets is free but for the key and IV that come
first, and each may be cut anywhere; a packet may be on its way while the engine works or answers). `ImplementsCommands`: the refinement.
`HandedOver`: no strobe, request or byte goes to a part that does not take it in that clock. `DecodesAnswers`: the host decodes the
answers of this window, byte for byte, and never an incomplete window as complete. `EveryExchangeEnds`: also, the engine gets ready again with every answer sent.
`OwnResult`: what a vector returns is what the IP computes from that vector. `FreshStart`: after a resync
that worked only a fault of the session's own makes it fail. `EmulatedTimes`: when the last answer
of a burst is due all are, and nothing arrives before its bytes could.

**`camera`** has seven command lines: live or file source, JPEG or H.264, with and without
`--fps`, a limit of frames, a window, the FPGA decrypting, tampering with every
second frame, and at most one error in any stage. Five IVs for up to eight messages: the counter
runs out within a run. `CameraIVsUnique`; `DecoderFollows`: no frame reaches a
decoder that lacks its predecessor; `KeyComes`: a decrypt stage that waits for a
key frame has one on its way or asked for; `FramesAccounted`: each frame is published or counted as dropped;
`PanelHonest`, `FailuresShown`: no picture but that of a frame that passed, no failed frame skipped;
`StagesEnd`: every stage ends, whatever another one waits for.

No symmetry is declared. Bounded quantities: counters (`CtrMax`, `CounterLimit`:
the code has the same bounds, 2^32), words of a message (`MaxAAD`, `MaxData`), stopwatches
(`Limit`), faults (`MaxFaults`, `errors`), rounds, sessions, runs, seconds, frames and the emulator's clock
(`MaxRounds`, `MaxSessions`, `MaxRuns`, `MaxSeconds`, `MaxFrames`, `FrameCount`,
`MaxTime`).

Deadlock is checked in every run. Where a program may end, `Stopped` or
`Terminated` is an explicit step that asks that it has really ended.

Fairness, each WF only:

* `GcmCore.FairSpec`, `WF(Tick)`: the clock runs, and a user who could act
  does not stall forever. No fairness is asked of a particular input.
* `Camera.FairSpec`: each stage thread, each thread's handler, the camera's grabber and the
  main thread's loop. They are operating-system threads whose waits end by
  `notify_all`; the `with self._condition` loops make a thread whose condition holds continue. The user's closing the window and
  errors have none.
* `LinksSpec`: the SPI host (it runs a loop of its own), a UART session that is
  not killed, the passing of time, arrival of what is on the way, and for the engine
  `WF(Clock(TRUE))`: its clock runs and neither core nor link is slow for ever. The
  faults, a kill and the next start have none.

Mutants: each property of each run has a definition named in `PROJECT.json`
which replaces one mapped definition by a plausible bug (a pointer that wraps
early, a register not cleared, a CLEAR not sent, a flag reset at the wrong time,
an IV that moves too late) and makes TLC report that property. They stand before the
definition they change and are marked `Mutant`.

## 4. Proofs

**`GcmCoreProofs`, the counter-mode path**: of `CtrSpec`, for all constants satisfying `GcmAssumption`
(any `NR`, any `DEPTH >= NR + 2`, any `CtrMax > 0`): `CtrInvariant`,
`CtrTypeCorrect`, `KeystreamCorrect` (every keystream block leaves the pipeline
in the clock in which its own word stands in the FIFO's output register) and
`CountersAlwaysDistinct`.

`KeystreamMatchesWord` speaks of the end of both ways; it is not
inductive. `CtrInv` follows the blocks: those loaded and not yet fetched are
numbered `fetched + 1 .. CTR_counter`; they are in the pipeline registers in
order (`BlocksInOrder`), all of them (`NoBlockMissing`), none other
(`BlocksLoaded`); and their words stand in the FIFO from `r_ptr` on in the same
order (`FifoInStep`). The block that reaches register NR is then the oldest, and
`data_req` fetches the word at `r_ptr`, which is its own. That no unread entry is
overwritten is the conjunct `CTR_counter - Number(s) <= s + 1` with
`DEPTH >= NR + 2`: the newest block in flight is at most NR + 2 loads ahead of the
oldest. This is where the missing full flag is paid for: 16 >= 10 + 2 and
16 >= 14 + 2, the latter with nothing to spare. `BlocksApart` keeps J0,
counter 1, away from the data blocks, whose counters are 2, 3, ... and, for the
last one before overflow, 0. `CtrSpec` is the path under any driver that keeps four
assumptions (no load at counter overflow, none together with a key, an IV or the
clearing, the IV stable under loaded blocks, clearing only when no block is
pending). The core keeps them: `PathDriven`, below.

**`GcmCoreProofs`, the whole core**: `CoreInvariant`, the invariant of the whole core, for every `NR`,
every `DEPTH >= NR + 2`, every counter width, any keys, IVs and messages, one or two key
words, with and without resets, and every user of the handshake (section 2). The
safety properties of `GcmCore` are about registers of four units at once and none is
inductive; `CoreInv` (module `GcmCoreInv`) says, for each state of the control unit,
what is on its way and how far the message is:

* `MessageInStep`, `WordsInStep`, `TagRefInStep`: user, control unit and message registers
  agree. Among them that nothing of a message is set in IDLE but H, which is
  what makes messages independent.
* `KeyInStep`: while the key is expanded one H token is alone in the pipeline, and its
  position is the number of round keys there are (`HAlone`); this is why every round key
  exists in the clock in which the block meets it. With two key words one key more is ready.
* `TokensInStep`: outside the expansion tokens move only in LOAD_DATA and
  WAIT_PROCESS_FINISH, and each has met the one key. `process_finish` looks at the valid inputs
  of the pipeline registers only; that this suffices is proved from here and from `ResultInStep`
  (the J0 sent latest reaches E before the tag can be formed).
* `OutputInStep`, `AnswersInStep`, `HashInStep`: words are fetched, answered, hashed and
  taken one clock after the other, so the counts differ by the valid flags between them, and the
  hash is that of the first so many words of the message.
* `ResultInStep`, `VerdictInStep`: tag and verdict are the message's own.

With `CtrInv` as one conjunct, each edge of the path is a step of `CtrSpec`; there is a lemma for
what each unit does in a clock, and one for each conjunct of the invariant. Every user
action is first shown to be a `Driven` clock (`Clock` with strobes on ready outputs),
so that the twelve actions are treated as one.

From it, in the same module: `CoreTypeCorrect`; `KeyAlwaysFresh`; `AlwaysDrained`;
`PathDriven` (the core drives its counter path as `CtrSpec` allows, and so
`CoreKeystreamCorrect`, the theorems about the path inside the core); `OverflowForever`, for
cores without resets, because `rst_n` is the only way out; and `CoreImplementsService`, the refinement: each
clock is a step of `GcmSpec` or a stutter, so every answer is the encryption or decryption of the
message presented, with the right tag or verdict, in order, once. Beyond `GcmAssumption` the
theorems assume what `CoreAssumption` and `NamesAssumption` say: some key and some IV exist, a
message has at least one data word (the core has no other), and the values that stand for "no message", "no verdict" and
the cleared key are none of the real ones.

**`GcmCoreProofs`, the latencies**: `LatencyExact`, for every `NR` and every traffic. A stopwatch reads the
position of a token: H is at position `sinceKey - 1` of its way (`KeyTimed`), the last word's block at
`sinceLast - 1`, the J0 behind it, and the length word, the hash and the tag follow a clock each
(`LastTimed`).

**`SessionProofs`**: `PairsNeverRepeat` and `MenuLinesRun`, for any keys, prefixes and number of rounds, with and
without `--advanced`, and for `MenuLinesRun` any sides, lengths and limit of a side (`SideLimit`, 65536 in the code): the lemmas
`OptionsFit`, `LinkOptionsFit` and `TypedFits` say of each mode which options and values its line may have, and
`AskRoundAccepted` compares them with the lock, the parser and the checks of the modes. The invariant adds that a pair that has encrypted is in `used`
or belongs to the run under way (`Accounted`), and that the pair of the command
about to run is new (`PairIsNew`); for the lines of the menu, that without `--advanced` the link is
still the first one (`MenuInv`).

**`CommandProofs`**, of `CommandsSpec`, in which the commands run side by side:
`MenuAlwaysAccepted` (the claim of `MenuLinesRun`) and `CommandPairsNeverRepeat` for both sessions (an instance of `SessionProofs`
without `--advanced` serves the menu), and for the logs `LogsBelongToRuns` and
`ClosedForever`, for any number of runs, seconds, frames and threads (finitely many at a
time). `SuffixIsFree`: among one suffix more than there are logs one is not taken, by the
pigeonhole principle, so the loop that looks for a name ends. `LogInv`: the run under way has
its log open and the global names it; when nothing runs nothing is open. `Calm`, for
runs that wait for their threads only: a thread works for the run that is open, and the rows of a log are its
lines and one for each thread that stands between the two writes (`Levelled`). With stragglers `Calm`
is false, and `OneLogPerRun` does not claim it. `StreamsCarryData` and `WindowKept` are
the theorems of `FileProofs` for the commands run, each with its own sizes: `SameStreams`, `ImageStepsAre` and the lemmas before them show, definition
by definition, that a step of the run is one of the module the theorem is about.

**`FileProofs`, "raw"**, of `RawMode`, for any files, IVs, AAD, block size and number of blocks that a message may have (`RawAssumption`: blocks have
bytes, files are sequences, an IV's counter is below its limit; the commands run satisfy it by `RawValues` in `CommandProofs`): `StreamCarriesAlways`, that is `StreamCarriesData` and `IVsUnique`. That the stream is `build_tx` of the arguments
is the invariant (`RawInv`); the rest is about the operators:

* `SplitOneMore`: one more packet of a stream is one more step of `split_tx`. The fold of the community modules is a recursive function on sets of positions; that it exists, and
  depends on the positions before only (`SplitExists`, `SplitAgrees`), is shown by the least number that would refute it, as in `SequenceLemmas`. `SplitStream`: the messages read back from a stream are the ones put in.
* `CountIs`, `PieceIs`: the chunks of a file overlap nowhere and end with its last byte; `PadCount`, `PadIs`: padding fills the last block and adds nothing to a full one; `PaddedFits`: no chunk
  outgrows the blocks asked for by being padded.
* `StreamCarries`: the whole chunks in a row are the beginning of the file (`FlattenBlocks`), and the last one ends it.

**`FileProofs`, "image"**, of `ImageMode`, for every list of images, kind of link, tampered chunk and number of faults, and windows that hold at
least one message (`ImageAssumption`; in the commands run `WindowAssumption`): `InFlightAlways`. A count of messages is not inductive: whether one
more may be sent depends on what earlier windows, and earlier exchanges, have left. The invariant `ImageInv` has five parts:

* `CountOk`, the bound: what is under way (`Way`: starts not yet executed and tags not yet read) is at most what is still awaited, and that is at most
  a window. It holds until a fault, and over SPI after it as well, where the CLEAR of each exchange empties the queues.
* `LinkOk`: nothing is read before it was asked for; each group has at most a window of starts. `Batches` is a fold, treated as the
  recursive functions are (`FoldsExist`, `BatchOfMore`, `BatchesAre`): its groups in a row are the stream, so nothing is lost or sent twice.
* `SmoothOk`: without a fault each command under way is answered by exactly what the host expects of it (`Answering`, `ReadOn`, `Executed`), so that after
  the last answer both queues are empty. `Primed` is why: a start always finds its data and its tag loaded, else the IP would answer
  with an error, the host would stop reading, and the rest of the window would be in the way of the next one.
* `PairedOk`: the data of the second stream, the decryption, are answers of the IP to the first. `PairedOk` counts them (a tag for each message, right
  behind its ciphertext, neither empty), and `AnswersComplete` concludes that the stream the host builds of them is `Primed` in turn.
* `ImageOk`: an image is encrypted only when `build_tx` does not refuse it (`BuiltServes`: its stream then is one that can be served).

**`LinkProofs`, the UART client**, of `UartClient`, for any list of vectors, payload length, parser timeout, sleep of at least
that timeout (`UartAssumption`: 10 ms and 50 ms in the code), number of programs and of faults:

* `ResultsAreOwn` and `FreshStartAlways`, from `UartInv`. `Opening` says why the parser is idle when the client's first sleep
  ends, wherever the last program was killed: what is left of the sleep and the time the parser has waited together
  reach its timeout (`quiet + sleep >= ParserTimeout`); and that the two zeros are one refused packet.
* `LoadedUpTo(v, s)`: while packet `s` of a vector is due the engine holds what the packets before it loaded,
  and nothing of an earlier program that a start would use, because `LOAD_KEY` and `LOAD_IV` clear the rest.
* `PendingOwn`: what is on the way or in the input buffer is of this packet and in the order in which the engine
  gives it, each at most once (`Rank`); without a fault since the port was opened it is all of it. Since `execute`
  names the answer it waits for, a lost answer makes it fail and never makes it take another (`TakesNext`).
* `Stale`: a resync that failed half way may leave the refusal of its zeros, which `execute` takes for no answer.

**`LinkProofs`, SPI**, of `SpiTransfer`: `AnswersDecoded`, for any answers (`SpiAssumption`: an opcode that is not the idle byte, and bytes; `MCLinks`
has TLC evaluate it), frame length and number of READ frames, and whatever an aborted run left queued. What `Feed` gives is shown without
unfolding its recursion further than one step: `FeedIdle`, `FeedWaits` and `FeedPacket` say what it does with the first byte, and `FeedTogether`, by the least
counterexample, that bytes decoded in two parts give what they give at once. `SpiInv` then looks at all bytes on their way, the decoder's rest, the frame's
and the queue's, in a row (`OnWire`): decoding them leaves nothing over, and the packets received, decoded, on their way and still to be queued are
together what is expected, or fewer, and then the status says so. An end of a frame changes nothing of that (`FeedTogether`), a zero
clocked in from an empty queue is idle because it comes behind whole packets (`FeedZero`), and a packet queued is one more (`FeedAnswer`).

**`EngineProofs`, what is handed over**, of `EngineSpec`, for any buffer sizes, any packets of the host, whole or cut, and any number of clocks
that the core and the transmitter take: `HandedOverAlways`. A strobe, a request or a byte handed to a part that is busy is lost
without a trace in this code (no wait, no retry), so that it never happens is what its answers rest on. `EngineInv` is about the registers of control only,
and so needs no assumption about a count or length:

* `Strobing`, `Asking`: a packet is taken in while nothing else moves. A strobe of the parser meets no request, and where it starts
  the FSM the parser settles for one clock in which the FSM is in `IDLE`.
* `Building`, `Sending`: the builder rests in every state of the FSM that does not wait for it, at most one of the two requests stands, and a
  byte is given to the transmitter only after the one before it has left.
* `Driving`: for each state of the FSM, the inputs of the core it holds and the states the control unit may be in. The FSM
  reads `ready` one clock before its strobe arrives; this says that the control unit has not moved in between.
* `Finishing`: a tag stands only after the last word, and the verdict of a message is not read while that of
  the message before may still be in `capture`, so that `verify_checked` falls when `VERIFY_PASS` waits for it.

**`EngineProofs`, the refinement**, of `EngineSpec`: `EngineDataAlways` and `EngineImplementsCommands`, the refinement, for any block size, number of blocks
that the buffers hold, packets of the host in any order, whole or cut anywhere, and any number of clocks of core and link.
`EngineAssumption` asks that blocks have bytes, that there is room for one, that a tag has four parts and that packets are
pairs of an opcode and bytes. The invariant `Data` (module `EngineData`, and the types in `Typed`) follows a byte from the line to the answer:

* `Arriving`, `Delivered`: where the parser is in the packet, and that what a strobe reports (opcode, block, length error, timeout) is of the packet sent.
* `InStep`, `Written`: while the FSM rests, the blocks in a buffer, put in a row, are what `CommandSpec` stores when it
  executes the packet at once: `Stored(old, new)`, wrap of the four bits included. A load of blocks takes effect one block at a time in
  the engine, and at its last byte, or where it was cut, in `CommandSpec`; `Written` says how far it is in between.
* `Served`, `Feeding`: a start has data to work on; the core has the key, the IV and exactly as many of the blocks as the FSM's index says, at
  each of its states.
* `Given`, `Judged`: what the core has given out is captured one clock behind, block `i` in slot `i`, and tag and verdict
  of this message stand when the FSM goes on: nothing of the message before is left.
* `Owing`: at each state of the FSM, which answers `CommandSpec` still owes. An answer of ciphertext is owed only when the verdict is good.
* `Leaving`: the bytes that left are the first ones of the first answer owed, and the builder's length and index agree with it.

Each clock is then one step of `CommandSpec` or none: an execution, a refusal or a cut packet at a strobe that ends one
(`ClockExecutes`, `ClockRefuses`, `ClockDrops`), a reply when the last byte of an answer has left (`ClockReplies`), never two at a time because a strobe finds the
builder at rest (`StrobeFinds`).

**`SequenceLemmas`**: `FlattenSeq` is a recursive definition, and what it makes of `n` blocks needs induction. The induction
theorems of the library take an operator and cannot be used here; instead each lemma takes the least `n` that would refute its claim (`NatMin`, from the
well-foundedness of `<`) and shows that there is none. Quotients and remainders of block counts are treated there as well.

**`CameraProofs`**, for any set of command lines, number of frames, way of cutting
them into messages, tampering and number of errors:

* `CameraIVsNeverMeet`. `IVInv`: while the link stage may still send, its counter
  is past every IV used, and once the counter has run out the stage never comes back to the
  exchange.
* `DecoderAlwaysFollows`. The frames between the encoder and the decoder are
  followed through the pipeline: `SendOrder` (the frames from the
  compress stage to the link are consecutive, whatever was dropped before encoding) and `ReturnOrder` (likewise from the
  link to the decoder), by counting the frames ahead of each; `FramesGood` says
  which frames are key frames; `FollowInv` says that the decoder has its reference or waits.
* `KeyAlwaysComes`. `KeyInv`: a wait for a key frame has a request
  pending, a key frame being encoded or one in a queue, or the run is stopping; the
  request and the encoding are two threads' steps.

`StreamType` is the type invariant of what these are about. A failing stage,
the source and the main thread disturb the same few things; `Bystander` names
them once, and each invariant is shown to survive a `Bystander` step.

On top of it, in the same module, `FrameInv`, in four parts:

* `CameraTypeCorrect`. `TypeInv`: among others no queue holds more than its capacity, and
  a frame is in one place of the source at a time (`SourceBounded`).
* `PanelAlwaysHonest`, `FailuresAlwaysShown`. `ViewInv`: the results not yet taken are numbered on from
  the frame shown, and the picture is that frame's or none. `CloseInv`: the window closes by itself
  only after the last publisher has ended.
* `FramesAlwaysAccounted`. `CountInv`: as long as nothing has failed and nobody has
  stopped the run, the frames given are those before, on and behind the link (`Upstream`,
  `Midway`, `Downstream`), and a stage ends only after the one before it, with its queue empty. Being
  `Undisturbed` is antitone: a step leads from a disturbed run to a disturbed one only, so the count need not be
  kept once something went wrong, and the proof has a case for each step of an undisturbed run only.

Every safety invariant and action property checked of the core and of the camera is thereby a theorem,
and so are those about sessions and logs, what a file's stream carries, the window of an exchange, about the UART client and about the SPI link, and both of the engine: `HandedOver` and the refinement `ImplementsCommands`.

Only model-checked:

* liveness (`Completes`, `StagesEnd`, `EveryExchangeEnds`): fairness and ENABLED are out of
  the prover's reach;
* the windows of a stream and its bytes on the wire (`StreamReadBack`): the model's parser is a recursive function whose argument comes out of the bytes themselves, which the model has as sets of atoms where they are data;
* what the IP makes of a stream and the host of its answers (`OnlyGenuine`): inductions over three more nested folds;
* the exchanges of the image mode (`OkMeansEncrypted`, `FaultContained`), which compare answers with those of the software IP, by those folds; `CommandsTypeOK`, whose parts include the types of both file modes;
* the emulator's schedule (`EmulatedTimes`) and the types of the links side by side (`LinksTypeOK`).

## 5. Findings

* `doc_timing`: the latency tables of
  `realtime_env/docs/variant_compatibility_matrix.md` (lines 48, 58, 61) count 12
  clocks for H and for a word, 14 for the tag; the core needs 14, 14 and 16,
  since the type register in front of the pipeline and the capture register behind
  it count too. The wrappers use handshakes, so nothing breaks.
* `image_iv`: `host/cli.py:224` says images under one key must not share an IV. The
  IV moves only after an image that succeeded; an image that fails after the IP
  has encrypted chunks of it hands its IV to the next one.
* `camera_first`: `host/pipeline.py:68` says the first error is kept; line 79 reads and assigns
  without a lock, so the later of two errors may replace the earlier.

Met on the way, without a run of their own:

* two LOAD_PLAINTEXT packets for a message: `gcm_model.py` replaces, the engine appends, and
  sixteen blocks wrap its counter without an error (section 2);
* the late hold of `data_in_last` and the IV accepted in the last clock of
  WAIT_H_CAL (section 2);
* `cli.py:282` removes an older output file only after the channel was opened and the
  input read (line 278): a run that fails before leaves it, so `OnlyGenuine`
  speaks of the output file only once a stream was built;
* `cli.py:222-224`: when the last IV of the counter went to a whole image, moving on raises although that image
  had succeeded;
* after a fault on a link that keeps unread answers, later images of the command fail too
  (`FaultContained` says so); only SPI clears;
* `spi_link.py:47-51`: what the last READ frame of the retries brought is not looked at
  before the timeout is raised;
* `uart_client.py:300-316`: a decryption whose CIPHERTEXT answer is missing is accepted as
  empty when the tag passes (`OwnResult` allows it);
* `cli.py:373`, `framing.py:217-224`: `--window` takes any integer, and for one that is not positive the rest of the
  stream travels as one group (`InFlight` and its theorem are about windows of one message or more);
* `menu.py:45`: `size_check` takes `0x0` and `99999x1`, which `parse_size` (`cli.py:49`) refuses, and
  `menu.py:193-199` takes hex of more than 240 bytes, which `raw_message` (`cli.py:250`) refuses:
  the round is lost, its pair counts as used all the same (`MenuAccepted` names both);
* `menu.py:187-197`: a file, image or video whose name begins with a dash is an option to argparse; an image called
  `--advanced` opens the lock (`ReadAsOption`);
* `menu.py:87, 121, 181`: `isdigit` takes a digit such as a superscript two, which `int` does not, and the menu ends with
  its ValueError (`Exit`);
* `emulator.py:49`: whether the radio is shared is judged when a transfer starts, so two
  transfers may overlap at a rate a little above the shared one;
* `camera_view.py:24, 251`: the time a failure stays in the panel is not
  waited for when the run ends;
* `run_log.py:84-86, 118-125`: `_active` is read several times without a lock, so the rows and the lines
  of one frame may go to different logs when a thread outlives its run
  (`OneLogPerRun` claims them only for runs whose threads have ended).

## 6. Not modelled

* Of the engine: `rst_n` and the SPI CLEAR that resets it (they return every
  register to the initial state, from which every run starts), the overflow of its receive
  queue (the host sees it as a status in `SpiTransfer`), the LEDs, and a timer that
  runs out during an answer (section 2).
* Slave side of the SPI link and the UART's clock-domain crossing: each needs two
  clocks of free ratio. `SpiTransfer` has what the host sees.
* ESP32 bridge and `esp_link.py`: FreeRTOS tasks and sockets outside the
  repository; for the host an ordered link, as in `Transfer`.
* Field arithmetic: combinational functions without state; AES and GHASH are free
  constructors, so a wrong S-box would not be seen. The vectors and exhaustive
  simulation are the tools for these.
* Of modelled host files: drawing, reports, thumbnails, the sample and wifi-test commands, parsing of options,
  benchmarks, JPEG and H.264 themselves, the FTDI and pyserial calls.
* `console.py`, `image_io.py`, `selftest.py`, `rtl_sim.py`, the golden C model,
  testbenches, legacy and playground copies, board tops (reasons in `PROJECT.json`).

Worth doing next: the two-clock links; the engine with resets and with `GcmCore`
itself in place of its data path; proofs about the emulator's schedule and the file modes.
