# CC1310 firmware: a verification project

This directory models the CC1310 firmware in TLA+: the bootloader's metadata
journal, the boot decision and handoff, the UART updater, its framing and the
host tool that talks to it, and the application's threads and interrupts: start-up
and boot confirmation, CLI, receive path, sync transmission and I2C slave. TLC
checks the models on small instances; TLAPS proves every safety property that the
passing runs check for every instance, and the journal's refinement of its abstract
specification. What only TLC checks is liveness.

## 1. The system

One device, one UART, one host.

| Part | Code | State | Operations |
| --- | --- | --- | --- |
| Metadata journal | `bootloader.c` 101-231 | two flash pages of 48-byte records | find the newest record, append a record (erase, body, CRC) |
| Boot decision, handoff | `bootloader.c` 373-415, 518-552 | `BootMetadata` in RAM, handoff words in SRAM | decide, count the attempt, start the application |
| UART updater | `bootloader.c` 417-516 | session header, role, `bytesWritten`, `updateActive` | HELLO, BEGIN, DATA, END, SET_ROLE |
| Boot API | `bootloader.c` 233-255, `boot_api.c`, `cli_bootloader.c` | handoff magic | confirm the boot, request an update |
| Start-up readiness | `firmware_startup.c` | `rfReady`, `cliReady`, `bootConfirmationAttempted` | mark RF ready, mark CLI ready |
| Update host | `fw_update.py` | sequence number, offset, attempts | connect, flash, set-role |
| Frame transport | `bootloader.c` 257-348, `fw_protocol.py` | receive buffers | encode, decode, drop bad frames |
| CLI | `cli_task_cc1310.c`, `cli_core.c` | line buffer, UART mutex | read a line, dispatch, write |
| RX radio, packet queue | `firmware.c`, `RFQueue.c`, `rf_packet_queue.c` | data entry ring, mailbox, counters | receive callback, post, print |
| TX radio | `firmware_tx.c` | radio handle, packet, sequence | sync_time, sync_frame |
| I2C slave | `i2c_slave.c` | two register banks, pending transaction | interrupt handler, work thread |
| Role and main | `firmware_mode.c`, `main_tirtos.c` | none | create the threads |
| Packaging, build, bench tests, analysis | `tools/`, `analysis/` | files | convert, drive a bench |

How they interact: the bootloader and the application share the flash (journal,
application slot), three words of SRAM (the handoff) and a function table at
0x5000 (the boot API). The host talks frames to the updater and text lines to
the application's CLI over the same UART. In the application the RF thread and
the CLI thread both report readiness, the second one confirms the boot; the CLI
thread requests an update.

What is hard here: power can fail inside every flash operation; a flash
operation can fail; the journal wraps (records, pages, sequence numbers); an
attempt is counted before the application runs and paid back after; the updater
takes messages in any order; frames and answers are lost, late or repeated; in
the application two threads and interrupts meet without locks. `PROJECT.json`
lists each hazard at its line with the properties that cover it.

What makes the parts correct:

- *journal*: it behaves as one atomic durable register;
- *boot*: an application runs only if all of it is there, its attempt is on
  record and it knows its role; one that never confirms is started a bounded
  number of times and the device then waits for an update;
- *updater*: the durable metadata never names an image that is not completely in
  flash, whatever messages, failures and power losses came before;
- *host*: COMPLETE means installed, the host never runs ahead of the device, and
  a transfer survives faults up to its retry limit;
- *framing*: both decoders agree on every string, the receive buffer is never
  overrun, and a delimiter is enough to find the next frame after any noise;
- *start-up*: the boot is confirmed once, when both threads are ready, and the
  journal yields a record wherever its two writers overlap, short of one double
  fault;
- *RX queue*: no packet is skipped, handled twice or printed under a wrong number,
  no message is lost between the callback and the print thread, and the radio goes
  on receiving;
- *I2C slave*: a read sees one published bank, a dump line is one transaction, a
  queued record is taken;
- *CLI, TX*: a line is answered by itself alone; no transmission before the radio
  is open; what is sent is what was typed.

## 2. Modules

| Module | Models |
| --- | --- |
| `JournalFlash` | the two metadata pages as a value; the scan, the choice of slot, page and number |
| `MetadataStore` | abstract: one durable register with atomic writes |
| `MetadataJournal` | `appendMetadataRecord`, one flash operation per step, with failures and power loss; implements `MetadataStore` |
| `JournalFlashProofs` | lemmas about the pages as a value, shared by the proofs of both users of the journal |
| `MetadataJournalProofs` | proofs for `MetadataJournal`, with the history variable of `MCMetadataJournal` |
| `Bootloader` | boot decision, handoff, confirmation, update request, every updater message; uses the journal as the register it is proved to be |
| `UpdateSession` | `fw_update.py`, the UART, and the device of `Bootloader` |
| `AppBoot` | the application's radio thread and CLI thread from `BIOS_start` on, both inside `appendMetadataRecord`; uses `JournalFlash` |
| `RxQueue` | the RF core's ring, the RF callback, mailbox, counters, print thread, `rx` commands |
| `I2cSlave` | bus master, interrupt handler, work thread, register banks, `ipc dump` |
| `FrameCodec` | COBS and frame checks in C and in Python, and the bootloader's frame reader byte by byte |
| `CliTask` | line buffer, parser, dispatch and help of the CLI |
| `TxSync` | `tx sync_time` and `tx sync_frame`: line buffer, parser, packet number, transmission |
| `UpdateSessionProofs` | proofs for `Bootloader` and for `UpdateSession`, which takes the device's steps from it |
| `AppBootProofs`, `RxQueueProofs`, `I2cSlaveProofs`, `FrameCodecProofs` | proofs for the module each is named after |
| `CommandProofs` | proofs for the commands: `TxSync` and `CliTask` |
| `MC*` | model values and bounds for TLC |

### JournalFlash, MetadataJournal

A slot is `Erased`, `Garbage` or a record with a sequence number and a payload.
`SeqHalf` stands for 2^31, `N` for the 85 records of a page. An append is
`BeginAppend` (lines 197-214, no flash operation yet), then `EraseSector` when
both pages are full, `ProgramBody` and `ProgramCrc`. Each of the three can fail
(`OperationFails`, the function returns -1) or be cut short (`PowerLoss`), and
then leaves any of the states in `Torn`: a partly erased page with any mixture of
cleared, damaged and untouched slots; a body that makes the slot `Garbage`; a CRC
word that is incomplete, or complete while the caller is told -1.

Assumptions: one caller at a time (the bootloader has one thread; the application's
two are the subject of `AppBoot`); a word whose programming was cut short reads the
same ever after; no CRC32 collisions; `WithinWear`: no record survives 2^31 appends
(only a torn erase can keep an old record at all, and 2^31 appends are far beyond
the endurance of the flash). `StaleRecordsBounded`, with the history variable
`torn` of `MCMetadataJournal`, shows that until an erase is torn the bound excludes
nothing: all records on the flash are among the last 2N.

### Bootloader

`pc` is `boot`, `updater`, `app`, or the flash operation in progress. Each frame
handler is one action up to its first flash operation (`HandleBegin`,
`HandleData`, ...), and one action per outcome of each flash operation
(`BeginRecorded`, `BeginNotRecorded`, `EraseCompletes`, `EraseFails`, ...).
`PowerLoss` is possible at every step, with the torn outcomes of the operation in
progress. An append that fails or is cut short is durable or not, which is what
`JournalIsAtomic` proves of the journal.

An image is a name; a flash block holds the matching block of an image, is
`Erased`, `Garbage` or `Ccfg`. The CRC32 over the size in a header matches iff
every block holds that image. The block behind the slot is the CCFG page. BEGIN
takes any header (good or not, also too large, or of size 0, `EmptyHeader`) and any
role word, DATA any offset
of the offset arithmetic (which wraps as `uint32_t` does) and any length: the
messages are those of an arbitrary host.

A refused header of size 0 has a consequence: END finds `bytesWritten` equal to the
size at once and records VALID with no image in it, which the boot decision refuses.

`unconfirmed` and `accepted` are history variables; they and `reply` are read by no
action.

### UpdateSession

The host is a record with its phase (`hello`, `version`, `bootloader`,
`rehello`, `begin`, `data`, `end`, `setRole`, `done`, `failed`, and `absent` when
it finds no updater), sequence number, attempts and offset. `HostSend`, `HostReceive` and `HostTimeout` are the loop of
`Updater.request`; every reply that does not match uses up an attempt, exactly as
a timeout does. `HostCliDone` is the end of a CLI dialogue: what was heard until
then decides. `Accept` is the body of `flash` and `set_role`.

The wire is one queue each way. `LoseFrame` removes a frame (a damaged frame is
dropped by its CRC16), a late answer is a timeout while something is still on its
way, a reset loses any prefix of what had arrived. Text that reaches the updater
(`junk`), or the host while it reads frames (`dirty`), spoils the next frame. The
device takes the steps of `Bootloader`, each conjoined with what it does to the
wire. `Budget` bounds how often each fault happens.

### AppBoot

The radio thread has priority 2 and the CLI thread priority 1 (`main_tirtos.c`):
the CLI thread takes a step only while the radio thread is blocked in
`RF_runCmd(CMD_FS)` or waits for ever after it (`CliRuns`). So the radio thread's
`bl_confirm_boot` is one step, completed (`RfAppends`) or ended by a flash operation
that fails (`RfEraseFails`, `RfProgramFails`).

It may fall between any two accesses of the CLI thread's call, which takes a step for
each record the scan looks at (`CliScan`, `CliScanned`), for the comparison of the two
pages (`CliChoose`), the copy of the metadata and the caller's test (`CliCopy`), the
append's own scan, the number read through the pointer it found (`CliNumber`), each
slot on the way to a free one and the choice of the page to erase (`CliSlot`), and
each flash operation (`CliErase`, `CliBody`, `CliCrc`). What the locals point to may
have changed in between: `NumbersAt` and `ValuesAt` say what a read through such a
pointer yields (all ones from a slot that was erased, anything from a damaged one). A
failed erase leaves any of the states of `PartlyErased`, the CLI thread's own body
included. Programming over a slot that holds something else leaves `Garbage`; the CRC
word makes a record valid only over the body of its own append (`own`).

Power losses are left to `MetadataJournal`. `WithinWear` says that the numbers, which
start at 1, are far below 2^31, `AppAssumption` that two full pages (170 records) are.
`blind` is history: a rotation of the radio thread failed while the CLI thread was
going through the records.

### RxQueue

A packet takes an entry of the ring and sets `RxEntryDone` in the event mask of
the driver, where a second event is not told from the first. `callback` is one
step (a Swi), the copy of the statistics by `rx status` one step per field. A
packet that finds no free entry ends `CMD_PROP_RX` (`ReceiveWithoutBuffer`), and
with `receiving` off no thread of priority 1 runs. `Burst` is how many packets the
radio may finish before the callback runs. `merged` is history: two packets have
shared an event, that is, the callback did not keep up. `done` is history too: the
messages the print thread has taken and finished with, printed or, with the dump off
(the default), discarded. RSSI statistics are left out.

### I2cSlave

The handler is one step; the work thread has one step per access to what the
handler writes, so the handler runs between any two of them. `Semaphore_pend`
returns with or without a token, as its timeout allows. Bytes are symbolic (byte
*i* of transfer *t*, register *r* of publication *g*), so that a mixed read or
record shows. `invalid` is the step in which the thread reads `pendingCount` again after its copies,
for `errorCount`. The slave stretches the clock until a data interrupt is served; a
STOP is assumed to be served before the next transfer's first byte (see the hazard
at `i2c_slave.c:115`). The master keeps to the two transactions of `i2c_slave.md` and
to the address probe: it sends no repeated START behind a payload.

The history keeps what the bus carried: `truth` for a record, `bus.expect` for the
loopback window as `i2c_slave.md` has it (a write that is taken leaves all of its
payload there if all of it is in range, every other one nothing), `bus.cut` for a
write at the start of the window that was longer than the window, `flips` for the
publications during a transfer.

### FrameCodec

Sizes are scaled: bytes are 0 to `Full`, where `Full` stands for 0xFF, so that full
blocks occur within a few bytes; the header is two bytes, the CRC a sum. `cobsDecode`
works in place, as the C code does, `cobs_decode` builds a new string, as the Python
code does. Loops are recursive functions of the number of turns. Any bytes may come
first (`Noise`); then the frame as `encode` writes it, with a delimiter behind it and
none in front, twice, as the host's loop sends it again when no answer comes. `CodecAssumption` says that a frame header can hold the
longest payload that is sent (132 against 255), that the receive buffer is no longer
than the largest payload with its overhead (160 against 152 + 8), and that the
longest frame that is sent fits it when it is encoded (132 + 8 bytes, one code byte,
no full block, against 160).

### CliTask, TxSync

In `CliTask` a command is a word of one letter; the reader loop fills the line
buffer a character at a time, and an answer is a sequence of lines. In `TxSync`
`Room` is what `TX_CLI_LINE_LENGTH` leaves for the argument; a command of three words
is answered with the usage. The assumption
`Room > TimeDigits + 2` is 53 > 18 in the code, and it is what makes the truncation
harmless. `CliAssumption` says that `help` is not in the command table, which has no
entry for it (`cli_process_line` compares with it first).

## 3. Runs

| Run | Checks | Instance |
| --- | --- | --- |
| `journal` | TypeOK, ReadsLastCommitted, NoEqualSequence, ProgramsErasedCells, LoopFindsNewest, StaleRecordsBounded, AtomicStore (refinement of `MetadataStore`) | two records per page, torn erases, ten sequence numbers |
| `boot` | TypeOK, NamedImageIsIntact, RunningIsTracked, FailureLimit, CrashLoopEnds | slot of two blocks, images of one, two and three blocks and a header of size 0, limit 2, three attempt numbers |
| `session` | CompleteMeansInstalled, HostNotAhead, SessionEnds, TransferSucceeds | three attempts per frame; one fault of each of five kinds, anywhere |
| `app` | ConfirmedOnceWhenReady, JournalSurvives, AloneIsDurable, TxHasRadio | two records per page, one to four records at the start, preemption between any two reads or writes, partial erases |
| `rx` | RingIsFifo, EverySequenceAccounted, StatusNotShort, ReceivesWhileTimely, TimelyPacketsHandled, MailboxDrains | ring of 2, mailbox of 2, 5 packets in bursts of up to 3 |
| `i2c` | TypeOK, DumpLineIsOneTransaction, ReadFromOnePublication, ScanReadsZero, LoopbackReadsBack, SlotDrains | banks of 2 registers, 2 transfers of up to 3 bytes, to the command register and to the last register of the window |
| `frame` | TypeOK, DecodersAgree, RoundTrip, Resync | bytes 0 to 4, buffer of 6, up to 8 bytes of noise, then a frame sent twice |
| `cli` | TypeOK, AnswersThisLine | lines of up to 9 characters for a buffer of 8, 3 words |
| `tx` | SentIsAsked, GapsAreFailures | arguments of up to 6 characters, 5 of which fit, a word too many, 3 sequence numbers |
| `boot_accepted`, `rx_forever`, `i2c_bank` | InstalledWasAccepted, StaysInRx, ReadIsConsistent, which TLC violates (below) | as small as the case allows |

Why the bounds are enough: two records per page let both pages fill, rotate and
be rotated again while numbers wrap, so every branch of the scan and of the slot
choice is taken; with two blocks in the slot a transfer has a first and a last
DATA frame and can be interrupted between them; an image of three blocks is the
one that is too large; the offset arithmetic (`OffMod`) is just wide enough for
every in-range offset and for one that wraps; `AttemptMod` is larger than
`Limit`, as 2^32 is than 3, and small enough to wrap. Role words that are
refused are met in `boot_accepted`. The view of `boot` leaves `reply` and `accepted`
out of the fingerprint: no action and no property of that run reads them, so states
that differ in nothing else have the same behaviours and the same verdicts. The proofs remove these bounds for the safety
properties they state.

In the application: a ring of two fills and empties, a burst of three overruns it, and a mailbox of two is full, partly full and empty around the ring's
events; two transfers are enough for one record in the slot and one that meets it,
payloads of up to three bytes overflow buffers of two, and the two pointers are
the command register (which is also read as a status register) and the second of the
two loopback registers, where a payload of one byte fits and a longer one runs over
the end of the window. A window read behind a write that was refused for a taken
slot needs three transfers, and a payload longer than the window at its start
needs a third pointer; the first is in the scope of the theorem
`LoopbackReadsBackHolds`, which bounds neither. The line and argument
bounds exceed their buffers by one or two characters, so that exact fit and
overflow both happen; eight bytes of noise exceed the frame buffer of six.

Each of these properties is broken by a mutant of the code (the operators whose
comment starts with "Mutant"), listed in `PROJECT.json`.

### Where the code and its documents disagree

Three runs expect a violation:

- `boot_accepted` (InstalledWasAccepted): BEGIN copies the header before it
  validates it. A rejected BEGIN in the middle of a transfer leaves the session
  active with the rejected header, and END records that image as valid. The test
  plan (BL-U-07) says the application must not be marked valid. The size that
  bounds DATA is then one that validation refused, so DATA also reaches the block
  behind the slot, the CCFG page. `NamedImageIsIntact` holds all the same: what END
  records is what is in flash, though its header was never accepted.
- `rx_forever` (StaysInRx): one entry is handled per event although events merge.
  Entries left behind add up, and when the ring is full reception ends for good
  and the spinning radio thread stops every thread of lower priority. `RingIsFifo`
  shows that order and contents stay right.
- `i2c_bank` (ReadIsConsistent): two publications during one read mix two banks;
  `ReadFromOnePublication` shows that one does not.

Other properties say in their conditions, or by holding, where the code and its
documents part; without the condition TLC finds a counterexample:

- *NoEqualSequence* holds, against a comment: `bootloader.c:149-150` has it that equal
  numbers "can only arise after an interrupted/retried append", and
  `BOOTLOADER_UPDATE_TEST_REPORT.md` 6.9 reports several CRC-valid records with one
  number, found while cutting the power. With one caller, and flash that reads the
  same at every time, no interruption and no retry repeats a number: the number is
  taken from the newest valid record on the flash, and a record that was cut short is
  either not valid, or valid and then the newest. Two things outside the assumptions
  do repeat one: two appends that overlap without a lock (`AppBoot`), and a CRC word
  that reads as complete at one time and as incomplete at another. Which of them the
  report saw cannot be told from it. The tie rules matter only then: within a page
  the later slot wins, across the pages the primary, and ReadsLastCommitted does not
  extend to such a journal.
- *AloneIsDurable* (`alone`): the boot API has no lock. A confirmation in the middle
  of a `bootloader` command spoils or outdates its record, or gives a second record
  the same sequence number; the command answers OK all the same (`cli.md` says after
  the metadata is persisted). The window is a command before the radio is tuned.
- *JournalSurvives* (`blind`) holds over any overlap but for one double fault: the
  CLI thread has found a record, the radio thread's confirmation finds both pages full
  and erases the page of that record, and that erase fails half-way. The CLI thread
  then compares and trusts what it reads through its pointer into the damaged page, and
  may erase the other page, which holds the last record. `blind` is also set when the
  erase completed and a program failed; that matters for pages of one record only, and
  on the instance of `app` the property holds without it.
- *TimelyPacketsHandled* (`merged`): the last packets of a burst are never handled
  when none follow.
- *LoopbackReadsBack* is stated in the terms of `i2c_slave.md`, and the code departs
  from them twice. A write at the start of the window that is longer than the window
  (`bus.cut`) is not valid by lines 56, 90-91 and 102-104 (the payload is all the bytes
  behind the pointer, and it runs past 0xBF); the code cuts it to the 64 bytes that its
  buffer holds, as lines 80-81 say, and commits those. And a write that finds the slot
  taken is refused as a whole (`i2c_slave.c:173`), so that a following read does not
  return its bytes, as lines 92-93 promise; lines 48-52 speak of the lost dump line only.
  The property counts a refused write as one that leaves nothing.
- *TxHasRadio* says only that the handle is open: the CLI serves `tx` while the radio
  thread still waits for the synthesizer, against the comment at `firmware_tx.c:309`.
- *Resync* is about a frame with a delimiter before it: `encode` writes none in front,
  so the first copy may be lost to the noise it is joined to, and the property is about
  the second one, which the delimiter of the first precedes. A frame longer than the
  buffer restarts the buffer in its middle, and its end may be accepted as a frame.
- *HostNotAhead* and *FailureLimit* hold although a DATA frame whose programming
  failed is acknowledged (with the old offset), and although a confirmation takes
  one off the failure counter and does not clear it, so that the unconfirmed boots
  that add up to the limit need not be consecutive.
- *DumpLineIsOneTransaction* is about records that are printed: the work thread, woken
  by its timeout, may free a record it has not seen; and its increment of
  `errorCount` may undo one of the handler's (`LoadErrors`, `StoreErrors`).

### Fairness

`boot`: the reset handler runs (`WF(Boot)`), and a record that is attempted
again and again is at some point not cut short (`SF(Handoff)`). `CrashLoopEnds`
assumes a device that is reset infinitely often; no fairness is put on resets,
failures or the application.

`session`: the host program runs and the device takes the next step of what it is
doing (`WF(HostNext)`, `WF(DeviceNext)`), both sequential programs that are never
blocked by the other. Nothing is assumed of losses, late answers, failures and
power losses except that there are finitely many. With flash that fails for ever
the host's transfer loop would not end: see the hazard at `fw_update.py:232`.

`TransferSucceeds` is about behaviours with UART faults only, fewer than a frame
has attempts and none before the updater was found. It is tight: each lost or late
frame can cost one attempt of every later request, because a late reply is read by
the next attempt, whose own reply is then late as well.

`rx`: a posted Swi runs (`WF(callback)`), and the print thread is scheduled while
the radio thread is blocked (`WF(Printer)`). `i2c`: the work thread's semaphore has
a timeout, so that it always runs again (`WF(Worker)`), and a raised interrupt is
served (`WF(i2cInterruptHandler)`). Nothing is assumed of the radio, the bus master
and the user.

## 4. Proofs

Each theorem holds for every value of the constants that the named assumptions
allow. Each proof has one inductive invariant, one lemma per action and one step per
conjunct that the action can disturb.

### Journal

`MetadataJournalProofs`, for every page size, sequence number width and payload
set, from `JournalAssumption` and `StoreAssumption`:

- `TypeCorrect`, `ReaderIsExact` (ReadsLastCommitted), `SequencesDistinct`
  (NoEqualSequence), `OnlyErasedProgrammed` (ProgramsErasedCells),
  `LoopIsExact` (LoopFindsNewest), `JournalIsAtomic` (AtomicStore).

ReadsLastCommitted is not inductive: it says what the reader sees, but an erase
can uncover records it did not see. The inductive invariant says that the
committed record has a *home*: a slot with no erased slot before it, while every
other valid record on either page, seen or not, is older by less than half of the
number space. In addition all numbers are distinct, the record being appended is
the successor of the committed one, and the target slot is free and not hidden
behind an erased one (or, before the erase, the target page is not the home's).
Every operation, completed or torn, either only loses records outside the home
page (`LosesPreserves`), or moves the home to the new record (`NewHome`). The
arithmetic it needs is in `NewerAsymmetric`, `CloserIsNewer` and `NextSeqAhead`.

`RecordsAreRecent` (StaleRecordsBounded) is about `MCSpec`, whose history variable
`torn` tells whether an erase was ever torn. It justifies `WithinWear`: until then
the bound excludes nothing. The inductive invariant `OrderInv` counts the age of each
record against its distance from the home in the order in which slots are filled
(`AgesBounded`); for that the pages have to take turns, the other page being full or
without records (`PagesTakeTurns`), and the target of an append has to follow the
home (`TargetFollows`).

`LoopIsExact` is about a recursive function, and the prover cannot use the library's
induction theorems. `JournalFlashProofs` takes the least slot at which the loop and
the definition differ instead (`LoopUnique`, `LoopUnrolled`, `LoopIsReader`).

### Bootloader

`UpdateSessionProofs`, for every image set, slot, failure limit and width of the
attempt counter, from `BootAssumption` and `MetaAssumption`:

- `TypeCorrect`, `ImageIntact` (NamedImageIsIntact), `ApplicationTracked`
  (RunningIsTracked), `BoundedFailures` (FailureLimit).

The inductive invariant adds to these: what an append in progress would make
durable is as sound as what is durable (`AppendIsSound`, needed because a power
loss may make it so); a session writes only behind every image that the journal
or the RAM copy names (`SessionIsBehind`, which is why a rejected BEGIN cannot
damage a named image); and the counter covers the attempts since the last
confirmed one, both the history variable and the difference of the two attempt
numbers modulo their size (`BootsAreCounted`, which is why a wrapped attempt
number is never mistaken for the confirmed one).

### Update session

`UpdateSessionProofs`, for every package, slot, number of retries and budget of
lost frames, late answers, flash failures and power losses:

- `SessionImplementsBootloader`: `SessionSpec` implies the device's `Spec`, that is,
  the host tool and the UART are one of the arbitrary hosts of `Bootloader`;
- `SessionKeepsDeviceSafe`: hence the device's proved invariants hold in it;
- `HostIsNotAhead` (HostNotAhead) and `CompleteIsInstalled`
  (CompleteMeansInstalled), for one run of the tool (`Budget["rerun"] = 0`).

The invariant has to speak of what is on its way: which frames and answers can be
in the two queues for the phase the host is in, that their sequence numbers are not
beyond the host's, and what an answer that the host would accept says of the device
that sent it (`WireInv` for any number of runs, `RunInv` for one).

The hypothesis is needed. The tool starts every run with the same sequence number,
so that an answer to an earlier run matches. With one rerun TLC finds no harm (run
`session`), but with three runs (set-role, flash, set-role), five late answers and a
power loss the property fails: a stale COMPLETE is accepted, and a stale BEGIN is
executed behind it because the failure limit keeps the device in its updater. For
that, frames have to stay undelivered over whole runs of the tool.

### Start-up

`AppBootProofs`, for every page size, from `JournalAssumption` and `AppAssumption`:

- `ConfirmedOnce` (ConfirmedOnceWhenReady), `TxFindsRadio` (TxHasRadio), by
  `ReadyInv`, which ties the two flags to the places of the two threads and counts
  the confirmation under way together with the ones that returned;
- `JournalKeepsRecord` (JournalSurvives), `AloneAppendsDurable` (AloneIsDurable),
  by `JournalInv`.

The journal's own invariant does not serve here: with two unlocked appends numbers
repeat, and the CLI thread's pointers, read one record at a time, may be out of date
when they are used. The invariant has three parts.

- While no calls have overlapped (`Exact`), the journal has a home, as in
  `MetadataJournalProofs`, and the CLI thread's locals are right: the pointers it found
  lead to records the reader gets to, the home among them once the scan has been there;
  then `newest` is the home, the number the next one, and the slot free with nothing
  erased before it.
- Once they have (`Kept`), the weaker part remains: a pointer of the scan leads to a
  record the reader still gets to or to a slot erased since (`FoundFits`), and one record
  that the reader gets to is found or still ahead of the scan (`Promise`). `CliChoose`
  then settles on a record the reader gets to, because the all ones of an erased slot
  are older than every number (`SmallOrder`), and from there on (`KeptNewest`) the call
  neither erases that record's page nor writes its slot.
- All numbers stay far below the turn of the comparison (`NumbersSmall`): `WithinWear`
  bounds the journal when a command begins, and `Limit` counts what may be added since.

The radio thread's append takes the home along or leaves it (`RfHome`), and inside a
call of the other thread it leaves that call's pointers usable (`RfKept`), its rotation
and its failures included, except in the case that `blind` records.

### Receive path, I2C slave

`RxQueueProofs`, for every ring, mailbox and burst:

- `RingIsFifoHolds`, `EverySequenceAccountedHolds`, `StatusNotShortHolds`, and
  `ReceivesWhileTimelyHolds` for `Entries > 1` (the code has 8; with one entry the
  packet that is being handled already fills the ring).

The invariant ties the ring to the packets on the air (`RingInv`), an unhandled event
to an unhandled entry (`TimelyInv`), the counters to each other (`CountInv`), the
line of messages that the print thread is done with, holds and has yet to take to the
number of those posted and to the numbers given out (`LineInv`), and each field that `rx status` has copied to a bound it had at the time (`CopyInv`).

`I2cSlaveProofs`, for every bank size and transfer length:

- `BuffersBounded` (TypeOK), `ScanReadsZeroHolds`, `LoopbackReadsBackHolds`,
  `ReadFromOnePublicationHolds`, and `DumpLineIsOneTransfer`
  (DumpLineIsOneTransaction) for `MaxRead <= Regs`: a longer read overwrites the start
  of the transmit buffer, and its dump line is not what the bus carried.

The invariant links the handler's buffers to what the bus carried in each phase
(`LinkInv`, `BufferInv`), the window to what the document makes of the writes, until
one was cut (`WindowInv`, `LoopInv`), the
inactive bank to the publication being filled (`BankInv`), and each of the work
thread's copies to the slot, which the handler leaves alone while it is taken
(`SnapshotInv`). The attempt corrected one property: LoopbackReadsBack must say where
a read is when the 8-bit pointer has wrapped, which no read of the run's length does.

### Framing

`FrameCodecProofs`, for every block size, buffer, payload and noise that
`CodecAssumption` allows:

- `FrameBuffersHold` (TypeOK), `DecodersAgreeHolds`, `RoundTripHolds`, `ResyncHolds`.

The two decoders go in lockstep (`SameTurn`, `SameDecoders`): after each turn they
have read as far, and the bytes that the C code has written to the front of its
buffer are the string that the Python code has built, while the part still to be read
is untouched, because writing never overtakes reading (`MovedFacts`, `BlockFacts`).
For the encoder, `EncodeRun` says what the output is after each byte (no zero except
at the open code byte), `EncodedFrozen` that a closed block never changes,
`EncodedLength` that there is one byte more than the data has, and another one for each
full block, and
`DecodeUndoesEncode` that the decoder, run over the finished string, has after some
turn read exactly the blocks that were closed at each point of the encoding. With
these facts `ReaderInv` is short: the reader holds nothing when the first copy has
ended, and during the second what it holds and what is still on the wire make up the
encoded frame, so that it never restarts its buffer.

### Commands

`CommandProofs`, for every width of numbers and values and every buffer length:

- `NumbersCountTransmissions` (GapsAreFailures). The remainder alone is not
  inductive; the invariant counts the numbers taken without wrapping and says how
  many rounds they have made.
- `SentIsWhatWasTyped` (SentIsAsked). The parser takes the digits from the left and
  the definition sums their place values from the right; at each turn the parser's
  value, moved up by the digits still to come, plus the sum of those is the value
  denoted (`ParsedIsDenoted`), and it stays below 16^digits, so that no shift and no
  cast loses anything (`ParseLoop`, `PowersGrow`). An argument that was cut off is
  too long to be parsed (`KeptFacts`), and so is the argument it was cut from.
- `LineFitsBuffer` (TypeOK) and `LineAnsweredByItself` (AnswersThisLine) of `CliTask`,
  from `CliAssumption`. `LineInv` ties the buffer to the characters since the last line
  end: all of them, or the flag is set and there were too many. `ReadUpTo` says at
  every position that as many words have been read as begin up to it, and where the
  first one lies (`Opens`), so that the words of the specification are the arguments
  that the code counts and compares (`WordsAreArguments`).

What a loop computes is proved without the library's induction theorems, which take
an operator as a parameter: `Induction` is about a set of numbers that holds 0 and
with each number the next, by its least counterexample, and `LoopExists` shows that
the recursive function of a loop exists and satisfies its equation.

### Only model-checked

- Liveness (`CrashLoopEnds`, `TransferSucceeds`, `SessionEnds`,
  `TimelyPacketsHandled`, `MailboxDrains`, `SlotDrains`): out of the prover's reach.
- `CompleteMeansInstalled` and `HostNotAhead` with a rerun of the tool.

## 5. Not modelled

- The flash cache of `bootloader.c:227`: a read after a write sees the write. What
  the cache may hold is a matter of the hardware.
- The writers of the UART: a line goes out in up to five calls, each of which takes
  and releases `cliUartMutex`, so lines of the I2C thread and the printer can land in
  the middle of an answer. There is nothing to check: each call is its own critical
  section.
- A STOP interrupt that is served after the next transfer's first byte, and a repeated
  START behind a payload, which is neither of the two transactions of `i2c_slave.md`
  (the bytes read would move the register pointer before the STOP commits the write).
- RSSI statistics, the DIO1 timing pulse, the statistics printer and the continuous
  transmission test, which are compiled out or have no influence on control.
- The host's read-only `info` command and its wait for the banner after COMPLETE.
- Failures of thread creation at start-up, which end in a spin.
- Register and interrupt setup of the handoff; board files, generated and
  vendored code (nearly all of the repository's lines: SYS/BIOS configuration
  output and the compiler's run-time library); packaging, build, bench and analysis
  scripts, which convert files or drive a bench and keep no state.

## 6. Open

`HostNotAhead` and `CompleteMeansInstalled` with a rerun of the tool: which delayed
frames keep them, and what a sequence number that differs from run to run would add.
