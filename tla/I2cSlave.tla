------------------------------ MODULE I2cSlave ------------------------------
(***************************************************************************)
(* The I2C slave of src/firmware/i2c_slave.c: the interrupt handler, the   *)
(* priority 1 work thread it interrupts anywhere, and a bus master.        *)
(*                                                                         *)
(*   - Regs stands for 64: the registers of a bank, the loopback window,   *)
(*     the receive and the dump buffer.  The register pointer is an 8-bit  *)
(*     number, that is modulo 4 * Regs, with the command register at Regs  *)
(*     and the loopback window at 2 * Regs, as in the code.                *)
(*   - A byte is what it is about: byte i of transfer t, the register of   *)
(*     the publication g, the command value, or zero.                      *)
(*   - transmitRegisters is left out: it is 0xFF or the snapshot, and 0xFF *)
(*     is replaced by the snapshot before it is used.                      *)
(*   - The slave stretches the clock until a data interrupt is served.  The *)
(*     handler is assumed to serve a STOP within the byte time that the    *)
(*     next transfer needs to raise an interrupt.                          *)
(*   - The master keeps to the two transactions of i2c_slave.md and to the *)
(*     address probe: no repeated START between a payload and its STOP.    *)
(*                                                                         *)
(* bus is the master's view: the pointer it sent, its payload, the bytes   *)
(* it got, and expect, the loopback window as i2c_slave.md has it: a write *)
(* that is taken leaves all of its payload there if all of it is in range, *)
(* and every other write leaves nothing.  cut says that a write at the     *)
(* start of the window was longer than the window.  The truth of a record  *)
(* is what the bus carried.  bus.expect, bus.cut, truth and flips are      *)
(* history: no action of the device reads them.                            *)
(***************************************************************************)
EXTENDS Naturals, Sequences

CONSTANTS
    Regs,           \* I2C_REGISTER_COUNT and its aliases
    Pointers,       \* register pointers the master uses
    MaxTransfers,   \* bound on the master's transfers
    MaxWrite,       \* bound on the payload of a write
    MaxRead,        \* bound on the bytes of a read
    Generations,    \* publications are numbered modulo this
    MaxCount        \* the statistics saturate here

ASSUME I2cAssumption ==
    /\ Regs \in Nat \ {0}
    /\ Pointers \subseteq 0 .. 4 * Regs - 1
    /\ MaxTransfers \in Nat /\ MaxWrite \in Nat /\ MaxRead \in Nat /\ MaxCount \in Nat
    /\ Generations \in Nat \ {0, 1}

Command  == Regs
Loopback == 2 * Regs

Zero         == <<"zero", 0, 0>>
ClearStats   == <<"clear", 0, 0>>
Datum(t, i)  == <<"data", t, i>>
Status(g, r) == <<"status", g, r>>

VARIABLES
    flags,      \* interrupt causes not yet served
    event,      \* I2CSlaveStatus and the byte of the data interrupt
    bus,        \* the master
    dev,        \* what the handler and the work thread share
    banks,      \* registers[2][]
    active,     \* activeRegisters
    dump,       \* dumpEnabled
    pc,         \* next step of the work thread
    work,       \* its local variables
    flips       \* publications since the pointer of this transfer, at most 2

vars == <<flags, event, bus, dev, banks, active, dump, pc, work, flips>>

InWindow(p) == p >= Loopback /\ p < Loopback + Regs

\* Mutant: only the first register is tested.
isLoopbackWrite_First(start, length) == InWindow(start)

isLoopbackWrite(start, length) ==
    InWindow(start) /\ length <= Regs - (start - Loopback)

\* The window after a write: the whole payload, if it fits, or nothing.
Overlaid(window, start, payload) ==
    [r \in 0 .. Regs - 1 |->
        LET i == (r + Loopback + 1) - start
        IN  IF isLoopbackWrite(start, Len(payload)) /\ i \in 1 .. Len(payload)
            THEN payload[i] ELSE window[r]]

Inc(n) == IF n < MaxCount THEN n + 1 ELSE n

Bank(g) == [r \in 0 .. Regs - 1 |-> Status(g, r)]

NoEvent  == [status |-> "none", byte |-> Zero, pointer |-> 0]
NoRecord == [count |-> 0, reg |-> 0, dir |-> "none", data |-> <<>>]

\* i2c_slave_start: registers published once, nothing received.
Init ==
    /\ flags = {}
    /\ event = NoEvent
    /\ bus = [phase |-> "idle", transfer |-> 0, pointer |-> 0,
              payload |-> <<>>, got |-> <<>>,
              expect |-> [r \in 0 .. Regs - 1 |-> Zero], cut |-> FALSE]
    /\ dev = [pointer |-> 0, received |-> <<>>, snapshot |-> 0, start |-> 0,
              valid |-> FALSE, loop |-> FALSE, sent |-> <<>>,
              pending |-> NoRecord, truth |-> NoRecord,
              window |-> [r \in 0 .. Regs - 1 |-> Zero],
              transactions |-> 0, errors |-> 0, semaphore |-> 0]
    /\ banks = [b \in {0, 1} |-> IF b = 1 THEN Bank(0) ELSE [r \in 0 .. Regs - 1 |-> Zero]]
    /\ active = 1
    /\ dump = FALSE
    /\ pc = "pend"
    /\ work = [count |-> 0, reg |-> 0, dir |-> "none", data |-> <<>>,
               command |-> FALSE, errors |-> 0, truth |-> NoRecord]
    /\ flips = 0

-----------------------------------------------------------------------------
(* The master and the I2C hardware.                                        *)

BusUnchanged == UNCHANGED <<dev, banks, active, dump, pc, work>>

Raise(cause, e) ==
    /\ flags' = flags \cup {cause}
    /\ event' = e

SendPointer(p) ==
    /\ bus.phase = "idle"
    /\ bus.transfer < MaxTransfers
    /\ flags = {}
    /\ Raise("data", [status |-> "RREQ_FBR", byte |-> Zero, pointer |-> p])
    /\ bus' = [phase |-> "pointed", transfer |-> bus.transfer + 1, pointer |-> p,
               payload |-> <<>>, got |-> <<>>, expect |-> bus.expect, cut |-> bus.cut]
    /\ UNCHANGED flips
    /\ BusUnchanged

SendByte(b) ==
    /\ bus.phase \in {"pointed", "writing"}
    /\ "data" \notin flags
    /\ Len(bus.payload) < MaxWrite
    /\ Raise("data", [status |-> "RREQ", byte |-> b, pointer |-> 0])
    /\ bus' = [bus EXCEPT !.phase = "writing", !.payload = Append(@, b)]
    /\ UNCHANGED flips
    /\ BusUnchanged

RequestByte ==
    /\ bus.phase \in {"pointed", "reading"}
    /\ "data" \notin flags
    /\ Len(bus.got) < MaxRead
    /\ Raise("data", [status |-> "TREQ", byte |-> Zero, pointer |-> 0])
    /\ bus' = [bus EXCEPT !.phase = "reading"]
    /\ UNCHANGED flips
    /\ BusUnchanged

\* An address probe: a one byte read without a register pointer.
Scan ==
    /\ bus.phase = "idle"
    /\ bus.transfer < MaxTransfers
    /\ flags = {}
    /\ Raise("data", [status |-> "TREQ", byte |-> Zero, pointer |-> 0])
    /\ bus' = [phase |-> "scanning", transfer |-> bus.transfer + 1, pointer |-> 0,
               payload |-> <<>>, got |-> <<>>, expect |-> bus.expect, cut |-> bus.cut]
    /\ UNCHANGED flips
    /\ BusUnchanged

\* The last byte written may still wait for the handler, a byte requested
\* may not.
SendStop ==
    /\ bus.phase # "idle"
    /\ "data" \in flags => event.status # "TREQ"
    /\ "stop" \notin flags
    /\ Raise("stop", event)
    /\ bus' = [bus EXCEPT !.phase = "idle",
                          !.cut = @ \/ (bus.pointer = Loopback /\ Len(bus.payload) > Regs)]
    /\ UNCHANGED flips
    /\ BusUnchanged

-----------------------------------------------------------------------------
(* i2cInterruptHandler: the data part, then the stop part, in one run that *)
(* the work thread cannot interrupt.                                       *)

\* Mutant: read from the bank that is active now.
Supplied_Active(d) ==
    IF ~d.valid THEN Zero
    ELSE IF ~d.loop THEN banks[active][d.pointer % Regs]
    ELSE IF InWindow(d.pointer) THEN d.window[d.pointer - Loopback]
    ELSE Zero

Supplied(d) ==
    IF ~d.valid THEN Zero
    ELSE IF ~d.loop THEN banks[d.snapshot][d.pointer % Regs]
    ELSE IF InWindow(d.pointer) THEN d.window[d.pointer - Loopback]
    ELSE Zero

\* transmitBuffer and transmitLength; a long read wraps around.
Captured(d) ==
    LET offset == (d.pointer + 4 * Regs - d.start) % Regs
    IN  IF Len(d.sent) <= offset THEN Append(d.sent, Supplied(d))
        ELSE [d.sent EXCEPT ![offset + 1] = Supplied(d)]

\* Mutant: off by one.
HasRoom_OffByOne(d) == Len(d.received) <= Regs

HasRoom(d) == Len(d.received) < Regs

OnData(d) ==
    CASE event.status = "TREQ" /\ d.valid ->
            [d EXCEPT !.sent = Captured(d), !.pointer = (@ + 1) % (4 * Regs)]
      [] event.status = "RREQ_FBR" ->
            [d EXCEPT !.pointer = event.pointer, !.received = <<>>,
                      !.start = event.pointer, !.snapshot = active, !.valid = TRUE,
                      !.loop = InWindow(event.pointer), !.sent = <<>>]
      [] event.status = "RREQ" /\ HasRoom(d) ->
            [d EXCEPT !.received = Append(@, event.byte)]
      [] event.status = "RREQ" /\ ~HasRoom(d) ->
            [d EXCEPT !.errors = Inc(@)]
      [] OTHER -> d

\* Mutant: a STOP leaves the register pointer valid.
ReadOver_KeepValid(d) == [d EXCEPT !.loop = FALSE, !.sent = <<>>]

ReadOver(d) == [d EXCEPT !.valid = FALSE, !.loop = FALSE, !.sent = <<>>]

\* The record for the work thread; truth is the same from the bus.
Queue(d, reg, dir, data) ==
    [d EXCEPT !.pending = [count |-> Len(data), reg |-> reg, dir |-> dir, data |-> data],
              !.truth = [count |-> Len(data), reg |-> bus.pointer, dir |-> dir,
                         data |-> IF dir = "read" THEN bus.got
                                  ELSE SubSeq(bus.payload, 1, Len(data))],
              !.received = <<>>,
              !.semaphore = @ + 1]

Rejected(d) == [d EXCEPT !.errors = Inc(@), !.received = <<>>]

OnStop(d) ==
    ReadOver(
        IF d.received # <<>>
        THEN IF d.pending.count # 0 THEN Rejected(d)
             ELSE [Queue(d, d.pointer, "write", d.received)
                      EXCEPT !.window = Overlaid(d.window, d.pointer, d.received), !.transactions = Inc(@)]
        ELSE IF d.valid /\ d.sent # <<>> /\ dump
        THEN IF d.pending.count # 0 THEN Rejected(d)
             ELSE Queue(d, d.start, "read", d.sent)
        ELSE d)

\* What i2c_slave.md has the window hold once this STOP is served.
Expected ==
    LET taken   == dev.pending.count = 0
        inRange == \A i \in DOMAIN bus.payload : InWindow(bus.pointer + i - 1)
    IN  [r \in 0 .. Regs - 1 |->
            LET i == (r + Loopback + 1) - bus.pointer
            IN  IF taken /\ inRange /\ i \in DOMAIN bus.payload
                THEN bus.payload[i] ELSE bus.expect[r]]

i2cInterruptHandler ==
    LET seen == IF "data" \in flags THEN OnData(dev) ELSE dev
    IN  /\ flags # {}
        /\ flags' = {}
        /\ dev' = IF "stop" \in flags THEN OnStop(seen) ELSE seen
        /\ event' = NoEvent
        /\ bus' = CASE "stop" \in flags -> [bus EXCEPT !.payload = <<>>, !.got = <<>>, !.expect = Expected]
                    [] event.status = "TREQ" -> [bus EXCEPT !.got = Append(@, Supplied(dev))]
                    [] OTHER -> bus
        /\ flips' = IF "stop" \in flags \/ event.status = "RREQ_FBR" THEN 0 ELSE flips
        /\ UNCHANGED <<banks, active, dump, pc, work>>

-----------------------------------------------------------------------------
(* i2c_slave_thread: one step per access to what the handler writes.       *)

Step(from, to) ==
    /\ pc = from
    /\ pc' = to
    /\ UNCHANGED <<flags, event, bus, dump>>

\* Semaphore_pend with a timeout.
Pend ==
    /\ Step("pend", "count")
    /\ \/ dev.semaphore > 0 /\ dev' = [dev EXCEPT !.semaphore = @ - 1]
       \/ dev.semaphore = 0 /\ UNCHANGED dev
    /\ UNCHANGED <<banks, active, work, flips>>

\* Mutant: the slot is freed before it is copied.
CopyCount_FreeFirst ==
    /\ Step("count", "register")
    /\ work' = [work EXCEPT !.count = dev.pending.count, !.truth = dev.truth]
    /\ dev' = [dev EXCEPT !.pending.count = 0]
    /\ UNCHANGED <<banks, active, flips>>

CopyCount ==
    /\ Step("count", "register")
    /\ work' = [work EXCEPT !.count = dev.pending.count, !.truth = dev.truth]
    /\ UNCHANGED <<dev, banks, active, flips>>

CopyRegister ==
    /\ Step("register", "data")
    /\ work' = [work EXCEPT !.reg = dev.pending.reg]
    /\ UNCHANGED <<dev, banks, active, flips>>

\* A byte the record does not have is what an earlier one left: Zero here.
FirstBytes(data, n) == [i \in 1 .. n |-> IF i <= Len(data) THEN data[i] ELSE Zero]

CopyData ==
    /\ Step("data", "command")
    /\ work' = [work EXCEPT !.dir = dev.pending.dir,
                            !.data = FirstBytes(dev.pending.data, work.count)]
    /\ UNCHANGED <<dev, banks, active, flips>>

\* The first test, up to pendingRegister.
TestRegister ==
    /\ Step("command", "act")
    /\ work' = [work EXCEPT !.command = work.dir = "write" /\ dev.pending.reg = Command]
    /\ UNCHANGED <<dev, banks, active, flips>>

\* The rest of it: the record stays as it is while pendingCount is not 0.
IsClear == work.command /\ dev.pending.count = 1 /\ dev.pending.data[1] = ClearStats

IsInvalid ==
    /\ work.dir = "write"
    /\ dev.pending.count # 0
    /\ ~isLoopbackWrite(work.reg, work.count)

ClearStatistics ==
    /\ Step("act", "free")
    /\ IsClear
    /\ dev' = [dev EXCEPT !.transactions = 0, !.errors = 0]
    /\ UNCHANGED <<banks, active, work, flips>>

NotClear ==
    /\ Step("act", "invalid")
    /\ ~IsClear
    /\ UNCHANGED <<dev, banks, active, work, flips>>

\* The second test reads pendingCount again.
LoadErrors ==
    /\ Step("invalid", "store")
    /\ IsInvalid
    /\ work' = [work EXCEPT !.errors = dev.errors]
    /\ UNCHANGED <<dev, banks, active, flips>>

StoreErrors ==
    /\ Step("store", "free")
    /\ dev' = [dev EXCEPT !.errors = Inc(work.errors)]
    /\ UNCHANGED <<banks, active, work, flips>>

NothingToDo ==
    /\ Step("invalid", "free")
    /\ ~IsInvalid
    /\ UNCHANGED <<dev, banks, active, work, flips>>

\* Mutant: only a write frees the slot.
FreeSlot_Writes ==
    /\ Step("free", "wipe")
    /\ dev' = IF work.dir = "read" THEN dev
              ELSE [dev EXCEPT !.pending.count = 0, !.pending.data = <<>>, !.truth = NoRecord]
    /\ UNCHANGED <<banks, active, work, flips>>

\* Nothing reads bytes behind pendingCount.
FreeSlot ==
    /\ Step("free", "wipe")
    /\ dev' = [dev EXCEPT !.pending.count = 0, !.pending.data = <<>>, !.truth = NoRecord]
    /\ UNCHANGED <<banks, active, work, flips>>

Generation == banks[active][0][2]

\* publishRegisters: memset, fill, switch.
WipeBank ==
    /\ Step("wipe", "fill")
    /\ banks' = [banks EXCEPT ![1 - active] = [r \in 0 .. Regs - 1 |-> Zero]]
    /\ UNCHANGED <<dev, active, work, flips>>

FillBank ==
    /\ Step("fill", "switch")
    /\ banks' = [banks EXCEPT ![1 - active] = Bank((Generation + 1) % Generations)]
    /\ UNCHANGED <<dev, active, work, flips>>

SwitchBank ==
    /\ Step("switch", "print")
    /\ active' = 1 - active
    /\ flips' = IF bus.phase # "idle" /\ flips < 2 THEN flips + 1 ELSE flips
    /\ UNCHANGED <<dev, banks, work>>

\* The dump line, if any, and back to the semaphore.
PrintDump ==
    /\ Step("print", "pend")
    /\ work' = [work EXCEPT !.count = 0, !.reg = 0, !.dir = "none", !.data = <<>>,
                            !.command = FALSE, !.errors = 0, !.truth = NoRecord]
    /\ UNCHANGED <<dev, banks, active, flips>>

\* The CLI command "ipc dump on|off".
i2c_slave_cli_command(on) ==
    /\ dump' = on
    /\ UNCHANGED <<flags, event, bus, dev, banks, active, pc, work, flips>>

Master ==
    \/ \E p \in Pointers : SendPointer(p)
    \/ SendByte(Datum(bus.transfer, Len(bus.payload) + 1))
    \/ bus.pointer = Command /\ bus.payload = <<>> /\ SendByte(ClearStats)
    \/ RequestByte
    \/ Scan
    \/ SendStop

Worker ==
    \/ Pend \/ CopyCount \/ CopyRegister \/ CopyData \/ TestRegister
    \/ ClearStatistics \/ NotClear \/ LoadErrors \/ StoreErrors \/ NothingToDo
    \/ FreeSlot \/ WipeBank \/ FillBank \/ SwitchBank \/ PrintDump

Next ==
    \/ Master
    \/ i2cInterruptHandler
    \/ Worker
    \/ \E on \in BOOLEAN : i2c_slave_cli_command(on)

Spec == Init /\ [][Next]_vars

\* The work thread is scheduled again and again, the interrupt is served.
FairSpec == Spec /\ WF_vars(Worker) /\ WF_vars(i2cInterruptHandler)
-----------------------------------------------------------------------------
(* Properties.                                                             *)

Byte ==
    {Zero, ClearStats}
        \cup {Datum(t, i) : t \in 1 .. MaxTransfers, i \in 1 .. MaxWrite}
        \cup {Status(g, r) : g \in 0 .. Generations - 1, r \in 0 .. Regs - 1}

Register == 0 .. 4 * Regs - 1
Bytes(s, max) == Len(s) <= max /\ \A i \in 1 .. Len(s) : s[i] \in Byte

RecordOK(r) ==
    /\ r.count \in 0 .. Regs /\ r.reg \in Register /\ r.dir \in {"none", "write", "read"}
    /\ Bytes(r.data, Regs)

\* Buffers hold at most Regs bytes, whatever the length of a transfer: every
\* index of receiveBuffer, transmitBuffer, pendingBuffer and dumpBuffer is in
\* bounds.
TypeOK ==
    /\ flags \subseteq {"data", "stop"}
    /\ bus.phase \in {"idle", "pointed", "writing", "reading", "scanning"}
    /\ dev.pointer \in Register /\ dev.start \in Register /\ dev.snapshot \in {0, 1}
    /\ dev.valid \in BOOLEAN /\ dev.loop \in BOOLEAN
    /\ Bytes(dev.received, Regs) /\ Bytes(dev.sent, Regs)
    /\ RecordOK(dev.pending) /\ RecordOK(work)
    /\ dev.transactions \in 0 .. MaxCount /\ dev.errors \in 0 .. MaxCount
    /\ dev.semaphore \in 0 .. MaxTransfers
    /\ banks \in [{0, 1} -> [0 .. Regs - 1 -> Byte]]
    /\ active \in {0, 1}

\* The line the thread is about to print is one transfer as the bus carried
\* it: its register pointer, its direction and all of its bytes, though the
\* handler may run between any two of the thread's reads of the shared slot
\* (reads of at most Regs bytes).
DumpLineIsOneTransaction ==
    pc = "print" /\ work.count # 0 =>
        [count |-> work.count, reg |-> work.reg, dir |-> work.dir, data |-> work.data] = work.truth

\* The bytes of a status read are consecutive registers of one publication.
ReadIsConsistent ==
    bus.phase = "reading" /\ ~InWindow(bus.pointer) =>
        \E g \in 0 .. Generations - 1 :
            \A i \in 1 .. Len(bus.got) :
                bus.got[i] = Status(g, (bus.pointer + i - 1) % Regs)

\* A status read is consistent for as long as the work thread has published at
\* most once since the register pointer and has not begun to do so again.
ReadFromOnePublication ==
    flips = 0 \/ (flips = 1 /\ pc \notin {"fill", "switch"}) => ReadIsConsistent

\* A read without a register pointer is answered with zero, whatever came
\* before it.
ScanReadsZero ==
    bus.phase = "scanning" => \A i \in 1 .. Len(bus.got) : bus.got[i] = Zero

\* A read of the loopback window, however long, returns what the document
\* says the writes before it left there, and zero outside of the window: a
\* write that was refused because the slot was taken, or that ran over the end
\* of the window, left nothing, and every other one all of its payload.  No
\* write before it was cut: a payload longer than the window, written to its
\* start, is stored as far as the receive buffer goes.
LoopbackReadsBack ==
    ~bus.cut /\ bus.phase = "reading" /\ InWindow(bus.pointer) =>
        \A i \in 1 .. Len(bus.got) :
            LET p == (bus.pointer + i - 1) % (4 * Regs)
            IN  bus.got[i] = IF InWindow(p) THEN bus.expect[p - Loopback] ELSE Zero

\* A queued record is taken off the slot, so that the next can be accepted.
SlotDrains == dev.pending.count # 0 ~> dev.pending.count = 0
=============================================================================
