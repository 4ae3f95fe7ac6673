--------------------------- MODULE I2cSlaveProofs ---------------------------
(***************************************************************************)
(* Proofs about I2cSlave, for any size of the register file and any number *)
(* and length of transfers.                                                *)
(***************************************************************************)
EXTENDS I2cSlave, SequenceTheorems, TLAPS

-----------------------------------------------------------------------------
(* The inductive invariant *)

Index   == 0 .. Regs - 1
Counted == 0 .. MaxCount
Steps   == {"pend", "count", "register", "data", "command", "act", "invalid", "store",
            "free", "wipe", "fill", "switch", "print"}

Log == [count : Nat, reg : Register, dir : {"none", "write", "read"}, data : Seq(Byte)]

Windows == [Index -> Byte]

Devs == [pointer : Register, received : Seq(Byte), snapshot : {0, 1}, start : Register,
         valid : BOOLEAN, loop : BOOLEAN, sent : Seq(Byte), pending : Log, truth : Log,
         window : Windows, transactions : Counted, errors : Counted, semaphore : Nat]

Buses == [phase : {"idle", "pointed", "writing", "reading", "scanning"}, transfer : Nat,
          pointer : Register, payload : Seq(Byte), got : Seq(Byte), expect : Windows,
          cut : BOOLEAN]

Events == [status : {"none", "RREQ_FBR", "RREQ", "TREQ"}, byte : Byte, pointer : Register]

Works == [count : Nat, reg : Register, dir : {"none", "write", "read"}, data : Seq(Byte),
          command : BOOLEAN, errors : Counted, truth : Log]

Types ==
    /\ flags \subseteq {"data", "stop"} /\ event \in Events /\ bus \in Buses /\ dev \in Devs
    /\ banks \in [{0, 1} -> Windows] /\ active \in {0, 1} /\ dump \in BOOLEAN
    /\ pc \in Steps /\ work \in Works /\ flips \in {0, 1, 2}

\* A transfer is on the bus, or its STOP is still to be served.
Open == bus.phase # "idle" \/ "stop" \in flags

\* A data interrupt of this kind is still to be served.
Asked(status) == "data" \in flags /\ event.status = status

\* The interrupts that are pending in each phase of a transfer.
BusInv ==
    /\ "stop" \in flags => bus.phase = "idle"
    /\ Asked("TREQ") => bus.phase \in {"reading", "scanning"}
    /\ ~Open => flags = {} /\ ~dev.valid /\ bus.got = <<>>
    /\ "data" \in flags <=> event.status # "none"
    /\ bus.phase = "scanning" => ~Asked("RREQ_FBR") /\ ~dev.valid
    /\ bus.phase \in {"pointed", "writing", "reading"} => Asked("RREQ_FBR") \/ dev.valid
    /\ bus.phase = "pointed" => bus.payload = <<>> /\ bus.got = <<>>
    /\ bus.phase = "reading" => bus.payload = <<>> /\ ~Asked("RREQ_FBR")
    /\ bus.phase = "writing" => bus.got = <<>> /\ ~Asked("RREQ_FBR")
    /\ Asked("RREQ_FBR") => ~dev.valid /\ event.pointer = bus.pointer /\ bus.got = <<>>

\* Transfers are counted, and each posts the semaphore at most once.
CountInv ==
    /\ bus.transfer <= MaxTransfers
    /\ dev.semaphore + (IF Open THEN 1 ELSE 0) <= bus.transfer
    /\ Len(bus.payload) <= MaxWrite
    /\ dev.valid => Len(bus.got) + (IF Asked("TREQ") THEN 1 ELSE 0) <= MaxRead

\* How much of the payload the handler has seen.
Served == IF Asked("RREQ") THEN Len(bus.payload) - 1 ELSE Len(bus.payload)

\* What the handler has is what the bus carried.
LinkInv ==
    /\ ~dev.valid => dev.received = <<>> /\ dev.sent = <<>> /\ bus.payload = <<>>
    /\ Asked("RREQ") => /\ dev.valid /\ bus.payload # <<>>
                        /\ event.byte = bus.payload[Len(bus.payload)]
    /\ bus.payload # <<>> => bus.got = <<>>
    /\ Asked("TREQ") => bus.payload = <<>>
    /\ dev.valid =>
          /\ dev.start = bus.pointer
          /\ dev.loop <=> InWindow(bus.pointer)
          /\ dev.pointer = (bus.pointer + Len(bus.got)) % (4 * Regs)
          /\ Len(dev.received) = IF Served < Regs THEN Served ELSE Regs
          /\ \A i \in 1 .. Len(dev.received) : dev.received[i] = bus.payload[i]

\* What the handler keeps of a read.
SentInv == dev.valid /\ Len(bus.got) <= Regs => dev.sent = bus.got

\* A payload that the receive buffer cuts to the size of the window.
Overlong == bus.pointer = Loopback /\ Len(bus.payload) > Regs

\* The window is the one the master expects, unless a write was cut.
WindowInv ==
    ~bus.cut =>
        /\ bus.expect = dev.window
        /\ "stop" \in flags => ~Overlong

\* A read of the window has returned it.
LoopInv ==
    dev.valid /\ "stop" \notin flags /\ InWindow(bus.pointer) =>
        \A i \in 1 .. Len(bus.got) :
            LET p == (bus.pointer + i - 1) % (4 * Regs)
            IN  bus.got[i] = IF InWindow(p) THEN dev.window[p - Loopback] ELSE Zero

\* Buffers do not overflow.
BufferInv ==
    /\ Len(dev.received) <= Regs /\ Len(dev.sent) <= Regs
    /\ dev.pending.count = Len(dev.pending.data) /\ dev.pending.count <= Regs
    /\ work.count <= Regs /\ Len(work.data) <= Regs

Published(bank) == \E g \in 0 .. Generations - 1 : bank = Bank(g)

\* The active bank is a publication, and so is the one about to be.
BankInv == Published(banks[active]) /\ (pc = "switch" => Published(banks[1 - active]))

\* The bank a read began with is untouched until the second publication after it.
SnapshotInv ==
    dev.valid /\ "stop" \notin flags /\ ~InWindow(bus.pointer) =>
        /\ flips = 0 => dev.snapshot = active
        /\ flips = 1 => dev.snapshot = 1 - active
        /\ flips = 0 \/ (flips = 1 /\ pc \notin {"fill", "switch"}) =>
              \E g \in 0 .. Generations - 1 :
                 /\ banks[dev.snapshot] = Bank(g)
                 /\ \A i \in 1 .. Len(bus.got) :
                       bus.got[i] = Status(g, (bus.pointer + i - 1) % Regs)

Line(w) == [count |-> w.count, reg |-> w.reg, dir |-> w.dir, data |-> w.data]

\* The slot holds one transaction, and the thread's copy is of that one.
SlotInv ==
    /\ dev.pending.count # 0 => dev.truth = dev.pending
    /\ work.count # 0 =>
          /\ pc \in {"register", "data", "command", "act", "invalid", "store", "free"} =>
                dev.pending.count = work.count /\ work.truth = dev.truth
          /\ pc \in {"data", "command", "act", "invalid", "store", "free"} => work.reg = dev.pending.reg
          /\ pc \in {"command", "act", "invalid", "store", "free"} =>
                work.dir = dev.pending.dir /\ work.data = dev.pending.data
          /\ pc \in {"wipe", "fill", "switch", "print"} => Line(work) = work.truth

Inv ==
    /\ Types /\ BusInv /\ CountInv /\ LinkInv /\ WindowInv /\ LoopInv /\ BufferInv
    /\ BankInv /\ SnapshotInv /\ ScanReadsZero

-----------------------------------------------------------------------------
(* Arithmetic modulo n *)

\* Quotient and remainder.
LEMMA Quotient ==
    ASSUME NEW n \in Nat \ {0}, NEW a \in Nat
    PROVE  /\ a \div n \in Int /\ a % n \in 0 .. n - 1 /\ n * (a \div n) \in Int
           /\ n * (a \div n) = a - (a % n)
<1>1. a \div n \in Int  OBVIOUS
<1>2. n * (a \div n) = a - (a % n)  OBVIOUS
<1>3. a % n \in 0 .. n - 1  OBVIOUS
<1>4. n * (a \div n) \in Int  BY <1>1
<1> QED  BY <1>1, <1>2, <1>3, <1>4

\* A larger multiple is larger by n.
LEMMA LargerMultiple ==
    ASSUME NEW n \in Nat \ {0}, NEW q \in Int, NEW p \in Int, q < p
    PROVE  n * q + n <= n * p
OBVIOUS

\* What is left of a above a multiple of n is the remainder.
LEMMA Remainder ==
    ASSUME NEW n \in Nat \ {0}, NEW a \in Nat, NEW q \in Int, NEW r \in 0 .. n - 1,
           n * q = a - r
    PROVE  a % n = r
<1> DEFINE p == a \div n
           s == a % n
           x == n * q
           y == n * p
<1>1. p \in Int /\ s \in 0 .. n - 1 /\ y \in Int /\ y = a - s  BY Quotient
<1> HIDE DEF p, s
<1>2. x = a - r /\ x \in Int  OBVIOUS
<1>3. q < p => x + n <= y  BY <1>1, LargerMultiple
<1>4. p < q => y + n <= x  BY <1>1, LargerMultiple
<1>5. p = q => x = y  OBVIOUS
<1> HIDE DEF x, y
<1>6. s = r  BY <1>1, <1>2, <1>3, <1>4, <1>5
<1> QED  BY <1>6 DEF s

\* Below n a number is its own remainder.
LEMMA ModBelow ==
    ASSUME NEW n \in Nat \ {0}, NEW a \in 0 .. n - 1
    PROVE  a % n = a
OBVIOUS

\* Counting on modulo n.
LEMMA ModNext ==
    ASSUME NEW n \in Nat \ {0}, NEW a \in Nat
    PROVE  (a + 1) % n = IF a % n = n - 1 THEN 0 ELSE (a % n) + 1
<1> DEFINE q == a \div n
           r == a % n
           x == n * q
<1>1. q \in Int /\ r \in 0 .. n - 1 /\ x = a - r /\ x \in Int  BY Quotient
<1> HIDE DEF q, r
<1>2. a + 1 \in Nat /\ n * (q + 1) = x + n  BY <1>1
<1>3. CASE r = n - 1
  <2> HIDE DEF x
  <2>1. x + n = (a + 1) - 0  BY <1>1, <1>3
  <2>2. q + 1 \in Int /\ 0 \in 0 .. n - 1  BY <1>1
  <2>3. (a + 1) % n = 0  BY <1>2, <2>1, <2>2, Remainder
  <2> QED  BY <1>3, <2>3 DEF r
<1>4. CASE r # n - 1
  <2> HIDE DEF x
  <2>1. x = (a + 1) - (r + 1) /\ r + 1 \in 0 .. n - 1  BY <1>1, <1>4
  <2>2. n * q = (a + 1) - (r + 1)  BY <2>1 DEF x
  <2>3. (a + 1) % n = r + 1  BY <1>1, <1>2, <2>1, <2>2, Remainder
  <2> QED  BY <1>4, <2>3 DEF r
<1> QED  BY <1>3, <1>4

\* Counting on from the remainder.
LEMMA ModSucc ==
    ASSUME NEW n \in Nat \ {0}, NEW a \in Nat
    PROVE  ((a % n) + 1) % n = (a + 1) % n
<1> DEFINE r == a % n
<1>1. r \in 0 .. n - 1  BY Quotient
<1>2. (a + 1) % n = IF r = n - 1 THEN 0 ELSE r + 1  BY ModNext
<1> HIDE DEF r
<1>3. r \in Nat /\ r % n = r  BY <1>1, ModBelow
<1>4. (r + 1) % n = IF r % n = n - 1 THEN 0 ELSE (r % n) + 1  BY <1>3, ModNext
<1>5. (r + 1) % n = (a + 1) % n  BY <1>2, <1>3, <1>4
<1> QED  BY <1>5 DEF r

\* The register pointer, modulo 4 * n, has the remainder modulo n of the offset.
LEMMA ModFold ==
    ASSUME NEW n \in Nat \ {0}, NEW a \in Nat
    PROVE  (a % (4 * n)) % n = a % n
<1> DEFINE m == 4 * n
           q == a \div m
           b == a % m
           p == b \div n
           r == b % n
<1>1. m \in Nat \ {0}  OBVIOUS
<1>2. q \in Int /\ b \in 0 .. m - 1 /\ m * q = a - b  BY <1>1, Quotient
<1>3. b \in Nat  BY <1>1, <1>2
<1>4. p \in Int /\ r \in 0 .. n - 1 /\ n * p = b - r  BY <1>3, Quotient
<1> HIDE DEF q, b, p, r
<1>5. n * (4 * q + p) = (m * q) + (n * p)  BY <1>2, <1>4
<1>6. 4 * q + p \in Int /\ n * (4 * q + p) = a - r
  <2> DEFINE x == m * q
             y == n * p
             z == n * (4 * q + p)
  <2>1. x = a - b /\ y = b - r /\ z = x + y  BY <1>2, <1>4, <1>5
  <2> HIDE DEF x, y, z, m
  <2>2. z = a - r  BY <1>3, <1>4, <2>1
  <2> QED  BY <1>2, <1>4, <2>2 DEF z
<1>7. a % n = r  BY <1>4, <1>6, Remainder
<1> QED  BY <1>7 DEF r, b, m

\* The place in the transmit buffer of the byte at offset k < n of a read.
LEMMA OffsetInRead ==
    ASSUME NEW n \in Nat \ {0}, NEW s \in 0 .. 4 * n - 1, NEW k \in 0 .. n - 1
    PROVE  ((((s + k) % (4 * n)) + 4 * n) - s) % n = k
<1> DEFINE m == 4 * n
           p == (s + k) % m
<1>1. CASE s + k < m
  <2>1. p = s + k  BY <1>1, ModBelow
  <2>2. n * 4 = ((p + m) - s) - k /\ (p + m) - s \in Nat  BY <2>1
  <2> QED  BY <2>2, Remainder
<1>2. CASE ~(s + k < m)
  <2>0. (s + k) - m \in 0 .. m - 1 /\ s + k \in Nat /\ m \in Nat \ {0}  BY <1>2
  <2>1. m * 1 = (s + k) - ((s + k) - m)  OBVIOUS
  <2>2. p = (s + k) - m  BY <2>0, <2>1, Remainder
  <2>3. (p + m) - s = k  BY <2>2
  <2>4. k % n = k  BY ModBelow
  <2> QED  BY <2>3, <2>4
<1> QED  BY <1>1, <1>2

-----------------------------------------------------------------------------
(* Bytes, banks and buffers *)

\* The sizes.
LEMMA Sizes ==
    /\ Regs \in Nat \ {0} /\ 4 * Regs \in Nat \ {0} /\ Register \subseteq Nat
    /\ MaxTransfers \in Nat /\ MaxWrite \in Nat /\ MaxRead \in Nat /\ MaxCount \in Nat
    /\ 0 \in Register /\ 0 \in Counted /\ 0 \in Index
    /\ Pointers \subseteq Register
BY I2cAssumption DEF Register, Counted, Index

\* What is a byte.
LEMMA ByteFacts ==
    /\ Zero \in Byte /\ ClearStats \in Byte
    /\ \A t \in 1 .. MaxTransfers, i \in 1 .. MaxWrite : Datum(t, i) \in Byte
    /\ \A g \in 0 .. Generations - 1, r \in Index : Status(g, r) \in Byte
BY DEF Byte, Index

\* A publication fills the bank.
LEMMA BankFacts ==
    ASSUME NEW g \in 0 .. Generations - 1
    PROVE  Bank(g) \in Windows /\ \A r \in Index : Bank(g)[r] = Status(g, r)
BY ByteFacts DEF Bank, Windows, Index

\* A saturating counter.
LEMMA IncFacts ==
    ASSUME NEW n \in Counted
    PROVE  Inc(n) \in Counted
BY Sizes DEF Inc, Counted

\* The loopback window as an array.
LEMMA InWindowFacts ==
    ASSUME NEW p \in Register, InWindow(p)
    PROVE  p - Loopback \in Index
BY Sizes DEF InWindow, Loopback, Index, Register

\* The byte the handler answers with is a byte.
LEMMA SuppliedType ==
    ASSUME NEW d \in Devs, banks \in [{0, 1} -> Windows]
    PROVE  Supplied(d) \in Byte
<1>1. d.pointer \in Register /\ d.snapshot \in {0, 1} /\ d.window \in Windows  BY DEF Devs
<1>2. d.pointer \in Nat /\ d.pointer % Regs \in Index  BY <1>1, Sizes, Quotient DEF Index
<1>3. banks[d.snapshot] \in Windows  BY <1>1
<1>4. banks[d.snapshot][d.pointer % Regs] \in Byte  BY <1>2, <1>3 DEF Windows
<1>5. InWindow(d.pointer) => d.window[d.pointer - Loopback] \in Byte
  BY <1>1, InWindowFacts DEF Windows
<1> QED  BY <1>4, <1>5, ByteFacts DEF Supplied

\* The transmit buffer: one byte more, or one replaced.
LEMMA CapturedFacts ==
    ASSUME NEW d \in Devs, banks \in [{0, 1} -> Windows], Len(d.sent) <= Regs
    PROVE  Captured(d) \in Seq(Byte) /\ Len(Captured(d)) <= Regs /\ Captured(d) # <<>>
<1> DEFINE offset == (d.pointer + 4 * Regs - d.start) % Regs
           c == Supplied(d)
           s == d.sent
<1>1. c \in Byte /\ s \in Seq(Byte)  BY SuppliedType DEF Devs
<1>2. d.pointer + 4 * Regs - d.start \in Nat  BY Sizes DEF Devs, Register
<1>3. offset \in 0 .. Regs - 1  BY <1>2, Sizes, Quotient
<1>4. Captured(d) = IF Len(s) <= offset THEN Append(s, c) ELSE [s EXCEPT ![offset + 1] = c]
  BY DEF Captured
<1> HIDE DEF offset, c
<1>5. CASE Len(s) <= offset
  <2>1. Append(s, c) \in Seq(Byte) /\ Len(Append(s, c)) = Len(s) + 1 /\ Append(s, c) # <<>>
    BY <1>1
  <2>2. Len(s) \in Nat  BY <1>1
  <2> QED  BY <1>3, <1>4, <1>5, <2>1, <2>2, Sizes
<1>6. CASE ~(Len(s) <= offset)
  <2>1. Len(s) \in Nat /\ offset + 1 \in 1 .. Len(s)  BY <1>1, <1>3, <1>6
  <2>2. /\ [s EXCEPT ![offset + 1] = c] \in Seq(Byte)
        /\ Len([s EXCEPT ![offset + 1] = c]) = Len(s)
    BY <1>1, <2>1, ExceptSeq
  <2> QED  BY <1>4, <1>6, <2>1, <2>2
<1> QED  BY <1>5, <1>6

\* Two sequences with the same bytes are the same.
LEMMA SameBytes ==
    ASSUME NEW s \in Seq(Byte), NEW t \in Seq(Byte), Len(s) = Len(t),
           \A i \in 1 .. Len(s) : s[i] = t[i]
    PROVE  s = t
OBVIOUS

\* A part of the payload.
LEMMA FirstFacts ==
    ASSUME NEW s \in Seq(Byte), NEW n \in 0 .. Len(s)
    PROVE  /\ SubSeq(s, 1, n) \in Seq(Byte) /\ Len(SubSeq(s, 1, n)) = n
           /\ \A i \in 1 .. n : SubSeq(s, 1, n)[i] = s[i]
OBVIOUS

\* The window is overwritten by what a write carries, however it is kept.
LEMMA OverlaidFacts ==
    ASSUME NEW w \in Windows, NEW p \in Register, NEW s \in Seq(Byte)
    PROVE  Overlaid(w, p, s) \in Windows /\ (s = <<>> => Overlaid(w, p, s) = w)
<1>1. ASSUME NEW r \in Index PROVE Overlaid(w, p, s)[r] \in Byte
  BY <1>1 DEF Overlaid, Windows, Index
<1>2. Overlaid(w, p, s) \in Windows  BY <1>1 DEF Overlaid, Windows, Index
<1>3. ASSUME s = <<>> PROVE Overlaid(w, p, s) = w
  <2>1. Len(s) = 0  BY <1>3
  <2>2. \A r \in Index : Overlaid(w, p, s)[r] = w[r]  BY <2>1 DEF Overlaid, Index
  <2> QED  BY <1>2, <2>2 DEF Windows
<1> QED  BY <1>2, <1>3

-----------------------------------------------------------------------------
(* The two parts of the interrupt handler *)

\* The data part leaves the record for the work thread and the window alone.
LEMMA OnDataTypes ==
    ASSUME Types, BufferInv
    PROVE  /\ OnData(dev) \in Devs
           /\ Len(OnData(dev).received) <= Regs /\ Len(OnData(dev).sent) <= Regs
           /\ OnData(dev).pending = dev.pending /\ OnData(dev).truth = dev.truth
           /\ OnData(dev).window = dev.window
           /\ OnData(dev).semaphore = dev.semaphore
<1> DEFINE s == OnData(dev)
<1>0. dev \in Devs /\ event \in Events /\ active \in {0, 1} /\ banks \in [{0, 1} -> Windows]
  BY DEF Types
<1>1. Len(dev.received) <= Regs /\ Len(dev.sent) <= Regs  BY DEF BufferInv
<1>2. CASE event.status = "TREQ" /\ dev.valid
  <2> DEFINE c == Captured(dev)
             q == (dev.pointer + 1) % (4 * Regs)
  <2>1. c \in Seq(Byte) /\ Len(c) <= Regs  BY <1>0, <1>1, CapturedFacts
  <2>2. dev.pointer + 1 \in Nat
    <3>1. dev.pointer \in Register  BY <1>0 DEF Devs
    <3>2. dev.pointer \in Nat  BY <3>1, Sizes
    <3> QED  BY <3>2
  <2>3. q \in Register  BY <2>2, Sizes, Quotient DEF Register
  <2>4. s = [dev EXCEPT !.sent = c, !.pointer = q]  BY <1>2 DEF OnData
  <2> HIDE DEF s, c, q
  <2>5. s \in Devs /\ s.received = dev.received /\ s.sent = c
    BY <1>0, <2>1, <2>3, <2>4 DEF Devs
  <2>6. /\ s.pending = dev.pending /\ s.truth = dev.truth /\ s.window = dev.window
        /\ s.semaphore = dev.semaphore
    BY <1>0, <2>4 DEF Devs
  <2>7. QED  BY <1>1, <2>1, <2>5, <2>6 DEF s
<1>3. CASE event.status = "RREQ_FBR"
  <2> DEFINE w == InWindow(event.pointer)
  <2>1. event.pointer \in Register /\ w \in BOOLEAN /\ <<>> \in Seq(Byte) /\ Len(<<>>) = 0
    BY <1>0 DEF Events, InWindow
  <2>4. s = [dev EXCEPT !.pointer = event.pointer, !.received = <<>>,
                        !.start = event.pointer, !.snapshot = active, !.valid = TRUE,
                        !.loop = w, !.sent = <<>>]
    BY <1>3 DEF OnData
  <2> HIDE DEF s, w
  <2>5. s \in Devs /\ s.received = <<>> /\ s.sent = <<>>  BY <1>0, <2>1, <2>4 DEF Devs
  <2>6. /\ s.pending = dev.pending /\ s.truth = dev.truth /\ s.window = dev.window
        /\ s.semaphore = dev.semaphore
    BY <1>0, <2>4 DEF Devs
  <2>7. QED  BY <2>1, <2>5, <2>6, Sizes DEF s
<1>4. CASE event.status = "RREQ" /\ HasRoom(dev)
  <2> DEFINE r == Append(dev.received, event.byte)
  <2>1. r \in Seq(Byte) /\ Len(r) = Len(dev.received) + 1 /\ Len(dev.received) \in Nat
    BY <1>0 DEF Devs, Events
  <2>2. Len(r) <= Regs  BY <1>4, <2>1, Sizes DEF HasRoom
  <2>4. s = [dev EXCEPT !.received = r]  BY <1>4 DEF OnData
  <2> HIDE DEF s, r
  <2>5. s \in Devs /\ s.received = r /\ s.sent = dev.sent  BY <1>0, <2>1, <2>4 DEF Devs
  <2>6. /\ s.pending = dev.pending /\ s.truth = dev.truth /\ s.window = dev.window
        /\ s.semaphore = dev.semaphore
    BY <1>0, <2>4 DEF Devs
  <2>7. QED  BY <1>1, <2>2, <2>5, <2>6 DEF s
<1>5. CASE event.status = "RREQ" /\ ~HasRoom(dev)
  <2> DEFINE n == Inc(dev.errors)
  <2>1. n \in Counted  BY <1>0, IncFacts DEF Devs
  <2>4. s = [dev EXCEPT !.errors = n]  BY <1>5 DEF OnData
  <2> HIDE DEF s, n
  <2>5. s \in Devs /\ s.received = dev.received /\ s.sent = dev.sent
    BY <1>0, <2>1, <2>4 DEF Devs
  <2>6. /\ s.pending = dev.pending /\ s.truth = dev.truth /\ s.window = dev.window
        /\ s.semaphore = dev.semaphore
    BY <1>0, <2>4 DEF Devs
  <2>7. QED  BY <1>1, <2>5, <2>6 DEF s
<1>6. CASE /\ ~(event.status = "TREQ" /\ dev.valid) /\ event.status # "RREQ_FBR"
           /\ event.status # "RREQ"
  <2>1. s = dev  BY <1>6 DEF OnData
  <2> QED  BY <1>0, <1>1, <2>1
<1> QED  BY <1>2, <1>3, <1>4, <1>5, <1>6

\* A byte is asked for.
LEMMA OnRequest ==
    ASSUME Types, event.status = "TREQ"
    PROVE  /\ OnData(dev).valid <=> dev.valid
           /\ OnData(dev).loop <=> dev.loop
           /\ OnData(dev).start = dev.start /\ OnData(dev).snapshot = dev.snapshot
           /\ OnData(dev).received = dev.received
           /\ ~dev.valid => OnData(dev) = dev
           /\ dev.valid => /\ OnData(dev).pointer = (dev.pointer + 1) % (4 * Regs)
                           /\ OnData(dev).sent = Captured(dev)
<1>0. dev \in Devs  BY DEF Types
<1>1. CASE dev.valid
  <2>1. OnData(dev) = [dev EXCEPT !.sent = Captured(dev),
                                  !.pointer = (dev.pointer + 1) % (4 * Regs)]
    BY <1>1 DEF OnData
  <2> QED  BY <1>0, <1>1, <2>1 DEF Devs
<1>2. CASE ~dev.valid
  <2>1. OnData(dev) = dev  BY <1>2 DEF OnData
  <2> QED  BY <1>2, <2>1
<1> QED  BY <1>1, <1>2

\* The register pointer has come.
LEMMA OnPointer ==
    ASSUME Types, event.status = "RREQ_FBR"
    PROVE  /\ OnData(dev).valid
           /\ OnData(dev).loop <=> InWindow(event.pointer)
           /\ OnData(dev).start = event.pointer /\ OnData(dev).pointer = event.pointer
           /\ OnData(dev).snapshot = active
           /\ OnData(dev).received = <<>> /\ OnData(dev).sent = <<>>
<1>0. dev \in Devs  BY DEF Types
<1>1. OnData(dev) = [dev EXCEPT !.pointer = event.pointer, !.received = <<>>,
                                !.start = event.pointer, !.snapshot = active, !.valid = TRUE,
                                !.loop = InWindow(event.pointer), !.sent = <<>>]
  BY DEF OnData
<1> QED  BY <1>0, <1>1 DEF Devs

\* A byte has come.
LEMMA OnByte ==
    ASSUME Types, event.status = "RREQ"
    PROVE  /\ OnData(dev).valid <=> dev.valid
           /\ OnData(dev).loop <=> dev.loop
           /\ OnData(dev).start = dev.start /\ OnData(dev).pointer = dev.pointer
           /\ OnData(dev).snapshot = dev.snapshot /\ OnData(dev).sent = dev.sent
           /\ OnData(dev).received = IF Len(dev.received) < Regs
                                      THEN Append(dev.received, event.byte) ELSE dev.received
<1>0. dev \in Devs  BY DEF Types
<1>1. CASE Len(dev.received) < Regs
  <2>1. OnData(dev) = [dev EXCEPT !.received = Append(dev.received, event.byte)]
    BY <1>1 DEF OnData, HasRoom
  <2> QED  BY <1>0, <1>1, <2>1 DEF Devs
<1>2. CASE ~(Len(dev.received) < Regs)
  <2>1. OnData(dev) = [dev EXCEPT !.errors = Inc(dev.errors)]  BY <1>2 DEF OnData, HasRoom
  <2> QED  BY <1>0, <1>2, <2>1 DEF Devs
<1> QED  BY <1>1, <1>2

\* A byte served is appended, as long as the buffer has room.
LEMMA ByteReceived ==
    ASSUME Types, LinkInv, Asked("RREQ")
    PROVE  /\ Len(OnData(dev).received) = IF Len(bus.payload) < Regs THEN Len(bus.payload) ELSE Regs
           /\ \A i \in 1 .. Len(OnData(dev).received) :
                 OnData(dev).received[i] = bus.payload[i]
<1> DEFINE p == bus.payload
           r == dev.received
           o == OnData(dev).received
           b == event.byte
<1>1. /\ Len(r) = IF Len(p) - 1 < Regs THEN Len(p) - 1 ELSE Regs
      /\ \A i \in 1 .. Len(r) : r[i] = p[i]
      /\ p # <<>> /\ b = p[Len(p)]
  BY DEF LinkInv, Served
<1>2. p \in Seq(Byte) /\ r \in Seq(Byte) /\ b \in Byte  BY DEF Types, Devs, Buses, Events
<1>3. o = IF Len(r) < Regs THEN Append(r, b) ELSE r  BY OnByte DEF Asked
<1> HIDE DEF p, r, b, o
<1>4. Len(p) \in Nat \ {0}  BY <1>1, <1>2
<1>5. CASE Len(r) < Regs
  <2>1. o = Append(r, b) /\ Len(r) = Len(p) - 1  BY <1>1, <1>3, <1>4, <1>5, Sizes
  <2>2. Len(o) = Len(p) /\ Len(p) <= Regs  BY <1>2, <1>4, <1>5, <2>1, Sizes
  <2>3. ASSUME NEW i \in 1 .. Len(p) PROVE o[i] = p[i]
    <3>1. CASE i = Len(p)  BY <1>1, <1>2, <1>4, <2>1, <3>1
    <3>2. CASE i # Len(p)  
      <4>1. i \in 1 .. Len(r)  BY <1>4, <2>1, <3>2
      <4>2. o[i] = r[i]  BY <1>2, <2>1, <4>1
      <4> QED  BY <1>1, <4>1, <4>2
    <3> QED  BY <3>1, <3>2
  <2>4. Len(o) = IF Len(p) < Regs THEN Len(p) ELSE Regs  BY <1>4, <2>2, Sizes
  <2> QED  BY <2>2, <2>3, <2>4 DEF o, p
<1>6. CASE ~(Len(r) < Regs)
  <2>1. o = r  BY <1>3, <1>6
  <2>2. Len(r) = IF Len(p) < Regs THEN Len(p) ELSE Regs  BY <1>1, <1>2, <1>4, <1>6, Sizes
  <2> QED  BY <1>1, <2>1, <2>2 DEF o, p
<1> QED  BY <1>5, <1>6

\* The first bytes of the payload, as many as there is room for.
Fitting(payload) == SubSeq(payload, 1, IF Len(payload) < Regs THEN Len(payload) ELSE Regs)

\* These are what the handler has received.
LEMMA IsFitting ==
    ASSUME NEW p \in Seq(Byte), NEW r \in Seq(Byte),
           Len(r) = IF Len(p) < Regs THEN Len(p) ELSE Regs,
           \A i \in 1 .. Len(r) : r[i] = p[i]
    PROVE  r = Fitting(p) /\ r = SubSeq(p, 1, Len(r))
<1> DEFINE n == IF Len(p) < Regs THEN Len(p) ELSE Regs
           f == SubSeq(p, 1, n)
<1>1. n \in 0 .. Len(p)  BY Sizes
<1>2. f \in Seq(Byte) /\ Len(f) = n /\ \A i \in 1 .. n : f[i] = p[i]  BY <1>1, FirstFacts
<1>3. Fitting(p) = f  BY DEF Fitting
<1>4. n = Len(r)  OBVIOUS
<1> HIDE DEF n, f
<1>5. r = f  BY <1>2, <1>4, SameBytes
<1> QED  BY <1>3, <1>4, <1>5 DEF f

\* All of a payload is in the window when its length leaves it there.
LEMMA AllInRange ==
    ASSUME NEW p \in Nat, NEW n \in Nat \ {0}
    PROVE  (\A i \in 1 .. n : InWindow(p + i - 1)) <=> isLoopbackWrite(p, n)
<1>0. Regs \in Nat \ {0} /\ Loopback \in Nat  BY Sizes DEF Loopback
<1>1. ASSUME \A i \in 1 .. n : InWindow(p + i - 1) PROVE isLoopbackWrite(p, n)
  <2>1. InWindow(p + 1 - 1) /\ InWindow(p + n - 1)  BY <1>1
  <2> QED  BY <1>0, <2>1 DEF InWindow, isLoopbackWrite
<1>2. ASSUME isLoopbackWrite(p, n), NEW i \in 1 .. n PROVE InWindow(p + i - 1)
  BY <1>0, <1>2 DEF InWindow, isLoopbackWrite
<1> QED  BY <1>1, <1>2

\* What the document has of a write is what the received bytes leave, unless
\* the payload is cut to the size of the window.
LEMMA ExpectedFacts ==
    ASSUME bus \in Buses
    PROVE  /\ Expected \in Windows
           /\ dev.pending.count # 0 => Expected = bus.expect
           /\ dev.pending.count = 0 /\ ~Overlong =>
                 Expected = Overlaid(bus.expect, bus.pointer, Fitting(bus.payload))
<1> DEFINE w == bus.expect
           p == bus.pointer
           s == bus.payload
           n == Len(s)
           f == Fitting(s)
           inRange == \A i \in 1 .. n : InWindow(p + i - 1)
<1>1. w \in Windows /\ p \in Register /\ s \in Seq(Byte) /\ n \in Nat /\ DOMAIN s = 1 .. n
  BY DEF Buses
<1>2. p \in Nat /\ Regs \in Nat \ {0} /\ Loopback = 2 * Regs  BY <1>1, Sizes DEF Loopback
<1>3. Expected = [r \in Index |->
                    IF dev.pending.count = 0 /\ inRange /\ ((r + Loopback + 1) - p) \in 1 .. n
                    THEN s[(r + Loopback + 1) - p] ELSE w[r]]
  BY <1>1 DEF Expected, Index
<1> HIDE DEF w, p, s, n, f, inRange
<1>4. Expected \in Windows
  <2>1. ASSUME NEW r \in Index, ((r + Loopback + 1) - p) \in 1 .. n
        PROVE  s[(r + Loopback + 1) - p] \in Byte
    BY <1>1, <2>1 DEF n
  <2>2. \A r \in Index : w[r] \in Byte  BY <1>1 DEF Windows
  <2> QED  BY <1>3, <2>1, <2>2 DEF Windows
<1>5. ASSUME dev.pending.count # 0 \/ ~inRange PROVE Expected = w
  <2>1. \A r \in Index : Expected[r] = w[r]  BY <1>3, <1>5
  <2> QED  BY <1>1, <1>4, <2>1 DEF Windows
<1>6. ASSUME dev.pending.count = 0, ~Overlong PROVE Expected = Overlaid(w, p, f)
  <2>1. f = SubSeq(s, 1, IF n < Regs THEN n ELSE Regs)  BY DEF f, Fitting, n
  <2>2. (IF n < Regs THEN n ELSE Regs) \in 0 .. Len(s)  BY <1>1, <1>2 DEF n
  <2>3. /\ f \in Seq(Byte) /\ Len(f) = IF n < Regs THEN n ELSE Regs
        /\ \A i \in 1 .. Len(f) : f[i] = s[i]
    BY <1>1, <2>1, <2>2, FirstFacts
  <2>4. Overlaid(w, p, f) \in Windows  BY <1>1, <2>3, OverlaidFacts
  <2>5. \A r \in Index :
           Overlaid(w, p, f)[r] =
              IF isLoopbackWrite(p, Len(f)) /\ ((r + Loopback + 1) - p) \in 1 .. Len(f)
              THEN f[(r + Loopback + 1) - p] ELSE w[r]
    BY DEF Overlaid, Index
  <2>6. CASE n = 0
    <3>1. Len(f) = 0 /\ 1 .. 0 = {}  BY <1>2, <2>3, <2>6
    <3>2. \A r \in Index : Expected[r] = Overlaid(w, p, f)[r]  BY <1>3, <2>5, <2>6, <3>1
    <3> QED  BY <1>4, <2>4, <3>2 DEF Windows
  <2>7. CASE n # 0 /\ n <= Regs
    <3>1. Len(f) = n  BY <1>1, <1>2, <2>3, <2>7
    <3>2. inRange <=> isLoopbackWrite(p, n)  BY <1>1, <1>2, <2>7, AllInRange DEF inRange
    <3>3. \A r \in Index : Expected[r] = Overlaid(w, p, f)[r]
      BY <1>3, <1>6, <2>3, <2>5, <3>1, <3>2
    <3> QED  BY <1>4, <2>4, <3>3 DEF Windows
  <2>8. CASE n > Regs
    <3>1. Len(f) = Regs /\ p # Loopback  BY <1>1, <1>2, <1>6, <2>3, <2>8 DEF Overlong, p, s, n
    <3>2. ~isLoopbackWrite(p, Regs) /\ ~isLoopbackWrite(p, n)
      BY <1>1, <1>2, <2>8, <3>1 DEF isLoopbackWrite, InWindow
    <3>3. ~inRange
      <4>1. n \in Nat \ {0}  BY <1>1, <1>2, <2>8
      <4> QED  BY <1>2, <3>2, <4>1, AllInRange DEF inRange
    <3>4. \A r \in Index : Expected[r] = Overlaid(w, p, f)[r]
      BY <1>3, <2>5, <3>1, <3>2, <3>3
    <3> QED  BY <1>4, <2>4, <3>4 DEF Windows
  <2> QED  BY <1>1, <1>2, <2>6, <2>7, <2>8
<1> QED  BY <1>4, <1>5, <1>6 DEF w, p, s, f

\* What the stop part of the handler finds.
LEMMA SeenAtStop ==
    ASSUME Inv, "stop" \in flags, NEW s, s = IF "data" \in flags THEN OnData(dev) ELSE dev
    PROVE  /\ s \in Devs /\ Len(s.received) <= Regs /\ Len(s.sent) <= Regs
           /\ s.pending = dev.pending /\ s.truth = dev.truth /\ s.window = dev.window
           /\ s.semaphore = dev.semaphore
           /\ s.received = Fitting(bus.payload)
           /\ s.received = SubSeq(bus.payload, 1, Len(s.received))
           /\ s.received # <<>> => s.pointer = bus.pointer
           /\ s.sent # <<>> => s.start = bus.pointer
           /\ SentInv /\ MaxRead <= Regs /\ s.valid => s.sent = bus.got
<1>0. Types /\ BusInv /\ LinkInv /\ BufferInv /\ CountInv  BY DEF Inv
<1>1. /\ s \in Devs /\ Len(s.received) <= Regs /\ Len(s.sent) <= Regs
      /\ s.pending = dev.pending /\ s.truth = dev.truth /\ s.window = dev.window
      /\ s.semaphore = dev.semaphore
  <2>1. CASE "data" \in flags  BY <1>0, <2>1, OnDataTypes
  <2>2. CASE "data" \notin flags  BY <1>0, <2>2 DEF Types, BufferInv
  <2> QED  BY <2>1, <2>2
<1>2. /\ bus.payload \in Seq(Byte) /\ bus.got \in Seq(Byte) /\ bus.pointer \in Register
      /\ s.received \in Seq(Byte) /\ dev.received \in Seq(Byte) /\ dev.sent \in Seq(Byte)
  BY <1>0, <1>1 DEF Types, Buses, Devs
<1>3. /\ Len(bus.got) \in Nat /\ Len(bus.payload) \in Nat
      /\ dev.valid => Len(bus.got) <= MaxRead
  <2>1. Len(bus.got) \in Nat /\ Len(bus.payload) \in Nat  BY <1>2
  <2> DEFINE k == IF Asked("TREQ") THEN 1 ELSE 0
  <2>2. k \in Nat /\ (dev.valid => Len(bus.got) + k <= MaxRead)  BY <1>0 DEF CountInv
  <2> HIDE DEF k
  <2> QED  BY <2>1, <2>2, Sizes
<1>4. bus.pointer \in Nat /\ bus.pointer % (4 * Regs) = bus.pointer
  BY <1>2, Sizes, ModBelow DEF Register
<1>5. ~Asked("TREQ")  BY <1>0 DEF BusInv
<1>6. ~dev.valid => Fitting(bus.payload) = <<>> /\ SubSeq(bus.payload, 1, 0) = <<>>
  <2> SUFFICES ASSUME ~dev.valid PROVE Fitting(bus.payload) = <<>> /\ SubSeq(bus.payload, 1, 0) = <<>>
    OBVIOUS
  <2>1. bus.payload = <<>>  BY <1>0 DEF LinkInv
  <2>2. Len(<<>>) = 0 /\ <<>> \in Seq(Byte)  OBVIOUS
  <2>3. Len(<<>>) = IF Len(<<>>) < Regs THEN Len(<<>>) ELSE Regs  BY <2>2, Sizes
  <2>4. \A i \in 1 .. Len(<<>>) : <<>>[i] = <<>>[i]  OBVIOUS
  <2>5. <<>> = Fitting(<<>>) /\ <<>> = SubSeq(<<>>, 1, Len(<<>>))
    BY <2>2, <2>3, <2>4, IsFitting
  <2> QED  BY <2>1, <2>2, <2>5
<1>7. CASE "data" \notin flags
  <2>1. s = dev /\ Served = Len(bus.payload)  BY <1>7 DEF Served, Asked
  <2>2. CASE dev.valid
    <3>0. /\ Len(s.received) = IF Len(bus.payload) < Regs THEN Len(bus.payload) ELSE Regs
          /\ \A i \in 1 .. Len(s.received) : s.received[i] = bus.payload[i]
      BY <1>0, <2>1, <2>2 DEF LinkInv
    <3>1. s.received = Fitting(bus.payload) /\ s.received = SubSeq(bus.payload, 1, Len(s.received))
      BY <1>2, <3>0, IsFitting
    <3>2. ASSUME s.received # <<>> PROVE s.pointer = bus.pointer
      <4>1. bus.payload # <<>>
        <5>1. Len(s.received) # 0 /\ Len(s.received) \in Nat  BY <1>2, <3>2
        <5>2. Len(bus.payload) # 0  BY <1>3, <3>0, <5>1, Sizes
        <5> QED  BY <5>2
      <4>2. bus.got = <<>> /\ Len(<<>>) = 0  BY <1>0, <4>1 DEF LinkInv
      <4>3. s.pointer = (bus.pointer + 0) % (4 * Regs)  BY <1>0, <2>1, <2>2, <4>2 DEF LinkInv
      <4> QED  BY <1>4, <4>3
    <3>3. s.start = bus.pointer  BY <1>0, <2>1, <2>2 DEF LinkInv
    <3>4. SentInv /\ MaxRead <= Regs => s.sent = bus.got
      BY <1>3, <2>1, <2>2, Sizes DEF SentInv
    <3> QED  BY <1>1, <3>1, <3>2, <3>3, <3>4
  <2>3. CASE ~dev.valid
    <3>1. s.received = <<>> /\ s.sent = <<>> /\ Len(<<>>) = 0  BY <1>0, <2>1, <2>3 DEF LinkInv
    <3> QED  BY <1>1, <1>6, <2>1, <2>3, <3>1
  <2> QED  BY <2>2, <2>3
<1>8. CASE Asked("RREQ_FBR")
  <2>1. s = OnData(dev) /\ event.status = "RREQ_FBR"  BY <1>8 DEF Asked
  <2>2. s.received = <<>> /\ s.sent = <<>> /\ Len(<<>>) = 0  BY <1>0, <2>1, OnPointer
  <2>3. ~dev.valid /\ bus.got = <<>>  BY <1>0, <1>8 DEF BusInv
  <2> QED  BY <1>1, <1>6, <2>2, <2>3
<1>9. CASE Asked("RREQ")
  <2>1. s = OnData(dev) /\ event.status = "RREQ"  BY <1>9 DEF Asked
  <2>2. dev.valid /\ bus.payload # <<>> /\ bus.got = <<>> /\ Len(<<>>) = 0
    BY <1>0, <1>9 DEF LinkInv
  <2>3. /\ Len(s.received) = IF Len(bus.payload) < Regs THEN Len(bus.payload) ELSE Regs
        /\ \A i \in 1 .. Len(s.received) : s.received[i] = bus.payload[i]
    BY <1>0, <1>9, <2>1, ByteReceived
  <2>4. s.received = Fitting(bus.payload) /\ s.received = SubSeq(bus.payload, 1, Len(s.received))
    BY <1>2, <2>3, IsFitting
  <2>5. s.pointer = dev.pointer /\ s.start = dev.start /\ s.sent = dev.sent
    BY <1>0, <2>1, OnByte
  <2>6. dev.pointer = (bus.pointer + 0) % (4 * Regs) /\ dev.start = bus.pointer
    BY <1>0, <2>2 DEF LinkInv
  <2>7. SentInv /\ MaxRead <= Regs => s.sent = bus.got
    BY <1>3, <2>2, <2>5, Sizes DEF SentInv
  <2> QED  BY <1>1, <1>4, <2>4, <2>5, <2>6, <2>7
<1>10. "data" \in flags => Asked("RREQ_FBR") \/ Asked("RREQ") \/ Asked("TREQ")
  BY <1>0 DEF BusInv, Asked, Types, Events
<1> QED  BY <1>5, <1>7, <1>8, <1>9, <1>10

Entry(n, reg, dir, data) == [count |-> n, reg |-> reg, dir |-> dir, data |-> data]

\* A record is queued for the work thread, which is woken.
LEMMA QueueFacts ==
    ASSUME Types, NEW s \in Devs, NEW reg \in Register, NEW dir \in {"read", "write"},
           NEW data \in Seq(Byte), dir = "write" => SubSeq(bus.payload, 1, Len(data)) = data
    PROVE  /\ Queue(s, reg, dir, data) \in Devs
           /\ Queue(s, reg, dir, data).received = <<>>
           /\ Queue(s, reg, dir, data).pending = Entry(Len(data), reg, dir, data)
           /\ Queue(s, reg, dir, data).truth =
                 Entry(Len(data), bus.pointer, dir, IF dir = "read" THEN bus.got ELSE data)
           /\ Queue(s, reg, dir, data).semaphore = s.semaphore + 1
           /\ Queue(s, reg, dir, data).window = s.window
<1> DEFINE q == Queue(s, reg, dir, data)
           a == Entry(Len(data), reg, dir, data)
           b == Entry(Len(data), bus.pointer, dir, IF dir = "read" THEN bus.got ELSE data)
           n == s.semaphore + 1
<1>1. bus.got \in Seq(Byte) /\ bus.pointer \in Register /\ Len(data) \in Nat
  BY DEF Types, Buses
<1>2. a \in Log /\ b \in Log  BY <1>1 DEF Log, Entry
<1>3. s.semaphore \in Nat  BY DEF Devs
<1>4. n \in Nat  BY <1>3
<1>5. q = [s EXCEPT !.pending = a, !.truth = b, !.received = <<>>, !.semaphore = n]
  BY DEF Queue, Entry
<1> HIDE DEF q, a, b, n
<1>6. <<>> \in Seq(Byte)  OBVIOUS
<1>7. q \in Devs  BY <1>2, <1>4, <1>5, <1>6 DEF Devs
<1>8. /\ q.received = <<>> /\ q.pending = a /\ q.truth = b /\ q.semaphore = n
      /\ q.window = s.window
  BY <1>5 DEF Devs
<1> QED  BY <1>7, <1>8 DEF q, a, b, n

\* The transfer is over.
LEMMA ReadOverFacts ==
    ASSUME NEW s \in Devs
    PROVE  /\ ReadOver(s) \in Devs /\ ~ReadOver(s).valid /\ ReadOver(s).sent = <<>>
           /\ ReadOver(s).received = s.received /\ ReadOver(s).pending = s.pending
           /\ ReadOver(s).truth = s.truth /\ ReadOver(s).semaphore = s.semaphore
           /\ ReadOver(s).window = s.window
<1>1. <<>> \in Seq(Byte)  OBVIOUS
<1> QED  BY <1>1 DEF ReadOver, Devs

\* What the stop part of the handler does.
LEMMA OnStopFacts ==
    ASSUME Types, NEW s \in Devs, Len(s.received) <= Regs, Len(s.sent) <= Regs,
           s.received = SubSeq(bus.payload, 1, Len(s.received)),
           s.pending.count = Len(s.pending.data), s.pending.count <= Regs
    PROVE  /\ OnStop(s) \in Devs /\ ~OnStop(s).valid
           /\ OnStop(s).received = <<>> /\ OnStop(s).sent = <<>>
           /\ OnStop(s).pending.count = Len(OnStop(s).pending.data)
           /\ OnStop(s).pending.count <= Regs
           /\ OnStop(s).semaphore = s.semaphore \/ OnStop(s).semaphore = s.semaphore + 1
           /\ OnStop(s).window = IF s.received = <<>> \/ s.pending.count # 0 THEN s.window
                                 ELSE Overlaid(s.window, s.pointer, s.received)
           /\ \/ OnStop(s).pending = s.pending /\ OnStop(s).truth = s.truth
              \/ /\ s.pending.count = 0 /\ s.received # <<>>
                 /\ OnStop(s).pending = Entry(Len(s.received), s.pointer, "write", s.received)
                 /\ OnStop(s).truth = Entry(Len(s.received), bus.pointer, "write", s.received)
              \/ /\ s.pending.count = 0 /\ s.valid /\ s.sent # <<>>
                 /\ OnStop(s).pending = Entry(Len(s.sent), s.start, "read", s.sent)
                 /\ OnStop(s).truth = Entry(Len(s.sent), bus.pointer, "read", bus.got)
<1>0. /\ s.received \in Seq(Byte) /\ s.sent \in Seq(Byte) /\ s.pointer \in Register
      /\ s.start \in Register /\ s.errors \in Counted /\ s.transactions \in Counted
      /\ s.window \in Windows
  BY DEF Devs
<1>1. CASE s.received # <<>> /\ s.pending.count # 0
  <2> DEFINE r == Rejected(s)
             n == Inc(s.errors)
  <2>1. OnStop(s) = ReadOver(r)  BY <1>1 DEF OnStop
  <2>2. n \in Counted /\ <<>> \in Seq(Byte)  BY <1>0, IncFacts
  <2>3. r = [s EXCEPT !.errors = n, !.received = <<>>]  BY DEF Rejected
  <2> HIDE DEF n, r
  <2>4. r \in Devs /\ r.received = <<>> /\ r.pending = s.pending /\ r.truth = s.truth
    BY <2>2, <2>3 DEF Devs
  <2>5. r.semaphore = s.semaphore /\ r.window = s.window  BY <2>3 DEF Devs
  <2>6. /\ ReadOver(r) \in Devs /\ ~ReadOver(r).valid /\ ReadOver(r).sent = <<>>
        /\ ReadOver(r).received = r.received /\ ReadOver(r).pending = r.pending
        /\ ReadOver(r).truth = r.truth /\ ReadOver(r).semaphore = r.semaphore
        /\ ReadOver(r).window = r.window
    BY <2>4, ReadOverFacts
  <2> QED  BY <1>1, <2>1, <2>4, <2>5, <2>6
<1>2. CASE s.received # <<>> /\ s.pending.count = 0
  <2> DEFINE q == Queue(s, s.pointer, "write", s.received)
             w == Overlaid(s.window, s.pointer, s.received)
             n == Inc(q.transactions)
             r == [q EXCEPT !.window = w, !.transactions = n]
             a == Entry(Len(s.received), s.pointer, "write", s.received)
             b == Entry(Len(s.received), bus.pointer, "write", s.received)
  <2>1. OnStop(s) = ReadOver(r)  BY <1>2 DEF OnStop
  <2>2. /\ q \in Devs /\ q.received = <<>> /\ q.pending = a /\ q.truth = b
        /\ q.semaphore = s.semaphore + 1
    BY <1>0, QueueFacts
  <2>3. w \in Windows  BY <1>0, OverlaidFacts
  <2> HIDE DEF q, w
  <2>4. q.transactions \in Counted  BY <2>2 DEF Devs
  <2>5. n \in Counted  BY <2>4, IncFacts
  <2> HIDE DEF n
  <2>6. r \in Devs  BY <2>2, <2>3, <2>5 DEF Devs
  <2>7. /\ r.received = <<>> /\ r.pending = a /\ r.truth = b /\ r.window = w
        /\ r.semaphore = s.semaphore + 1
    BY <2>2 DEF Devs
  <2>8. a.count = Len(a.data) /\ a.count <= Regs  BY DEF Entry
  <2> HIDE DEF r, a, b
  <2>9. /\ ReadOver(r) \in Devs /\ ~ReadOver(r).valid /\ ReadOver(r).sent = <<>>
        /\ ReadOver(r).received = r.received /\ ReadOver(r).pending = r.pending
        /\ ReadOver(r).truth = r.truth /\ ReadOver(r).semaphore = r.semaphore
        /\ ReadOver(r).window = r.window
    BY <2>6, ReadOverFacts
  <2> QED  BY <1>2, <2>1, <2>7, <2>8, <2>9 DEF a, b, w
<1>3. CASE s.received = <<>> /\ s.valid /\ s.sent # <<>> /\ dump /\ s.pending.count # 0
  <2> DEFINE n == Inc(s.errors)
             r == Rejected(s)
  <2>1. OnStop(s) = ReadOver(r)  BY <1>3 DEF OnStop
  <2>2. n \in Counted /\ <<>> \in Seq(Byte)  BY <1>0, IncFacts
  <2>3. r = [s EXCEPT !.errors = n, !.received = <<>>]  BY DEF Rejected
  <2> HIDE DEF n, r
  <2>4. /\ r \in Devs /\ r.received = <<>> /\ r.pending = s.pending /\ r.truth = s.truth
    BY <2>2, <2>3 DEF Devs
  <2>5. r.semaphore = s.semaphore /\ r.window = s.window
    BY <2>3 DEF Devs
  <2>6. /\ ReadOver(r) \in Devs /\ ~ReadOver(r).valid /\ ReadOver(r).sent = <<>>
        /\ ReadOver(r).received = r.received /\ ReadOver(r).pending = r.pending
        /\ ReadOver(r).truth = r.truth /\ ReadOver(r).semaphore = r.semaphore
        /\ ReadOver(r).window = r.window
    BY <2>4, ReadOverFacts
  <2> QED  BY <1>3, <2>1, <2>4, <2>5, <2>6
<1>4. CASE s.received = <<>> /\ s.valid /\ s.sent # <<>> /\ dump /\ s.pending.count = 0
  <2> DEFINE r == Queue(s, s.start, "read", s.sent)
             a == Entry(Len(s.sent), s.start, "read", s.sent)
             b == Entry(Len(s.sent), bus.pointer, "read", bus.got)
  <2>1. OnStop(s) = ReadOver(r)  BY <1>4 DEF OnStop
  <2>2. /\ r \in Devs /\ r.received = <<>> /\ r.pending = a /\ r.truth = b
        /\ r.semaphore = s.semaphore + 1 /\ r.window = s.window
    BY <1>0, QueueFacts
  <2>3. a.count = Len(a.data) /\ a.count <= Regs  BY DEF Entry
  <2> HIDE DEF r, a, b
  <2>4. /\ ReadOver(r) \in Devs /\ ~ReadOver(r).valid /\ ReadOver(r).sent = <<>>
        /\ ReadOver(r).received = r.received /\ ReadOver(r).pending = r.pending
        /\ ReadOver(r).truth = r.truth /\ ReadOver(r).semaphore = r.semaphore
        /\ ReadOver(r).window = r.window
    BY <2>2, ReadOverFacts
  <2> QED  BY <1>4, <2>1, <2>2, <2>3, <2>4 DEF a, b
<1>5. CASE s.received = <<>> /\ ~(s.valid /\ s.sent # <<>> /\ dump)
  <2>1. OnStop(s) = ReadOver(s)  BY <1>5 DEF OnStop
  <2>2. /\ ReadOver(s) \in Devs /\ ~ReadOver(s).valid /\ ReadOver(s).sent = <<>>
        /\ ReadOver(s).received = s.received /\ ReadOver(s).pending = s.pending
        /\ ReadOver(s).truth = s.truth /\ ReadOver(s).semaphore = s.semaphore
        /\ ReadOver(s).window = s.window
    BY ReadOverFacts
  <2> QED  BY <1>5, <2>1, <2>2
<1> QED  BY <1>1, <1>2, <1>3, <1>4, <1>5

-----------------------------------------------------------------------------
(* Steps of the work thread and of the CLI *)

\* What the handler knows of the transfer is left alone.
KeepsTransfer ==
    /\ flags' = flags /\ event' = event /\ bus' = bus
    /\ dev'.valid <=> dev.valid
    /\ dev'.loop <=> dev.loop
    /\ dev'.pointer = dev.pointer /\ dev'.start = dev.start /\ dev'.snapshot = dev.snapshot
    /\ dev'.received = dev.received /\ dev'.sent = dev.sent /\ dev'.window = dev.window
    /\ dev'.semaphore \in Nat /\ dev'.semaphore <= dev.semaphore

\* Then most of the invariant is too.
LEMMA KeepTransfer ==
    ASSUME Inv, KeepsTransfer
    PROVE  /\ BusInv' /\ CountInv' /\ LinkInv' /\ WindowInv' /\ LoopInv' /\ ScanReadsZero'
           /\ SentInv => SentInv'
<1> USE DEF KeepsTransfer
<1>0. Types /\ BusInv /\ CountInv /\ LinkInv /\ WindowInv /\ LoopInv /\ ScanReadsZero
  BY DEF Inv
<1>1. /\ Open' <=> Open
      /\ \A k \in {"RREQ_FBR", "RREQ", "TREQ"} : Asked(k)' <=> Asked(k)
      /\ Served' = Served
  BY DEF Open, Asked, Served
<1>2. BusInv'  BY <1>0, <1>1 DEF BusInv
<1>3. CountInv'
  <2> DEFINE k == IF Open THEN 1 ELSE 0
             l == IF Asked("TREQ") THEN 1 ELSE 0
  <2>1. /\ bus.transfer <= MaxTransfers /\ dev.semaphore + k <= bus.transfer
        /\ Len(bus.payload) <= MaxWrite /\ (dev.valid => Len(bus.got) + l <= MaxRead)
    BY <1>0 DEF CountInv
  <2>2. k' = k /\ l' = l /\ k \in Nat  BY <1>1
  <2>3. dev.semaphore \in Nat /\ bus.transfer \in Nat  BY <1>0 DEF Types, Devs, Buses
  <2> HIDE DEF k, l
  <2>4. dev'.semaphore + k <= bus.transfer  BY <2>1, <2>2, <2>3
  <2>5. /\ bus'.transfer <= MaxTransfers /\ dev'.semaphore + k' <= bus'.transfer
        /\ Len(bus'.payload) <= MaxWrite /\ (dev'.valid => Len(bus'.got) + l' <= MaxRead)
    BY <2>1, <2>2, <2>4
  <2> QED  BY <2>5 DEF CountInv, k, l
<1>4. LinkInv'  BY <1>0, <1>1 DEF LinkInv
<1>5. WindowInv'  BY <1>0 DEF WindowInv, Overlong
<1>6. LoopInv'  BY <1>0 DEF LoopInv
<1>7. ScanReadsZero'  BY <1>0 DEF ScanReadsZero
<1>8. SentInv => SentInv'  BY DEF SentInv
<1> QED  BY <1>2, <1>3, <1>4, <1>5, <1>6, <1>7, <1>8

\* The banks are left alone, and so is what a read has to do with them.
LEMMA KeepBanks ==
    ASSUME Inv, KeepsTransfer, UNCHANGED <<banks, active, flips>>, pc' # "switch",
           pc \in {"fill", "switch"} => pc' \in {"fill", "switch"}
    PROVE  BankInv' /\ SnapshotInv'
<1>1. BankInv'  BY DEF Inv, BankInv, Published
<1>2. SnapshotInv'
  <2> SUFFICES ASSUME dev.valid /\ "stop" \notin flags /\ ~InWindow(bus.pointer)
               PROVE  SnapshotInv'
    BY DEF SnapshotInv, KeepsTransfer
  <2>1. /\ flips = 0 => dev.snapshot = active
        /\ flips = 1 => dev.snapshot = 1 - active
        /\ flips = 0 \/ (flips = 1 /\ pc \notin {"fill", "switch"}) =>
              \E g \in 0 .. Generations - 1 :
                 /\ banks[dev.snapshot] = Bank(g)
                 /\ \A i \in 1 .. Len(bus.got) :
                       bus.got[i] = Status(g, (bus.pointer + i - 1) % Regs)
    BY DEF Inv, SnapshotInv
  <2> QED  BY <2>1 DEF SnapshotInv, KeepsTransfer
<1> QED  BY <1>1, <1>2

\* A step of the work thread that only computes.
LEMMA WorkerReads ==
    ASSUME Inv, UNCHANGED <<flags, event, bus, dev, banks, active, dump, flips>>,
           pc' \in Steps, pc' # "switch",
           pc \in {"fill", "switch"} => pc' \in {"fill", "switch"},
           work' \in Works, work'.count <= Regs, Len(work'.data) <= Regs
    PROVE  Inv' /\ (SentInv => SentInv')
<1>1. Types' /\ BufferInv'  BY DEF Inv, Types, BufferInv
<1>2. KeepsTransfer
  <2>1. dev.semaphore \in Nat  BY DEF Inv, Types, Devs
  <2> QED  BY <2>1 DEF KeepsTransfer
<1>3. BankInv' /\ SnapshotInv'  BY <1>2, KeepBanks
<1> QED  BY <1>1, <1>2, <1>3, KeepTransfer DEF Inv

\* A step of the work thread that changes what it shares.
LEMMA WorkerWrites ==
    ASSUME Inv, KeepsTransfer, UNCHANGED <<banks, active, dump, flips, work>>,
           pc' \in Steps, pc' # "switch", pc \notin {"fill", "switch"},
           dev' \in Devs, dev'.pending.count = Len(dev'.pending.data),
           dev'.pending.count <= Regs
    PROVE  Inv' /\ (SentInv => SentInv')
<1>1. Types' /\ BufferInv'  BY DEF Inv, Types, BufferInv, KeepsTransfer
<1>3. BankInv' /\ SnapshotInv'  BY KeepBanks
<1> QED  BY <1>1, <1>3, KeepTransfer DEF Inv

\* The copy of a record's bytes.
LEMMA FirstBytesFacts ==
    ASSUME NEW s \in Seq(Byte), NEW n \in Nat
    PROVE  /\ FirstBytes(s, n) \in Seq(Byte) /\ Len(FirstBytes(s, n)) = n
           /\ n = Len(s) => FirstBytes(s, n) = s
<1> DEFINE f == FirstBytes(s, n)
<1>1. ASSUME NEW i \in 1 .. n PROVE f[i] \in Byte
  <2>1. i <= Len(s) => s[i] \in Byte  OBVIOUS
  <2> QED  BY <2>1, ByteFacts DEF FirstBytes
<1>2. f \in [1 .. n -> Byte]  BY <1>1 DEF FirstBytes
<1>3. \A i \in 1 .. n : i <= Len(s) => f[i] = s[i]  BY DEF FirstBytes
<1> HIDE DEF f
<1>4. f \in Seq(Byte) /\ Len(f) = n  BY <1>2
<1>5. ASSUME n = Len(s) PROVE f = s  BY <1>3, <1>4, <1>5, SameBytes
<1> QED  BY <1>4, <1>5 DEF f

\* The first step: nothing is copied yet.
LEMMA PendStep ==
    ASSUME Inv, Pend
    PROVE  Inv' /\ (SentInv => SentInv') /\ (SlotInv => SlotInv')
<1>0. dev \in Devs /\ dev.semaphore \in Nat /\ pc' = "count" /\ pc = "pend"
  BY DEF Inv, Types, Devs, Pend, Step
<1> DEFINE n == IF dev.semaphore > 0 THEN dev.semaphore - 1 ELSE dev.semaphore
<1>1. n \in Nat /\ n <= dev.semaphore  BY <1>0
<1>2. dev' = [dev EXCEPT !.semaphore = n]
  <2>1. CASE dev.semaphore > 0
    <3>1. dev' = [dev EXCEPT !.semaphore = dev.semaphore - 1]  BY <2>1, <1>0 DEF Pend
    <3> QED  BY <2>1, <3>1
  <2>2. CASE ~(dev.semaphore > 0)  BY <1>0, <2>2 DEF Pend, Devs
  <2> QED  BY <2>1, <2>2
<1> HIDE DEF n
<1>3. dev' \in Devs /\ dev'.pending = dev.pending /\ dev'.truth = dev.truth
  BY <1>0, <1>1, <1>2 DEF Devs
<1>4. KeepsTransfer  BY <1>0, <1>1, <1>2 DEF KeepsTransfer, Pend, Step, Devs
<1>5. Inv' /\ (SentInv => SentInv')
  BY <1>0, <1>3, <1>4, WorkerWrites DEF Pend, Step, Steps, Inv, BufferInv
<1>6. SlotInv => SlotInv'  BY <1>0, <1>3 DEF SlotInv, Pend
<1> QED  BY <1>5, <1>6

\* The copy begins with the count, and with the truth of that record.
LEMMA CopyCountStep ==
    ASSUME Inv, CopyCount
    PROVE  Inv' /\ (SentInv => SentInv') /\ (SlotInv => SlotInv')
<1>0. /\ pc = "count" /\ pc' = "register" /\ dev \in Devs /\ work \in Works
      /\ UNCHANGED <<flags, event, bus, dev, banks, active, dump, flips>>
      /\ work' = [work EXCEPT !.count = dev.pending.count, !.truth = dev.truth]
  BY DEF Inv, Types, CopyCount, Step
<1>1. dev.pending.count \in Nat /\ dev.truth \in Log /\ dev.pending.count <= Regs
  BY <1>0 DEF Devs, Log, Inv, BufferInv
<1>2. /\ work' \in Works /\ work'.count = dev.pending.count /\ work'.truth = dev.truth
      /\ work'.data = work.data
  BY <1>0, <1>1 DEF Works
<1>3. Inv' /\ (SentInv => SentInv')
  BY <1>0, <1>1, <1>2, WorkerReads DEF Steps, Inv, BufferInv
<1>4. SlotInv => SlotInv'  BY <1>0, <1>2 DEF SlotInv
<1> QED  BY <1>3, <1>4

\* The register pointer of the record.
LEMMA CopyRegisterStep ==
    ASSUME Inv, CopyRegister
    PROVE  Inv' /\ (SentInv => SentInv') /\ (SlotInv => SlotInv')
<1>0. /\ pc = "register" /\ pc' = "data" /\ dev \in Devs /\ work \in Works
      /\ UNCHANGED <<flags, event, bus, dev, banks, active, dump, flips>>
      /\ work' = [work EXCEPT !.reg = dev.pending.reg]
  BY DEF Inv, Types, CopyRegister, Step
<1>1. dev.pending.reg \in Register  BY <1>0 DEF Devs, Log
<1>2. /\ work' \in Works /\ work'.count = work.count /\ work'.truth = work.truth
      /\ work'.data = work.data /\ work'.reg = dev.pending.reg
  BY <1>0, <1>1 DEF Works
<1>3. Inv' /\ (SentInv => SentInv')  BY <1>0, <1>2, WorkerReads DEF Steps, Inv, BufferInv
<1>4. SlotInv => SlotInv'  BY <1>0, <1>2 DEF SlotInv
<1> QED  BY <1>3, <1>4

\* The direction and the bytes of the record.
LEMMA CopyDataStep ==
    ASSUME Inv, CopyData
    PROVE  Inv' /\ (SentInv => SentInv') /\ (SlotInv => SlotInv')
<1> DEFINE f == FirstBytes(dev.pending.data, work.count)
<1>0. /\ pc = "data" /\ pc' = "command" /\ dev \in Devs /\ work \in Works
      /\ UNCHANGED <<flags, event, bus, dev, banks, active, dump, flips>>
      /\ work' = [work EXCEPT !.dir = dev.pending.dir, !.data = f]
  BY DEF Inv, Types, CopyData, Step
<1>1. /\ dev.pending.dir \in {"none", "write", "read"} /\ dev.pending.data \in Seq(Byte)
      /\ work.count \in Nat
  BY <1>0 DEF Devs, Log, Works
<1>2. f \in Seq(Byte) /\ Len(f) = work.count
      /\ (work.count = Len(dev.pending.data) => f = dev.pending.data)
  BY <1>1, FirstBytesFacts
<1>3. dev.pending.count = Len(dev.pending.data) /\ work.count <= Regs
  BY DEF Inv, BufferInv
<1> HIDE DEF f
<1>4. /\ work' \in Works /\ work'.count = work.count /\ work'.truth = work.truth
      /\ work'.data = f /\ work'.reg = work.reg /\ work'.dir = dev.pending.dir
  BY <1>0, <1>1, <1>2 DEF Works
<1>5. Inv' /\ (SentInv => SentInv')  BY <1>0, <1>2, <1>3, <1>4, WorkerReads DEF Steps
<1>6. SlotInv => SlotInv'  BY <1>0, <1>2, <1>3, <1>4 DEF SlotInv
<1> QED  BY <1>5, <1>6

\* The test for the command register.
LEMMA TestRegisterStep ==
    ASSUME Inv, TestRegister
    PROVE  Inv' /\ (SentInv => SentInv') /\ (SlotInv => SlotInv')
<1> DEFINE c == work.dir = "write" /\ dev.pending.reg = Command
<1>0. /\ pc = "command" /\ pc' = "act" /\ dev \in Devs /\ work \in Works
      /\ UNCHANGED <<flags, event, bus, dev, banks, active, dump, flips>>
      /\ work' = [work EXCEPT !.command = c] /\ c \in BOOLEAN
  BY DEF Inv, Types, TestRegister, Step
<1> HIDE DEF c
<1>2. /\ work' \in Works /\ work'.count = work.count /\ work'.truth = work.truth
      /\ work'.data = work.data /\ work'.reg = work.reg /\ work'.dir = work.dir
  BY <1>0 DEF Works
<1>3. Inv' /\ (SentInv => SentInv')  BY <1>0, <1>2, WorkerReads DEF Steps, Inv, BufferInv
<1>4. SlotInv => SlotInv'  BY <1>0, <1>2 DEF SlotInv
<1> QED  BY <1>3, <1>4

\* A record that is not the command goes on to the second test.
LEMMA NotClearStep ==
    ASSUME Inv, NotClear
    PROVE  Inv' /\ (SentInv => SentInv') /\ (SlotInv => SlotInv')
<1>0. /\ pc = "act" /\ pc' = "invalid" /\ work' = work /\ work \in Works
      /\ UNCHANGED <<flags, event, bus, dev, banks, active, dump, flips>>
  BY DEF Inv, Types, NotClear, Step
<1>3. Inv' /\ (SentInv => SentInv')  BY <1>0, WorkerReads DEF Steps, Inv, BufferInv
<1>4. SlotInv => SlotInv'  BY <1>0 DEF SlotInv
<1> QED  BY <1>3, <1>4

\* The error counter is read before it is incremented.
LEMMA LoadErrorsStep ==
    ASSUME Inv, LoadErrors
    PROVE  Inv' /\ (SentInv => SentInv') /\ (SlotInv => SlotInv')
<1>0. /\ pc = "invalid" /\ pc' = "store" /\ dev \in Devs /\ work \in Works
      /\ UNCHANGED <<flags, event, bus, dev, banks, active, dump, flips>>
      /\ work' = [work EXCEPT !.errors = dev.errors] /\ dev.errors \in Counted
  BY DEF Inv, Types, LoadErrors, Step, Devs
<1>2. /\ work' \in Works /\ work'.count = work.count /\ work'.truth = work.truth
      /\ work'.data = work.data /\ work'.reg = work.reg /\ work'.dir = work.dir
  BY <1>0 DEF Works
<1>3. Inv' /\ (SentInv => SentInv')  BY <1>0, <1>2, WorkerReads DEF Steps, Inv, BufferInv
<1>4. SlotInv => SlotInv'  BY <1>0, <1>2 DEF SlotInv
<1> QED  BY <1>3, <1>4

\* A record that asks for nothing.
LEMMA NothingToDoStep ==
    ASSUME Inv, NothingToDo
    PROVE  Inv' /\ (SentInv => SentInv') /\ (SlotInv => SlotInv')
<1>0. /\ pc = "invalid" /\ pc' = "free" /\ work' = work /\ work \in Works
      /\ UNCHANGED <<flags, event, bus, dev, banks, active, dump, flips>>
  BY DEF Inv, Types, NothingToDo, Step
<1>3. Inv' /\ (SentInv => SentInv')  BY <1>0, WorkerReads DEF Steps, Inv, BufferInv
<1>4. SlotInv => SlotInv'  BY <1>0 DEF SlotInv
<1> QED  BY <1>3, <1>4

\* The line is printed, and the copy is dropped.
LEMMA PrintDumpStep ==
    ASSUME Inv, PrintDump
    PROVE  Inv' /\ (SentInv => SentInv') /\ (SlotInv => SlotInv')
<1>0. /\ pc = "print" /\ pc' = "pend" /\ dev \in Devs /\ work \in Works
      /\ UNCHANGED <<flags, event, bus, dev, banks, active, dump, flips>>
      /\ work' = [work EXCEPT !.count = 0, !.reg = 0, !.dir = "none", !.data = <<>>,
                              !.command = FALSE, !.errors = 0, !.truth = NoRecord]
  BY DEF Inv, Types, PrintDump, Step
<1>1. NoRecord \in Log /\ <<>> \in Seq(Byte) /\ Len(<<>>) = 0 /\ 0 \in Register /\ 0 \in Counted
  BY Sizes DEF NoRecord, Log
<1>2. work' \in Works /\ work'.count = 0 /\ work'.data = <<>>  BY <1>0, <1>1 DEF Works
<1>3. Inv' /\ (SentInv => SentInv')  BY <1>0, <1>1, <1>2, Sizes, WorkerReads DEF Steps
<1>4. SlotInv => SlotInv'  BY <1>0, <1>2 DEF SlotInv
<1> QED  BY <1>3, <1>4

\* The counters are reset.
LEMMA ClearStatisticsStep ==
    ASSUME Inv, ClearStatistics
    PROVE  Inv' /\ (SentInv => SentInv') /\ (SlotInv => SlotInv')
<1>0. /\ pc = "act" /\ pc' = "free" /\ dev \in Devs /\ work' = work
      /\ UNCHANGED <<flags, event, bus, banks, active, dump, flips>>
      /\ dev' = [dev EXCEPT !.transactions = 0, !.errors = 0]
  BY DEF Inv, Types, ClearStatistics, Step
<1>1. 0 \in Counted /\ dev.semaphore \in Nat  BY <1>0, Sizes DEF Devs
<1>2. dev' \in Devs /\ dev'.pending = dev.pending /\ dev'.truth = dev.truth
  BY <1>0, <1>1 DEF Devs
<1>3. KeepsTransfer  BY <1>0, <1>1 DEF KeepsTransfer, Devs
<1>4. Inv' /\ (SentInv => SentInv')
  BY <1>0, <1>2, <1>3, WorkerWrites DEF Steps, Inv, BufferInv
<1>5. SlotInv => SlotInv'  BY <1>0, <1>2 DEF SlotInv
<1> QED  BY <1>4, <1>5

\* The error counter is written back.
LEMMA StoreErrorsStep ==
    ASSUME Inv, StoreErrors
    PROVE  Inv' /\ (SentInv => SentInv') /\ (SlotInv => SlotInv')
<1> DEFINE n == Inc(work.errors)
<1>0. /\ pc = "store" /\ pc' = "free" /\ dev \in Devs /\ work' = work /\ work \in Works
      /\ UNCHANGED <<flags, event, bus, banks, active, dump, flips>>
      /\ dev' = [dev EXCEPT !.errors = n]
  BY DEF Inv, Types, StoreErrors, Step
<1>1. n \in Counted /\ dev.semaphore \in Nat
  <2>1. work.errors \in Counted  BY <1>0 DEF Works
  <2> QED  BY <1>0, <2>1, IncFacts DEF Devs
<1> HIDE DEF n
<1>2. dev' \in Devs /\ dev'.pending = dev.pending /\ dev'.truth = dev.truth
  BY <1>0, <1>1 DEF Devs
<1>3. KeepsTransfer  BY <1>0, <1>1 DEF KeepsTransfer, Devs
<1>4. Inv' /\ (SentInv => SentInv')
  BY <1>0, <1>2, <1>3, WorkerWrites DEF Steps, Inv, BufferInv
<1>5. SlotInv => SlotInv'  BY <1>0, <1>2 DEF SlotInv
<1> QED  BY <1>4, <1>5

\* The slot is free for the handler: the copy is complete.
LEMMA FreeSlotStep ==
    ASSUME Inv, FreeSlot
    PROVE  Inv' /\ (SentInv => SentInv') /\ (SlotInv => SlotInv')
<1> DEFINE f == [dev.pending EXCEPT !.count = 0, !.data = <<>>]
<1>0. /\ pc = "free" /\ pc' = "wipe" /\ dev \in Devs /\ work' = work /\ work \in Works
      /\ UNCHANGED <<flags, event, bus, banks, active, dump, flips>>
      /\ dev' = [dev EXCEPT !.pending.count = 0, !.pending.data = <<>>, !.truth = NoRecord]
  BY DEF Inv, Types, FreeSlot, Step
<1>1. /\ dev.pending \in Log /\ dev.semaphore \in Nat /\ NoRecord \in Log
      /\ <<>> \in Seq(Byte) /\ Len(<<>>) = 0
  BY <1>0, Sizes DEF Devs, Log, NoRecord
<1>2. dev' = [dev EXCEPT !.pending = f, !.truth = NoRecord]
  <2> DEFINE a == [dev EXCEPT !.pending.count = 0]
             g == [dev.pending EXCEPT !.count = 0]
             b == [dev EXCEPT !.pending.count = 0, !.pending.data = <<>>]
  <2>1. a = [dev EXCEPT !.pending = g]  BY <1>0 DEF Devs
  <2>2. b = [a EXCEPT !.pending.data = <<>>]  BY <1>0 DEF Devs
  <2>3. b = [a EXCEPT !.pending = [a.pending EXCEPT !.data = <<>>]]  BY <2>2, <2>1, <1>0 DEF Devs
  <2>4. a.pending = g  BY <1>0, <2>1 DEF Devs
  <2>5. dev' = [b EXCEPT !.truth = NoRecord]  BY <1>0 DEF Devs
  <2>6. f = [g EXCEPT !.data = <<>>]  BY <1>1 DEF Log
  <2> QED  BY <1>0, <2>1, <2>3, <2>4, <2>5, <2>6 DEF Devs
<1>3. f \in Log /\ f.count = 0 /\ f.data = <<>>  BY <1>1 DEF Log
<1> HIDE DEF f
<1>4. dev' \in Devs /\ dev'.pending = f  BY <1>0, <1>1, <1>2, <1>3 DEF Devs
<1>5. KeepsTransfer  BY <1>0, <1>1, <1>2 DEF KeepsTransfer, Devs
<1>6. Inv' /\ (SentInv => SentInv')
  BY <1>0, <1>1, <1>3, <1>4, <1>5, Sizes, WorkerWrites DEF Steps
<1>7. ASSUME SlotInv PROVE SlotInv'
  <2>1. ASSUME work.count # 0 PROVE Line(work) = work.truth
    <3>1. /\ dev.pending.count = work.count /\ work.truth = dev.truth
          /\ work.reg = dev.pending.reg /\ work.dir = dev.pending.dir
          /\ work.data = dev.pending.data /\ dev.truth = dev.pending
      BY <1>0, <1>7, <2>1 DEF SlotInv
    <3> QED  BY <1>1, <3>1 DEF Line, Log
  <2> QED  BY <1>0, <1>3, <1>4, <2>1 DEF SlotInv
<1> QED  BY <1>6, <1>7

\* One bank of the two is replaced.
LEMMA ReplaceBank ==
    ASSUME Inv, NEW b \in Windows,
           UNCHANGED <<flags, event, bus, dev, active, dump, work, flips>>,
           banks' = [banks EXCEPT ![1 - active] = b],
           pc \in {"wipe", "fill"}, pc' \in {"fill", "switch"},
           pc' = "switch" => Published(b)
    PROVE  Inv' /\ (SentInv => SentInv')
<1>0. active \in {0, 1} /\ banks \in [{0, 1} -> Windows] /\ dev.semaphore \in Nat
  BY DEF Inv, Types, Devs
<1>1. 1 - active \in {0, 1} /\ 1 - active # active  BY <1>0
<1>2. /\ banks' \in [{0, 1} -> Windows] /\ banks'[active] = banks[active]
      /\ banks'[1 - active] = b
  BY <1>0, <1>1
<1>3. Types' /\ BufferInv'  BY <1>2 DEF Inv, Types, BufferInv, Steps
<1>4. KeepsTransfer  BY <1>0 DEF KeepsTransfer
<1>5. BankInv'  BY <1>2 DEF Inv, BankInv, Published
<1>6. SnapshotInv'
  <2> SUFFICES ASSUME dev.valid, "stop" \notin flags, ~InWindow(bus.pointer)
               PROVE  SnapshotInv'
    BY DEF SnapshotInv
  <2>1. /\ flips = 0 => dev.snapshot = active
        /\ flips = 1 => dev.snapshot = 1 - active
        /\ flips = 0 =>
              \E g \in 0 .. Generations - 1 :
                 /\ banks[dev.snapshot] = Bank(g)
                 /\ \A i \in 1 .. Len(bus.got) :
                       bus.got[i] = Status(g, (bus.pointer + i - 1) % Regs)
    BY DEF Inv, SnapshotInv
  <2>2. flips = 0 => banks'[dev.snapshot] = banks[dev.snapshot]  BY <1>2, <2>1
  <2> QED  BY <2>1, <2>2 DEF SnapshotInv
<1> QED  BY <1>3, <1>4, <1>5, <1>6, KeepTransfer DEF Inv

\* The bank that is not active is wiped, filled, and made active.
LEMMA PublishStep ==
    ASSUME Inv, WipeBank \/ FillBank \/ SwitchBank
    PROVE  Inv' /\ (SentInv => SentInv') /\ (SlotInv => SlotInv')
<1>0. active \in {0, 1} /\ banks \in [{0, 1} -> Windows] /\ dev.semaphore \in Nat
  BY DEF Inv, Types, Devs
<1>1. CASE WipeBank
  <2> DEFINE b == [r \in 0 .. Regs - 1 |-> Zero]
  <2>1. b \in Windows
    <3>1. Zero \in Byte  BY ByteFacts
    <3> QED  BY <3>1 DEF Windows, Index
  <2>2. /\ UNCHANGED <<flags, event, bus, dev, active, dump, work, flips>>
        /\ banks' = [banks EXCEPT ![1 - active] = b] /\ pc = "wipe" /\ pc' = "fill"
    BY <1>1 DEF WipeBank, Step
  <2> HIDE DEF b
  <2>3. Inv' /\ (SentInv => SentInv')  BY <2>1, <2>2, ReplaceBank
  <2>4. SlotInv => SlotInv'  BY <2>2 DEF SlotInv
  <2> QED  BY <2>3, <2>4
<1>2. CASE FillBank
  <2> DEFINE g == (Generation + 1) % Generations
             b == Bank(g)
  <2>1. g \in 0 .. Generations - 1
    <3>1. PICK h \in 0 .. Generations - 1 : banks[active] = Bank(h)
      BY DEF Inv, BankInv, Published
    <3>2. banks[active][0] = Status(h, 0)  BY <3>1, BankFacts, Sizes
    <3>3. Generation = h  BY <3>2 DEF Generation, Status
    <3>4. Generation + 1 \in Nat /\ Generations \in Nat \ {0}  BY <3>3, I2cAssumption
    <3> QED  BY <3>4, Quotient
  <2>2. b \in Windows /\ Published(b)  BY <2>1, BankFacts DEF Published
  <2>3. /\ UNCHANGED <<flags, event, bus, dev, active, dump, work, flips>>
        /\ banks' = [banks EXCEPT ![1 - active] = b] /\ pc = "fill" /\ pc' = "switch"
    BY <1>2 DEF FillBank, Step
  <2> HIDE DEF b
  <2>4. Inv' /\ (SentInv => SentInv')  BY <2>2, <2>3, ReplaceBank
  <2>5. SlotInv => SlotInv'  BY <2>3 DEF SlotInv
  <2> QED  BY <2>4, <2>5
<1>3. CASE SwitchBank
  <2>1. /\ UNCHANGED <<flags, event, bus, dev, banks, dump, work>>
        /\ active' = 1 - active /\ pc = "switch" /\ pc' = "print"
        /\ flips' = IF bus.phase # "idle" /\ flips < 2 THEN flips + 1 ELSE flips
    BY <1>3 DEF SwitchBank, Step
  <2>2. active' \in {0, 1} /\ 1 - active' = active /\ flips' \in {0, 1, 2}
    BY <1>0, <2>1 DEF Inv, Types
  <2>3. Types' /\ BufferInv'  BY <2>1, <2>2 DEF Inv, Types, BufferInv, Steps
  <2>4. KeepsTransfer  BY <1>0, <2>1 DEF KeepsTransfer
  <2>5. BankInv'  BY <2>1 DEF Inv, BankInv, Published
  <2>6. SnapshotInv'
    <3> SUFFICES ASSUME dev.valid, "stop" \notin flags, ~InWindow(bus.pointer)
                 PROVE  SnapshotInv'
      BY <2>1 DEF SnapshotInv
    <3>1. bus.phase # "idle"  BY DEF Inv, BusInv, Open
    <3>2. flips' = IF flips < 2 THEN flips + 1 ELSE flips  BY <2>1, <3>1
    <3>3. /\ flips = 0 => dev.snapshot = active
          /\ flips = 0 =>
                \E g \in 0 .. Generations - 1 :
                   /\ banks[dev.snapshot] = Bank(g)
                   /\ \A i \in 1 .. Len(bus.got) :
                         bus.got[i] = Status(g, (bus.pointer + i - 1) % Regs)
      BY DEF Inv, SnapshotInv
    <3>4. flips' # 0 /\ (flips' = 1 => flips = 0)  BY <3>2 DEF Inv, Types
    <3> QED  BY <2>1, <2>2, <3>3, <3>4 DEF SnapshotInv
  <2>7. Inv' /\ (SentInv => SentInv')  BY <2>3, <2>4, <2>5, <2>6, KeepTransfer DEF Inv
  <2>8. SlotInv => SlotInv'  BY <2>1 DEF SlotInv
  <2> QED  BY <2>7, <2>8
<1> QED  BY <1>1, <1>2, <1>3

\* Every step of the work thread.
LEMMA WorkerStep ==
    ASSUME Inv, Worker
    PROVE  Inv' /\ (SentInv => SentInv') /\ (SlotInv => SlotInv')
BY PendStep, CopyCountStep, CopyRegisterStep, CopyDataStep, TestRegisterStep,
   ClearStatisticsStep, NotClearStep, LoadErrorsStep, StoreErrorsStep, NothingToDoStep,
   FreeSlotStep, PublishStep, PrintDumpStep
   DEF Worker

\* Dumps are switched on and off at any time.
LEMMA CliStep ==
    ASSUME Inv, NEW on \in BOOLEAN, i2c_slave_cli_command(on)
    PROVE  Inv' /\ (SentInv => SentInv') /\ (SlotInv => SlotInv')
<1>0. UNCHANGED <<flags, event, bus, dev, banks, active, pc, work, flips>> /\ dump' = on
  BY DEF i2c_slave_cli_command
<1>1. Types' /\ BufferInv' /\ BankInv'  BY <1>0 DEF Inv, Types, BufferInv, BankInv, Published
<1>2. KeepsTransfer
  <2>1. dev.semaphore \in Nat  BY DEF Inv, Types, Devs
  <2> QED  BY <1>0, <2>1 DEF KeepsTransfer
<1>3. SnapshotInv'
  <2>1. SnapshotInv  BY DEF Inv
  <2> QED  BY <1>0, <2>1 DEF SnapshotInv
<1>4. SlotInv => SlotInv'  BY <1>0 DEF SlotInv
<1> QED  BY <1>1, <1>2, <1>3, <1>4, KeepTransfer DEF Inv

-----------------------------------------------------------------------------
(* Steps of the master *)

\* What the master leaves alone.
LEMMA MasterKeeps ==
    ASSUME Inv, BusUnchanged
    PROVE  BufferInv' /\ BankInv' /\ (SlotInv => SlotInv')
BY DEF Inv, BusUnchanged, BufferInv, BankInv, Published, SlotInv

\* A transfer begins, with a register pointer or without one.
LEMMA Begin ==
    ASSUME Inv, BusUnchanged, UNCHANGED flips, bus.phase = "idle",
           bus.transfer < MaxTransfers, flags = {}, flags' = {"data"},
           NEW p \in Register, NEW q \in Register, NEW k \in {"pointed", "scanning"},
           k = "pointed" => q = p,
           event' = [status |-> IF k = "pointed" THEN "RREQ_FBR" ELSE "TREQ",
                     byte |-> Zero, pointer |-> q],
           bus' = [phase |-> k, transfer |-> bus.transfer + 1, pointer |-> p,
                   payload |-> <<>>, got |-> <<>>, expect |-> bus.expect,
                   cut |-> bus.cut]
    PROVE  Inv' /\ (SentInv => SentInv') /\ (SlotInv => SlotInv')
<1>0. Types /\ BusInv /\ CountInv /\ LinkInv /\ WindowInv  BY DEF Inv
<1>1. BufferInv' /\ BankInv' /\ (SlotInv => SlotInv')  BY MasterKeeps
<1>2. ~Open /\ Open'  BY DEF Open
<1>3. ~dev.valid /\ dev' = dev  BY <1>0, <1>2 DEF BusInv, BusUnchanged
<1>4. /\ bus.transfer \in Nat /\ dev.semaphore \in Nat /\ bus.expect \in Windows
      /\ bus.cut \in BOOLEAN
      /\ <<>> \in Seq(Byte) /\ Len(<<>>) = 0 /\ Zero \in Byte
  BY <1>0, ByteFacts DEF Types, Buses, Devs
<1>5. event' \in Events  BY <1>4 DEF Events
<1>6. bus' \in Buses  BY <1>4 DEF Buses
<1>7. Types'  BY <1>0, <1>5, <1>6 DEF Types, BusUnchanged
<1>8. /\ Asked("RREQ_FBR")' <=> k = "pointed"
      /\ Asked("TREQ")' <=> k = "scanning"
      /\ ~Asked("RREQ")'
  BY DEF Asked
<1>9. BusInv'  BY <1>2, <1>3, <1>8 DEF BusInv
<1>10. CountInv'
  <2>1. dev.semaphore <= bus.transfer
    <3>1. dev.semaphore + 0 <= bus.transfer  BY <1>0, <1>2 DEF CountInv
    <3> QED  BY <1>4, <3>1
  <2>2. /\ bus'.transfer = bus.transfer + 1 /\ bus'.payload = <<>> /\ bus'.got = <<>>
    OBVIOUS
  <2>3. bus'.transfer <= MaxTransfers /\ dev'.semaphore + 1 <= bus'.transfer
    BY <1>3, <1>4, <2>1, <2>2, Sizes
  <2>4. Len(bus'.payload) <= MaxWrite  BY <1>4, <2>2, Sizes
  <2> QED  BY <1>2, <1>3, <2>3, <2>4 DEF CountInv
<1>11. LinkInv'  BY <1>0, <1>3, <1>8 DEF LinkInv
<1>12. WindowInv'  BY <1>0, <1>3 DEF WindowInv
<1>13. LoopInv' /\ SnapshotInv' /\ SentInv'  BY <1>3 DEF LoopInv, SnapshotInv, SentInv
<1>14. ScanReadsZero'  BY <1>4 DEF ScanReadsZero
<1> QED  BY <1>1, <1>7, <1>9, <1>10, <1>11, <1>12, <1>13, <1>14 DEF Inv

\* The register pointer is sent.
LEMMA SendPointerStep ==
    ASSUME Inv, NEW p \in Pointers, SendPointer(p)
    PROVE  Inv' /\ (SentInv => SentInv') /\ (SlotInv => SlotInv')
<1>1. p \in Register  BY Sizes
<1> QED  BY <1>1, Begin DEF SendPointer, Raise

\* The address is probed.
LEMMA ScanStep ==
    ASSUME Inv, Scan
    PROVE  Inv' /\ (SentInv => SentInv') /\ (SlotInv => SlotInv')
<1>1. 0 \in Register  BY Sizes
<1> QED  BY <1>1, Begin DEF Scan, Raise

\* Between two bytes of a transfer nothing is pending and the pointer is valid.
LEMMA BetweenBytes ==
    ASSUME Inv, bus.phase \in {"pointed", "writing", "reading"}, "data" \notin flags
    PROVE  flags = {} /\ dev.valid /\ Open /\ ~Asked("RREQ") /\ ~Asked("TREQ") /\ ~Asked("RREQ_FBR")
<1>1. flags = {}  BY DEF Inv, Types, BusInv
<1>2. dev.valid  BY DEF Inv, BusInv, Asked
<1> QED  BY <1>1, <1>2 DEF Open, Asked

\* A byte is sent.
LEMMA SendByteStep ==
    ASSUME Inv, NEW b \in Byte, SendByte(b)
    PROVE  Inv' /\ (SentInv => SentInv') /\ (SlotInv => SlotInv')
<1> DEFINE a == Append(bus.payload, b)
<1>0. /\ Types /\ BusInv /\ CountInv /\ LinkInv /\ WindowInv /\ LoopInv /\ SnapshotInv
      /\ BusUnchanged /\ flips' = flips /\ dev' = dev /\ banks' = banks
      /\ active' = active /\ pc' = pc
  BY DEF Inv, SendByte, BusUnchanged
<1>1. BufferInv' /\ BankInv' /\ (SlotInv => SlotInv')  BY <1>0, MasterKeeps
<1>2. /\ bus.phase \in {"pointed", "writing"} /\ Len(bus.payload) < MaxWrite
      /\ event' = [status |-> "RREQ", byte |-> b, pointer |-> 0]
      /\ bus' = [bus EXCEPT !.phase = "writing", !.payload = a]
      /\ flags' = flags \cup {"data"} /\ "data" \notin flags
  BY DEF SendByte, Raise
<1>3. flags = {} /\ dev.valid /\ Open /\ ~Asked("RREQ") /\ ~Asked("TREQ")
  BY <1>2, BetweenBytes
<1>4. /\ bus.payload \in Seq(Byte) /\ bus \in Buses /\ a \in Seq(Byte)
      /\ a # <<>> /\ Len(a) = Len(bus.payload) + 1 /\ a[Len(a)] = b
      /\ \A i \in 1 .. Len(bus.payload) : a[i] = bus.payload[i]
  <2>1. bus \in Buses /\ bus.payload \in Seq(Byte)  BY <1>0 DEF Types, Buses
  <2> QED  BY <2>1
<1> HIDE DEF a
<1>5. /\ bus' \in Buses /\ bus'.phase = "writing" /\ bus'.payload = a
      /\ bus'.got = bus.got /\ bus'.pointer = bus.pointer /\ bus'.expect = bus.expect
      /\ bus'.transfer = bus.transfer /\ (bus'.cut <=> bus.cut)
  BY <1>2, <1>4 DEF Buses
<1>6. event' \in Events /\ event'.status = "RREQ" /\ event'.byte = b  BY <1>2, Sizes DEF Events
<1>7. Types'  BY <1>0, <1>2, <1>5, <1>6 DEF Types, BusUnchanged
<1>8. Open' /\ Asked("RREQ")' /\ ~Asked("TREQ")' /\ ~Asked("RREQ_FBR")' /\ flags' = {"data"}
  BY <1>2, <1>3, <1>5 DEF Open, Asked
<1>9. bus.got = <<>>  BY <1>0, <1>2 DEF BusInv
<1>10. BusInv'  BY <1>0, <1>3, <1>5, <1>6, <1>8, <1>9 DEF BusInv
<1>11. CountInv'
  <2>1. /\ bus.transfer <= MaxTransfers /\ dev.semaphore + 1 <= bus.transfer
        /\ Len(bus.got) + 0 <= MaxRead
    BY <1>0, <1>3 DEF CountInv
  <2>2. Len(a) <= MaxWrite  BY <1>2, <1>4, Sizes
  <2> QED  BY <1>0, <1>5, <1>8, <2>1, <2>2 DEF CountInv
<1>12. LinkInv'
  <2> DEFINE r == dev.received
             n == Len(bus.payload)
  <2>1. /\ dev.start = bus.pointer
        /\ dev.loop <=> InWindow(bus.pointer)
        /\ dev.pointer = (bus.pointer + Len(bus.got)) % (4 * Regs)
        /\ Len(r) = IF n < Regs THEN n ELSE Regs
        /\ \A i \in 1 .. Len(r) : r[i] = bus.payload[i]
    BY <1>0, <1>3 DEF LinkInv, Served
  <2>2. n \in Nat /\ Served' = Len(a) - 1 /\ Len(a) - 1 = n
    BY <1>4, <1>5, <1>8 DEF Served
  <2>3. \A i \in 1 .. Len(r) : i \in 1 .. n  BY <2>1, <2>2, Sizes
  <2>4. \A i \in 1 .. Len(r) : r[i] = a[i]  BY <1>4, <2>1, <2>3
  <2> HIDE DEF r, n
  <2>5. Len(r) = IF Served' < Regs THEN Served' ELSE Regs  BY <2>1, <2>2
  <2> QED  BY <1>0, <1>3, <1>4, <1>5, <1>6, <1>8, <1>9, <2>1, <2>4, <2>5 DEF LinkInv, r
<1>13. WindowInv'  BY <1>0, <1>3, <1>5, <1>8 DEF WindowInv
<1>14. LoopInv'  BY <1>0, <1>3, <1>5, <1>8 DEF LoopInv
<1>15. SnapshotInv'  BY <1>0, <1>3, <1>5, <1>8 DEF SnapshotInv
<1>16. ScanReadsZero'  BY <1>5 DEF ScanReadsZero
<1>17. SentInv => SentInv'  BY <1>0, <1>5 DEF SentInv
<1> QED  BY <1>1, <1>7, <1>10, <1>11, <1>12, <1>13, <1>14, <1>15, <1>16, <1>17 DEF Inv

\* A byte is asked for.
LEMMA RequestByteStep ==
    ASSUME Inv, RequestByte
    PROVE  Inv' /\ (SentInv => SentInv') /\ (SlotInv => SlotInv')
<1>0. /\ Types /\ BusInv /\ CountInv /\ LinkInv /\ WindowInv /\ LoopInv /\ SnapshotInv
      /\ BusUnchanged /\ flips' = flips /\ dev' = dev /\ banks' = banks
      /\ active' = active /\ pc' = pc
  BY DEF Inv, RequestByte, BusUnchanged
<1>1. BufferInv' /\ BankInv' /\ (SlotInv => SlotInv')  BY <1>0, MasterKeeps
<1>2. /\ bus.phase \in {"pointed", "reading"} /\ Len(bus.got) < MaxRead
      /\ event' = [status |-> "TREQ", byte |-> Zero, pointer |-> 0]
      /\ bus' = [bus EXCEPT !.phase = "reading"]
      /\ flags' = flags \cup {"data"} /\ "data" \notin flags
  BY DEF RequestByte, Raise
<1>3. flags = {} /\ dev.valid /\ Open /\ ~Asked("RREQ") /\ ~Asked("TREQ")
  BY <1>2, BetweenBytes
<1>4. bus \in Buses /\ bus.got \in Seq(Byte) /\ Zero \in Byte
  BY <1>0, ByteFacts DEF Types, Buses
<1>5. /\ bus' \in Buses /\ bus'.phase = "reading" /\ bus'.payload = bus.payload
      /\ bus'.got = bus.got /\ bus'.pointer = bus.pointer /\ bus'.expect = bus.expect
      /\ bus'.transfer = bus.transfer /\ (bus'.cut <=> bus.cut)
  BY <1>2, <1>4 DEF Buses
<1>6. event' \in Events /\ event'.status = "TREQ"  BY <1>2, <1>4, Sizes DEF Events
<1>7. Types'  BY <1>0, <1>2, <1>5, <1>6 DEF Types, BusUnchanged
<1>8. Open' /\ Asked("TREQ")' /\ ~Asked("RREQ")' /\ ~Asked("RREQ_FBR")' /\ flags' = {"data"}
  BY <1>2, <1>3, <1>5, <1>6 DEF Open, Asked
<1>9. bus.payload = <<>>  BY <1>0, <1>2 DEF BusInv
<1>10. BusInv'  BY <1>0, <1>3, <1>5, <1>6, <1>8, <1>9 DEF BusInv
<1>11. CountInv'
  <2>1. /\ bus.transfer <= MaxTransfers /\ dev.semaphore + 1 <= bus.transfer
        /\ Len(bus.payload) <= MaxWrite
    BY <1>0, <1>3 DEF CountInv
  <2>2. Len(bus.got) + 1 <= MaxRead  BY <1>2, <1>4, Sizes
  <2> QED  BY <1>0, <1>5, <1>8, <2>1, <2>2 DEF CountInv
<1>12. LinkInv'
  <2>1. Served' = Served  BY <1>3, <1>5, <1>8 DEF Served
  <2> QED  BY <1>0, <1>3, <1>5, <1>8, <1>9, <2>1 DEF LinkInv
<1>13. WindowInv'  BY <1>0, <1>3, <1>5, <1>8 DEF WindowInv
<1>14. LoopInv'  BY <1>0, <1>3, <1>5, <1>8 DEF LoopInv
<1>15. SnapshotInv'  BY <1>0, <1>3, <1>5, <1>8 DEF SnapshotInv
<1>16. ScanReadsZero'  BY <1>5 DEF ScanReadsZero
<1>17. SentInv => SentInv'  BY <1>0, <1>5 DEF SentInv
<1> QED  BY <1>1, <1>7, <1>10, <1>11, <1>12, <1>13, <1>14, <1>15, <1>16, <1>17 DEF Inv

\* The transfer ends on the bus; the handler has not seen it yet.
LEMMA SendStopStep ==
    ASSUME Inv, SendStop
    PROVE  Inv' /\ (SentInv => SentInv') /\ (SlotInv => SlotInv')
<1> DEFINE c == bus.cut \/ Overlong
<1>0. /\ Types /\ BusInv /\ CountInv /\ LinkInv /\ WindowInv
      /\ BusUnchanged /\ flips' = flips /\ dev' = dev
  BY DEF Inv, SendStop, BusUnchanged
<1>1. BufferInv' /\ BankInv' /\ (SlotInv => SlotInv')  BY <1>0, MasterKeeps
<1>2. /\ bus.phase # "idle" /\ ~Asked("TREQ") /\ "stop" \notin flags /\ event' = event
      /\ bus' = [bus EXCEPT !.phase = "idle", !.cut = c]
      /\ flags' = flags \cup {"stop"}
  BY DEF SendStop, Raise, Asked, Overlong
<1>3. /\ bus \in Buses /\ bus.payload \in Seq(Byte) /\ bus.expect \in Windows
      /\ bus.pointer \in Register
  BY <1>0 DEF Types, Buses
<1>4. c \in BOOLEAN  BY <1>3 DEF Buses
<1> HIDE DEF c
<1>5. /\ bus' \in Buses /\ bus'.phase = "idle" /\ bus'.payload = bus.payload
      /\ bus'.got = bus.got /\ bus'.pointer = bus.pointer /\ bus'.expect = bus.expect
      /\ bus'.transfer = bus.transfer /\ (bus'.cut <=> c)
  BY <1>2, <1>3, <1>4 DEF Buses
<1>7. Types'  BY <1>0, <1>2, <1>5 DEF Types, BusUnchanged
<1>8. /\ Open /\ Open' /\ "stop" \in flags'
      /\ "data" \in flags' <=> "data" \in flags
      /\ Asked("RREQ_FBR")' <=> Asked("RREQ_FBR")
      /\ Asked("RREQ")' <=> Asked("RREQ")
      /\ ~Asked("TREQ")'
  BY <1>2, <1>5 DEF Open, Asked
<1>10. BusInv'  BY <1>0, <1>2, <1>5, <1>8 DEF BusInv
<1>11. CountInv'
  <2>1. /\ bus.transfer <= MaxTransfers /\ dev.semaphore + 1 <= bus.transfer
        /\ Len(bus.payload) <= MaxWrite /\ (dev.valid => Len(bus.got) + 0 <= MaxRead)
    BY <1>0, <1>2, <1>8 DEF CountInv
  <2> QED  BY <1>0, <1>5, <1>8, <2>1 DEF CountInv
<1>12. LinkInv'
  <2>1. Served' = Served  BY <1>5, <1>8 DEF Served
  <2> QED  BY <1>0, <1>2, <1>5, <1>8, <2>1 DEF LinkInv
<1>13. WindowInv'
  <2>1. Overlong' <=> Overlong  BY <1>5 DEF Overlong
  <2> QED  BY <1>0, <1>5, <2>1 DEF WindowInv, c
<1>14. LoopInv' /\ SnapshotInv'  BY <1>8 DEF LoopInv, SnapshotInv
<1>16. ScanReadsZero'  BY <1>5 DEF ScanReadsZero
<1>17. SentInv => SentInv'  BY <1>0, <1>5 DEF SentInv
<1> QED  BY <1>1, <1>7, <1>10, <1>11, <1>12, <1>13, <1>14, <1>16, <1>17 DEF Inv

\* Every step of the master.
LEMMA MasterStep ==
    ASSUME Inv, Master
    PROVE  Inv' /\ (SentInv => SentInv') /\ (SlotInv => SlotInv')
<1>1. ASSUME NEW p \in Pointers, SendPointer(p)
      PROVE  Inv' /\ (SentInv => SentInv') /\ (SlotInv => SlotInv')
  BY <1>1, SendPointerStep
<1> DEFINE b == Datum(bus.transfer, Len(bus.payload) + 1)
<1>2. CASE SendByte(b)
  <2>1. bus.transfer \in Nat /\ bus.payload \in Seq(Byte)  BY DEF Inv, Types, Buses
  <2>2. Len(bus.payload) \in Nat /\ Len(bus.payload) < MaxWrite  BY <1>2, <2>1 DEF SendByte
  <2>3. bus.transfer \in 1 .. MaxTransfers
    <3>1. Open  BY <1>2 DEF SendByte, Open
    <3>2. bus.transfer <= MaxTransfers /\ dev.semaphore + 1 <= bus.transfer
      BY <3>1 DEF Inv, CountInv
    <3>3. dev.semaphore \in Nat  BY DEF Inv, Types, Devs
    <3> QED  BY <2>1, <3>2, <3>3, Sizes
  <2>4. b \in Byte  BY <2>2, <2>3, ByteFacts, Sizes
  <2> QED  BY <1>2, <2>4, SendByteStep
<1>3. CASE SendByte(ClearStats)  BY <1>3, ByteFacts, SendByteStep
<1> QED  BY <1>1, <1>2, <1>3, RequestByteStep, ScanStep, SendStopStep DEF Master

-----------------------------------------------------------------------------
(* Steps of the interrupt handler *)

\* No event is an event.
LEMMA NoEventFacts == NoEvent \in Events /\ NoEvent.status = "none"
BY Sizes, ByteFacts DEF NoEvent, Events

\* The handler serves a STOP, after what is left of the data.
LEMMA HandleStop ==
    ASSUME Inv, i2cInterruptHandler, "stop" \in flags
    PROVE  /\ Inv' /\ SentInv'
           /\ SlotInv /\ SentInv /\ MaxRead <= Regs => SlotInv'
<1> DEFINE s == IF "data" \in flags THEN OnData(dev) ELSE dev
<1>0. /\ Types /\ BusInv /\ CountInv /\ LinkInv /\ WindowInv /\ BufferInv /\ BankInv
      /\ bus \in Buses /\ dev \in Devs
  BY DEF Inv, Types
<1>1. /\ flags' = {} /\ dev' = OnStop(s) /\ event' = NoEvent /\ flips' = 0
      /\ bus' = [bus EXCEPT !.payload = <<>>, !.got = <<>>, !.expect = Expected]
      /\ banks' = banks /\ active' = active /\ dump' = dump /\ pc' = pc /\ work' = work
  <2>1. event.status # "TREQ"  BY <1>0 DEF BusInv, Asked
  <2> QED  BY <2>1 DEF i2cInterruptHandler
<1>2. /\ s \in Devs /\ Len(s.received) <= Regs /\ Len(s.sent) <= Regs
      /\ s.pending = dev.pending /\ s.truth = dev.truth /\ s.window = dev.window
      /\ s.semaphore = dev.semaphore
      /\ s.received = Fitting(bus.payload)
      /\ s.received = SubSeq(bus.payload, 1, Len(s.received))
      /\ s.received # <<>> => s.pointer = bus.pointer
      /\ s.sent # <<>> => s.start = bus.pointer
      /\ SentInv /\ MaxRead <= Regs /\ s.valid => s.sent = bus.got
  BY SeenAtStop
<1> HIDE DEF s
<1>3. s.pending.count = Len(s.pending.data) /\ s.pending.count <= Regs
  BY <1>0, <1>2 DEF BufferInv
<1>4. /\ dev' \in Devs /\ ~dev'.valid /\ dev'.received = <<>> /\ dev'.sent = <<>>
      /\ dev'.pending.count = Len(dev'.pending.data) /\ dev'.pending.count <= Regs
      /\ dev'.semaphore = s.semaphore \/ dev'.semaphore = s.semaphore + 1
      /\ dev'.window = IF s.received = <<>> \/ s.pending.count # 0 THEN s.window
                       ELSE Overlaid(s.window, s.pointer, s.received)
      /\ \/ dev'.pending = s.pending /\ dev'.truth = s.truth
         \/ /\ s.pending.count = 0 /\ s.received # <<>>
            /\ dev'.pending = Entry(Len(s.received), s.pointer, "write", s.received)
            /\ dev'.truth = Entry(Len(s.received), bus.pointer, "write", s.received)
         \/ /\ s.pending.count = 0 /\ s.valid /\ s.sent # <<>>
            /\ dev'.pending = Entry(Len(s.sent), s.start, "read", s.sent)
            /\ dev'.truth = Entry(Len(s.sent), bus.pointer, "read", bus.got)
  BY <1>0, <1>1, <1>2, <1>3, OnStopFacts
<1>5. /\ <<>> \in Seq(Byte) /\ Len(<<>>) = 0 /\ dev.semaphore \in Nat /\ bus.transfer \in Nat
      /\ dev.window \in Windows /\ bus.pointer \in Register /\ Expected \in Windows
  BY <1>0, ExpectedFacts DEF Devs, Buses
<1>6. /\ bus' \in Buses /\ bus'.phase = bus.phase /\ bus'.payload = <<>> /\ bus'.got = <<>>
      /\ bus'.pointer = bus.pointer /\ bus'.expect = Expected /\ bus'.transfer = bus.transfer
      /\ bus'.cut <=> bus.cut
  BY <1>0, <1>1, <1>5 DEF Buses
<1>7. bus.phase = "idle" /\ Open  BY <1>0 DEF BusInv, Open
<1>8. ~Open' /\ ~Asked("TREQ")' /\ ~Asked("RREQ")' /\ ~Asked("RREQ_FBR")'
  BY <1>1, <1>6, <1>7 DEF Open, Asked
<1>9. Types'  BY <1>0, <1>1, <1>4, <1>6, NoEventFacts DEF Types
<1>10. BusInv'  BY <1>1, <1>4, <1>6, <1>7, <1>8, NoEventFacts DEF BusInv
<1>11. CountInv'
  <2>1. bus.transfer <= MaxTransfers /\ dev.semaphore + 1 <= bus.transfer
    BY <1>0, <1>7 DEF CountInv
  <2>2. dev'.semaphore <= bus.transfer  BY <1>2, <1>4, <1>5, <2>1
  <2>3. dev'.semaphore + 0 = dev'.semaphore
    <3>1. dev'.semaphore \in Nat  BY <1>4 DEF Devs
    <3> QED  BY <3>1
  <2> QED  BY <1>4, <1>5, <1>6, <1>8, <2>1, <2>2, <2>3, Sizes DEF CountInv
<1>12. LinkInv'  BY <1>4, <1>6, <1>8 DEF LinkInv
<1>13. WindowInv'
  <2> SUFFICES ASSUME ~bus'.cut PROVE bus'.expect = dev'.window
    BY <1>1 DEF WindowInv
  <2>1. bus.expect = dev.window /\ ~Overlong  BY <1>0, <1>6 DEF WindowInv
  <2>2. CASE dev.pending.count # 0
    <3>1. Expected = bus.expect  BY <1>0, <2>2, ExpectedFacts
    <3> QED  BY <1>2, <1>4, <1>6, <2>1, <2>2, <3>1
  <2>3. CASE dev.pending.count = 0 /\ s.received = <<>>
    <3>1. Overlaid(dev.window, bus.pointer, <<>>) = dev.window  BY <1>5, OverlaidFacts
    <3>2. Expected = Overlaid(dev.window, bus.pointer, s.received)
      BY <1>0, <1>2, <2>1, <2>3, ExpectedFacts
    <3> QED  BY <1>2, <1>4, <1>6, <2>3, <3>1, <3>2
  <2>4. CASE dev.pending.count = 0 /\ s.received # <<>>
    <3>1. Expected = Overlaid(dev.window, bus.pointer, s.received)
      BY <1>0, <1>2, <2>1, <2>4, ExpectedFacts
    <3> QED  BY <1>2, <1>4, <1>6, <2>4, <3>1
  <2> QED  BY <2>2, <2>3, <2>4
<1>14. BufferInv'
  <2>1. Len(dev'.received) <= Regs /\ Len(dev'.sent) <= Regs  BY <1>4, <1>5, Sizes
  <2> QED  BY <1>0, <1>1, <1>4, <2>1 DEF BufferInv
<1>15. BankInv'  BY <1>0, <1>1 DEF BankInv, Published
<1>16. LoopInv' /\ SnapshotInv' /\ SentInv'  BY <1>4 DEF LoopInv, SnapshotInv, SentInv
<1>17. ScanReadsZero'  BY <1>6, <1>7 DEF ScanReadsZero
<1>18. ASSUME SlotInv, SentInv, MaxRead <= Regs PROVE SlotInv'
  <2>1. CASE dev'.pending = s.pending /\ dev'.truth = s.truth
    BY <1>1, <1>2, <1>18, <2>1 DEF SlotInv
  <2>2. CASE s.pending.count = 0 /\ dev'.truth = dev'.pending
    <3>1. dev.pending.count = 0  BY <1>2, <2>2
    <3>2. pc \in {"register", "data", "command", "act", "invalid", "store", "free"} => work.count = 0
      BY <1>18, <3>1 DEF SlotInv
    <3> QED  BY <1>1, <1>18, <2>2, <3>2 DEF SlotInv
  <2>3. \/ dev'.pending = s.pending /\ dev'.truth = s.truth
        \/ s.pending.count = 0 /\ dev'.truth = dev'.pending
    <3>1. s.received # <<>> => s.pointer = bus.pointer  BY <1>2
    <3>2. s.valid /\ s.sent # <<>> => s.start = bus.pointer /\ s.sent = bus.got
      BY <1>2, <1>18
    <3> QED  BY <1>4, <3>1, <3>2
  <2> QED  BY <2>1, <2>2, <2>3
<1> QED  BY <1>9, <1>10, <1>11, <1>12, <1>13, <1>14, <1>15, <1>16, <1>17, <1>18 DEF Inv

\* What the handler leaves alone when it serves data only.
LEMMA HandleDataKeeps ==
    ASSUME Inv, i2cInterruptHandler, "stop" \notin flags
    PROVE  /\ flags = {"data"} /\ flags' = {} /\ dev' = OnData(dev) /\ event' = NoEvent
           /\ banks' = banks /\ active' = active /\ pc' = pc
           /\ bus' = IF event.status = "TREQ"
                     THEN [bus EXCEPT !.got = Append(@, Supplied(dev))] ELSE bus
           /\ flips' = IF event.status = "RREQ_FBR" THEN 0 ELSE flips
           /\ Asked("RREQ_FBR") \/ Asked("RREQ") \/ Asked("TREQ")
           /\ Open /\ bus.phase # "idle"
           /\ ~Asked("RREQ_FBR")' /\ ~Asked("RREQ")' /\ ~Asked("TREQ")'
           /\ Types' \/ bus' \notin Buses
           /\ BufferInv' /\ BankInv'
           /\ dev'.window = dev.window
           /\ dev'.semaphore = dev.semaphore
           /\ SlotInv => SlotInv'
<1>0. Types /\ BusInv /\ BufferInv /\ BankInv  BY DEF Inv
<1>1. flags = {"data"}  BY <1>0 DEF i2cInterruptHandler, Types
<1>2. /\ flags' = {} /\ dev' = OnData(dev) /\ event' = NoEvent
      /\ banks' = banks /\ active' = active /\ pc' = pc /\ dump' = dump /\ work' = work
      /\ bus' = IF event.status = "TREQ"
                THEN [bus EXCEPT !.got = Append(@, Supplied(dev))] ELSE bus
      /\ flips' = IF event.status = "RREQ_FBR" THEN 0 ELSE flips
  BY <1>1 DEF i2cInterruptHandler
<1>3. Asked("RREQ_FBR") \/ Asked("RREQ") \/ Asked("TREQ")
  BY <1>0, <1>1 DEF BusInv, Asked, Types, Events
<1>4. Open /\ bus.phase # "idle"  BY <1>0, <1>1 DEF BusInv, Open
<1>5. ~Asked("RREQ_FBR")' /\ ~Asked("RREQ")' /\ ~Asked("TREQ")'  BY <1>2 DEF Asked
<1>6. /\ dev' \in Devs /\ Len(dev'.received) <= Regs /\ Len(dev'.sent) <= Regs
      /\ dev'.pending = dev.pending /\ dev'.truth = dev.truth /\ dev'.window = dev.window
      /\ dev'.semaphore = dev.semaphore
  BY <1>0, <1>2, OnDataTypes
<1>7. flips' \in {0, 1, 2}  BY <1>0, <1>2 DEF Types
<1>8. Types' \/ bus' \notin Buses  BY <1>0, <1>2, <1>6, <1>7, NoEventFacts DEF Types
<1>9. BufferInv'  BY <1>0, <1>2, <1>6 DEF BufferInv
<1>10. BankInv'  BY <1>0, <1>2 DEF BankInv, Published
<1>11. SlotInv => SlotInv'  BY <1>2, <1>6 DEF SlotInv
<1> QED  BY <1>1, <1>2, <1>3, <1>4, <1>5, <1>6, <1>8, <1>9, <1>10, <1>11

\* The register pointer is served: the read begins with the active bank.
LEMMA HandlePointer ==
    ASSUME Inv, i2cInterruptHandler, "stop" \notin flags, event.status = "RREQ_FBR"
    PROVE  Inv' /\ SentInv' /\ (SlotInv => SlotInv')
<1>0. Types /\ BusInv /\ CountInv /\ LinkInv /\ WindowInv /\ BankInv  BY DEF Inv
<1>1. /\ flags = {"data"} /\ flags' = {} /\ dev' = OnData(dev) /\ event' = NoEvent
      /\ banks' = banks /\ active' = active /\ bus' = bus /\ flips' = 0
      /\ Open /\ bus.phase # "idle"
      /\ ~Asked("RREQ_FBR")' /\ ~Asked("RREQ")' /\ ~Asked("TREQ")'
      /\ BufferInv' /\ BankInv'
      /\ dev'.window = dev.window
      /\ dev'.semaphore = dev.semaphore
      /\ SlotInv => SlotInv'
  BY HandleDataKeeps
<1>2. Types'
  <2>1. bus' \in Buses  BY <1>0, <1>1 DEF Types
  <2> QED  BY <2>1, HandleDataKeeps
<1>3. Asked("RREQ_FBR") /\ ~Asked("RREQ") /\ ~Asked("TREQ")  BY <1>1 DEF Asked
<1>4. ~dev.valid /\ event.pointer = bus.pointer /\ bus.got = <<>>  BY <1>0, <1>3 DEF BusInv
<1>5. bus.phase = "pointed" /\ bus.payload = <<>>
  BY <1>0, <1>1, <1>3, <1>4 DEF BusInv, LinkInv, Types, Buses
<1>6. /\ dev'.valid
      /\ dev'.loop <=> InWindow(bus.pointer)
      /\ dev'.start = bus.pointer /\ dev'.pointer = bus.pointer /\ dev'.snapshot = active
      /\ dev'.received = <<>> /\ dev'.sent = <<>>
  BY <1>0, <1>1, <1>4, OnPointer
<1>7. /\ bus.pointer \in Nat /\ bus.pointer % (4 * Regs) = bus.pointer /\ Len(<<>>) = 0
      /\ bus.pointer + 0 = bus.pointer
  <2>1. bus.pointer \in Register  BY <1>0 DEF Types, Buses
  <2>2. bus.pointer \in Nat  BY <2>1, Sizes
  <2> QED  BY <2>1, <2>2, Sizes, ModBelow DEF Register
<1>8. BusInv'  BY <1>0, <1>1, <1>4, <1>5, <1>6, NoEventFacts DEF BusInv, Open
<1>9. CountInv'
  <2>1. /\ bus.transfer <= MaxTransfers /\ dev.semaphore + 1 <= bus.transfer
        /\ Len(bus.payload) <= MaxWrite
    BY <1>0, <1>1 DEF CountInv
  <2>2. Open'  BY <1>1 DEF Open
  <2>3. Len(bus.got) + 0 <= MaxRead  BY <1>4, <1>7, Sizes
  <2> QED  BY <1>1, <2>1, <2>2, <2>3 DEF CountInv
<1>10. LinkInv'
  <2>1. Served' = 0  BY <1>1, <1>5, <1>7 DEF Served
  <2>2. Len(dev'.received) = IF Served' < Regs THEN Served' ELSE Regs
    BY <1>6, <1>7, <2>1, Sizes
  <2>3. \A i \in 1 .. Len(dev'.received) : dev'.received[i] = bus'.payload[i]
    BY <1>6, <1>7
  <2>4. dev'.pointer = (bus'.pointer + Len(bus'.got)) % (4 * Regs)
    BY <1>1, <1>4, <1>6, <1>7
  <2> QED  BY <1>1, <1>5, <1>6, <2>2, <2>3, <2>4 DEF LinkInv
<1>11. WindowInv'  BY <1>0, <1>1 DEF WindowInv
<1>12. LoopInv'  BY <1>1, <1>4, <1>7 DEF LoopInv
<1>13. SnapshotInv'
  <2>1. PICK g \in 0 .. Generations - 1 : banks[active] = Bank(g)
    BY <1>0 DEF BankInv, Published
  <2>2. \A i \in 1 .. Len(bus'.got) : FALSE  BY <1>1, <1>4, <1>7
  <2>3. banks'[dev'.snapshot] = Bank(g)  BY <1>1, <1>6, <2>1
  <2> QED  BY <1>1, <1>6, <2>2, <2>3 DEF SnapshotInv
<1>14. ScanReadsZero'  BY <1>1, <1>5 DEF ScanReadsZero
<1>15. SentInv'  BY <1>1, <1>4, <1>6 DEF SentInv
<1> QED  BY <1>1, <1>2, <1>8, <1>9, <1>10, <1>11, <1>12, <1>13, <1>14, <1>15 DEF Inv

\* A byte of a write is served.
LEMMA HandleByte ==
    ASSUME Inv, i2cInterruptHandler, "stop" \notin flags, event.status = "RREQ"
    PROVE  Inv' /\ (SentInv => SentInv') /\ (SlotInv => SlotInv')
<1>0. /\ Types /\ BusInv /\ CountInv /\ LinkInv /\ WindowInv /\ LoopInv /\ SnapshotInv
      /\ ScanReadsZero
  BY DEF Inv
<1>1. /\ flags = {"data"} /\ flags' = {} /\ dev' = OnData(dev) /\ event' = NoEvent
      /\ banks' = banks /\ active' = active /\ bus' = bus /\ flips' = flips /\ pc' = pc
      /\ Open /\ bus.phase # "idle"
      /\ ~Asked("RREQ_FBR")' /\ ~Asked("RREQ")' /\ ~Asked("TREQ")'
      /\ BufferInv' /\ BankInv'
      /\ dev'.window = dev.window
      /\ dev'.semaphore = dev.semaphore
      /\ SlotInv => SlotInv'
  BY HandleDataKeeps
<1>2. Types'
  <2>1. bus' \in Buses  BY <1>0, <1>1 DEF Types
  <2> QED  BY <2>1, HandleDataKeeps
<1>3. Asked("RREQ") /\ ~Asked("RREQ_FBR") /\ ~Asked("TREQ")  BY <1>1 DEF Asked
<1>4. dev.valid /\ bus.payload # <<>>  BY <1>0, <1>3 DEF LinkInv
<1>5. /\ dev'.valid <=> dev.valid
      /\ dev'.loop <=> dev.loop
      /\ dev'.start = dev.start /\ dev'.pointer = dev.pointer
      /\ dev'.snapshot = dev.snapshot /\ dev'.sent = dev.sent
  BY <1>0, <1>1, OnByte
<1>6. BusInv'  BY <1>0, <1>1, <1>3, <1>4, <1>5, NoEventFacts DEF BusInv, Open
<1>7. CountInv'
  <2>1. /\ bus.transfer <= MaxTransfers /\ dev.semaphore + 1 <= bus.transfer
        /\ Len(bus.payload) <= MaxWrite /\ Len(bus.got) + 0 <= MaxRead
    BY <1>0, <1>1, <1>3, <1>4 DEF CountInv
  <2>2. Open'  BY <1>1 DEF Open
  <2> QED  BY <1>1, <2>1, <2>2 DEF CountInv
<1>8. LinkInv'
  <2>1. Served' = Len(bus.payload)  BY <1>1 DEF Served
  <2>2. /\ Len(dev'.received) = IF Served' < Regs THEN Served' ELSE Regs
        /\ \A i \in 1 .. Len(dev'.received) : dev'.received[i] = bus'.payload[i]
    BY <1>0, <1>1, <1>3, <2>1, ByteReceived
  <2> QED  BY <1>0, <1>1, <1>4, <1>5, <2>2 DEF LinkInv
<1>9. WindowInv'  BY <1>0, <1>1 DEF WindowInv
<1>10. LoopInv'  BY <1>0, <1>1, <1>5 DEF LoopInv
<1>11. SnapshotInv'  BY <1>0, <1>1, <1>5 DEF SnapshotInv
<1>12. ScanReadsZero'  BY <1>0, <1>1 DEF ScanReadsZero
<1>13. SentInv => SentInv'  BY <1>1, <1>5 DEF SentInv
<1> QED  BY <1>1, <1>2, <1>6, <1>7, <1>8, <1>9, <1>10, <1>11, <1>12, <1>13 DEF Inv

\* A byte of a read is served from where the pointer is.
LEMMA HandleRequest ==
    ASSUME Inv, i2cInterruptHandler, "stop" \notin flags, event.status = "TREQ"
    PROVE  Inv' /\ (SentInv => SentInv') /\ (SlotInv => SlotInv')
<1> DEFINE c == Supplied(dev)
           a == Append(bus.got, c)
<1>0. /\ Types /\ BusInv /\ CountInv /\ LinkInv /\ WindowInv /\ LoopInv /\ SnapshotInv
      /\ ScanReadsZero /\ dev \in Devs /\ bus \in Buses /\ banks \in [{0, 1} -> Windows]
      /\ bus.got \in Seq(Byte) /\ bus.pointer \in Register
  BY DEF Inv, Types, Buses
<1>1. /\ flags = {"data"} /\ flags' = {} /\ dev' = OnData(dev) /\ event' = NoEvent
      /\ banks' = banks /\ active' = active /\ flips' = flips /\ pc' = pc
      /\ bus' = [bus EXCEPT !.got = a]
      /\ Open /\ bus.phase # "idle"
      /\ ~Asked("RREQ_FBR")' /\ ~Asked("RREQ")' /\ ~Asked("TREQ")'
      /\ BufferInv' /\ BankInv'
      /\ dev'.window = dev.window
      /\ dev'.semaphore = dev.semaphore
      /\ SlotInv => SlotInv'
  BY HandleDataKeeps
<1>2. c \in Byte  BY <1>0, SuppliedType
<1>3. /\ a \in Seq(Byte) /\ Len(a) = Len(bus.got) + 1 /\ a[Len(a)] = c /\ Len(bus.got) \in Nat
      /\ \A i \in 1 .. Len(bus.got) : a[i] = bus.got[i]
  BY <1>0, <1>2
<1>4. Asked("TREQ") /\ ~Asked("RREQ_FBR") /\ ~Asked("RREQ")  BY <1>1 DEF Asked
<1>5. bus.phase \in {"reading", "scanning"} /\ bus.payload = <<>>
  BY <1>0, <1>4 DEF BusInv, LinkInv
<1>6. /\ dev'.valid <=> dev.valid
      /\ dev'.loop <=> dev.loop
      /\ dev'.start = dev.start /\ dev'.snapshot = dev.snapshot
      /\ dev'.received = dev.received
      /\ ~dev.valid => dev' = dev
      /\ dev.valid => /\ dev'.pointer = (dev.pointer + 1) % (4 * Regs)
                      /\ dev'.sent = Captured(dev)
  BY <1>0, <1>1, OnRequest
<1>7. /\ bus' \in Buses /\ bus'.phase = bus.phase /\ bus'.payload = bus.payload
      /\ bus'.got = a /\ bus'.pointer = bus.pointer /\ bus'.expect = bus.expect
      /\ bus'.transfer = bus.transfer
  <2> HIDE DEF a
  <2> QED  BY <1>0, <1>1, <1>3 DEF Buses
<1>8. Types'  BY <1>7, HandleDataKeeps
<1>9. dev.valid => /\ dev.start = bus.pointer
                   /\ dev.pointer = (bus.pointer + Len(bus.got)) % (4 * Regs)
                   /\ dev.loop <=> InWindow(bus.pointer)
  BY <1>0 DEF LinkInv
<1>10. bus.pointer \in Nat /\ bus.pointer + Len(bus.got) \in Nat
  <2>1. bus.pointer \in Nat  BY <1>0, Sizes
  <2> QED  BY <1>3, <2>1
<1>11. bus.phase = "scanning" => ~dev.valid /\ c = Zero  BY <1>0 DEF BusInv, Supplied
<1>12. BusInv'
  <2> HIDE DEF a
  <2> QED  BY <1>0, <1>1, <1>4, <1>5, <1>6, <1>7, NoEventFacts DEF BusInv, Open
<1>13. CountInv'
  <2>1. /\ bus.transfer <= MaxTransfers /\ dev.semaphore + 1 <= bus.transfer
        /\ Len(bus.payload) <= MaxWrite /\ (dev.valid => Len(bus.got) + 1 <= MaxRead)
    BY <1>0, <1>1, <1>4 DEF CountInv
  <2>2. Open'  BY <1>1, <1>7 DEF Open
  <2>3. Len(a) + 0 = Len(bus.got) + 1  BY <1>3
  <2> HIDE DEF a
  <2> QED  BY <1>1, <1>6, <1>7, <2>1, <2>2, <2>3 DEF CountInv
<1>14. LinkInv'
  <2>1. Served' = Served  BY <1>1, <1>4, <1>7 DEF Served
  <2>2. dev.valid => dev'.pointer = (bus.pointer + Len(a)) % (4 * Regs)
    <3> SUFFICES ASSUME dev.valid PROVE dev'.pointer = (bus.pointer + Len(a)) % (4 * Regs)
      OBVIOUS
    <3> DEFINE x == bus.pointer + Len(bus.got)
    <3>1. x \in Nat /\ bus.pointer + Len(a) = x + 1  BY <1>3, <1>10
    <3>2. dev'.pointer = ((x % (4 * Regs)) + 1) % (4 * Regs)  BY <1>6, <1>9
    <3> HIDE DEF x
    <3>3. ((x % (4 * Regs)) + 1) % (4 * Regs) = (x + 1) % (4 * Regs)
      BY <3>1, Sizes, ModSucc
    <3> QED  BY <3>1, <3>2, <3>3
  <2> HIDE DEF a
  <2> QED  BY <1>0, <1>1, <1>5, <1>6, <1>7, <2>1, <2>2 DEF LinkInv
<1>15. WindowInv'  BY <1>0, <1>1, <1>7 DEF WindowInv
<1>16. LoopInv'
  <2> SUFFICES ASSUME dev.valid, InWindow(bus.pointer), NEW i \in 1 .. Len(a)
               PROVE  LET p == (bus.pointer + i - 1) % (4 * Regs)
                      IN  a[i] = IF InWindow(p) THEN dev.window[p - Loopback] ELSE Zero
    BY <1>1, <1>6, <1>7 DEF LoopInv
  <2>1. CASE i = Len(a)
    <3>0. i - 1 = Len(bus.got)  BY <1>3, <2>1
    <3>1. bus.pointer + i - 1 = bus.pointer + Len(bus.got)  BY <3>0, <1>3, <1>10
    <3>2. (bus.pointer + i - 1) % (4 * Regs) = dev.pointer  BY <1>9, <3>1
    <3>3. c = IF InWindow(dev.pointer) THEN dev.window[dev.pointer - Loopback] ELSE Zero
      BY <1>9 DEF Supplied
    <3> QED  BY <1>3, <2>1, <3>2, <3>3
  <2>2. CASE i # Len(a)
    <3>1. i \in 1 .. Len(bus.got)  BY <1>3, <2>2
    <3> QED  BY <1>0, <1>3, <3>1 DEF LoopInv
  <2> QED  BY <2>1, <2>2
<1>17. SnapshotInv'
  <2> SUFFICES ASSUME dev.valid, ~InWindow(bus.pointer)  PROVE  SnapshotInv'
    BY <1>1, <1>6, <1>7 DEF SnapshotInv
  <2>1. /\ flips = 0 => dev.snapshot = active
        /\ flips = 1 => dev.snapshot = 1 - active
        /\ flips = 0 \/ (flips = 1 /\ pc \notin {"fill", "switch"}) =>
              \E g \in 0 .. Generations - 1 :
                 /\ banks[dev.snapshot] = Bank(g)
                 /\ \A i \in 1 .. Len(bus.got) :
                       bus.got[i] = Status(g, (bus.pointer + i - 1) % Regs)
    BY <1>0, <1>1 DEF SnapshotInv
  <2>2. ASSUME flips = 0 \/ (flips = 1 /\ pc \notin {"fill", "switch"})
        PROVE  \E g \in 0 .. Generations - 1 :
                 /\ banks[dev.snapshot] = Bank(g)
                 /\ \A i \in 1 .. Len(a) :
                       a[i] = Status(g, (bus.pointer + i - 1) % Regs)
    <3>1. PICK g \in 0 .. Generations - 1 :
                 /\ banks[dev.snapshot] = Bank(g)
                 /\ \A i \in 1 .. Len(bus.got) :
                       bus.got[i] = Status(g, (bus.pointer + i - 1) % Regs)
      BY <2>1, <2>2
    <3>2. ASSUME NEW i \in 1 .. Len(a)
          PROVE  a[i] = Status(g, (bus.pointer + i - 1) % Regs)
      <4>1. CASE i = Len(a)
        <5> DEFINE x == bus.pointer + Len(bus.got)
        <5>0. i - 1 = Len(bus.got)  BY <1>3, <4>1
        <5>1. bus.pointer + i - 1 = x /\ x \in Nat  BY <1>3, <1>10, <5>0
        <5>2. dev.pointer = x % (4 * Regs)  BY <1>9
        <5> HIDE DEF x
        <5>3. dev.pointer % Regs = x % Regs  BY <5>1, <5>2, Sizes, ModFold
        <5>4. x % Regs \in Index  BY <5>1, Sizes, Quotient DEF Index
        <5>5. c = banks[dev.snapshot][dev.pointer % Regs]  BY <1>9 DEF Supplied
        <5>6. c = Status(g, x % Regs)  BY <3>1, <5>3, <5>4, <5>5, BankFacts
        <5> QED  BY <1>3, <4>1, <5>1, <5>6
      <4>2. CASE i # Len(a)
        <5>1. i \in 1 .. Len(bus.got)  BY <1>3, <4>2
        <5> QED  BY <1>3, <3>1, <5>1
      <4> QED  BY <4>1, <4>2
    <3> QED  BY <3>1, <3>2
  <2> HIDE DEF a
  <2> QED  BY <1>1, <1>6, <1>7, <2>1, <2>2 DEF SnapshotInv
<1>18. ScanReadsZero'
  <2> SUFFICES ASSUME bus.phase = "scanning", NEW i \in 1 .. Len(a) PROVE a[i] = Zero
    BY <1>7 DEF ScanReadsZero
  <2>1. CASE i = Len(a)  BY <1>3, <1>11, <2>1
  <2>2. CASE i # Len(a)
    <3>1. i \in 1 .. Len(bus.got)  BY <1>3, <2>2
    <3> QED  BY <1>0, <1>3, <3>1 DEF ScanReadsZero
  <2> QED  BY <2>1, <2>2
<1>19. ASSUME SentInv PROVE SentInv'
  <2> SUFFICES ASSUME dev.valid, Len(a) <= Regs PROVE dev'.sent = a
    BY <1>6, <1>7 DEF SentInv
  <2> DEFINE k == Len(bus.got)
  <2>1. k \in 0 .. Regs - 1 /\ dev.sent = bus.got  BY <1>3, <1>19, Sizes DEF SentInv
  <2>2. /\ dev.start = bus.pointer /\ bus.pointer \in 0 .. 4 * Regs - 1
        /\ dev.pointer = (bus.pointer + k) % (4 * Regs)
    BY <1>0, <1>9 DEF Register
  <2> HIDE DEF k
  <2>3. ((dev.pointer + 4 * Regs) - dev.start) % Regs = k
    BY <2>1, <2>2, Sizes, OffsetInRead
  <2>4. dev.pointer \in Nat /\ dev.start \in Nat
    <3>1. dev.pointer \in Register /\ dev.start \in Register  BY <1>0 DEF Devs
    <3> QED  BY <3>1, Sizes
  <2>5. dev.pointer + 4 * Regs - dev.start = (dev.pointer + 4 * Regs) - dev.start
    BY <2>4, Sizes
  <2>6. Captured(dev) = Append(dev.sent, c)
    <3>1. (dev.pointer + 4 * Regs - dev.start) % Regs = k  BY <2>3, <2>5
    <3>2. Len(dev.sent) <= k  BY <2>1 DEF k
    <3> QED  BY <3>1, <3>2 DEF Captured
  <2> QED  BY <1>6, <2>1, <2>6
<1> QED  BY <1>1, <1>8, <1>12, <1>13, <1>14, <1>15, <1>16, <1>17, <1>18, <1>19 DEF Inv

\* Every step of the handler.
LEMMA HandlerStep ==
    ASSUME Inv, i2cInterruptHandler
    PROVE  /\ Inv' /\ (SentInv => SentInv')
           /\ SlotInv /\ SentInv /\ MaxRead <= Regs => SlotInv'
<1>1. CASE "stop" \in flags  BY <1>1, HandleStop
<1>2. CASE "stop" \notin flags
  <2>1. event.status \in {"RREQ_FBR", "RREQ", "TREQ"}  BY <1>2, HandleDataKeeps DEF Asked
  <2> QED  BY <1>2, <2>1, HandlePointer, HandleByte, HandleRequest
<1> QED  BY <1>1, <1>2

-----------------------------------------------------------------------------
(* Theorems *)

\* The invariant holds when the slave is started.
LEMMA InitInv ==
    ASSUME Init
    PROVE  Inv /\ SentInv /\ SlotInv
<1> DEFINE z == [r \in 0 .. Regs - 1 |-> Zero]
<1>1. /\ z \in Windows /\ <<>> \in Seq(Byte) /\ Len(<<>>) = 0 /\ Zero \in Byte
      /\ 0 \in Register /\ 0 \in Counted
  <2>1. Zero \in Byte  BY ByteFacts
  <2> QED  BY <2>1, Sizes DEF Windows, Index
<1>2. 0 \in 0 .. Generations - 1  BY I2cAssumption
<1>3. Bank(0) \in Windows /\ Published(Bank(0))  BY <1>2, BankFacts DEF Published
<1>4. NoRecord \in Log  BY <1>1 DEF NoRecord, Log
<1>5. /\ flags = {} /\ event = NoEvent /\ active = 1 /\ dump = FALSE /\ pc = "pend" /\ flips = 0
      /\ banks = [b \in {0, 1} |-> IF b = 1 THEN Bank(0) ELSE z]
      /\ bus = [phase |-> "idle", transfer |-> 0, pointer |-> 0,
                payload |-> <<>>, got |-> <<>>, expect |-> z, cut |-> FALSE]
      /\ dev = [pointer |-> 0, received |-> <<>>, snapshot |-> 0, start |-> 0,
                valid |-> FALSE, loop |-> FALSE, sent |-> <<>>,
                pending |-> NoRecord, truth |-> NoRecord, window |-> z,
                transactions |-> 0, errors |-> 0, semaphore |-> 0]
      /\ work = [count |-> 0, reg |-> 0, dir |-> "none", data |-> <<>>,
                 command |-> FALSE, errors |-> 0, truth |-> NoRecord]
  BY DEF Init
<1> HIDE DEF z
<1>6. bus \in Buses  BY <1>1, <1>5 DEF Buses
<1>7. dev \in Devs  BY <1>1, <1>4, <1>5 DEF Devs
<1>8. work \in Works  BY <1>1, <1>4, <1>5 DEF Works
<1>9. banks \in [{0, 1} -> Windows] /\ banks[1] = Bank(0)  BY <1>1, <1>3, <1>5
<1>10. Types  BY <1>5, <1>6, <1>7, <1>8, <1>9, NoEventFacts DEF Types, Steps
<1>11. ~Open /\ ~Asked("TREQ") /\ ~Asked("RREQ") /\ ~Asked("RREQ_FBR")
  BY <1>5 DEF Open, Asked
<1>12. BusInv  BY <1>5, <1>11, NoEventFacts DEF BusInv
<1>13. CountInv  BY <1>1, <1>5, <1>11, Sizes DEF CountInv
<1>14. LinkInv  BY <1>5, <1>11 DEF LinkInv
<1>15. WindowInv  BY <1>5 DEF WindowInv
<1>16. LoopInv /\ SnapshotInv /\ SentInv  BY <1>5 DEF LoopInv, SnapshotInv, SentInv
<1>17. BufferInv  BY <1>1, <1>5, Sizes DEF BufferInv, NoRecord
<1>18. BankInv  BY <1>3, <1>5, <1>9 DEF BankInv
<1>19. ScanReadsZero  BY <1>5 DEF ScanReadsZero
<1>20. SlotInv  BY <1>5 DEF SlotInv, NoRecord
<1> QED
  BY <1>10, <1>12, <1>13, <1>14, <1>15, <1>16, <1>17, <1>18, <1>19, <1>20 DEF Inv

\* Every step keeps the invariant.
LEMMA NextInv ==
    ASSUME Inv, [Next]_vars
    PROVE  /\ Inv' /\ (SentInv => SentInv')
           /\ SlotInv /\ SentInv /\ MaxRead <= Regs => SlotInv'
<1>1. CASE Master  BY <1>1, MasterStep
<1>2. CASE i2cInterruptHandler  BY <1>2, HandlerStep
<1>3. CASE Worker  BY <1>3, WorkerStep
<1>4. ASSUME NEW on \in BOOLEAN, i2c_slave_cli_command(on)
      PROVE  /\ Inv' /\ (SentInv => SentInv')
             /\ SlotInv /\ SentInv /\ MaxRead <= Regs => SlotInv'
  BY <1>4, CliStep
<1>5. CASE UNCHANGED vars
  <2>1. /\ flags' = flags /\ event' = event /\ bus' = bus /\ dev' = dev /\ banks' = banks
        /\ active' = active /\ pc' = pc /\ work' = work /\ flips' = flips /\ dump' = dump
    BY <1>5 DEF vars
  <2>2. KeepsTransfer
    <3>1. dev.semaphore \in Nat  BY DEF Inv, Types, Devs
    <3> QED  BY <2>1, <3>1 DEF KeepsTransfer
  <2>3. Types' /\ BufferInv' /\ BankInv' /\ (SlotInv => SlotInv')
    BY <2>1 DEF Inv, Types, BufferInv, BankInv, Published, SlotInv
  <2>4. SnapshotInv'
    <3>1. SnapshotInv  BY DEF Inv
    <3> QED  BY <2>1, <3>1 DEF SnapshotInv
  <2> QED  BY <2>2, <2>3, <2>4, KeepTransfer DEF Inv
<1> QED  BY <1>1, <1>2, <1>3, <1>4, <1>5 DEF Next

\* Inv is an invariant, for every length of a transfer.
THEOREM InvHolds == Spec => []Inv
<1>1. Init => Inv  BY InitInv
<1>2. Inv /\ [Next]_vars => Inv'  BY NextInv
<1> QED  BY <1>1, <1>2, PTL DEF Spec

\* The buffers of src/firmware/i2c_slave.c are never indexed out of bounds:
\* receiveBuffer, transmitBuffer, pendingBuffer and dumpBuffer hold at most Regs
\* bytes, whatever the length of a transfer and wherever the handler interrupts
\* the work thread; and the semaphore is posted at most once for a transfer.
THEOREM BuffersBounded == Spec => []TypeOK
<1>1. Inv => TypeOK
  <2> SUFFICES ASSUME Inv PROVE TypeOK  OBVIOUS
  <2>0. Types /\ BufferInv /\ CountInv  BY DEF Inv
  <2>1. \A s \in Seq(Byte) : Len(s) <= Regs => Bytes(s, Regs)  BY DEF Bytes
  <2>2. Bytes(dev.received, Regs) /\ Bytes(dev.sent, Regs)
    BY <2>0, <2>1 DEF Types, BufferInv, Devs
  <2>3. RecordOK(dev.pending)
    <3>1. dev.pending \in Log  BY <2>0 DEF Types, Devs
    <3>2. Bytes(dev.pending.data, Regs)  BY <2>0, <2>1, <3>1 DEF BufferInv, Log
    <3>3. dev.pending.count \in 0 .. Regs  BY <2>0, <3>1, Sizes DEF BufferInv, Log
    <3> QED  BY <3>1, <3>2, <3>3 DEF RecordOK, Log
  <2>4. RecordOK(work)
    <3>1. work \in Works  BY <2>0 DEF Types
    <3>2. Bytes(work.data, Regs)  BY <2>0, <2>1, <3>1 DEF BufferInv, Works
    <3>3. work.count \in 0 .. Regs  BY <2>0, <3>1, Sizes DEF BufferInv, Works
    <3> QED  BY <3>1, <3>2, <3>3 DEF RecordOK, Works
  <2>5. dev.semaphore \in 0 .. MaxTransfers
    <3> DEFINE k == IF Open THEN 1 ELSE 0
    <3>1. /\ k \in Nat /\ dev.semaphore + k <= bus.transfer /\ bus.transfer <= MaxTransfers
      BY <2>0 DEF CountInv
    <3>2. dev.semaphore \in Nat /\ bus.transfer \in Nat  BY <2>0 DEF Types, Devs, Buses
    <3> HIDE DEF k
    <3> QED  BY <3>1, <3>2, Sizes
  <2>6. /\ dev.pointer \in Register /\ dev.start \in Register /\ dev.snapshot \in {0, 1}
        /\ dev.valid \in BOOLEAN /\ dev.loop \in BOOLEAN
        /\ dev.transactions \in 0 .. MaxCount /\ dev.errors \in 0 .. MaxCount
    BY <2>0 DEF Types, Devs, Counted
  <2>7. bus.phase \in {"idle", "pointed", "writing", "reading", "scanning"}
    BY <2>0 DEF Types, Buses
  <2>8. /\ flags \subseteq {"data", "stop"} /\ active \in {0, 1}
        /\ banks \in [{0, 1} -> [0 .. Regs - 1 -> Byte]]
    BY <2>0 DEF Types, Windows, Index
  <2> QED  BY <2>2, <2>3, <2>4, <2>5, <2>6, <2>7, <2>8 DEF TypeOK
<1> QED  BY <1>1, InvHolds, PTL

\* A read without a register pointer is answered with zero.
THEOREM ScanReadsZeroHolds == Spec => []ScanReadsZero
<1>1. Inv => ScanReadsZero  BY DEF Inv
<1> QED  BY <1>1, InvHolds, PTL

\* A read of the loopback window, however long, returns what i2c_slave.md says
\* the writes before it left there: those that were refused or ran over the end
\* of the window nothing, the others all of their payload.  It holds as long as
\* no payload longer than the window was written to the start of it.
THEOREM LoopbackReadsBackHolds == Spec => []LoopbackReadsBack
<1>1. Inv => LoopbackReadsBack
  <2> SUFFICES ASSUME Inv, ~bus.cut, bus.phase = "reading", InWindow(bus.pointer)
               PROVE  LoopbackReadsBack
    BY DEF LoopbackReadsBack
  <2>1. "stop" \notin flags /\ dev.valid  BY DEF Inv, BusInv
  <2>2. bus.expect = dev.window  BY <2>1 DEF Inv, WindowInv
  <2>3. LoopInv  BY DEF Inv
  <2> QED  BY <2>1, <2>2, <2>3 DEF LoopInv, LoopbackReadsBack
<1> QED  BY <1>1, InvHolds, PTL

\* A status read returns registers of one publication, as long as the work
\* thread has not begun the second publication since the register pointer.
THEOREM ReadFromOnePublicationHolds == Spec => []ReadFromOnePublication
<1>1. Inv => ReadFromOnePublication
  <2> SUFFICES ASSUME Inv, flips = 0 \/ (flips = 1 /\ pc \notin {"fill", "switch"}),
                      bus.phase = "reading", ~InWindow(bus.pointer)
               PROVE  ReadIsConsistent
    BY DEF ReadFromOnePublication, ReadIsConsistent
  <2>1. "stop" \notin flags /\ dev.valid  BY DEF Inv, BusInv
  <2>2. SnapshotInv  BY DEF Inv
  <2> QED  BY <2>1, <2>2 DEF SnapshotInv, ReadIsConsistent
<1> QED  BY <1>1, InvHolds, PTL

\* The line the work thread prints is one transfer as the bus carried it, though
\* the handler may queue another between any two reads of the slot.  A read of
\* more than Regs bytes overwrites the start of the transmit buffer, hence the
\* assumption.
THEOREM DumpLineIsOneTransfer ==
    ASSUME MaxRead <= Regs
    PROVE  Spec => []DumpLineIsOneTransaction
<1>1. Init => Inv /\ SentInv /\ SlotInv  BY InitInv
<1>2. (Inv /\ SentInv /\ SlotInv) /\ [Next]_vars => (Inv /\ SentInv /\ SlotInv)'
  BY NextInv
<1>3. SlotInv => DumpLineIsOneTransaction  BY DEF SlotInv, DumpLineIsOneTransaction, Line
<1> QED  BY <1>1, <1>2, <1>3, PTL DEF Spec
====
