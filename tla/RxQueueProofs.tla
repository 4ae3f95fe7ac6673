---------------------------- MODULE RxQueueProofs ----------------------------
(***************************************************************************)
(* Proofs about RxQueue, for a ring of any number of entries, a mailbox of *)
(* any depth and any number of packets.                                    *)
(***************************************************************************)
EXTENDS RxQueue, SequenceTheorems, TLAPS

-----------------------------------------------------------------------------
(* The inductive invariant *)

Counters == {"rx", "enq", "drop", "full", "crc", "coll"}

Messages == [sequence : Nat, packet : Nat]

TypeOK ==
    /\ ring \in [0 .. Entries - 1 -> [packet : Nat, ok : BOOLEAN, finished : BOOLEAN]]
    /\ write \in 0 .. Entries - 1 /\ read \in 0 .. Entries - 1
    /\ air \in Nat /\ taken \in Nat /\ late \in Nat
    /\ raised \subseteq {"RxEntryDone", "RxBufFull", "RxCollisionDetected"}
    /\ merged \in BOOLEAN /\ receiving \in BOOLEAN /\ dump \in BOOLEAN
    /\ nextSequence \in Nat /\ mailbox \in Seq(Messages)
    /\ printer \in Messages /\ printed \in Messages /\ done \in Seq(Messages)
    /\ stats \in [Counters -> Nat]
    /\ status \in [next : 1 .. 4, copy : [Counters -> Nat]]

Waiting == air - taken

\* The ring, with the place of entry k after readEntry written without %.
Place(r, k) == IF r + k < Entries THEN r + k ELSE (r + k) - Entries

RingInv ==
    /\ Waiting \in 0 .. Entries
    /\ "RxEntryDone" \in raised => Waiting > 0
    /\ write = Place(read, Waiting)
    /\ \A k \in 0 .. Entries - 1 :
          LET e == ring[Place(read, k)]
          IN  (e.finished <=> k < Waiting) /\ (e.finished => e.packet = taken + k + 1)

\* While no two packets shared an event, at most one is waiting, its event is
\* still to be served, and a ring with room for another is not full.
TimelyInv ==
    ~merged =>
        /\ Entries > 1 => receiving
        /\ Waiting <= (IF "RxEntryDone" \in raised THEN 1 ELSE 0)

\* m was posted, and since then not fewer packets than sequence numbers passed.
Posted(m) ==
    /\ m.sequence >= 1 /\ m.sequence < nextSequence
    /\ m.packet >= 1 /\ m.packet <= taken
    /\ taken - m.packet >= (nextSequence - 1) - m.sequence

CountInv ==
    /\ nextSequence = stats["rx"] + 1
    /\ stats["rx"] = stats["enq"] + stats["drop"]
    /\ stats["rx"] + stats["crc"] = taken

\* The messages posted and not lost, in order.
Ordered(line) ==
    /\ \A i \in 1 .. Len(line) : Posted(line[i])
    /\ \A i, j \in 1 .. Len(line) : i < j => After(line[i], line[j])

LineInv ==
    /\ stats["enq"] = Len(Line)
    /\ Ordered(Line)
    /\ printed = None \/ \E i \in 1 .. Len(done) : printed = done[i]

\* What is already copied is at most what is copied plus what is still counted.
CopyInv ==
    LET c == status.copy
    IN  /\ status.next = 2 => c["rx"] <= stats["enq"] + stats["drop"]
        /\ status.next = 3 => c["rx"] <= c["enq"] + stats["drop"]
        /\ status.next = 4 => c["rx"] <= c["enq"] + c["drop"]

Inv == TypeOK /\ RingInv /\ TimelyInv /\ CountInv /\ LineInv /\ CopyInv

-----------------------------------------------------------------------------
(* Places in the ring *)

\* One turn round the ring, without %.
LEMMA Wrap ==
    ASSUME NEW n \in Nat \ {0}, NEW x \in 0 .. 2 * n - 1
    PROVE  x % n = IF x < n THEN x ELSE x - n
OBVIOUS

\* The place of an entry is its place by Following, and by the property.
LEMMA PlaceFacts ==
    ASSUME NEW r \in 0 .. Entries - 1
    PROVE  /\ \A k \in 0 .. Entries : Place(r, k) = (r + k) % Entries
           /\ \A k \in 0 .. Entries : Place(r, k) \in 0 .. Entries - 1
           /\ Place(r, 1) = Following(r)
           /\ Place(r, 0) = r
           /\ \A k, l \in 0 .. Entries - 1 : Place(r, k) = Place(r, l) => k = l
           /\ Place(r, Entries) = r
           /\ \A k \in 0 .. Entries - 1 : Following(Place(r, k)) = Place(r, k + 1)
           /\ \A k \in 0 .. Entries - 2 : Place(Following(r), k) = Place(r, k + 1)
           /\ Place(Following(r), Entries - 1) = r
<1> Entries \in Nat \ {0}  BY RxAssumption
<1>1. \A k \in 0 .. Entries : Place(r, k) \in 0 .. Entries - 1
  BY DEF Place
<1>2. \A k \in 0 .. Entries : Place(r, k) = (r + k) % Entries
  <2> TAKE k \in 0 .. Entries
  <2> r + k \in 0 .. 2 * Entries - 1  OBVIOUS
  <2> QED  BY Wrap DEF Place
<1>3. \A q \in 0 .. Entries - 1 : Following(q) = IF q + 1 < Entries THEN q + 1 ELSE 0
  <2> TAKE q \in 0 .. Entries - 1
  <2> q + 1 \in 0 .. 2 * Entries - 1  OBVIOUS
  <2> (q + 1) % Entries = IF q + 1 < Entries THEN q + 1 ELSE (q + 1) - Entries  BY Wrap
  <2> QED  BY DEF Following
<1> QED  BY <1>1, <1>2, <1>3 DEF Place

-----------------------------------------------------------------------------
(* The steps *)

\* The line is one of messages, and grows at its end by what is posted.
LEMMA LineType ==
    ASSUME done \in Seq(Messages), printer \in Messages, mailbox \in Seq(Messages)
    PROVE  /\ Held \in Seq(Messages) /\ done \o Held \in Seq(Messages)
           /\ Line \in Seq(Messages)
           /\ \A m \in Messages : (done \o Held) \o Append(mailbox, m) = Append(Line, m)
<1>1. Held \in Seq(Messages)
  <2>1. <<printer>> \in Seq(Messages) /\ <<>> \in Seq(Messages)  OBVIOUS
  <2> QED  BY <2>1 DEF Held
<1>2. done \o Held \in Seq(Messages)  BY <1>1, ConcatProperties
<1>3. Line \in Seq(Messages)  BY <1>2, ConcatProperties DEF Line
<1>4. ASSUME NEW m \in Messages
      PROVE  (done \o Held) \o Append(mailbox, m) = Append(Line, m)
  <2>1. <<m>> \in Seq(Messages)  OBVIOUS
  <2>2. Append(mailbox, m) = mailbox \o <<m>>  BY AppendIsConcat
  <2>3. Append(Line, m) = Line \o <<m>>  BY <1>3, AppendIsConcat
  <2> QED  BY <1>2, <2>1, <2>2, <2>3, ConcatAssociative DEF Line
<1> QED  BY <1>1, <1>2, <1>3, <1>4

\* A step that leaves the messages and what was posted alone.
LEMMA LineUnchanged ==
    ASSUME LineInv, stats'["enq"] = stats["enq"],
           UNCHANGED <<done, printed, printer, mailbox, nextSequence, taken>>
    PROVE  LineInv'
<1>1. Line' = Line  BY DEF Line, Held
<1>2. \A m : Posted(m) => Posted(m)'  BY DEF Posted
<1>3. Ordered(Line)'  BY <1>1, <1>2 DEF LineInv, Ordered
<1> QED  BY <1>1, <1>3 DEF LineInv

\* A step after which the messages of the line are the same and still posted.
LEMMA LineKept ==
    ASSUME TypeOK, LineInv, Line' = Line, stats'["enq"] = stats["enq"],
           \A m \in Messages : Posted(m) => Posted(m)'
    PROVE  Ordered(Line)' /\ stats'["enq"] = Len(Line')
<1>1. \A i \in 1 .. Len(Line) : Line[i] \in Messages
  BY LineType DEF TypeOK
<1> QED  BY <1>1 DEF LineInv, Ordered

\* A step of which the ring sees nothing.
LEMMA RingUnchanged ==
    ASSUME RingInv, UNCHANGED <<ring, write, read, air, taken>>,
           "RxEntryDone" \in raised' => "RxEntryDone" \in raised
    PROVE  RingInv'
<1> \A k : Place(read, k)' = Place(read, k)  BY DEF Place
<1> Waiting' = Waiting  BY DEF Waiting
<1> QED  BY DEF RingInv

\* The queue starts empty.
LEMMA InitInv == Init => Inv
<1> SUFFICES ASSUME Init PROVE Inv  OBVIOUS
<1> Entries \in Nat \ {0}  BY RxAssumption
<1> None \in Messages  BY DEF None, Messages
<1> ZeroStats \in [Counters -> Nat]  BY DEF ZeroStats, Counters
<1>1. TypeOK
  <2>1. ring \in [0 .. Entries - 1 -> [packet : Nat, ok : BOOLEAN, finished : BOOLEAN]]
    BY DEF Init
  <2>2. status \in [next : 1 .. 4, copy : [Counters -> Nat]]  BY DEF Init
  <2>3. mailbox \in Seq(Messages) /\ stats \in [Counters -> Nat]  BY DEF Init
  <2>4. merged \in BOOLEAN /\ receiving \in BOOLEAN /\ dump \in BOOLEAN  BY Zenon DEF Init
  <2> QED  BY <2>1, <2>2, <2>3, <2>4 DEF Init, TypeOK
<1>2. RingInv
  <2>1. Waiting = 0 /\ read \in 0 .. Entries - 1  BY DEF Init, Waiting
  <2>2. \A k \in 0 .. Entries - 1 : ~ring[Place(read, k)].finished
    BY <2>1, PlaceFacts DEF Init
  <2>3. write = Place(read, Waiting)  BY <2>1, PlaceFacts DEF Init
  <2>4. raised = {}  BY DEF Init
  <2> QED  BY <2>1, <2>2, <2>3, <2>4 DEF RingInv
<1>3. TimelyInv  BY DEF Init, TimelyInv, Waiting
<1>4. CountInv  BY DEF Init, CountInv, ZeroStats
<1>5. LineInv
  <2>1. Line = <<>>  BY DEF Init, Line, Held
  <2>2. Len(<<>>) = 0 /\ 1 .. 0 = {}  OBVIOUS
  <2>3. stats["enq"] = 0 /\ printed = None  BY DEF Init, ZeroStats
  <2> QED  BY <2>1, <2>2, <2>3 DEF LineInv, Ordered
<1>6. CopyInv  BY DEF Init, CopyInv, ZeroStats
<1> QED  BY <1>1, <1>2, <1>3, <1>4, <1>5, <1>6 DEF Inv

\* RF core: a packet goes to the entry behind the last that waits, which is
\* free, so that there is room for it.
LEMMA ReceiveInv ==
    ASSUME Inv, NEW ok \in BOOLEAN, Receive(ok)
    PROVE  Inv'
<1> Entries \in Nat \ {0}  BY RxAssumption
<1> USE DEF Inv
<1>1. Waiting < Entries
  <2> SUFFICES ASSUME Waiting = Entries PROVE FALSE  BY DEF RingInv, TypeOK
  <2>1. write = read  BY PlaceFacts DEF RingInv, TypeOK
  <2>2. ring[Place(read, 0)].finished /\ Place(read, 0) = read
    BY PlaceFacts DEF RingInv, TypeOK
  <2> QED  BY <2>1, <2>2 DEF Receive
<1>2. TypeOK'
  <2>1. write' \in 0 .. Entries - 1  BY PlaceFacts DEF TypeOK, Receive
  <2>2. ring' \in [0 .. Entries - 1 -> [packet : Nat, ok : BOOLEAN, finished : BOOLEAN]]
    BY DEF TypeOK, Receive
  <2> QED  BY <2>1, <2>2 DEF TypeOK, Receive, app, cli
<1>3. RingInv'
  <2>1. Waiting' = Waiting + 1 /\ Waiting \in 0 .. Entries
    BY DEF Waiting, TypeOK, Receive, app, RingInv
  <2>2. write' = Place(read', Waiting')
    BY <1>1, <2>1, PlaceFacts DEF RingInv, TypeOK, Receive, app
  <2>3. ASSUME NEW k \in 0 .. Entries - 1
        PROVE  LET e == ring[Place(read, k)]'
               IN  (e.finished <=> k < Waiting') /\ (e.finished => e.packet = taken' + k + 1)
    <3>1. CASE k = Waiting
      <4>1. Place(read, k) = write /\ air = taken + k  BY <3>1 DEF RingInv, Waiting, TypeOK
      <4>2. ring'[write] = [packet |-> air + 1, ok |-> ok, finished |-> TRUE]
        BY DEF Receive, TypeOK
      <4>3. Place(read, k)' = write /\ taken' = taken
        BY <4>1 DEF Receive, app, Place
      <4>4. ring[Place(read, k)]' = ring'[write]  BY <4>3
      <4> QED  BY <2>1, <3>1, <4>1, <4>2, <4>3, <4>4 DEF TypeOK
    <3>2. CASE k # Waiting
      <4>0. write = Place(read, Waiting) /\ read \in 0 .. Entries - 1  BY DEF RingInv, TypeOK
      <4>1. Place(read, k) # write  BY <4>0, <1>1, <2>1, <3>2 DEF Place
      <4>2. ring'[Place(read, k)] = ring[Place(read, k)] /\ read' = read /\ taken' = taken
        BY <4>1, PlaceFacts DEF Receive, app, TypeOK
      <4>3. Place(read, k)' = Place(read, k)  BY <4>2 DEF Place
      <4> QED  BY <2>1, <3>2, <4>2, <4>3 DEF RingInv
    <3> QED  BY <3>1, <3>2
  <2> QED  BY <1>1, <2>1, <2>2, <2>3 DEF RingInv, Receive
<1>4. TimelyInv'
  <2> merged' <=> merged \/ "RxEntryDone" \in raised  BY Zenon DEF Receive
  <2> QED  BY DEF TimelyInv, Waiting, Receive, app, TypeOK
<1>5. CountInv'  BY DEF CountInv, Receive, app
<1>6. LineInv'  BY LineUnchanged DEF Receive, app, cli
<1>7. CopyInv'  BY DEF CopyInv, Receive, app, cli
<1> QED  BY <1>2, <1>3, <1>4, <1>5, <1>6, <1>7

\* RF core: a packet that finds its entry taken finds the ring full: more than
\* one packet waits in a ring of more than one entry, so two shared an event.
LEMMA ReceiveWithoutBufferInv ==
    ASSUME Inv, ReceiveWithoutBuffer
    PROVE  Inv'
<1> Entries \in Nat \ {0}  BY RxAssumption
<1> USE DEF Inv
<1>1. TypeOK'  BY DEF TypeOK, ReceiveWithoutBuffer, app, cli
<1>2. RingInv'  BY RingUnchanged DEF ReceiveWithoutBuffer, app
<1>3. TimelyInv'
  <2>1. Waiting = Entries
    <3> SUFFICES ASSUME Waiting \in 0 .. Entries - 1 PROVE FALSE  BY DEF RingInv
    <3> ~ring[Place(read, Waiting)].finished  BY DEF RingInv
    <3> QED  BY DEF RingInv, ReceiveWithoutBuffer
  <2>2. Entries > 1 => merged  BY <2>1 DEF TimelyInv
  <2>3. Waiting' = Waiting  BY DEF Waiting, ReceiveWithoutBuffer, app
  <2> QED  BY <2>2, <2>3 DEF TimelyInv, ReceiveWithoutBuffer
<1>4. CountInv'  BY DEF CountInv, ReceiveWithoutBuffer, app
<1>5. LineInv'  BY LineUnchanged DEF ReceiveWithoutBuffer, app, cli
<1>6. CopyInv'  BY DEF CopyInv, ReceiveWithoutBuffer, app, cli
<1> QED  BY <1>1, <1>2, <1>3, <1>4, <1>5, <1>6

\* RF core: a collision raises its event only.
LEMMA DetectCollisionInv ==
    ASSUME Inv, DetectCollision
    PROVE  Inv'
<1> USE DEF Inv
<1>1. TypeOK'  BY DEF TypeOK, DetectCollision, radio, app, cli
<1>2. RingInv'  BY RingUnchanged DEF DetectCollision, radio, app
<1>3. TimelyInv'  BY DEF TimelyInv, Waiting, DetectCollision, radio, app
<1>4. CountInv'  BY DEF CountInv, DetectCollision, app
<1>5. LineInv'  BY LineUnchanged DEF DetectCollision, app, cli
<1>6. CopyInv'  BY DEF CopyInv, DetectCollision, app, cli
<1> QED  BY <1>1, <1>2, <1>3, <1>4, <1>5, <1>6

\* Callback: what the counters, the sequence number and the mailbox become, in
\* each of its outcomes.
Queued(p) ==
    /\ Len(mailbox) < Depth
    /\ mailbox' = Append(mailbox, [sequence |-> nextSequence, packet |-> p])
    /\ nextSequence' = nextSequence + 1
    /\ stats' = Noted(stats, EventCounters \cup {"rx", "enq"})

Dropped ==
    /\ mailbox' = mailbox
    /\ nextSequence' = nextSequence + 1
    /\ stats' = Noted(stats, EventCounters \cup {"rx", "drop"})

\* A handled entry is queued, dropped or counted as a CRC error.
LEMMA HandledCases ==
    ASSUME NEW p, IF ring[read].ok THEN post_packet(p) ELSE note_crc_error
    PROVE  Queued(p) \/ Dropped \/ note_crc_error
<1>1. CASE ~ring[read].ok  BY <1>1
<1>2. CASE ring[read].ok /\ Len(mailbox) < Depth
  BY <1>2 DEF post_packet, Queued
<1>3. CASE ring[read].ok /\ ~(Len(mailbox) < Depth)
  BY <1>3 DEF post_packet, Dropped
<1> QED  BY <1>1, <1>2, <1>3

\* The counters a callback adds to are its events' and the packet's.
LEMMA NotedFacts ==
    ASSUME stats \in [Counters -> Nat], NEW fs \in SUBSET Counters,
           stats' = Noted(stats, EventCounters \cup fs)
    PROVE  /\ stats' \in [Counters -> Nat]
           /\ \A f \in {"rx", "enq", "drop", "crc"} :
                 stats'[f] = IF f \in fs THEN stats[f] + 1 ELSE stats[f]
           /\ \A f \in Counters : stats'[f] >= stats[f]
<1>1. \A f \in Counters : stats'[f] = IF f \in EventCounters \cup fs THEN stats[f] + 1 ELSE stats[f]
  BY DEF Noted
<1>2. DOMAIN stats' = Counters  BY DEF Noted
<1>3. EventCounters \subseteq {"full", "coll"}  BY DEF EventCounters
<1>4. stats' \in [Counters -> Nat]  BY <1>1, <1>2 DEF Noted
<1> QED  BY <1>1, <1>3, <1>4 DEF Counters

\* Callback: the entry at readEntry is the packet that waits longest; giving it
\* back moves the line by one.
LEMMA NextEntryRing ==
    ASSUME TypeOK, RingInv, RFQueue_nextEntry, "RxEntryDone" \in raised, raised' = {},
           UNCHANGED <<write, air>>
    PROVE  /\ ring' \in [0 .. Entries - 1 -> [packet : Nat, ok : BOOLEAN, finished : BOOLEAN]]
           /\ read' \in 0 .. Entries - 1
           /\ taken' = taken + 1
           /\ Waiting' = Waiting - 1
           /\ ring[read].packet = taken + 1
           /\ RingInv'
<1> Entries \in Nat \ {0}  BY RxAssumption
<1>1. ring' \in [0 .. Entries - 1 -> [packet : Nat, ok : BOOLEAN, finished : BOOLEAN]]
  BY DEF RFQueue_nextEntry, TypeOK
<1>2. read' = Following(read) /\ read' \in 0 .. Entries - 1
  <2>1. read' = Following(read) /\ read \in 0 .. Entries - 1
    BY DEF RFQueue_nextEntry, TypeOK
  <2>2. Place(read, 1) = Following(read) /\ Place(read, 1) \in 0 .. Entries - 1
    BY <2>1, PlaceFacts
  <2> QED  BY <2>1, <2>2
<1>3. taken' = taken + 1 /\ Waiting' = Waiting - 1
  BY DEF RFQueue_nextEntry, Waiting, TypeOK
<1>4. Waiting \in 1 .. Entries  BY DEF RingInv
<1>5. ring[read].packet = taken + 1
  <2>1. Place(read, 0) = read  BY PlaceFacts DEF TypeOK
  <2>2. LET e == ring[Place(read, 0)]
        IN  (e.finished <=> 0 < Waiting) /\ (e.finished => e.packet = taken + 0 + 1)
    BY DEF RingInv
  <2> QED  BY <1>4, <2>1, <2>2 DEF TypeOK
<1>6. \A k \in 0 .. Entries - 2 : Place(read', k) = Place(read, k + 1)
  BY <1>2, PlaceFacts DEF TypeOK
<1>7. Place(read', Entries - 1) = read
  BY <1>2, PlaceFacts DEF TypeOK
<1>8. write' = Place(read', Waiting')
  <2>1. write' = Place(read, Waiting)  BY DEF RingInv
  <2>2. CASE Waiting - 1 \in 0 .. Entries - 2
    BY <2>1, <2>2, <1>3, <1>4, <1>6
  <2>3. CASE Waiting = Entries
    <3> Place(read, Entries) = read  BY PlaceFacts DEF TypeOK
    <3> QED  BY <2>1, <2>3, <1>3, <1>7
  <2> QED  BY <1>4, <2>2, <2>3
<1>9. ASSUME NEW k \in 0 .. Entries - 1
      PROVE  LET e == ring[Place(read, k)]'
             IN  (e.finished <=> k < Waiting') /\ (e.finished => e.packet = taken' + k + 1)
  <2>0. ring[Place(read, k)]' = ring'[Place(read', k)]  BY DEF Place
  <2>1. CASE k = Entries - 1
    <3> ~ring'[read].finished  BY DEF RFQueue_nextEntry, TypeOK
    <3> QED  BY <1>3, <1>4, <1>7, <2>0, <2>1
  <2>2. CASE k \in 0 .. Entries - 2
    <3>1. Place(read', k) = Place(read, k + 1)  BY <1>6, <2>2
    <3>2. Place(read, k + 1) # read /\ Place(read, k + 1) \in 0 .. Entries - 1
      BY <2>2 DEF Place, TypeOK
    <3>3. ring'[Place(read, k + 1)] = ring[Place(read, k + 1)]
      BY <3>2 DEF RFQueue_nextEntry, TypeOK
    <3>4. LET e == ring[Place(read, k + 1)]
          IN  (e.finished <=> k + 1 < Waiting) /\ (e.finished => e.packet = taken + (k + 1) + 1)
      BY <2>2 DEF RingInv
    <3> QED  BY <1>3, <1>4, <2>0, <2>2, <3>1, <3>3, <3>4 DEF TypeOK
  <2> QED  BY <2>1, <2>2
<1> QED  BY <1>1, <1>2, <1>3, <1>4, <1>5, <1>8, <1>9 DEF RingInv

\* A packet more was handled, and a number more was given or not.
LEMMA PostedStep ==
    ASSUME NEW m \in Messages, taken \in Nat, nextSequence \in Nat, Posted(m),
           taken' = taken + 1, nextSequence' \in {nextSequence, nextSequence + 1}
    PROVE  Posted(m)'
BY DEF Posted, Messages

\* The next message is behind every message posted.
LEMMA NextIsAfter ==
    ASSUME NEW m \in Messages, taken \in Nat, nextSequence \in Nat, Posted(m)
    PROVE  After(m, [sequence |-> nextSequence, packet |-> taken + 1])
BY DEF Posted, After, Messages

\* Every handled packet is counted once: as queued, as dropped, or as a CRC error.
LEMMA CountStep ==
    ASSUME CountInv, stats \in [Counters -> Nat], taken \in Nat, nextSequence \in Nat,
           taken' = taken + 1,
           \/ /\ nextSequence' = nextSequence + 1 /\ stats'["rx"] = stats["rx"] + 1
              /\ stats'["crc"] = stats["crc"]
              /\ \/ stats'["enq"] = stats["enq"] + 1 /\ stats'["drop"] = stats["drop"]
                 \/ stats'["enq"] = stats["enq"] /\ stats'["drop"] = stats["drop"] + 1
           \/ /\ nextSequence' = nextSequence /\ stats'["rx"] = stats["rx"]
              /\ stats'["enq"] = stats["enq"] /\ stats'["drop"] = stats["drop"]
              /\ stats'["crc"] = stats["crc"] + 1
    PROVE  CountInv'
<1> /\ stats["rx"] \in Nat /\ stats["enq"] \in Nat /\ stats["drop"] \in Nat
    /\ stats["crc"] \in Nat
  BY DEF Counters
<1> QED  BY DEF CountInv

\* Callback, first case: the entry is handled.  A message that is posted carries
\* the next packet and the next number, so it goes behind all others.
LEMMA HandleEntryInv ==
    ASSUME Inv, callback, "RxEntryDone" \in raised
    PROVE  Inv'
<1> DEFINE p == ring[read].packet
<1>a. TypeOK /\ RingInv /\ TimelyInv  BY DEF Inv
<1>b. CountInv  BY DEF Inv
<1>c. LineInv  BY DEF Inv
<1>d. CopyInv  BY DEF Inv
<1>1. RFQueue_nextEntry /\ raised' = {} /\ late' = 0
  BY DEF callback
<1>2. UNCHANGED <<write, air, receiving, merged, dump, printer, done, printed, status>>
  BY DEF callback, cli
<1>3. /\ ring' \in [0 .. Entries - 1 -> [packet : Nat, ok : BOOLEAN, finished : BOOLEAN]]
      /\ read' \in 0 .. Entries - 1
      /\ Waiting' = Waiting - 1
      /\ RingInv'
  BY <1>a, <1>1, <1>2, NextEntryRing
<1>t. taken' = taken + 1  BY <1>a, <1>1, <1>2, NextEntryRing
<1>p. p = taken + 1  BY <1>a, <1>1, <1>2, NextEntryRing
<1>4. Queued(p) \/ Dropped \/ note_crc_error
  BY HandledCases DEF callback
<1>0. /\ taken \in Nat /\ nextSequence \in Nat /\ mailbox \in Seq(Messages)
      /\ printer \in Messages /\ printed \in Messages /\ done \in Seq(Messages)
  BY <1>a DEF TypeOK
<1>s. /\ stats["rx"] \in Nat /\ stats["enq"] \in Nat /\ stats["drop"] \in Nat
      /\ stats["crc"] \in Nat
  BY <1>a DEF TypeOK, Counters
<1>5. TimelyInv'
  BY <1>a, <1>1, <1>2, <1>3 DEF TimelyInv, RingInv
<1>6. ASSUME stats' \in [Counters -> Nat], nextSequence' \in Nat, mailbox' \in Seq(Messages),
             CountInv',
             \A f \in Counters : stats'[f] >= stats[f]
      PROVE  TypeOK' /\ CopyInv'
  <2>1. TypeOK'  BY <1>a, <1>0, <1>t, <1>1, <1>2, <1>3, <1>6 DEF TypeOK
  <2>2. stats'["enq"] >= stats["enq"] /\ stats'["drop"] >= stats["drop"]
    BY <1>6 DEF Counters
  <2>3. /\ stats'["enq"] \in Nat /\ stats'["drop"] \in Nat /\ status.copy["rx"] \in Nat
        /\ status.copy["enq"] \in Nat
    BY <1>a, <1>6 DEF Counters, TypeOK
  <2>4. CopyInv'  BY <1>d, <1>s, <1>2, <2>2, <2>3 DEF CopyInv
  <2> QED  BY <2>1, <2>4
<1>7. ASSUME nextSequence' \in {nextSequence, nextSequence + 1}
      PROVE  \A m \in Messages : Posted(m) => Posted(m)'
  BY <1>0, <1>t, <1>7, PostedStep
<1>8. CASE Queued(p)
  <2>0. nextSequence' = nextSequence + 1  BY <1>8 DEF Queued
  <2>1. stats' = Noted(stats, EventCounters \cup {"rx", "enq"})  BY <1>8 DEF Queued
  <2>2. /\ stats' \in [Counters -> Nat]
        /\ stats'["rx"] = stats["rx"] + 1 /\ stats'["enq"] = stats["enq"] + 1
        /\ stats'["drop"] = stats["drop"] /\ stats'["crc"] = stats["crc"]
        /\ \A f \in Counters : stats'[f] >= stats[f]
    <3> {"rx", "enq"} \in SUBSET Counters  BY DEF Counters
    <3> QED  BY <1>a, <2>1, NotedFacts DEF TypeOK
  <2>3. CountInv'  BY <1>a, <1>b, <1>0, <1>t, <2>0, <2>2, CountStep DEF TypeOK
  <2> DEFINE new == [sequence |-> nextSequence, packet |-> p]
  <2>4. new \in Messages  BY <1>0, <1>p DEF Messages
  <2>5. mailbox' \in Seq(Messages) /\ nextSequence' \in Nat
    BY <1>0, <1>8, <2>0, <2>4 DEF Queued
  <2>6. \A m \in Messages : Posted(m) => Posted(m)'  BY <1>7, <2>0
  <2>7. \A m \in Messages : Posted(m) => After(m, new)
    BY <1>0, <1>p, NextIsAfter
  <2>8. /\ new.sequence >= 1 /\ new.sequence < nextSequence'
        /\ new.packet >= 1 /\ new.packet <= taken'
        /\ taken' - new.packet >= (nextSequence' - 1) - new.sequence
    <3> new.sequence = nextSequence /\ new.packet = taken + 1  BY <1>p
    <3> nextSequence >= 1  BY <1>b, <1>s DEF CountInv
    <3> QED  BY <1>0, <1>t, <2>0
  <2>9. LineInv'
    <3>1. Line' = Append(Line, new) /\ Line \in Seq(Messages)
      BY <1>0, <1>2, <1>8, <2>4, LineType DEF Queued, Line, Held
    <3>2. /\ Len(Line') = Len(Line) + 1 /\ Len(Line) \in Nat
          /\ \A i \in 1 .. Len(Line) : Line'[i] = Line[i] /\ Line[i] \in Messages
          /\ Line'[Len(Line) + 1] = new
      BY <2>4, <3>1, AppendProperties, LenProperties
    <3>3. stats["enq"] = Len(Line) /\ Ordered(Line)  BY <1>c DEF LineInv
    <3>4. ASSUME NEW i \in 1 .. Len(Line') PROVE Posted(Line[i])'
      <4>1. CASE i = Len(Line) + 1
        <5>1. Line'[i] = new  BY <3>2, <4>1
        <5> QED  BY <2>8, <5>1 DEF Posted
      <4>2. CASE i # Len(Line) + 1
        <5>1. i \in 1 .. Len(Line)  BY <3>2, <4>2
        <5>2. Posted(Line[i]) /\ Line[i] \in Messages /\ Line'[i] = Line[i]
          BY <3>2, <3>3, <5>1 DEF Ordered
        <5> QED  BY <2>6, <5>2 DEF Posted
      <4> QED  BY <4>1, <4>2
    <3>5. ASSUME NEW i \in 1 .. Len(Line'), NEW j \in 1 .. Len(Line'), i < j
          PROVE  After(Line'[i], Line'[j])
      <4>1. i \in 1 .. Len(Line)  BY <3>2, <3>5
      <4>2. Line'[i] = Line[i] /\ Line[i] \in Messages /\ Posted(Line[i])
        BY <3>2, <3>3, <4>1 DEF Ordered
      <4>3. CASE j = Len(Line) + 1  BY <2>7, <3>2, <4>2, <4>3
      <4>4. CASE j # Len(Line) + 1
        <5>1. j \in 1 .. Len(Line)  BY <3>2, <4>4
        <5> QED  BY <3>2, <3>3, <3>5, <4>1, <4>2, <5>1 DEF Ordered
      <4> QED  BY <4>3, <4>4
    <3>6. Ordered(Line)'  BY <3>4, <3>5 DEF Ordered, Posted
    <3>7. stats'["enq"] = Len(Line')  BY <2>2, <3>2, <3>3
    <3> QED  BY <1>2, <1>c, <3>6, <3>7 DEF LineInv
  <2> QED  BY <1>3, <1>5, <1>6, <2>2, <2>3, <2>5, <2>9 DEF Inv
<1>9. CASE Dropped
  <2>0. nextSequence' = nextSequence + 1  BY <1>9 DEF Dropped
  <2>1. stats' = Noted(stats, EventCounters \cup {"rx", "drop"})  BY <1>9 DEF Dropped
  <2>2. /\ stats' \in [Counters -> Nat]
        /\ stats'["rx"] = stats["rx"] + 1 /\ stats'["drop"] = stats["drop"] + 1
        /\ stats'["enq"] = stats["enq"] /\ stats'["crc"] = stats["crc"]
        /\ \A f \in Counters : stats'[f] >= stats[f]
    <3> {"rx", "drop"} \in SUBSET Counters  BY DEF Counters
    <3> QED  BY <1>a, <2>1, NotedFacts DEF TypeOK
  <2>3. CountInv'  BY <1>a, <1>b, <1>0, <1>t, <2>0, <2>2, CountStep DEF TypeOK
  <2>4. \A m \in Messages : Posted(m) => Posted(m)'  BY <1>7, <2>0
  <2>5. LineInv'
    <3>1. Line' = Line  BY <1>2, <1>9 DEF Dropped, Line, Held
    <3> QED  BY <1>2, <1>a, <1>c, <2>2, <2>4, <3>1, LineKept DEF LineInv
  <2>6. mailbox' \in Seq(Messages) /\ nextSequence' \in Nat
    BY <1>0, <1>9, <2>0 DEF Dropped
  <2> QED  BY <1>3, <1>5, <1>6, <2>2, <2>3, <2>5, <2>6 DEF Inv
<1>10. CASE note_crc_error
  <2>0. nextSequence' = nextSequence  BY <1>10 DEF note_crc_error
  <2>1. stats' = Noted(stats, EventCounters \cup {"crc"})  BY <1>10 DEF note_crc_error
  <2>2. /\ stats' \in [Counters -> Nat]
        /\ stats'["rx"] = stats["rx"] /\ stats'["drop"] = stats["drop"]
        /\ stats'["enq"] = stats["enq"] /\ stats'["crc"] = stats["crc"] + 1
        /\ \A f \in Counters : stats'[f] >= stats[f]
    <3> {"crc"} \in SUBSET Counters  BY DEF Counters
    <3> QED  BY <1>a, <2>1, NotedFacts DEF TypeOK
  <2>3. CountInv'  BY <1>a, <1>b, <1>0, <1>t, <2>0, <2>2, CountStep DEF TypeOK
  <2>4. \A m \in Messages : Posted(m) => Posted(m)'  BY <1>7, <2>0
  <2>5. LineInv'
    <3>1. Line' = Line  BY <1>2, <1>10 DEF note_crc_error, Line, Held
    <3> QED  BY <1>2, <1>a, <1>c, <2>2, <2>4, <3>1, LineKept DEF LineInv
  <2>6. mailbox' \in Seq(Messages) /\ nextSequence' \in Nat
    BY <1>0, <1>10, <2>0 DEF note_crc_error
  <2> QED  BY <1>3, <1>5, <1>6, <2>2, <2>3, <2>5, <2>6 DEF Inv
<1> QED  BY <1>4, <1>8, <1>9, <1>10

\* Callback, second case: only events are counted.
LEMMA CountEventsInv ==
    ASSUME Inv, callback, "RxEntryDone" \notin raised
    PROVE  Inv'
<1>a. TypeOK /\ RingInv /\ TimelyInv /\ CountInv /\ LineInv /\ CopyInv  BY DEF Inv
<1>1. /\ UNCHANGED <<ring, read, taken, nextSequence, mailbox, write, air, receiving, merged>>
      /\ UNCHANGED <<dump, printer, done, printed, status>>
      /\ raised' = {} /\ late' = 0
      /\ stats' = Noted(stats, EventCounters \cup {})
  BY DEF callback, cli
<1>2. /\ stats' \in [Counters -> Nat]
      /\ stats'["rx"] = stats["rx"] /\ stats'["drop"] = stats["drop"]
      /\ stats'["enq"] = stats["enq"] /\ stats'["crc"] = stats["crc"]
  <2> {} \in SUBSET Counters  OBVIOUS
  <2> QED  BY <1>a, <1>1, NotedFacts DEF TypeOK
<1>3. TypeOK'  BY <1>a, <1>1, <1>2 DEF TypeOK
<1>4. RingInv'  BY <1>a, <1>1, RingUnchanged
<1>5. TimelyInv'  BY <1>a, <1>1 DEF TimelyInv, Waiting
<1>6. CountInv'  BY <1>a, <1>1, <1>2 DEF CountInv
<1>7. LineInv'  BY <1>a, <1>1, <1>2, LineUnchanged
<1>8. CopyInv'  BY <1>a, <1>1, <1>2 DEF CopyInv
<1> QED  BY <1>3, <1>4, <1>5, <1>6, <1>7, <1>8 DEF Inv

-----------------------------------------------------------------------------
(* The threads *)

\* Of what a thread does, the ring, the counters and the events see nothing.
LEMMA ThreadInv ==
    ASSUME Inv, ThreadUnchanged
    PROVE  RingInv' /\ TimelyInv' /\ CountInv'
<1>a. RingInv /\ TimelyInv /\ CountInv  BY DEF Inv
<1>b. UNCHANGED <<ring, write, air, receiving, raised, merged, read, taken, nextSequence, stats>>
  BY DEF ThreadUnchanged, radio
<1>1. RingInv'  BY <1>a, <1>b, RingUnchanged
<1>2. TimelyInv'  BY <1>a, <1>b DEF TimelyInv, Waiting
<1>3. CountInv'  BY <1>a, <1>b DEF CountInv
<1> QED  BY <1>1, <1>2, <1>3

\* Print thread: the message it takes is the first in the mailbox, and stays
\* behind the one printed last and before the rest.
LEMMA PendMailboxInv ==
    ASSUME Inv, PendMailbox
    PROVE  Inv'
<1>a. TypeOK /\ LineInv /\ CopyInv  BY DEF Inv
<1>b. mailbox \in Seq(Messages) /\ mailbox # <<>>  BY <1>a DEF TypeOK, PendMailbox
<1>c. /\ printer' = mailbox[1] /\ mailbox' = Tail(mailbox)
      /\ UNCHANGED <<dump, done, printed, status, radio, raised, late, merged, read, taken>>
      /\ UNCHANGED <<nextSequence, stats>>
  BY <1>b DEF PendMailbox, ThreadUnchanged
<1>1. /\ Len(mailbox) \in Nat /\ Len(mailbox) >= 1
      /\ Len(mailbox') = Len(mailbox) - 1
      /\ \A i \in 1 .. Len(mailbox') : mailbox'[i] = mailbox[i + 1]
      /\ mailbox[1] \in Messages /\ mailbox' \in Seq(Messages)
  BY <1>b, <1>c
<1>2. TypeOK'  BY <1>a, <1>c, <1>1 DEF TypeOK, radio
<1>3. LineInv'
  <2>1. <<>> \in Seq(Messages) /\ <<mailbox[1]>> \in Seq(Messages)  BY <1>1
  <2>2. done \in Seq(Messages)  BY <1>a DEF TypeOK
  <2>3. mailbox[1] # None
    <3>1. Held = <<>>  BY DEF Held, PendMailbox
    <3>2. Line = done \o mailbox  BY <2>2, <3>1, ConcatEmptySeq DEF Line
    <3>3. /\ Len(done) \in Nat
          /\ Len(Line) = Len(done) + Len(mailbox) /\ Line[Len(done) + 1] = mailbox[1]
      BY <1>b, <1>1, <2>2, <3>2, ConcatProperties, LenProperties
    <3>4. Posted(mailbox[1])
      <4>1. Len(done) + 1 \in 1 .. Len(Line)  BY <1>1, <3>3
      <4> QED  BY <1>a, <3>3, <4>1 DEF LineInv, Ordered
    <3> QED  BY <3>4 DEF Posted, None
  <2>4. Line' = Line
    <3>1. Held = <<>> /\ Held' = <<mailbox[1]>>  BY <1>c, <2>3 DEF Held, PendMailbox
    <3>2. <<mailbox[1]>> \o Tail(mailbox) = mailbox  BY <1>b
    <3>3. Line = done \o mailbox  BY <2>2, <3>1, ConcatEmptySeq DEF Line
    <3>4. Line' = (done \o <<mailbox[1]>>) \o Tail(mailbox)  BY <1>c, <3>1 DEF Line
    <3>5. Tail(mailbox) \in Seq(Messages)  BY <1>c, <1>1
    <3> QED  BY <2>1, <2>2, <3>2, <3>3, <3>4, <3>5, ConcatAssociative
  <2>5. \A m \in Messages : Posted(m) => Posted(m)'  BY <1>c DEF Posted
  <2> QED  BY <1>a, <1>c, <2>4, <2>5, LineKept DEF LineInv
<1>4. CopyInv'  BY <1>a, <1>c DEF CopyInv
<1> QED  BY <1>2, <1>3, <1>4, ThreadInv DEF Inv, PendMailbox

\* Print thread: whether or not the message is printed, the rest is behind.
LEMMA PrintPacketInv ==
    ASSUME Inv, PrintPacket
    PROVE  Inv'
<1>a. TypeOK /\ LineInv /\ CopyInv  BY DEF Inv
<1>b. /\ printer # None /\ printer' = None /\ printed' = (IF dump THEN printer ELSE printed)
      /\ done' = Append(done, printer)
      /\ UNCHANGED <<mailbox, dump, status, radio, raised, late, merged, read, taken>>
      /\ UNCHANGED <<nextSequence, stats>>
  BY DEF PrintPacket, ThreadUnchanged
<1>c. printed' \in {printer, printed}  BY <1>b
<1>1. TypeOK'
  <2>1. None \in Messages  BY DEF None, Messages
  <2>2. done' \in Seq(Messages)  BY <1>a, <1>b, AppendProperties DEF TypeOK
  <2> QED  BY <1>a, <1>b, <1>c, <2>1, <2>2 DEF TypeOK, radio
<1>2. LineInv'
  <2>1. /\ done \in Seq(Messages) /\ printer \in Messages /\ mailbox \in Seq(Messages)
        /\ <<printer>> \in Seq(Messages)
    BY <1>a DEF TypeOK
  <2>2. Line' = Line
    <3>1. Held = <<printer>> /\ Held' = <<>>  BY <1>b DEF Held
    <3>2. done' = done \o <<printer>>  BY <1>b, <2>1, AppendIsConcat
    <3>3. done' \in Seq(Messages)  BY <1>b, <2>1, AppendProperties
    <3>4. Line' = done' \o mailbox  BY <1>b, <3>1, <3>3, ConcatEmptySeq DEF Line
    <3> QED  BY <3>1, <3>2, <3>4 DEF Line
  <2>3. \A m \in Messages : Posted(m) => Posted(m)'  BY <1>b DEF Posted
  <2>4. printed' = None \/ \E i \in 1 .. Len(done') : printed' = done'[i]
    <3>1. /\ Len(done') = Len(done) + 1 /\ Len(done) \in Nat
          /\ \A i \in 1 .. Len(done) : done'[i] = done[i]
          /\ done'[Len(done) + 1] = printer
      BY <1>b, <2>1, AppendProperties, LenProperties
    <3>2. CASE printed' = printer
      <4>1. Len(done) + 1 \in 1 .. Len(done')  BY <3>1
      <4> QED  BY <3>1, <3>2, <4>1
    <3>3. CASE printed' = printed
      <4>1. \A i \in 1 .. Len(done) : i \in 1 .. Len(done')  BY <3>1
      <4> QED  BY <1>a, <3>1, <3>3, <4>1 DEF LineInv
    <3> QED  BY <1>c, <3>2, <3>3
  <2> QED  BY <1>a, <1>b, <2>2, <2>3, <2>4, LineKept DEF LineInv
<1>3. CopyInv'  BY <1>a, <1>b DEF CopyInv
<1> QED  BY <1>1, <1>2, <1>3, ThreadInv DEF Inv, PrintPacket

\* "rx dump": only the flag changes.
LEMMA DumpSetInv ==
    ASSUME Inv, NEW on \in BOOLEAN, rf_packet_dump_set(on)
    PROVE  Inv'
<1>a. TypeOK /\ LineInv /\ CopyInv  BY DEF Inv
<1>b. /\ dump' = on
      /\ UNCHANGED <<mailbox, printer, done, printed, status, radio, raised, late, merged>>
      /\ UNCHANGED <<read, taken, nextSequence, stats>>
  BY DEF rf_packet_dump_set, ThreadUnchanged
<1>1. TypeOK'  BY <1>a, <1>b DEF TypeOK, radio
<1>2. LineInv'  BY <1>a, <1>b, LineUnchanged
<1>3. CopyInv'  BY <1>a, <1>b DEF CopyInv
<1> QED  BY <1>1, <1>2, <1>3, ThreadInv DEF Inv, rf_packet_dump_set

\* "rx status": a copy begins.
LEMMA RadioStatusInv ==
    ASSUME Inv, radio_status
    PROVE  Inv'
<1>a. TypeOK /\ LineInv  BY DEF Inv
<1>b. /\ status' = [next |-> 1, copy |-> ZeroStats]
      /\ UNCHANGED <<mailbox, dump, printer, done, printed, radio, raised, late, merged>>
      /\ UNCHANGED <<read, taken, nextSequence, stats>>
  BY DEF radio_status, ThreadUnchanged
<1>1. TypeOK'
  <2> ZeroStats \in [Counters -> Nat]  BY DEF ZeroStats, Counters
  <2> status' \in [next : 1 .. 4, copy : [Counters -> Nat]]  BY <1>b
  <2> QED  BY <1>a, <1>b DEF TypeOK, radio
<1>2. LineInv'  BY <1>a, <1>b, LineUnchanged
<1>3. CopyInv'  BY <1>b DEF CopyInv
<1> QED  BY <1>1, <1>2, <1>3, ThreadInv DEF Inv, radio_status

\* "rx status": rx is copied before enq and drop, which only grow.
LEMMA CopyFieldInv ==
    ASSUME Inv, CopyField
    PROVE  Inv'
<1>a. TypeOK /\ LineInv /\ CopyInv /\ CountInv  BY DEF Inv
<1> DEFINE f == Fields[status.next]
<1>b. /\ status.next <= 3
      /\ status' = [next |-> status.next + 1, copy |-> [status.copy EXCEPT ![f] = stats[f]]]
      /\ UNCHANGED <<mailbox, dump, printer, done, printed, radio, raised, late, merged>>
      /\ UNCHANGED <<read, taken, nextSequence, stats>>
  BY DEF CopyField, ThreadUnchanged, Fields
<1>c. /\ status.next \in 1 .. 3 /\ status.copy \in [Counters -> Nat]
      /\ stats \in [Counters -> Nat]
  BY <1>a, <1>b DEF TypeOK
<1>d. f \in Counters
  BY <1>c DEF Fields, Counters
<1>1. TypeOK'
  <2>1. status' \in [next : 1 .. 4, copy : [Counters -> Nat]]  BY <1>b, <1>c, <1>d
  <2> QED  BY <1>a, <1>b, <2>1 DEF TypeOK, radio
<1>2. LineInv'  BY <1>a, <1>b, LineUnchanged
<1>3. CopyInv'
  <2>0. status'.next = status.next + 1 /\ status'.copy = [status.copy EXCEPT ![f] = stats[f]]
    BY <1>b
  <2>1. CASE status.next = 1
    <3> f = "rx"  BY <2>1 DEF Fields
    <3> status'.copy["rx"] = stats["rx"]  BY <2>0, <1>c, <1>d
    <3> stats["rx"] \in Nat /\ stats["rx"] <= stats["enq"] + stats["drop"]
      BY <1>a, <1>c DEF CountInv, Counters
    <3> HIDE DEF f
    <3> QED  BY <1>b, <2>0, <2>1 DEF CopyInv
  <2>2. CASE status.next = 2
    <3> f = "enq"  BY <2>2 DEF Fields
    <3> status'.copy["enq"] = stats["enq"] /\ status'.copy["rx"] = status.copy["rx"]
      BY <2>0, <1>c, <1>d DEF Counters
    <3> QED  BY <1>a, <1>b, <2>0, <2>2 DEF CopyInv
  <2>3. CASE status.next = 3
    <3> f = "drop"  BY <2>3 DEF Fields
    <3> /\ status'.copy["drop"] = stats["drop"] /\ status'.copy["rx"] = status.copy["rx"]
        /\ status'.copy["enq"] = status.copy["enq"]
      BY <2>0, <1>c, <1>d DEF Counters
    <3> QED  BY <1>a, <1>b, <2>0, <2>3 DEF CopyInv
  <2> QED  BY <1>c, <2>1, <2>2, <2>3
<1> QED  BY <1>1, <1>2, <1>3, ThreadInv DEF Inv, CopyField

-----------------------------------------------------------------------------
(* The theorems *)

\* Equivalent truth values are equal.
LEMMA SameBoolean ==
    ASSUME NEW b \in BOOLEAN, NEW c \in BOOLEAN, b <=> c
    PROVE  b = c
BY Zenon

\* Inv is inductive.
LEMMA NextInv == Inv /\ [Next]_vars => Inv'
<1> SUFFICES ASSUME Inv, [Next]_vars PROVE Inv'  OBVIOUS
<1>1. ASSUME NEW ok \in BOOLEAN, Receive(ok) PROVE Inv'  BY <1>1, ReceiveInv
<1>2. CASE ReceiveWithoutBuffer  BY <1>2, ReceiveWithoutBufferInv
<1>3. CASE DetectCollision  BY <1>3, DetectCollisionInv
<1>4. CASE callback  BY <1>4, HandleEntryInv, CountEventsInv
<1>5. CASE Printer  BY <1>5, PendMailboxInv, PrintPacketInv DEF Printer
<1>6. ASSUME NEW on \in BOOLEAN, rf_packet_dump_set(on) PROVE Inv'  BY <1>6, DumpSetInv
<1>7. CASE radio_status  BY <1>7, RadioStatusInv
<1>8. CASE CopyField  BY <1>8, CopyFieldInv
<1>9. CASE UNCHANGED vars
  <2>a. TypeOK /\ RingInv /\ TimelyInv /\ CountInv /\ LineInv /\ CopyInv  BY DEF Inv
  <2>b. /\ UNCHANGED <<ring, write, air, receiving, read, taken, nextSequence, mailbox, stats>>
        /\ UNCHANGED <<dump, printer, done, printed, status, raised, late, merged>>
    BY <1>9 DEF vars, radio, app, cli
  <2>1. TypeOK'  BY <2>a, <2>b DEF TypeOK
  <2>2. RingInv'  BY <2>a, <2>b, RingUnchanged
  <2>3. TimelyInv'  BY <2>a, <2>b DEF TimelyInv, Waiting
  <2>4. CountInv'  BY <2>a, <2>b DEF CountInv
  <2>5. LineInv'  BY <2>a, <2>b, LineUnchanged
  <2>6. CopyInv'  BY <2>a, <2>b DEF CopyInv
  <2> QED  BY <2>1, <2>2, <2>3, <2>4, <2>5, <2>6 DEF Inv
<1> QED  BY <1>1, <1>2, <1>3, <1>4, <1>5, <1>6, <1>7, <1>8, <1>9 DEF Next

\* Inv holds always.
LEMMA AlwaysInv == Spec => []Inv
BY InitInv, NextInv, PTL DEF Spec

\* RF callback and RFQueue: in a ring of any size, however many events are lost
\* in the mask, the callback handles the packets in the order they were
\* received, each once, and never an entry that the RF core may be filling.
THEOREM RingIsFifoHolds == Spec => []RingIsFifo
<1>1. Inv => RingIsFifo
  <2> SUFFICES ASSUME Inv PROVE RingIsFifo  OBVIOUS
  <2>a. TypeOK /\ RingInv  BY DEF Inv
  <2> Entries \in Nat \ {0}  BY RxAssumption
  <2>1. /\ air - taken \in 0 .. Entries
        /\ "RxEntryDone" \in raised => air - taken > 0
    BY <2>a DEF RingInv, Waiting
  <2>2. ASSUME NEW k \in 0 .. Entries - 1
        PROVE  LET e == ring[(read + k) % Entries]
               IN  e.finished = (k < air - taken) /\ (e.finished => e.packet = taken + k + 1)
    <3>0. read \in 0 .. Entries - 1  BY <2>a DEF TypeOK
    <3>1. Place(read, k) = (read + k) % Entries /\ Place(read, k) \in 0 .. Entries - 1
      BY <3>0, PlaceFacts
    <3> DEFINE e == ring[Place(read, k)]
    <3>2. (e.finished <=> k < air - taken) /\ (e.finished => e.packet = taken + k + 1)
      BY <2>a DEF RingInv, Waiting
    <3>3. e.finished \in BOOLEAN  BY <2>a, <3>1 DEF TypeOK
    <3>5. (k < air - taken) \in BOOLEAN  OBVIOUS
    <3> HIDE DEF e
    <3>4. e.finished = (k < air - taken)  BY <3>2, <3>3, <3>5, SameBoolean
    <3> QED  BY <3>1, <3>2, <3>4 DEF e
  <2> QED  BY <2>1, <2>2 DEF RingIsFifo
<1> QED  BY <1>1, AlwaysInv, PTL

\* rf_packet_queue_post and the print thread: whatever the depth of the mailbox
\* and the order of the steps, every packet handled is counted as a CRC error,
\* counted as dropped, or its message is in the mailbox, held by the thread or
\* one the thread has finished with, in the order of the numbers.
THEOREM EverySequenceAccountedHolds == Spec => []EverySequenceAccounted
<1>1. Inv => EverySequenceAccounted
  <2> SUFFICES ASSUME Inv PROVE EverySequenceAccounted  OBVIOUS
  <2>a. TypeOK /\ CountInv /\ LineInv  BY DEF Inv
  <2>1. /\ nextSequence = stats.rx + 1
        /\ stats.rx = stats.enq + stats.drop
        /\ stats.rx + stats.crc = taken
    BY <2>a DEF CountInv
  <2>2. ASSUME NEW i \in 1 .. Len(Line)
        PROVE  Line[i].sequence \in 1 .. nextSequence - 1 /\ Line[i].packet \in 1 .. taken
    <3>1. Line[i] \in Messages  BY <2>a, LineType DEF TypeOK
    <3>2. Posted(Line[i])  BY <2>a DEF LineInv, Ordered
    <3>3. nextSequence \in Nat /\ taken \in Nat  BY <2>a DEF TypeOK
    <3> QED  BY <3>1, <3>2, <3>3 DEF Posted, Messages
  <2> QED  BY <2>a, <2>1, <2>2 DEF EverySequenceAccounted, LineInv, Ordered
<1> QED  BY <1>1, AlwaysInv, PTL

\* rf_packet_queue_get_stats: a copy taken field by field while the callback
\* counts never shows more packets received than queued and dropped.
THEOREM StatusNotShortHolds == Spec => []StatusNotShort
<1>1. Inv => StatusNotShort
  <2> SUFFICES ASSUME Inv, status.next > Len(Fields)
               PROVE  status.copy.rx <= status.copy.enq + status.copy.drop
    BY DEF StatusNotShort
  <2> status.next = 4  BY DEF Inv, TypeOK, Fields
  <2> QED  BY DEF Inv, CopyInv
<1> QED  BY <1>1, AlwaysInv, PTL

\* RF_runCmd: with two entries or more (the code has eight), the command ends
\* for want of a buffer only after two packets shared an event.  One entry is not
\* enough: the second packet may come before the callback.
THEOREM ReceivesWhileTimelyHolds ==
    ASSUME Entries > 1
    PROVE  Spec => []ReceivesWhileTimely
<1>1. Inv => ReceivesWhileTimely  BY DEF Inv, TimelyInv, ReceivesWhileTimely
<1> QED  BY <1>1, AlwaysInv, PTL
====
