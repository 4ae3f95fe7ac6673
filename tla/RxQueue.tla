------------------------------- MODULE RxQueue -------------------------------
(***************************************************************************)
(* The receive path of the RX role: the ring of data entries that the RF   *)
(* core fills (RFQueue.c), the RF callback that empties it (firmware.c),   *)
(* the mailbox and the counters (rf_packet_queue.c), the priority 1 print  *)
(* thread, and the CLI's "rx status" and "rx dump" (cli_radio.c).          *)
(*                                                                         *)
(*   - A packet is its number on the air and whether its CRC is right.     *)
(*   - The RF driver keeps the events for the callback in a mask: a second *)
(*     RxEntryDone before the callback runs is not told from the first.    *)
(*   - The callback is a Swi: no thread runs between its first and last    *)
(*     line.  The struct copy of the counters is done field by field and   *)
(*     may be interrupted.                                                 *)
(*   - When CMD_PROP_RX ends, the radio thread spins at priority 2 and no  *)
(*     thread of priority 1 runs again.                                    *)
(*                                                                         *)
(* taken, late, merged, done and printed are history.                      *)
(***************************************************************************)
EXTENDS Naturals, Sequences

CONSTANTS
    Entries,        \* NUM_DATA_ENTRIES
    Depth,          \* RF_PACKET_QUEUE_DEPTH
    MaxPackets,     \* bound on the packets on the air
    MaxCollisions,  \* bound on the collisions counted
    Burst           \* packets the RF core may finish before the callback runs

ASSUME RxAssumption ==
    /\ Entries \in Nat \ {0} /\ Depth \in Nat
    /\ MaxPackets \in Nat /\ MaxCollisions \in Nat /\ Burst \in Nat

VARIABLES
    ring,           \* rxDataEntryBuffer
    write,          \* the RF core's pCurrEntry
    read,           \* readEntry
    air,            \* packets received so far
    taken,          \* entries the callback has handled
    raised,         \* event mask of the next callback
    late,           \* packets finished since the last callback
    merged,         \* two packets have shared one RxEntryDone
    receiving,      \* CMD_PROP_RX runs
    nextSequence,
    mailbox,
    stats,          \* packetStats
    dump,           \* packetDumpEnabled
    printer,        \* the message the print thread holds
    done,           \* the messages it has finished with, printed or not
    printed,        \* the message it printed last
    status          \* rx status: fields still to copy, and the copy

radio == <<ring, write, air, receiving>>
app   == <<read, taken, nextSequence, mailbox, stats>>
cli   == <<dump, printer, done, printed, status>>
vars  == <<radio, app, cli, raised, late, merged>>

None == [sequence |-> 0, packet |-> 0]

Fields == <<"rx", "enq", "drop">>

ZeroStats == [f \in {"rx", "enq", "drop", "full", "crc", "coll"} |-> 0]

\* RFQueue_defineQueue and rf_packet_queue_init.
Init ==
    /\ ring = [i \in 0 .. Entries - 1 |-> [packet |-> 0, ok |-> FALSE, finished |-> FALSE]]
    /\ write = 0 /\ read = 0 /\ air = 0 /\ taken = 0
    /\ raised = {} /\ late = 0 /\ merged = FALSE /\ receiving = TRUE
    /\ nextSequence = 1 /\ mailbox = <<>> /\ stats = ZeroStats
    /\ dump = FALSE /\ printer = None /\ done = <<>> /\ printed = None
    /\ status = [next |-> 4, copy |-> ZeroStats]

Following(i) == (i + 1) % Entries

-----------------------------------------------------------------------------
(* The RF core.                                                            *)

Receive(ok) ==
    /\ receiving /\ air < MaxPackets /\ late < Burst
    /\ ~ring[write].finished
    /\ ring' = [ring EXCEPT ![write] = [packet |-> air + 1, ok |-> ok, finished |-> TRUE]]
    /\ write' = Following(write)
    /\ air' = air + 1
    /\ late' = late + 1
    /\ merged' = (merged \/ "RxEntryDone" \in raised)
    /\ raised' = raised \cup {"RxEntryDone"}
    /\ UNCHANGED <<receiving, app, cli>>

\* A packet finds no free entry: PROP_ERROR_RXBUF ends the command.
ReceiveWithoutBuffer ==
    /\ receiving /\ air < MaxPackets /\ late < Burst
    /\ ring[write].finished
    /\ receiving' = FALSE
    /\ raised' = raised \cup {"RxBufFull"}
    /\ UNCHANGED <<ring, write, air, late, merged, app, cli>>

DetectCollision ==
    /\ receiving /\ stats.coll < MaxCollisions
    /\ raised' = raised \cup {"RxCollisionDetected"}
    /\ UNCHANGED <<radio, late, merged, app, cli>>

-----------------------------------------------------------------------------
(* The callback.                                                           *)

Noted(s, fs) == [f \in DOMAIN s |-> IF f \in fs THEN s[f] + 1 ELSE s[f]]

EventCounters ==
    (IF "RxBufFull" \in raised THEN {"full"} ELSE {})
        \cup (IF "RxCollisionDetected" \in raised THEN {"coll"} ELSE {})

\* Mutant: the sequence number is taken only when the message fits.
post_packet_LateSequence(p) ==
    LET fits == Len(mailbox) < Depth
    IN  /\ nextSequence' = IF fits THEN nextSequence + 1 ELSE nextSequence
        /\ mailbox' = IF fits THEN Append(mailbox, [sequence |-> nextSequence, packet |-> p])
                      ELSE mailbox
        /\ stats' = Noted(stats, EventCounters \cup {"rx", IF fits THEN "enq" ELSE "drop"})

post_packet(p) ==
    LET fits == Len(mailbox) < Depth
    IN  /\ nextSequence' = nextSequence + 1
        /\ mailbox' = IF fits THEN Append(mailbox, [sequence |-> nextSequence, packet |-> p])
                      ELSE mailbox
        /\ stats' = Noted(stats, EventCounters \cup {"rx", IF fits THEN "enq" ELSE "drop"})

note_crc_error ==
    /\ stats' = Noted(stats, EventCounters \cup {"crc"})
    /\ UNCHANGED <<nextSequence, mailbox>>

\* Mutant: the entry is given back to the RF core, the read pointer stays.
RFQueue_nextEntry_Stuck ==
    /\ ring' = [ring EXCEPT ![read].finished = FALSE]
    /\ read' = read
    /\ taken' = taken + 1

\* Mutant: the entry is not given back.
RFQueue_nextEntry_Keep ==
    /\ read' = Following(read)
    /\ taken' = taken + 1
    /\ UNCHANGED ring

RFQueue_nextEntry ==
    /\ ring' = [ring EXCEPT ![read].finished = FALSE]
    /\ read' = Following(read)
    /\ taken' = taken + 1

\* Mutant: "else if": a collision hides the entry.
callback_ElseIf ==
    /\ raised # {}
    /\ raised' = {}
    /\ late' = 0
    /\ \/ /\ raised = {"RxEntryDone"}
          /\ IF ring[read].ok THEN post_packet(ring[read].packet) ELSE note_crc_error
          /\ RFQueue_nextEntry
       \/ /\ raised # {"RxEntryDone"}
          /\ stats' = Noted(stats, EventCounters)
          /\ UNCHANGED <<ring, read, taken, nextSequence, mailbox>>
    /\ UNCHANGED <<write, air, receiving, merged, cli>>

callback ==
    /\ raised # {}
    /\ raised' = {}
    /\ late' = 0
    /\ \/ /\ "RxEntryDone" \in raised
          /\ IF ring[read].ok THEN post_packet(ring[read].packet) ELSE note_crc_error
          /\ RFQueue_nextEntry
       \/ /\ "RxEntryDone" \notin raised
          /\ stats' = Noted(stats, EventCounters)
          /\ UNCHANGED <<ring, read, taken, nextSequence, mailbox>>
    /\ UNCHANGED <<write, air, receiving, merged, cli>>

-----------------------------------------------------------------------------
(* Threads of priority 1.                                                  *)

ThreadUnchanged == UNCHANGED <<radio, raised, late, merged, read, taken, nextSequence, stats>>

\* Mutant: messages are taken only while they are to be printed.
PendMailbox_DumpOnly ==
    /\ receiving /\ printer = None /\ mailbox # <<>> /\ dump
    /\ printer' = Head(mailbox)
    /\ mailbox' = Tail(mailbox)
    /\ UNCHANGED <<dump, done, printed, status>>
    /\ ThreadUnchanged

\* rf_packet_print_thread: Mailbox_pend returns a message.
PendMailbox ==
    /\ receiving /\ printer = None /\ mailbox # <<>>
    /\ printer' = Head(mailbox)
    /\ mailbox' = Tail(mailbox)
    /\ UNCHANGED <<dump, done, printed, status>>
    /\ ThreadUnchanged

\* rf_packet_dump_get, and print_packet if it says so.
PrintPacket ==
    /\ receiving /\ printer # None
    /\ printer' = None
    /\ done' = Append(done, printer)
    /\ printed' = IF dump THEN printer ELSE printed
    /\ UNCHANGED <<mailbox, dump, status>>
    /\ ThreadUnchanged

\* "rx dump on|off"
rf_packet_dump_set(on) ==
    /\ receiving /\ status.next > Len(Fields)
    /\ dump' = on
    /\ UNCHANGED <<mailbox, printer, done, printed, status>>
    /\ ThreadUnchanged

\* "rx status"
radio_status ==
    /\ receiving /\ status.next > Len(Fields)
    /\ status' = [next |-> 1, copy |-> ZeroStats]
    /\ UNCHANGED <<mailbox, dump, printer, done, printed>>
    /\ ThreadUnchanged

\* Mutant: the fields are copied in the opposite order.
CopyField_Backwards ==
    /\ receiving /\ status.next <= Len(Fields)
    /\ LET f == Fields[4 - status.next]
       IN  status' = [next |-> status.next + 1, copy |-> [status.copy EXCEPT ![f] = stats[f]]]
    /\ UNCHANGED <<mailbox, dump, printer, done, printed>>
    /\ ThreadUnchanged

\* rf_packet_queue_get_stats, one field.
CopyField ==
    /\ receiving /\ status.next <= Len(Fields)
    /\ LET f == Fields[status.next]
       IN  status' = [next |-> status.next + 1, copy |-> [status.copy EXCEPT ![f] = stats[f]]]
    /\ UNCHANGED <<mailbox, dump, printer, done, printed>>
    /\ ThreadUnchanged

Printer == PendMailbox \/ PrintPacket

Next ==
    \/ \E ok \in BOOLEAN : Receive(ok)
    \/ ReceiveWithoutBuffer
    \/ DetectCollision
    \/ callback
    \/ Printer
    \/ \E on \in BOOLEAN : rf_packet_dump_set(on)
    \/ radio_status
    \/ CopyField

Spec == Init /\ [][Next]_vars

\* A Swi that is posted runs; the print thread is scheduled while the radio
\* thread is blocked in RF_runCmd.
FairSpec == Spec /\ WF_vars(callback) /\ WF_vars(Printer)

-----------------------------------------------------------------------------
(* Properties.                                                             *)

\* The finished entries, from readEntry on, are exactly the packets that were
\* received and not handled, in the order they came: the callback, which never
\* looks at an entry's status, neither skips a packet nor handles one twice nor
\* reads an entry the RF core is filling, though events are lost in the mask.
RingIsFifo ==
    /\ air - taken \in 0 .. Entries
    /\ "RxEntryDone" \in raised => air - taken > 0
    /\ \A k \in 0 .. Entries - 1 :
          LET e == ring[(read + k) % Entries]
          IN  e.finished = (k < air - taken) /\ (e.finished => e.packet = taken + k + 1)

\* b was posted after a, and not fewer packets than numbers lie between them.
After(a, b) ==
    /\ a.sequence < b.sequence
    /\ a.packet < b.packet
    /\ b.packet - a.packet >= b.sequence - a.sequence

\* The messages posted so far: the print thread has finished with some, holds
\* one perhaps, and the rest is in the mailbox.
Held == IF printer = None THEN <<>> ELSE <<printer>>
Line == done \o Held \o mailbox

\* Every number up to nextSequence was given to one packet received without an
\* error, and the packet was either posted or counted as dropped.  No message
\* is lost between the callback and the end of the print thread's loop, none
\* comes twice, and they come in order; only those are printed.  With the dump
\* off the thread takes messages and prints none.
EverySequenceAccounted ==
    /\ nextSequence = stats.rx + 1
    /\ stats.rx = stats.enq + stats.drop
    /\ stats.rx + stats.crc = taken
    /\ stats.enq = Len(Line)
    /\ \A i \in 1 .. Len(Line) : Line[i].sequence \in 1 .. nextSequence - 1
                                 /\ Line[i].packet \in 1 .. taken
    /\ \A i, j \in 1 .. Len(Line) : i < j => After(Line[i], Line[j])
    /\ printed = None \/ \E i \in 1 .. Len(done) : printed = done[i]

\* rx status, read while the callback counts, never shows more packets received
\* than queued and dropped.
StatusNotShort ==
    status.next > Len(Fields) => status.copy.rx <= status.copy.enq + status.copy.drop

\* The radio stays in receive mode.
StaysInRx == receiving

\* The radio stays in receive mode for as long as no two packets have shared an
\* RxEntryDone: the ring of Entries is then never full, however far the print
\* thread is behind.
ReceivesWhileTimely == ~merged => receiving

\* Every packet is handled, the last one too, if no two shared an event.
TimelyPacketsHandled ==
    []~merged => \A p \in 1 .. MaxPackets : air >= p ~> taken >= p

\* While the radio receives, every message in the mailbox reaches the print
\* thread, whether or not packets are being printed.
MailboxDrains == []receiving => (mailbox # <<>> ~> mailbox = <<>>)
=============================================================================
