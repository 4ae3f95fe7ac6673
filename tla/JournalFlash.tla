---------------------------- MODULE JournalFlash ----------------------------
(***************************************************************************)
(* The two metadata flash pages of the bootloader as a value, and what the *)
(* journal functions of src/bootloader/bootloader.c compute from it.       *)
(*                                                                         *)
(* A slot (one 48-byte BootMetadata) is Erased (all ones), Garbage (any    *)
(* other content that isValidMetadataRecord rejects) or a valid record.    *)
(* A record keeps the two things the journal tells apart: its sequence     *)
(* number and its payload, every other field of the struct.  A CRC32       *)
(* collision (Garbage that passes the CRC) is left out.                    *)
(*                                                                         *)
(* Sequence numbers are uint32_t in the code: SeqHalf stands for 2^31.     *)
(***************************************************************************)
EXTENDS Naturals

CONSTANTS
    N,          \* records per page: FLASH_PAGE_SIZE / sizeof(BootMetadata)
    SeqHalf,    \* half of the sequence number space (0x80000000u)
    Values,     \* payloads of a metadata record
    Erased,     \* a slot whose twelve words are all ~0u
    Garbage     \* a slot that is neither erased nor a valid record

Primary   == 0
Secondary == 1
Pages     == {Primary, Secondary}
Slots     == 0 .. N - 1
SeqMod    == 2 * SeqHalf
Seqs      == 0 .. SeqMod - 1
Records   == [seq : Seqs, val : Values]
Contents  == Records \cup {Erased, Garbage}
Flashes   == [Pages -> [Slots -> Contents]]

ASSUME JournalAssumption ==
    /\ N \in Nat \ {0}
    /\ SeqHalf \in Nat /\ SeqHalf > 1
    /\ Erased # Garbage
    /\ Erased \notin Records
    /\ Garbage \notin Records

Blank == [p \in Pages |-> [i \in Slots |-> Erased]]

(***************************************************************************)
(* The journal that factory programming leaves: one record, sequence       *)
(* number 1, at the start of the primary page.                             *)
(***************************************************************************)
Factory(v) == [Blank EXCEPT ![Primary][0] = [seq |-> 1, val |-> v]]

Written(fl, p, i, c) == [fl EXCEPT ![p][i] = c]

\* What an erase of page p that does not complete can leave: every slot was
\* cleared, damaged, or not reached yet.
PartlyErased(fl, p) ==
    {[fl EXCEPT ![p] = [i \in Slots |-> IF fate[i] = "kept" THEN fl[p][i] ELSE fate[i]]] :
        fate \in [Slots -> {"kept", Erased, Garbage}]}

-----------------------------------------------------------------------------
(* Sequence number arithmetic on a uint32_t.                               *)

\* Mutant: no wraparound at 32 bits.
NextSeq_Unbounded(s) == s + 1

NextSeq(s) == IF s = SeqMod - 1 THEN 0 ELSE s + 1

\* (uint32_t)(a - b): how many appends b lies behind a.
Behind(a, b) == IF a >= b THEN a - b ELSE (a + SeqMod) - b

isSequenceNewer(candidate, reference) ==
    candidate # reference /\ Behind(candidate, reference) < SeqHalf

-----------------------------------------------------------------------------
(* The reader.  It scans a page up to the first erased slot and keeps the  *)
(* newest valid record, the later one of two with the same number.         *)

isValidRecord(c) == c \notin {Erased, Garbage}

\* The slots the scan of page p gets to before an erased one stops it.
Scanned(fl, p) == {i \in Slots : \A j \in 0 .. i : fl[p][j] # Erased}

Visible(fl, p) == {i \in Scanned(fl, p) : isValidRecord(fl[p][i])}

Beats(fl, p, i, j) ==
    \/ isSequenceNewer(fl[p][i].seq, fl[p][j].seq)
    \/ fl[p][i].seq = fl[p][j].seq /\ j <= i

findNewestRecordInPage(fl, p) ==
    LET visible == Visible(fl, p)
    IN  CHOOSE i \in visible : \A j \in visible : Beats(fl, p, i, j)

\* Mutant: the scan goes on behind an erased slot.
ScanLoop_NoBreak(fl, p) ==
    LET newest[k \in 0 .. N] ==
          IF k = 0 THEN N
          ELSE IF /\ isValidRecord(fl[p][k - 1])
                  /\ newest[k - 1] = N \/ Beats(fl, p, k - 1, newest[k - 1])
               THEN k - 1 ELSE newest[k - 1]
    IN  newest[N]

\* The same scan as the loop runs it: newest[k] is newestRecord before the
\* record with index k is looked at, N standing for NULL.
ScanLoop(fl, p) ==
    LET newest[k \in 0 .. N] ==
          IF k = 0 THEN N
          ELSE IF /\ k - 1 \in Visible(fl, p)
                  /\ newest[k - 1] = N \/ Beats(fl, p, k - 1, newest[k - 1])
               THEN k - 1 ELSE newest[k - 1]
    IN  newest[N]

HasRecord(fl) == \E p \in Pages : Visible(fl, p) # {}

PageNewest(fl, p) == fl[p][findNewestRecordInPage(fl, p)]

\* The page that holds the newest record of a journal that has one.
NewestPage(fl) ==
    IF Visible(fl, Primary) = {} THEN Secondary
    ELSE IF Visible(fl, Secondary) = {} THEN Primary
    ELSE IF isSequenceNewer(PageNewest(fl, Secondary).seq,
                            PageNewest(fl, Primary).seq)
         THEN Secondary ELSE Primary

findNewestMetadataRecord(fl) == PageNewest(fl, NewestPage(fl))

-----------------------------------------------------------------------------
(* The writer's choice of a slot.                                          *)

\* Mutant: every slot without a valid record counts as free.
ErasedSlots_Invalid(fl, p) == {i \in Slots : ~isValidRecord(fl[p][i])}

ErasedSlots(fl, p) == {i \in Slots : fl[p][i] = Erased}

findFirstErasedRecord(fl, p) ==
    LET erased == ErasedSlots(fl, p)
    IN  CHOOSE i \in erased : \A j \in erased : i <= j

NoFreeSlot(fl) == \A p \in Pages : ErasedSlots(fl, p) = {}

\* The primary page is tried first.
AppendPage(fl) == IF ErasedSlots(fl, Primary) # {} THEN Primary ELSE Secondary

\* Mutant: rotate onto the page that holds the newest record.
RotationPage_Newest(fl) ==
    IF HasRecord(fl) /\ NewestPage(fl) = Secondary THEN Secondary ELSE Primary

\* Mutant: always rotate onto the secondary page.
RotationPage_Fixed(fl) == Secondary

\* When both pages are full: the page that does not hold the newest record.
RotationPage(fl) ==
    IF HasRecord(fl) /\ NewestPage(fl) = Secondary THEN Primary ELSE Secondary

\* Mutant: the number of the newest record is used again.
NextRecord_SameNumber(fl, v) ==
    [seq |-> IF HasRecord(fl) THEN findNewestMetadataRecord(fl).seq ELSE 1,
     val |-> v]

NextRecord(fl, v) ==
    [seq |-> IF HasRecord(fl) THEN NextSeq(findNewestMetadataRecord(fl).seq)
                              ELSE 1,
     val |-> v]
=============================================================================
