--------------------------- MODULE MetadataJournal --------------------------
(***************************************************************************)
(* appendMetadataRecord of src/bootloader/bootloader.c, one flash          *)
(* operation per step: the optional page erase, the record body, and the   *)
(* CRC word that makes the record valid.  Every operation may fail (the    *)
(* driver returns non-zero and the function returns -1), and the power may *)
(* fail before, during or after each of them.                              *)
(*                                                                         *)
(* One caller at a time: the bootloader is single threaded, and of the     *)
(* application's calls no two overlap in this module.  A word that was cut *)
(* short reads the same ever after: a cell between 0 and 1 that is read    *)
(* now as the one and now as the other is not modelled.                    *)
(*                                                                         *)
(* committed is a history variable, the last record whose CRC reached the  *)
(* flash; no action reads it.                                              *)
(***************************************************************************)
EXTENDS JournalFlash

CONSTANTS
    NoRecord,       \* committed when the journal has never held a record
    NoValue,        \* the abstract store's "nothing stored"
    EraseCanTear    \* may an interrupted sector erase do only a part?

ASSUME StoreAssumption ==
    /\ NoRecord \notin Records
    /\ NoValue \notin Values
    /\ EraseCanTear \in BOOLEAN

VARIABLES
    flash,      \* the two metadata pages
    pc,         \* the next flash operation of the append, or "idle"
    target,     \* pageAddress and recordIndex of the append
    record,     \* *metadata as the append will write it
    result,     \* what the last append returned
    committed

vars == <<flash, pc, target, record, result, committed>>

Init ==
    /\ \/ flash = Blank /\ committed = NoRecord
       \/ \E v \in Values : /\ flash = Factory(v)
                            /\ committed = [seq |-> 1, val |-> v]
    /\ pc = "idle"
    /\ target = <<Primary, 0>>
    /\ record = NoRecord
    /\ result = "none"

-----------------------------------------------------------------------------
(* What an operation that is cut short leaves behind.                      *)

TornErase(fl, p) ==
    IF EraseCanTear THEN PartlyErased(fl, p)
    ELSE {fl, [fl EXCEPT ![p] = [i \in Slots |-> Erased]]}

\* Some word of the body was programmed, or none.
TornBody(fl, t) == {fl, Written(fl, t[1], t[2], Garbage)}

\* The CRC word is incomplete, or complete and only the answer is missing.
TornCrc(fl, t, r) == {fl, Written(fl, t[1], t[2], r)}

\* The append's local variables go out of scope.
Forget ==
    /\ target' = <<Primary, 0>>
    /\ record' = NoRecord

\* The CRC completed iff the slot now holds the record.
NowCommitted(fl) ==
    committed' = IF fl[target[1]][target[2]] = record THEN record ELSE committed

-----------------------------------------------------------------------------
(* A record 2^31 appends older than the newest would be taken for a newer  *)
(* one.  Only interrupted erases can keep a record that long, and 2^31     *)
(* appends are some 12 million erases of each page: far beyond the flash's *)
(* endurance.  This bound is that assumption.                              *)

WithinWear(fl) ==
    HasRecord(fl) =>
        LET newest == findNewestMetadataRecord(fl).seq
        IN  \A p \in Pages, i \in Slots :
                isValidRecord(fl[p][i]) => Behind(newest, fl[p][i].seq) < SeqHalf - 1

\* appendMetadataRecord up to its first flash operation: number the record
\* and find its slot.
BeginAppend(v) ==
    /\ pc = "idle"
    /\ WithinWear(flash)
    /\ record' = NextRecord(flash, v)
    /\ IF NoFreeSlot(flash)
       THEN /\ pc' = "erase"
            /\ target' = <<RotationPage(flash), 0>>
       ELSE /\ pc' = "body"
            /\ target' = <<AppendPage(flash),
                           findFirstErasedRecord(flash, AppendPage(flash))>>
    /\ result' = "none"
    /\ UNCHANGED <<flash, committed>>

EraseSector ==
    /\ pc = "erase"
    /\ flash' = [flash EXCEPT ![target[1]] = [i \in Slots |-> Erased]]
    /\ pc' = "body"
    /\ UNCHANGED <<target, record, result, committed>>

\* Mutant: the whole record is programmed at once, its CRC included.
ProgramBody_WithCrc ==
    /\ pc = "body"
    /\ flash' = Written(flash, target[1], target[2], record)
    /\ pc' = "crc"
    /\ UNCHANGED <<target, record, result, committed>>

\* The body is programmed with the CRC word left erased: not yet valid.
ProgramBody ==
    /\ pc = "body"
    /\ flash' = Written(flash, target[1], target[2], Garbage)
    /\ pc' = "crc"
    /\ UNCHANGED <<target, record, result, committed>>

ProgramCrc ==
    /\ pc = "crc"
    /\ flash' = Written(flash, target[1], target[2], record)
    /\ NowCommitted(flash')
    /\ pc' = "idle"
    /\ result' = "ok"
    /\ Forget

\* What the current flash operation may leave when it does not complete.
Torn ==
    CASE pc = "idle"  -> {flash}
      [] pc = "erase" -> TornErase(flash, target[1])
      [] pc = "body"  -> TornBody(flash, target)
      [] pc = "crc"   -> TornCrc(flash, target, record)

\* The driver reports an error: return -1.
OperationFails ==
    /\ pc # "idle"
    /\ flash' \in Torn
    /\ IF pc = "crc" THEN NowCommitted(flash') ELSE UNCHANGED committed
    /\ pc' = "idle"
    /\ result' = "error"
    /\ Forget

\* Everything but the flash is lost.
PowerLoss ==
    /\ flash' \in Torn
    /\ IF pc = "crc" THEN NowCommitted(flash') ELSE UNCHANGED committed
    /\ pc' = "idle"
    /\ result' = "none"
    /\ Forget

Next ==
    \/ \E v \in Values : BeginAppend(v)
    \/ EraseSector
    \/ ProgramBody
    \/ ProgramCrc
    \/ OperationFails
    \/ PowerLoss

Spec == Init /\ [][Next]_vars

-----------------------------------------------------------------------------
(* Properties *)

TypeOK ==
    /\ flash \in Flashes
    /\ pc \in {"idle", "erase", "body", "crc"}
    /\ target \in Pages \X Slots
    /\ record \in Records \cup {NoRecord}
    /\ result \in {"none", "ok", "error"}
    /\ committed \in Records \cup {NoRecord}

(***************************************************************************)
(* readBootMetadata returns the last record whose CRC was programmed: at   *)
(* every instant of an append, a rotation, a failed operation or a power   *)
(* loss, and across the wraparound of the sequence number.                 *)
(***************************************************************************)
ReadsLastCommitted ==
    /\ HasRecord(flash) <=> committed # NoRecord
    /\ HasRecord(flash) => findNewestMetadataRecord(flash) = committed

(***************************************************************************)
(* With one caller at a time, and flash that yields at every read what it  *)
(* yielded at the first one, no two valid records carry the same sequence  *)
(* number, however many appends fail, are cut short and are retried.  The  *)
(* comment of findNewestRecordInPage says otherwise ("Equal sequence can   *)
(* only arise after an interrupted/retried append"); here the tie rules of *)
(* the two readers are never needed.  Two calls that overlap without a     *)
(* lock do repeat a number: see AppBoot.                                   *)
(***************************************************************************)
NoEqualSequence ==
    \A p, q \in Pages, i, j \in Slots :
        (/\ isValidRecord(flash[p][i]) /\ isValidRecord(flash[q][j])
         /\ flash[p][i].seq = flash[q][j].seq) => <<p, i>> = <<q, j>>

(***************************************************************************)
(* FlashProgram only ever clears bits: the body goes to an erased slot and *)
(* the CRC to a slot that holds this append's body, never to a slot that   *)
(* an earlier append or a torn erase left something in.                    *)
(***************************************************************************)
ProgramsErasedCells ==
    /\ pc = "body" => flash[target[1]][target[2]] = Erased
    /\ pc = "crc"  => flash[target[1]][target[2]] = Garbage

(***************************************************************************)
(* The loop of findNewestRecordInPage returns what the reader's definition *)
(* says, on every page content an append or a power loss can produce.      *)
(***************************************************************************)
LoopFindsNewest ==
    \A p \in Pages :
        ScanLoop(flash, p) = IF Visible(flash, p) = {} THEN N
                             ELSE findNewestRecordInPage(flash, p)

(***************************************************************************)
(* The journal implements the atomic register of MetadataStore.            *)
(***************************************************************************)
readBootMetadata ==
    IF HasRecord(flash) THEN findNewestMetadataRecord(flash).val ELSE NoValue

Store == INSTANCE MetadataStore WITH
            value   <- readBootMetadata,
            pending <- IF pc = "idle" THEN NoValue ELSE record.val,
            result  <- result

AtomicStore == Store!Spec
=============================================================================
