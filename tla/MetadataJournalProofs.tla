------------------------ MODULE MetadataJournalProofs -----------------------
(***************************************************************************)
(* Proofs about MetadataJournal, for any page size, any sequence number    *)
(* width and any set of payloads.                                          *)
(***************************************************************************)
EXTENDS MCMetadataJournal, JournalFlashProofs

-----------------------------------------------------------------------------
(* The inductive invariant *)

CommittedIsNewest ==
    /\ committed = NoRecord => NoValidRecord(flash)
    /\ committed # NoRecord =>
          \E p \in Pages, i \in Slots : Home(flash, committed, p, i)

\* The record to be written is the successor of the committed one, and close
\* enough to every other for the comparison to be right.
RecordIsNext ==
    pc # "idle" =>
        /\ record \in Records
        /\ committed = NoRecord => record.seq = 1
        /\ committed # NoRecord =>
              \A p \in Pages, i \in Slots :
                  isValidRecord(flash[p][i]) =>
                      isSequenceNewer(record.seq, flash[p][i].seq)

TargetIsFree ==
    /\ pc = "erase" =>
          /\ target[2] = 0
          /\ committed # NoRecord =>
                \A p \in Pages, i \in Slots :
                    Home(flash, committed, p, i) => p # target[1]
    /\ pc \in {"body", "crc"} =>
          \A j \in 0 .. target[2] - 1 : flash[target[1]][j] # Erased
    /\ pc = "body" => flash[target[1]][target[2]] = Erased
    /\ pc = "crc" => flash[target[1]][target[2]] = Garbage

Inv ==
    /\ TypeOK
    /\ CommittedIsNewest
    /\ Distinct(flash)
    /\ RecordIsNext
    /\ TargetIsFree

-----------------------------------------------------------------------------
(* The invariant is inductive *)

(* The blank journal and the factory journal satisfy the invariant.        *)
LEMMA InitInv == Init => Inv
<1> SUFFICES ASSUME Init PROVE Inv
  OBVIOUS
<1> USE JournalAssumption, StoreAssumption
<1>1. 0 \in Slots /\ Primary \in Pages /\ 1 \in Seqs
  BY DEF Slots, Pages, Seqs, SeqMod
<1>2. Blank \in Flashes /\ \A p \in Pages, i \in Slots : Blank[p][i] = Erased
  BY DEF Blank, Flashes, Contents
<1>3. CASE flash = Blank /\ committed = NoRecord
  <2>1. TypeOK
    BY <1>1, <1>2, <1>3 DEF Init, TypeOK
  <2>2. NoValidRecord(flash)
    BY <1>2, <1>3 DEF NoValidRecord, isValidRecord
  <2>3. CommittedIsNewest /\ Distinct(flash)
    BY <2>2, <1>3 DEF CommittedIsNewest, Distinct, NoValidRecord
  <2> QED BY <2>1, <2>3 DEF Inv, Init, RecordIsNext, TargetIsFree
<1>4. ASSUME NEW v \in Values, flash = Factory(v),
             committed = [seq |-> 1, val |-> v]
      PROVE  Inv
  <2>1. committed \in Records
    BY <1>1, <1>4 DEF Records
  <2>2. flash = Written(Blank, Primary, 0, committed)
    BY <1>4 DEF Factory, Written
  <2>3. TypeOK
    BY <1>1, <1>2, <2>1, <2>2, WrittenSlot DEF Init, TypeOK, Contents
  <2>4. NoValidRecord(Blank)
    BY <1>2 DEF NoValidRecord, isValidRecord
  <2>5. Home(flash, committed, Primary, 0) /\ Distinct(flash)
    <3>1. \A j \in 0 .. 0 - 1 : Blank[Primary][j] # Erased
      OBVIOUS
    <3>2. Distinct(Blank)
      BY <2>4 DEF Distinct, NoValidRecord
    <3> QED BY <1>1, <1>2, <2>1, <2>2, <2>4, <3>1, <3>2, NewHome DEF NoValidRecord
  <2>6. CommittedIsNewest
    BY <1>1, <2>1, <2>5 DEF CommittedIsNewest
  <2> QED BY <2>3, <2>5, <2>6 DEF Inv, Init, RecordIsNext, TargetIsFree
<1> QED BY <1>3, <1>4 DEF Init

(* Numbering the record and choosing its slot.                             *)
LEMMA BeginAppendInv ==
    ASSUME Inv, NEW v \in Values, BeginAppend(v)
    PROVE  Inv'
<1> USE JournalAssumption, StoreAssumption
<1>1. flash \in Flashes /\ flash' = flash /\ committed' = committed
  BY DEF Inv, TypeOK, BeginAppend
<1>2. CommittedIsNewest' /\ Distinct(flash)'
  BY <1>1 DEF Inv, CommittedIsNewest
<1>3. /\ record' = NextRecord(flash, v)
      /\ pc' \in {"erase", "body"}
      /\ result' = "none"
      /\ WithinWear(flash)
  BY DEF BeginAppend
<1>4. /\ record' \in Records
      /\ committed = NoRecord => record'.seq = 1
      /\ committed # NoRecord =>
            \A p \in Pages, i \in Slots :
                isValidRecord(flash[p][i]) =>
                    isSequenceNewer(record'.seq, flash[p][i].seq)
  <2>1. CASE committed = NoRecord
    <3>1. ~HasRecord(flash)
      BY <2>1, ReaderFindsNothing DEF Inv, CommittedIsNewest
    <3>2. record' = [seq |-> 1, val |-> v]
      BY <1>3, <3>1 DEF NextRecord
    <3> QED BY <2>1, <3>2 DEF Records, Seqs, SeqMod
  <2>2. CASE committed # NoRecord
    <3>1. HasRecord(flash) /\ findNewestMetadataRecord(flash) = committed
      BY <1>1, <2>2, ReaderFindsHome DEF Inv, CommittedIsNewest
    <3>2. committed \in Records /\ committed.seq \in Seqs
      BY <2>2, RecordFacts DEF Inv, TypeOK
    <3>3. record' = [seq |-> NextSeq(committed.seq), val |-> v]
      BY <1>3, <3>1 DEF NextRecord
    <3>4. \A p \in Pages, i \in Slots :
             isValidRecord(flash[p][i]) =>
                 /\ flash[p][i].seq \in Seqs
                 /\ Behind(committed.seq, flash[p][i].seq) < SeqHalf - 1
      BY <1>1, <1>3, <3>1, RecordFacts DEF WithinWear, Flashes
    <3>5. NextSeq(committed.seq) \in Seqs
      BY <3>2 DEF NextSeq, Seqs, SeqMod
    <3>6. \A p \in Pages, i \in Slots :
             isValidRecord(flash[p][i]) =>
                 isSequenceNewer(NextSeq(committed.seq), flash[p][i].seq)
      BY <3>2, <3>4, NextSeqAhead DEF isSequenceNewer
    <3> QED BY <2>2, <3>3, <3>5, <3>6 DEF Records
  <2> QED BY <2>1, <2>2
<1>5. RecordIsNext'
  BY <1>1, <1>4 DEF RecordIsNext
<1>6. CASE NoFreeSlot(flash)
  <2>1. pc' = "erase" /\ target' = <<RotationPage(flash), 0>>
    BY <1>6 DEF BeginAppend
  <2>2. target' \in Pages \X Slots
    BY <2>1 DEF RotationPage, Pages, Slots
  <2>3. committed # NoRecord =>
          \A p \in Pages, i \in Slots :
              Home(flash, committed, p, i) => p # target'[1]
    <3> SUFFICES ASSUME NEW p \in Pages, NEW i \in Slots,
                        Home(flash, committed, p, i)
                 PROVE  p # RotationPage(flash)
      BY <2>1
    <3>1. HasRecord(flash) /\ NewestPage(flash) = p
      BY <1>1, ReaderFindsHome DEF Inv
    <3> QED BY <3>1 DEF RotationPage, Pages, Primary, Secondary
  <2>4. TargetIsFree'
    BY <1>1, <2>1, <2>3 DEF TargetIsFree
  <2>5. TypeOK'
    BY <1>1, <1>3, <1>4, <2>2 DEF Inv, TypeOK
  <2> QED BY <1>2, <1>5, <2>4, <2>5 DEF Inv
<1>7. CASE ~NoFreeSlot(flash)
  <2> DEFINE p == AppendPage(flash)
             i == findFirstErasedRecord(flash, p)
  <2>1. pc' = "body" /\ target' = <<p, i>>
    BY <1>7 DEF BeginAppend
  <2>2. p \in Pages /\ i \in Slots /\ flash[p][i] = Erased
        /\ \A j \in 0 .. i - 1 : flash[p][j] # Erased
    BY <1>7, FirstErased
  <2> HIDE DEF p, i
  <2>8. TargetIsFree'
    BY <1>1, <2>1, <2>2 DEF TargetIsFree
  <2>9. TypeOK'
    BY <1>1, <1>3, <1>4, <2>1, <2>2 DEF Inv, TypeOK
  <2> QED BY <1>2, <1>5, <2>8, <2>9 DEF Inv
<1> QED BY <1>6, <1>7

(* A step that only loses records, none of them in the home page.          *)
LEMMA LossyStep ==
    ASSUME Inv, Loses(flash, flash'), committed' = committed,
           committed # NoRecord =>
               \A p \in Pages, i \in Slots :
                   Home(flash, committed, p, i) => Keeps(flash, flash', p)
    PROVE  CommittedIsNewest' /\ Distinct(flash')
<1>1. flash \in Flashes
  BY DEF Inv, TypeOK
<1>2. Distinct(flash')
  BY <1>1, LosesPreserves DEF Inv
<1>3. committed = NoRecord => NoValidRecord(flash')
  BY <1>1, LosesPreserves DEF Inv, CommittedIsNewest
<1>4. committed # NoRecord =>
        \E p \in Pages, i \in Slots : Home(flash', committed, p, i)
  BY <1>1, LosesPreserves DEF Inv, CommittedIsNewest
<1> QED BY <1>2, <1>3, <1>4 DEF CommittedIsNewest

(* What is left of the erased page, whether the erase completed or not.    *)
LEMMA EraseLoses ==
    ASSUME Inv, pc = "erase",
           \/ flash' \in TornErase(flash, target[1])
           \/ flash' = [flash EXCEPT ![target[1]] = [i \in Slots |-> Erased]]
    PROVE  /\ Loses(flash, flash')
           /\ committed # NoRecord =>
                 \A p \in Pages, i \in Slots :
                     Home(flash, committed, p, i) => Keeps(flash, flash', p)
<1>1. flash \in Flashes /\ target[1] \in Pages
  BY DEF Inv, TypeOK
<1>2. PICK pg \in [Slots -> Contents] :
        /\ flash' = [flash EXCEPT ![target[1]] = pg]
        /\ \A i \in Slots : pg[i] \in {flash[target[1]][i], Erased, Garbage}
  <2> DEFINE clean == [i \in Slots |-> Erased]
  <2>1. /\ clean \in [Slots -> Contents]
        /\ \A i \in Slots : clean[i] \in {flash[target[1]][i], Erased, Garbage}
    BY DEF Contents
  <2>2. CASE flash' = [flash EXCEPT ![target[1]] = clean]
    BY <2>1, <2>2
  <2>3. CASE flash' = flash
    <3>1. flash' = [flash EXCEPT ![target[1]] = flash[target[1]]]
      BY <1>1, <2>3 DEF Flashes
    <3> QED BY <1>1, <3>1 DEF Flashes
  <2>4. ASSUME NEW fate \in [Slots -> {"kept", Erased, Garbage}],
               flash' = [flash EXCEPT ![target[1]] = [i \in Slots |->
                            IF fate[i] = "kept" THEN flash[target[1]][i] ELSE fate[i]]]
        PROVE  \E pg \in [Slots -> Contents] :
                 /\ flash' = [flash EXCEPT ![target[1]] = pg]
                 /\ \A i \in Slots : pg[i] \in {flash[target[1]][i], Erased, Garbage}
    <3> DEFINE pg == [i \in Slots |->
                         IF fate[i] = "kept" THEN flash[target[1]][i] ELSE fate[i]]
    <3>1. /\ pg \in [Slots -> Contents]
          /\ \A i \in Slots : pg[i] \in {flash[target[1]][i], Erased, Garbage}
      BY <1>1 DEF Flashes, Contents
    <3>2. flash' = [flash EXCEPT ![target[1]] = pg]
      BY <2>4
    <3> HIDE DEF pg
    <3> QED BY <3>1, <3>2
  <2> QED BY <2>2, <2>3, <2>4 DEF TornErase, PartlyErased
<1>3. flash' \in Flashes
  BY <1>1, <1>2 DEF Flashes
<1>4. Loses(flash, flash')
  BY <1>1, <1>2, <1>3 DEF Loses, Flashes, isValidRecord
<1>5. \A p \in Pages : p # target[1] => Keeps(flash, flash', p)
  BY <1>1, <1>2 DEF Keeps, Flashes
<1> QED BY <1>4, <1>5 DEF Inv, TargetIsFree

(* The erase of the rotation: the page without the committed record.       *)
LEMMA EraseSectorInv ==
    ASSUME Inv, EraseSector
    PROVE  Inv'
<1> USE JournalAssumption, StoreAssumption
<1>1. /\ pc = "erase" /\ pc' = "body"
      /\ flash' = [flash EXCEPT ![target[1]] = [i \in Slots |-> Erased]]
      /\ target' = target /\ record' = record /\ committed' = committed
      /\ result' = result
  BY DEF EraseSector
<1>2. flash \in Flashes /\ target[1] \in Pages /\ target[2] \in Slots
  BY DEF Inv, TypeOK
<1>3. Loses(flash, flash') /\ CommittedIsNewest' /\ Distinct(flash')
  BY <1>1, EraseLoses, LossyStep
<1>4. RecordIsNext'
  BY <1>1, <1>3 DEF Inv, RecordIsNext, Loses
<1>5. TargetIsFree'
  <2>1. target[2] = 0
    BY <1>1 DEF Inv, TargetIsFree
  <2>2. flash'[target[1]][target[2]] = Erased
    BY <1>1, <1>2 DEF Flashes
  <2> QED BY <1>1, <2>1, <2>2 DEF TargetIsFree
<1>6. TypeOK'
  BY <1>1, <1>3 DEF Inv, TypeOK, Loses
<1> QED BY <1>3, <1>4, <1>5, <1>6 DEF Inv

(* Programming the body, completed or not, destroys nothing.               *)
LEMMA BodyLoses ==
    ASSUME Inv, pc = "body", flash' \in TornBody(flash, target)
    PROVE  /\ Loses(flash, flash')
           /\ \A p \in Pages : Keeps(flash, flash', p)
<1> USE JournalAssumption
<1>1. flash \in Flashes /\ target[1] \in Pages /\ target[2] \in Slots
  BY DEF Inv, TypeOK
<1>2. flash[target[1]][target[2]] = Erased
  BY DEF Inv, TargetIsFree
<1>3. CASE flash' = flash
  BY <1>1, <1>3 DEF Loses, Keeps
<1>4. CASE flash' = Written(flash, target[1], target[2], Garbage)
  <2>1. /\ flash' \in Flashes
        /\ flash'[target[1]][target[2]] = Garbage
        /\ \A q \in Pages, j \in Slots :
              ~(q = target[1] /\ j = target[2]) => flash'[q][j] = flash[q][j]
    BY <1>1, <1>4, WrittenSlot, SMTT(30) DEF Contents
  <2> QED BY <1>2, <2>1 DEF Loses, Keeps, isValidRecord
<1> QED BY <1>3, <1>4 DEF TornBody

(* FlashProgram of the record body.                                        *)
LEMMA ProgramBodyInv ==
    ASSUME Inv, ProgramBody
    PROVE  Inv'
<1> USE JournalAssumption, StoreAssumption
<1>1. /\ pc = "body" /\ pc' = "crc"
      /\ flash' = Written(flash, target[1], target[2], Garbage)
      /\ target' = target /\ record' = record /\ committed' = committed
      /\ result' = result
  BY DEF ProgramBody
<1>2. flash \in Flashes /\ target[1] \in Pages /\ target[2] \in Slots
  BY DEF Inv, TypeOK
<1>3. Loses(flash, flash') /\ CommittedIsNewest' /\ Distinct(flash')
  BY <1>1, BodyLoses, LossyStep DEF TornBody
<1>4. RecordIsNext'
  BY <1>1, <1>3 DEF Inv, RecordIsNext, Loses
<1>5. TargetIsFree'
  <2>1. flash'[target[1]][target[2]] = Garbage
    BY <1>1, <1>2, WrittenSlot DEF Contents
  <2>2. \A j \in 0 .. target[2] - 1 : j \in Slots /\ j # target[2]
    BY <1>2 DEF Slots
  <2>3. \A j \in 0 .. target[2] - 1 : flash'[target[1]][j] = flash[target[1]][j]
    BY <1>1, <1>2, <2>2, WrittenSlot DEF Contents
  <2> QED BY <1>1, <2>1, <2>3 DEF Inv, TargetIsFree
<1>6. TypeOK'
  BY <1>1, <1>3 DEF Inv, TypeOK, Loses
<1> QED BY <1>3, <1>4, <1>5, <1>6 DEF Inv

(* The CRC word: either it completes and the record is the committed one,  *)
(* or the flash still reads as before.                                     *)
LEMMA CrcCommits ==
    ASSUME Inv, pc = "crc", flash' \in TornCrc(flash, target, record),
           NowCommitted(flash')
    PROVE  /\ flash' \in Flashes
           /\ committed' \in Records \cup {NoRecord}
           /\ flash' = Written(flash, target[1], target[2], record) =>
                 committed' = record
           /\ CommittedIsNewest'
           /\ Distinct(flash')
<1> USE JournalAssumption, StoreAssumption
<1>1. /\ flash \in Flashes /\ target[1] \in Pages /\ target[2] \in Slots
      /\ record \in Records
      /\ committed \in Records \cup {NoRecord}
  BY DEF Inv, TypeOK, RecordIsNext
<1>2. flash[target[1]][target[2]] = Garbage
  BY DEF Inv, TargetIsFree
<1>3. CASE flash' = flash
  <2>1. committed' = committed
    BY <1>1, <1>2, <1>3 DEF NowCommitted
  <2>2. flash' # Written(flash, target[1], target[2], record)
    BY <1>1, <1>2, <1>3, WrittenSlot DEF Contents
  <2> QED BY <1>1, <1>3, <2>1, <2>2 DEF Inv, CommittedIsNewest
<1>4. CASE flash' = Written(flash, target[1], target[2], record)
  <2>1. flash' \in Flashes /\ flash'[target[1]][target[2]] = record
    BY <1>1, <1>4, WrittenSlot DEF Contents
  <2>2. committed' = record
    BY <2>1 DEF NowCommitted
  <2>3. \A q \in Pages, j \in Slots :
          isValidRecord(flash[q][j]) => isSequenceNewer(record.seq, flash[q][j].seq)
    BY DEF Inv, RecordIsNext, CommittedIsNewest, NoValidRecord
  <2>4. \A j \in 0 .. target[2] - 1 : flash[target[1]][j] # Erased
    BY DEF Inv, TargetIsFree
  <2>5. Home(flash', record, target[1], target[2]) /\ Distinct(flash')
    BY <1>1, <1>2, <1>4, <2>3, <2>4, NewHome DEF Inv, isValidRecord
  <2>6. CommittedIsNewest'
    BY <1>1, <2>2, <2>5 DEF CommittedIsNewest
  <2> QED BY <1>1, <2>1, <2>2, <2>5, <2>6
<1> QED BY <1>3, <1>4 DEF TornCrc

(* FlashProgram of the CRC word: the new record becomes the home.          *)
LEMMA ProgramCrcInv ==
    ASSUME Inv, ProgramCrc
    PROVE  Inv' /\ committed' = record
<1> USE JournalAssumption, StoreAssumption
<1>1. /\ pc = "crc" /\ pc' = "idle" /\ result' = "ok"
      /\ flash' = Written(flash, target[1], target[2], record)
      /\ NowCommitted(flash')
      /\ target' = <<Primary, 0>> /\ record' = NoRecord
  BY DEF ProgramCrc, Forget
<1>2. flash' \in TornCrc(flash, target, record)
  BY <1>1 DEF TornCrc
<1>3. /\ flash' \in Flashes /\ committed' \in Records \cup {NoRecord}
      /\ committed' = record
      /\ CommittedIsNewest' /\ Distinct(flash')
  BY <1>1, <1>2, CrcCommits
<1>4. TypeOK'
  BY <1>1, <1>3 DEF TypeOK, Pages, Slots
<1> QED BY <1>1, <1>3, <1>4 DEF Inv, RecordIsNext, TargetIsFree

(* An operation that the driver or the power supply cuts short.  The       *)
(* committed record is then the old one or the one being written.          *)
LEMMA TornInv ==
    ASSUME Inv, flash' \in Torn,
           IF pc = "crc" THEN NowCommitted(flash') ELSE UNCHANGED committed,
           pc' = "idle", result' \in {"none", "error"}, Forget
    PROVE  Inv' /\ committed' \in (IF pc = "crc" THEN {committed, record}
                                                 ELSE {committed})
<1> USE JournalAssumption, StoreAssumption
<1>1. pc \in {"idle", "erase", "body", "crc"} /\ flash \in Flashes
  BY DEF Inv, TypeOK
<1>2. /\ flash' \in Flashes /\ committed' \in Records \cup {NoRecord}
      /\ CommittedIsNewest' /\ Distinct(flash')
      /\ committed' \in (IF pc = "crc" THEN {committed, record} ELSE {committed})
  <2>1. CASE pc = "idle"
    <3>1. flash' = flash /\ committed' = committed
      BY <2>1 DEF Torn
    <3> QED BY <2>1, <3>1 DEF Inv, TypeOK, CommittedIsNewest
  <2>2. CASE pc = "erase"
    <3>1. flash' \in TornErase(flash, target[1]) /\ committed' = committed
      BY <2>2 DEF Torn
    <3>2. Loses(flash, flash') /\ CommittedIsNewest' /\ Distinct(flash')
      BY <2>2, <3>1, EraseLoses, LossyStep
    <3> QED BY <2>2, <3>1, <3>2 DEF Inv, TypeOK, Loses
  <2>3. CASE pc = "body"
    <3>1. flash' \in TornBody(flash, target) /\ committed' = committed
      BY <2>3 DEF Torn
    <3>2. Loses(flash, flash') /\ CommittedIsNewest' /\ Distinct(flash')
      BY <2>3, <3>1, BodyLoses, LossyStep
    <3> QED BY <2>3, <3>1, <3>2 DEF Inv, TypeOK, Loses
  <2>4. CASE pc = "crc"
    <3>1. flash' \in TornCrc(flash, target, record) /\ NowCommitted(flash')
      BY <2>4 DEF Torn
    <3> QED BY <2>4, <3>1, CrcCommits DEF NowCommitted
  <2> QED BY <1>1, <2>1, <2>2, <2>3, <2>4
<1>3. target' = <<Primary, 0>> /\ record' = NoRecord
  BY DEF Forget
<1>4. TypeOK'
  BY <1>2, <1>3 DEF TypeOK, Pages, Slots
<1> QED BY <1>2, <1>4 DEF Inv, RecordIsNext, TargetIsFree

(* Every step, completed, failed or cut short, keeps the invariant.        *)
LEMMA NextInv == Inv /\ [Next]_vars => Inv'
<1> SUFFICES ASSUME Inv, [Next]_vars PROVE Inv'
  OBVIOUS
<1>1. ASSUME NEW v \in Values, BeginAppend(v) PROVE Inv'
  BY <1>1, BeginAppendInv
<1>2. CASE EraseSector
  BY <1>2, EraseSectorInv
<1>3. CASE ProgramBody
  BY <1>3, ProgramBodyInv
<1>4. CASE ProgramCrc
  BY <1>4, ProgramCrcInv
<1>5. CASE OperationFails
  BY <1>5, TornInv DEF OperationFails
<1>6. CASE PowerLoss
  BY <1>6, TornInv DEF PowerLoss
<1>7. CASE UNCHANGED vars
  BY <1>7 DEF vars, Inv, TypeOK, CommittedIsNewest, RecordIsNext, TargetIsFree
<1> QED BY <1>1, <1>2, <1>3, <1>4, <1>5, <1>6, <1>7 DEF Next

-----------------------------------------------------------------------------
(* The theorems *)

(* The variables keep their types: every slot is erased, unreadable or a   *)
(* well-formed record, and the append addresses a slot of the journal.     *)
THEOREM TypeCorrect == Spec => []TypeOK
<1>1. Inv => TypeOK
  BY DEF Inv
<1> QED BY <1>1, InitInv, NextInv, PTL DEF Spec

(* readBootMetadata returns the last record whose CRC was programmed, at   *)
(* every instant and after any number of interrupted operations.           *)
THEOREM ReaderIsExact == Spec => []ReadsLastCommitted
<1>1. Inv => ReadsLastCommitted
  <2> SUFFICES ASSUME Inv PROVE ReadsLastCommitted
    OBVIOUS
  <2>1. CASE committed = NoRecord
    BY <2>1, ReaderFindsNothing DEF Inv, CommittedIsNewest, ReadsLastCommitted
  <2>2. CASE committed # NoRecord
    BY <2>2, ReaderFindsHome DEF Inv, TypeOK, CommittedIsNewest, ReadsLastCommitted
  <2> QED BY <2>1, <2>2
<1> QED BY <1>1, InitInv, NextInv, PTL DEF Spec

(* No two valid records carry the same sequence number, however appends of *)
(* a single caller fail, are cut short and are retried.                    *)
THEOREM SequencesDistinct == Spec => []NoEqualSequence
<1>1. Inv => NoEqualSequence
  BY DEF Inv, Distinct, NoEqualSequence
<1> QED BY <1>1, InitInv, NextInv, PTL DEF Spec

(* FlashProgram is only ever applied to erased cells.                      *)
THEOREM OnlyErasedProgrammed == Spec => []ProgramsErasedCells
<1>1. Inv => ProgramsErasedCells
  BY DEF Inv, TargetIsFree, ProgramsErasedCells
<1> QED BY <1>1, InitInv, NextInv, PTL DEF Spec

-----------------------------------------------------------------------------
(* The scan of a page *)

(* Every record of the journal lies less than half the number space behind *)
(* the committed one, so the comparisons of the loop are those of a total  *)
(* order.                                                                  *)
LEMMA LoopIsReaderInv == Inv => LoopFindsNewest
<1> SUFFICES ASSUME Inv, NEW p \in Pages
             PROVE  ScanLoop(flash, p) = IF Visible(flash, p) = {} THEN N
                                         ELSE findNewestRecordInPage(flash, p)
  BY DEF LoopFindsNewest
<1>1. flash \in Flashes /\ Distinct(flash)  BY DEF Inv, TypeOK
<1>2. \A i \in Visible(flash, p) :
         i \in Slots /\ isValidRecord(flash[p][i]) /\ flash[p][i].seq \in Seqs
  BY <1>1, RecordFacts DEF Visible, Scanned, Flashes
<1>3. \A i, j \in Visible(flash, p) : flash[p][i].seq = flash[p][j].seq => i = j
  BY <1>1, <1>2 DEF Distinct
<1>4. \E c \in Seqs : \A i \in Visible(flash, p) : Behind(c, flash[p][i].seq) < SeqHalf
  <2>1. CASE committed = NoRecord
    <3>1. Visible(flash, p) = {}
      BY <1>2, <2>1 DEF Inv, CommittedIsNewest, NoValidRecord
    <3>2. 0 \in Seqs  BY JournalAssumption DEF Seqs, SeqMod
    <3> QED  BY <3>1, <3>2
  <2>2. CASE committed # NoRecord
    <3>1. PICK q \in Pages, i \in Slots : Home(flash, committed, q, i)
      BY <2>2 DEF Inv, CommittedIsNewest
    <3>2. committed.seq \in Seqs  BY <3>1, RecordFacts DEF Home
    <3>3. Behind(committed.seq, committed.seq) < SeqHalf
      BY <3>2, JournalAssumption DEF Behind, Seqs, SeqMod
    <3>4. ASSUME NEW j \in Visible(flash, p)
          PROVE  Behind(committed.seq, flash[p][j].seq) < SeqHalf
      <4>1. CASE p = q /\ j = i  BY <3>1, <3>3, <4>1 DEF Home
      <4>2. CASE ~(p = q /\ j = i)
        BY <1>2, <3>1, <4>2 DEF Home, isSequenceNewer
      <4> QED  BY <4>1, <4>2
    <3> QED  BY <3>2, <3>4
  <2> QED  BY <2>1, <2>2
<1> QED  BY <1>2, <1>3, <1>4, LoopIsReader

(* The loop of findNewestRecordInPage, with its running maximum and its    *)
(* break at the first erased slot, returns the newest record of the page   *)
(* on every content that appends and power losses can leave.               *)
THEOREM LoopIsExact == Spec => []LoopFindsNewest
<1>1. Spec => []Inv  BY InitInv, NextInv, PTL DEF Spec
<1> QED  BY <1>1, LoopIsReaderInv, PTL

-----------------------------------------------------------------------------
(* The journal implements the atomic register *)

\* What readBootMetadata returns, by the history variable.
ReadsCommittedValue ==
    readBootMetadata = IF committed = NoRecord THEN NoValue ELSE committed.val

(* readBootMetadata returns the payload of the committed record.           *)
LEMMA ReadValue == Inv => ReadsCommittedValue
<1> SUFFICES ASSUME Inv PROVE ReadsCommittedValue
  OBVIOUS
<1> USE DEF ReadsCommittedValue
<1>1. CASE committed = NoRecord
  BY <1>1, ReaderFindsNothing DEF Inv, CommittedIsNewest, readBootMetadata
<1>2. CASE committed # NoRecord
  BY <1>2, ReaderFindsHome DEF Inv, TypeOK, CommittedIsNewest, readBootMetadata
<1> QED BY <1>1, <1>2

(* The initial journal is an initial register.                             *)
LEMMA StoreInit == Init => Store!Init
<1> SUFFICES ASSUME Init PROVE Store!Init
  OBVIOUS
<1>1. Inv
  BY InitInv
<1>2. committed = NoRecord \/ (committed # NoRecord /\ committed.val \in Values)
  BY <1>1, StoreAssumption DEF Inv, TypeOK, Records
<1>3. readBootMetadata \in Values \cup {NoValue}
  BY <1>1, <1>2, ReadValue DEF ReadsCommittedValue
<1> QED BY <1>3 DEF Init, Store!Init

(* Every step of the journal is a step of the register, or none.           *)
LEMMA StoreNext ==
    ASSUME Inv, Inv', [Next]_vars
    PROVE  [Store!Next]_(Store!storeVars)
<1> USE StoreAssumption
<1>1. readBootMetadata = IF committed = NoRecord THEN NoValue ELSE committed.val
  BY ReadValue DEF ReadsCommittedValue
<1>2. readBootMetadata' = IF committed' = NoRecord THEN NoValue ELSE committed'.val
  <2>1. Inv' => ReadsCommittedValue'
    BY ReadValue, PTL
  <2> QED BY <2>1 DEF ReadsCommittedValue
<1>3. /\ pc # "idle" => record \in Records
      /\ pc # "idle" => record.val \in Values
      /\ pc # "idle" => record.val # NoValue
  BY DEF Inv, RecordIsNext, Records
<1>4. ASSUME NEW v \in Values, BeginAppend(v)
      PROVE  Store!Next
  <2>1. pc = "idle" /\ pc' # "idle" /\ result' = "none"
    BY <1>4 DEF BeginAppend
  <2>2. record'.val = v
    BY <1>4 DEF BeginAppend, NextRecord
  <2>3. readBootMetadata' = readBootMetadata
    BY <1>1, <1>2, <1>4 DEF BeginAppend
  <2>4. Store!Write(v)
    BY <2>1, <2>2, <2>3 DEF Store!Write
  <2> QED BY <2>4 DEF Store!Next
<1>5. CASE EraseSector
  <2>1. pc = "erase" /\ pc' = "body" /\ UNCHANGED <<record, result, committed>>
    BY <1>5 DEF EraseSector
  <2> QED BY <1>1, <1>2, <2>1 DEF Store!storeVars
<1>6. CASE ProgramBody
  <2>1. pc = "body" /\ pc' = "crc" /\ UNCHANGED <<record, result, committed>>
    BY <1>6 DEF ProgramBody
  <2> QED BY <1>1, <1>2, <2>1 DEF Store!storeVars
<1>7. CASE ProgramCrc
  <2>1. pc = "crc" /\ pc' = "idle" /\ result' = "ok"
    BY <1>7 DEF ProgramCrc
  <2>2. committed' = record
    BY <1>7, ProgramCrcInv
  <2>3. readBootMetadata' = record.val
    BY <1>2, <1>3, <2>1, <2>2
  <2>4. Store!Succeed
    BY <1>3, <2>1, <2>3 DEF Store!Succeed
  <2> QED BY <2>4 DEF Store!Next
<1>8. ASSUME committed' \in (IF pc = "crc" THEN {committed, record} ELSE {committed}),
             pc # "idle"
      PROVE  readBootMetadata' \in {readBootMetadata, record.val}
  BY <1>1, <1>2, <1>3, <1>8
<1>9. CASE OperationFails
  <2>1. pc # "idle" /\ pc' = "idle" /\ result' = "error"
    BY <1>9 DEF OperationFails
  <2>2. committed' \in (IF pc = "crc" THEN {committed, record} ELSE {committed})
    BY <1>9, TornInv DEF OperationFails
  <2>3. Store!Fail
    BY <1>3, <1>8, <2>1, <2>2 DEF Store!Fail
  <2> QED BY <2>3 DEF Store!Next
<1>10. CASE PowerLoss
  <2>1. pc' = "idle" /\ result' = "none"
    BY <1>10 DEF PowerLoss
  <2>2. committed' \in (IF pc = "crc" THEN {committed, record} ELSE {committed})
    BY <1>10, TornInv DEF PowerLoss
  <2>3. CASE pc = "idle"
    <3>1. readBootMetadata' = readBootMetadata
      BY <1>1, <1>2, <2>2, <2>3
    <3>2. Store!Crash
      BY <2>1, <2>3, <3>1 DEF Store!Crash
    <3> QED BY <3>2 DEF Store!Next
  <2>4. CASE pc # "idle"
    <3>1. Store!Crash
      BY <1>3, <1>8, <2>1, <2>2, <2>4 DEF Store!Crash
    <3> QED BY <3>1 DEF Store!Next
  <2> QED BY <2>3, <2>4
<1>11. CASE UNCHANGED vars
  BY <1>1, <1>2, <1>11 DEF vars, Store!storeVars
<1> QED BY <1>4, <1>5, <1>6, <1>7, <1>9, <1>10, <1>11 DEF Next

(* appendMetadataRecord and readBootMetadata behave as an atomic durable   *)
(* register: a write that returned 0 is read back, a failed or interrupted *)
(* one took effect completely or not at all.                               *)
THEOREM JournalIsAtomic == Spec => AtomicStore
<1>1. Spec => []Inv
  BY InitInv, NextInv, PTL DEF Spec
<1>2. Inv /\ Inv' /\ [Next]_vars => [Store!Next]_(Store!storeVars)
  BY StoreNext
<1> QED BY <1>1, <1>2, StoreInit, PTL DEF Spec, AtomicStore, Store!Spec

-----------------------------------------------------------------------------
(* How old a record can be *)

Full(fl, p) == \A i \in Slots : fl[p][i] # Erased

NoRecordIn(fl, p) == \A i \in Slots : ~isValidRecord(fl[p][i])

\* Every append since the record in a slot took one of the slots that the
\* journal filled after it, up to slot i of page p with the newest record c.
AgesBounded(fl, c, p, i) ==
    \A q \in Pages, j \in Slots :
        isValidRecord(fl[q][j]) =>
            /\ q = p => j <= i /\ Behind(c.seq, fl[q][j].seq) <= i - j
            /\ q # p => Behind(c.seq, fl[q][j].seq) <= i + (N - j)

\* The journal fills the page with the newest record before the other one,
\* unless the other one holds no record any more.
PagesTakeTurns(fl, p) ==
    /\ \A q \in Pages : q # p => Full(fl, q) \/ NoRecordIn(fl, q)
    /\ p = Secondary => Full(fl, Primary) \/ Full(fl, Secondary)

Orderly(fl, c, p, i) == AgesBounded(fl, c, p, i) /\ PagesTakeTurns(fl, p)

\* The slot the append goes to follows the newest record.
Follows(fl, p, i, t, k) ==
    \/ t = p /\ i < k
    \/ t # p /\ Full(fl, p) /\ NoRecordIn(fl, t)

HomeIsOrderly ==
    committed # NoRecord =>
        \A p \in Pages, i \in Slots :
            Home(flash, committed, p, i) => Orderly(flash, committed, p, i)

TargetFollows ==
    /\ pc = "erase" => NoFreeSlot(flash)
    /\ pc \in {"body", "crc"} =>
          /\ target[1] = Secondary => Full(flash, Primary)
          /\ committed # NoRecord =>
                \A p \in Pages, i \in Slots :
                    Home(flash, committed, p, i) =>
                        Follows(flash, p, i, target[1], target[2])
    /\ pc # "idle" /\ committed # NoRecord => record.seq = NextSeq(committed.seq)

\* What the history variable adds to the invariant.
OrderInv == torn \in BOOLEAN /\ (~torn => HomeIsOrderly /\ TargetFollows)

(* One append moves a number exactly one further behind.                   *)
LEMMA NextBehind ==
    ASSUME NEW a \in Seqs, NEW b \in Seqs, NextSeq(a) # b
    PROVE  Behind(NextSeq(a), b) = Behind(a, b) + 1
BY JournalAssumption DEF Behind, NextSeq, Seqs, SeqMod

(* The newest record is in one place.                                      *)
LEMMA OneHome ==
    ASSUME NEW fl \in Flashes, NEW c, NEW p \in Pages, NEW i \in Slots,
           NEW q \in Pages, NEW j \in Slots, Home(fl, c, p, i), Home(fl, c, q, j)
    PROVE  p = q /\ i = j
<1>1. fl[q][j] = c /\ c \in Records /\ isValidRecord(c)
  BY RecordFacts DEF Home, Contents
<1>2. ~isSequenceNewer(c.seq, c.seq)  BY DEF isSequenceNewer
<1> QED  BY <1>1, <1>2 DEF Home

\* No slot became erased.
NoneErased(fl, fl2) == \A q \in Pages, j \in Slots : fl2[q][j] = Erased => fl[q][j] = Erased

(* Losing records, and no erase, keeps the order.                          *)
LEMMA OrderKept ==
    ASSUME NEW fl, NEW fl2, Loses(fl, fl2), NoneErased(fl, fl2)
    PROVE  /\ \A q \in Pages : /\ Full(fl, q) => Full(fl2, q)
                               /\ NoRecordIn(fl, q) => NoRecordIn(fl2, q)
           /\ \A c : \A p \in Pages, i \in Slots : Orderly(fl, c, p, i) => Orderly(fl2, c, p, i)
           /\ \A p, t \in Pages, i, k \in Slots :
                 Follows(fl, p, i, t, k) => Follows(fl2, p, i, t, k)
<1>1. \A q \in Pages : /\ Full(fl, q) => Full(fl2, q)
                       /\ NoRecordIn(fl, q) => NoRecordIn(fl2, q)
  BY DEF Full, NoRecordIn, Loses, NoneErased
<1>2. ASSUME NEW c, NEW p \in Pages, NEW i \in Slots, Orderly(fl, c, p, i)
      PROVE  Orderly(fl2, c, p, i)
  <2>1. AgesBounded(fl2, c, p, i)  BY <1>2 DEF Orderly, AgesBounded, Loses
  <2>2. PagesTakeTurns(fl2, p)  BY <1>1, <1>2 DEF Orderly, PagesTakeTurns, Pages
  <2> QED  BY <2>1, <2>2 DEF Orderly
<1>3. \A p, t \in Pages, i, k \in Slots :
         Follows(fl, p, i, t, k) => Follows(fl2, p, i, t, k)
  BY <1>1 DEF Follows
<1> QED  BY <1>1, <1>2, <1>3

\* What the erase of page t leaves.
ErasedInOrder(fl, fl2, t) ==
    /\ t = Secondary => Full(fl2, Primary)
    /\ \A c : \A p \in Pages, i \in Slots :
          p # t /\ Orderly(fl, c, p, i) =>
              Orderly(fl2, c, p, i) /\ Follows(fl2, p, i, t, 0)

(* The erase of the rotation: the page that stays is full.                 *)
LEMMA OrderErased ==
    ASSUME NEW fl \in Flashes, NEW t \in Pages, NEW fl2, NoFreeSlot(fl),
           fl2 = [fl EXCEPT ![t] = [i \in Slots |-> Erased]]
    PROVE  ErasedInOrder(fl, fl2, t)
<1>1. /\ \A j \in Slots : fl2[t][j] = Erased
      /\ \A q \in Pages, j \in Slots : q # t => fl2[q][j] = fl[q][j]
  BY DEF Flashes
<1>2. \A q \in Pages : q # t => Full(fl2, q)  BY <1>1 DEF NoFreeSlot, ErasedSlots, Full
<1>3. NoRecordIn(fl2, t)  BY <1>1 DEF NoRecordIn, isValidRecord
<1>4. t = Secondary => Full(fl2, Primary)  BY <1>2 DEF Pages, Primary, Secondary
<1>5. ASSUME NEW c, NEW p \in Pages, NEW i \in Slots, p # t, Orderly(fl, c, p, i)
      PROVE  Orderly(fl2, c, p, i) /\ Follows(fl2, p, i, t, 0)
  <2>1. AgesBounded(fl2, c, p, i)
    BY <1>1, <1>3, <1>5 DEF Orderly, AgesBounded, NoRecordIn
  <2>2. PagesTakeTurns(fl2, p)
    BY <1>2, <1>3, <1>5 DEF PagesTakeTurns, Pages, Primary, Secondary
  <2>3. Follows(fl2, p, i, t, 0)  BY <1>2, <1>3, <1>5 DEF Follows
  <2> QED  BY <2>1, <2>2, <2>3 DEF Orderly
<1> QED  BY <1>4, <1>5 DEF ErasedInOrder

(* The new record follows the newest one: all the others are one append    *)
(* older and at least one slot further back.                               *)
LEMMA OrderCommitted ==
    ASSUME NEW fl \in Flashes, NEW c \in Records, NEW r \in Records,
           NEW p \in Pages, NEW i \in Slots, NEW t \in Pages, NEW k \in Slots,
           Orderly(fl, c, p, i), Follows(fl, p, i, t, k), fl[t][k] = Garbage,
           t = Secondary => Full(fl, Primary), r.seq = NextSeq(c.seq),
           \A q \in Pages, j \in Slots :
               isValidRecord(fl[q][j]) => isSequenceNewer(r.seq, fl[q][j].seq)
    PROVE  Orderly(Written(fl, t, k, r), r, t, k)
<1> DEFINE fl2 == Written(fl, t, k, r)
<1> USE JournalAssumption
<1>1. /\ fl2 \in Flashes /\ fl2[t][k] = r
      /\ \A q \in Pages, j \in Slots : ~(q = t /\ j = k) => fl2[q][j] = fl[q][j]
  BY WrittenSlot DEF Contents
<1>2. c.seq \in Seqs /\ r.seq \in Seqs /\ r # Erased  BY RecordFacts
<1> HIDE DEF fl2
<1>3. i \in 0 .. N - 1 /\ k \in 0 .. N - 1 /\ N \in Nat  BY DEF Slots
<1>4. AgesBounded(fl2, r, t, k)
  <2> SUFFICES ASSUME NEW q \in Pages, NEW j \in Slots, isValidRecord(fl2[q][j])
               PROVE  /\ q = t => j <= k /\ Behind(r.seq, fl2[q][j].seq) <= k - j
                      /\ q # t => Behind(r.seq, fl2[q][j].seq) <= k + (N - j)
    BY DEF AgesBounded
  <2>1. j \in 0 .. N - 1  BY DEF Slots
  <2>2. CASE q = t /\ j = k
    <3>1. Behind(r.seq, fl2[q][j].seq) = 0  BY <1>1, <1>2, <2>2, BehindType
    <3> QED  BY <1>3, <2>2, <3>1
  <2>3. CASE ~(q = t /\ j = k)
    <3> DEFINE s == fl[q][j].seq
               a == Behind(c.seq, s)
    <3>1. fl2[q][j] = fl[q][j] /\ isValidRecord(fl[q][j])  BY <1>1, <2>3
    <3>2. s \in Seqs  BY <3>1, RecordFacts DEF Flashes
    <3>3. r.seq # s  BY <3>1 DEF isSequenceNewer
    <3>4. Behind(r.seq, s) = a + 1 /\ a \in Nat  BY <1>2, <3>2, <3>3, NextBehind, BehindType
    <3>5. /\ q = p => j <= i /\ a <= i - j
          /\ q # p => a <= i + (N - j)
      BY <3>1 DEF Orderly, AgesBounded
    <3> HIDE DEF s, a
    <3>6. CASE t = p /\ i < k  BY <1>3, <2>1, <3>1, <3>4, <3>5, <3>6 DEF s
    <3>7. CASE t # p /\ NoRecordIn(fl, t)
      <4>1. q # t  BY <3>1, <3>7 DEF NoRecordIn
      <4>2. q = p  BY <3>7, <4>1 DEF Pages
      <4> QED  BY <1>3, <2>1, <3>1, <3>4, <3>5, <4>1, <4>2 DEF s
    <3> QED  BY <3>6, <3>7 DEF Follows
  <2> QED  BY <2>2, <2>3
<1>5. \A q \in Pages : Full(fl, q) => Full(fl2, q)  BY <1>1, <1>2 DEF Full
<1>6. \A q \in Pages : q # t /\ NoRecordIn(fl, q) => NoRecordIn(fl2, q)
  BY <1>1 DEF NoRecordIn
<1>7. PagesTakeTurns(fl2, t)
  <2>1. ASSUME NEW q \in Pages, q # t PROVE Full(fl2, q) \/ NoRecordIn(fl2, q)
    <3>1. CASE t = p  BY <1>5, <1>6, <2>1, <3>1 DEF Orderly, PagesTakeTurns
    <3>2. CASE t # p
      <4>1. q = p /\ Full(fl, p)  BY <2>1, <3>2 DEF Pages, Follows
      <4> QED  BY <1>5, <4>1
    <3> QED  BY <3>1, <3>2
  <2>2. t = Secondary => Full(fl2, Primary)  BY <1>5 DEF Pages
  <2> QED  BY <2>1, <2>2 DEF PagesTakeTurns
<1> QED  BY <1>4, <1>7 DEF Orderly, fl2

(* The first record of a journal without one.                              *)
LEMMA OrderFirst ==
    ASSUME NEW fl \in Flashes, NEW r \in Records, NEW t \in Pages, NEW k \in Slots,
           NoValidRecord(fl), t = Secondary => Full(fl, Primary)
    PROVE  Orderly(Written(fl, t, k, r), r, t, k)
<1> DEFINE fl2 == Written(fl, t, k, r)
<1> USE JournalAssumption
<1>1. /\ fl2 \in Flashes /\ fl2[t][k] = r
      /\ \A q \in Pages, j \in Slots : ~(q = t /\ j = k) => fl2[q][j] = fl[q][j]
  BY WrittenSlot DEF Contents
<1>2. r.seq \in Seqs  BY RecordFacts
<1> HIDE DEF fl2
<1>3. \A q \in Pages, j \in Slots : isValidRecord(fl2[q][j]) => q = t /\ j = k
  BY <1>1 DEF NoValidRecord
<1>4. Behind(r.seq, r.seq) = 0 /\ k \in Nat  BY <1>2, BehindType DEF Slots
<1>5. AgesBounded(fl2, r, t, k)  BY <1>1, <1>3, <1>4 DEF AgesBounded
<1>6. \A q \in Pages : q # t => NoRecordIn(fl2, q)  BY <1>3 DEF NoRecordIn
<1>7. t = Secondary => Full(fl2, Primary)
  BY <1>1 DEF Full, Pages, Primary, Secondary
<1> QED  BY <1>5, <1>6, <1>7 DEF Orderly, PagesTakeTurns, fl2

-----------------------------------------------------------------------------
(* The order is kept *)

(* The blank journal and the factory journal.                              *)
LEMMA InitOrder == MCInit => OrderInv
<1> SUFFICES ASSUME Init PROVE HomeIsOrderly /\ TargetFollows
  BY DEF MCInit, OrderInv
<1> USE JournalAssumption, StoreAssumption
<1>1. TargetFollows  BY DEF Init, TargetFollows
<1>2. HomeIsOrderly
  <2> SUFFICES ASSUME committed # NoRecord, NEW p \in Pages, NEW i \in Slots,
                      Home(flash, committed, p, i)
               PROVE  Orderly(flash, committed, p, i)
    BY DEF HomeIsOrderly
  <2>1. PICK v \in Values : flash = Factory(v) /\ committed = [seq |-> 1, val |-> v]
    BY DEF Init
  <2>2. Blank \in Flashes /\ NoValidRecord(Blank)
    BY DEF Blank, Flashes, Contents, NoValidRecord, isValidRecord
  <2>3. committed \in Records /\ Primary \in Pages /\ 0 \in Slots /\ Primary # Secondary
    BY DEF Home, Pages, Slots, Primary, Secondary
  <2>4. flash = Written(Blank, Primary, 0, committed)  BY <2>1 DEF Factory, Written
  <2>5. Orderly(flash, committed, Primary, 0)  BY <2>2, <2>3, <2>4, OrderFirst
  <2>6. flash \in Flashes /\ Home(flash, committed, Primary, 0)
    <3>1. Inv  BY InitInv
    <3>2. PICK q \in Pages, j \in Slots : Home(flash, committed, q, j)
      BY <3>1 DEF Inv, CommittedIsNewest
    <3>3. isValidRecord(flash[q][j])  BY <3>2, RecordFacts DEF Home, Contents
    <3>4. Blank[q][j] = Erased  BY DEF Blank
    <3>5. q = Primary /\ j = 0
      <4>1. ~(q = Primary /\ j = 0) => flash[q][j] = Erased
        BY <2>1, <2>3 DEF Factory, Blank, Pages, Primary, Secondary
      <4> QED  BY <3>3, <4>1 DEF isValidRecord
    <3> QED  BY <3>1, <3>2, <3>5 DEF Inv, TypeOK
  <2>7. p = Primary /\ i = 0  BY <2>3, <2>6, OneHome
  <2> QED  BY <2>5, <2>7
<1> QED  BY <1>1, <1>2

(* The append goes to the page with the newest record, or to the other one *)
(* when that page is full.                                                 *)
LEMMA BeginAppendOrder ==
    ASSUME Inv, HomeIsOrderly, TargetFollows, NEW v \in Values, BeginAppend(v)
    PROVE  HomeIsOrderly' /\ TargetFollows'
<1> USE JournalAssumption, StoreAssumption
<1>1. flash \in Flashes /\ flash' = flash /\ committed' = committed
  BY DEF Inv, TypeOK, BeginAppend
<1>2. HomeIsOrderly'  BY <1>1 DEF HomeIsOrderly
<1>3. committed # NoRecord => record'.seq = NextSeq(committed.seq)
  <2> SUFFICES ASSUME committed # NoRecord PROVE record'.seq = NextSeq(committed.seq)
    OBVIOUS
  <2>1. HasRecord(flash) /\ findNewestMetadataRecord(flash) = committed
    BY <1>1, ReaderFindsHome DEF Inv, CommittedIsNewest
  <2> QED  BY <2>1 DEF BeginAppend, NextRecord
<1>4. CASE NoFreeSlot(flash)
  <2>1. pc' = "erase"  BY <1>4 DEF BeginAppend
  <2> QED  BY <1>1, <1>2, <1>3, <1>4, <2>1 DEF TargetFollows
<1>5. CASE ~NoFreeSlot(flash)
  <2> DEFINE t == AppendPage(flash)
             k == findFirstErasedRecord(flash, t)
  <2>1. pc' = "body" /\ target' = <<t, k>>  BY <1>5 DEF BeginAppend
  <2>2. t \in Pages /\ k \in Slots /\ flash[t][k] = Erased  BY <1>5, FirstErased
  <2>3. t = Secondary => Full(flash, Primary)
    BY DEF AppendPage, ErasedSlots, Full, Primary, Secondary
  <2>4. t = Primary \/ t = Secondary  BY DEF AppendPage
  <2> HIDE DEF t, k
  <2>5. ~Full(flash, t)  BY <2>2 DEF Full
  <2>6. ASSUME committed # NoRecord, NEW p \in Pages, NEW i \in Slots,
               Home(flash, committed, p, i)
        PROVE  Follows(flash, p, i, t, k)
    <3>1. PagesTakeTurns(flash, p)  BY <2>6 DEF HomeIsOrderly, Orderly
    <3>2. CASE t = p
      <4>1. i \in Nat /\ k \in Nat  BY <2>2 DEF Slots
      <4>2. ~(k \in 0 .. i)  BY <2>2, <2>6, <3>2 DEF Home
      <4>3. i < k  BY <4>1, <4>2
      <4> QED  BY <3>2, <4>3 DEF Follows
    <3>3. CASE t # p
      <4>1. NoRecordIn(flash, t)  BY <2>2, <2>5, <3>1, <3>3 DEF PagesTakeTurns
      <4>2. Full(flash, p)
        <5>1. p = Primary \/ p = Secondary  BY DEF Pages
        <5>2. CASE p = Primary  BY <2>3, <2>4, <3>3, <5>2
        <5>3. CASE p = Secondary  BY <2>4, <2>5, <3>1, <3>3, <5>3 DEF PagesTakeTurns
        <5> QED  BY <5>1, <5>2, <5>3
      <4> QED  BY <3>3, <4>1, <4>2 DEF Follows
    <3> QED  BY <3>2, <3>3
  <2>7. target'[1] = t /\ target'[2] = k  BY <2>1
  <2>8. TargetFollows'  BY <1>1, <1>3, <2>1, <2>3, <2>6, <2>7 DEF TargetFollows
  <2> QED  BY <1>2, <2>8
<1> QED  BY <1>4, <1>5

\* Every home of the new flash is one of the old flash.
SameHome ==
    committed # NoRecord =>
        \A p \in Pages, i \in Slots :
            Home(flash', committed, p, i) => Home(flash, committed, p, i)

(* A step that only loses records outside the home page leaves the newest  *)
(* one where it is.                                                        *)
LEMMA HomeStays ==
    ASSUME Inv, Loses(flash, flash'),
           committed # NoRecord =>
               \A p \in Pages, i \in Slots :
                   Home(flash, committed, p, i) => Keeps(flash, flash', p)
    PROVE  SameHome
<1> SUFFICES ASSUME committed # NoRecord, NEW p \in Pages, NEW i \in Slots,
                    Home(flash', committed, p, i)
             PROVE  Home(flash, committed, p, i)
  BY DEF SameHome
<1>1. flash \in Flashes /\ flash' \in Flashes  BY DEF Inv, TypeOK, Loses
<1>2. PICK q \in Pages, j \in Slots : Home(flash, committed, q, j)
  BY DEF Inv, CommittedIsNewest
<1>3. Home(flash', committed, q, j)  BY <1>1, <1>2, LosesPreserves
<1>4. p = q /\ i = j  BY <1>1, <1>3, OneHome
<1> QED  BY <1>2, <1>4

(* The erase completed.                                                    *)
LEMMA EraseOrder ==
    ASSUME Inv, HomeIsOrderly, TargetFollows, pc = "erase", committed' = committed,
           flash' = [flash EXCEPT ![target[1]] = [i \in Slots |-> Erased]]
    PROVE  /\ HomeIsOrderly'
           /\ target[1] = Secondary => Full(flash', Primary)
           /\ committed # NoRecord =>
                 \A p \in Pages, i \in Slots :
                     Home(flash', committed, p, i) => Follows(flash', p, i, target[1], target[2])
<1>1. /\ flash \in Flashes /\ target[1] \in Pages /\ NoFreeSlot(flash) /\ target[2] = 0
      /\ committed # NoRecord =>
            \A p \in Pages, i \in Slots : Home(flash, committed, p, i) => p # target[1]
  BY DEF Inv, TypeOK, TargetFollows, TargetIsFree
<1>2. SameHome  BY EraseLoses, HomeStays
<1>3. /\ target[1] = Secondary => Full(flash', Primary)
      /\ \A c : \A p \in Pages, i \in Slots :
            p # target[1] /\ Orderly(flash, c, p, i) =>
                Orderly(flash', c, p, i) /\ Follows(flash', p, i, target[1], 0)
  <2>1. ErasedInOrder(flash, flash', target[1])
    BY <1>1, OrderErased, Zenon
  <2> QED  BY <2>1, Zenon DEF ErasedInOrder
<1>4. ASSUME committed # NoRecord, NEW p \in Pages, NEW i \in Slots,
             Home(flash', committed, p, i)
      PROVE  Orderly(flash', committed, p, i) /\ Follows(flash', p, i, target[1], target[2])
  <2>1. Home(flash, committed, p, i)  BY <1>2, <1>4 DEF SameHome
  <2>2. p # target[1] /\ Orderly(flash, committed, p, i)  BY <1>1, <1>4, <2>1 DEF HomeIsOrderly
  <2> QED  BY <1>1, <1>3, <2>2
<1>5. HomeIsOrderly'  BY <1>4 DEF HomeIsOrderly
<1> QED  BY <1>3, <1>4, <1>5

(* The body is programmed, or a part of it.                                *)
LEMMA BodyOrder ==
    ASSUME Inv, HomeIsOrderly, TargetFollows, pc = "body", committed' = committed,
           flash' \in TornBody(flash, target)
    PROVE  /\ HomeIsOrderly'
           /\ target[1] = Secondary => Full(flash', Primary)
           /\ committed # NoRecord =>
                 \A p \in Pages, i \in Slots :
                     Home(flash', committed, p, i) => Follows(flash', p, i, target[1], target[2])
<1>1. flash \in Flashes /\ target[1] \in Pages /\ target[2] \in Slots
  BY DEF Inv, TypeOK
<1>2. SameHome /\ Loses(flash, flash')  BY BodyLoses, HomeStays
<1>3. NoneErased(flash, flash')
  <2>1. Garbage \in Contents /\ Garbage # Erased  BY JournalAssumption DEF Contents
  <2> QED  BY <1>1, <2>1, WrittenSlot, SMTT(30) DEF NoneErased, TornBody
<1>4. /\ \A q \in Pages : Full(flash, q) => Full(flash', q)
      /\ \A c : \A p \in Pages, i \in Slots :
            Orderly(flash, c, p, i) => Orderly(flash', c, p, i)
      /\ \A p, t \in Pages, i, k \in Slots :
            Follows(flash, p, i, t, k) => Follows(flash', p, i, t, k)
  BY <1>2, <1>3, OrderKept
<1>5. ASSUME committed # NoRecord, NEW p \in Pages, NEW i \in Slots,
             Home(flash', committed, p, i)
      PROVE  Orderly(flash', committed, p, i) /\ Follows(flash', p, i, target[1], target[2])
  <2>1. Home(flash, committed, p, i)  BY <1>2, <1>5 DEF SameHome
  <2>2. Orderly(flash, committed, p, i)  BY <1>5, <2>1 DEF HomeIsOrderly
  <2>3. Follows(flash, p, i, target[1], target[2])  BY <1>5, <2>1 DEF TargetFollows
  <2> QED  BY <1>1, <1>4, <2>2, <2>3
<1>6. HomeIsOrderly'  BY <1>5 DEF HomeIsOrderly
<1>7. target[1] = Secondary => Full(flash', Primary)  BY <1>4 DEF TargetFollows, Pages
<1> QED  BY <1>5, <1>6, <1>7

(* The CRC word is programmed, or the flash still reads as before.         *)
LEMMA CrcOrder ==
    ASSUME Inv, HomeIsOrderly, TargetFollows, pc = "crc",
           flash' \in TornCrc(flash, target, record), NowCommitted(flash')
    PROVE  HomeIsOrderly'
<1> USE StoreAssumption
<1> DEFINE t == target[1]
           k == target[2]
<1>1. /\ flash \in Flashes /\ t \in Pages /\ k \in Slots /\ record \in Records
      /\ flash[t][k] = Garbage
  BY DEF Inv, TypeOK, RecordIsNext, TargetIsFree
<1>2. flash' \in Flashes /\ CommittedIsNewest' /\ Distinct(flash')
      /\ (flash' = Written(flash, t, k, record) => committed' = record)
  BY CrcCommits
<1>3. CASE flash' = flash
  <2>1. committed' = committed
    <3>1. flash'[t][k] # record  BY <1>1, <1>3, RecordFacts
    <3> QED  BY <3>1 DEF NowCommitted
  <2> QED  BY <1>3, <2>1 DEF HomeIsOrderly
<1>4. CASE flash' = Written(flash, t, k, record)
  <2>1. committed' = record  BY <1>2, <1>4
  <2>2. t = Secondary => Full(flash, Primary)  BY DEF TargetFollows
  <2>3. Orderly(flash', record, t, k)
    <3>1. CASE committed = NoRecord
      BY <1>1, <1>4, <2>2, <3>1, OrderFirst DEF Inv, CommittedIsNewest
    <3>2. CASE committed # NoRecord
      <4>1. PICK p \in Pages, i \in Slots : Home(flash, committed, p, i)
        BY <3>2 DEF Inv, CommittedIsNewest
      <4>2. committed \in Records /\ record.seq = NextSeq(committed.seq)
        BY <3>2, <4>1 DEF TargetFollows, Home
      <4>3. Orderly(flash, committed, p, i)  BY <3>2, <4>1 DEF HomeIsOrderly
      <4>4. Follows(flash, p, i, t, k)  BY <3>2, <4>1 DEF TargetFollows
      <4>5. \A q \in Pages, j \in Slots :
               isValidRecord(flash[q][j]) => isSequenceNewer(record.seq, flash[q][j].seq)
        BY <3>2 DEF Inv, RecordIsNext
      <4> HIDE DEF t, k
      <4> QED  BY <1>1, <1>4, <2>2, <4>2, <4>3, <4>4, <4>5, OrderCommitted
    <3> QED  BY <3>1, <3>2
  <2>4. flash'[t][k] = record
    BY <1>1, <1>4, WrittenSlot DEF Contents
  <2> HIDE DEF t, k
  <2>5. ASSUME NEW p \in Pages, NEW i \in Slots, Home(flash', record, p, i)
        PROVE  p = t /\ i = k
    <3>1. isValidRecord(flash'[t][k])  BY <1>1, <2>4, RecordFacts DEF Contents
    <3>2. ~isSequenceNewer(record.seq, record.seq)  BY DEF isSequenceNewer
    <3> QED  BY <1>1, <2>4, <2>5, <3>1, <3>2 DEF Home
  <2> QED  BY <2>1, <2>3, <2>5 DEF HomeIsOrderly
<1> QED  BY <1>3, <1>4 DEF TornCrc

(* An operation that is cut short, if it is not a torn erase.              *)
LEMMA TornOrder ==
    ASSUME Inv, HomeIsOrderly, TargetFollows, flash' \in Torn,
           IF pc = "crc" THEN NowCommitted(flash') ELSE UNCHANGED committed,
           pc = "erase" =>
               flash' \in {flash, [flash EXCEPT ![target[1]] = [i \in Slots |-> Erased]]},
           pc' = "idle"
    PROVE  HomeIsOrderly' /\ TargetFollows'
<1>1. pc \in {"idle", "erase", "body", "crc"}  BY DEF Inv, TypeOK
<1>2. TargetFollows'  BY DEF TargetFollows
<1>3. ASSUME flash' = flash, committed' = committed PROVE HomeIsOrderly'
  BY <1>3 DEF HomeIsOrderly
<1>4. CASE pc = "idle"  BY <1>2, <1>3, <1>4 DEF Torn
<1>5. CASE pc = "erase"
  <2>1. committed' = committed  BY <1>5
  <2> QED  BY <1>2, <1>3, <1>5, <2>1, EraseOrder
<1>6. CASE pc = "body"
  <2>1. flash' \in TornBody(flash, target) /\ committed' = committed  BY <1>6 DEF Torn
  <2> QED  BY <1>2, <1>6, <2>1, BodyOrder
<1>7. CASE pc = "crc"
  <2>1. flash' \in TornCrc(flash, target, record) /\ NowCommitted(flash')  BY <1>7 DEF Torn
  <2> QED  BY <1>2, <1>7, <2>1, CrcOrder
<1> QED  BY <1>1, <1>4, <1>5, <1>6, <1>7

(* Every step keeps the order until an erase is torn.                      *)
LEMMA NextOrder == Inv /\ OrderInv /\ [MCNext]_<<vars, torn>> => OrderInv'
<1> SUFFICES ASSUME Inv, OrderInv, [MCNext]_<<vars, torn>> PROVE OrderInv'
  OBVIOUS
<1>1. CASE UNCHANGED <<vars, torn>>
  BY <1>1 DEF vars, OrderInv, HomeIsOrderly, TargetFollows
<1>2. CASE MCNext
  <2> DEFINE whole == [flash EXCEPT ![target[1]] = [i \in Slots |-> Erased]]
  <2>1. Next /\ torn' = (torn \/ (pc = "erase" /\ flash' \notin {flash, whole}))
    BY <1>2 DEF MCNext
  <2>2. torn' \in BOOLEAN  BY <2>1, Zenon DEF OrderInv
  <2>3. ASSUME ~torn' PROVE HomeIsOrderly' /\ TargetFollows'
    <3>1. HomeIsOrderly /\ TargetFollows /\ (pc = "erase" => flash' \in {flash, whole})
      BY <2>1, <2>3, Zenon DEF OrderInv
    <3>2. ASSUME NEW v \in Values, BeginAppend(v) PROVE HomeIsOrderly' /\ TargetFollows'
      BY <3>1, <3>2, BeginAppendOrder
    <3>3. CASE EraseSector
      <4>1. /\ pc = "erase" /\ pc' = "body" /\ flash' = whole
            /\ target' = target /\ record' = record /\ committed' = committed
        BY <3>3 DEF EraseSector
      <4> QED  BY <3>1, <4>1, EraseOrder DEF TargetFollows
    <3>4. CASE ProgramBody
      <4>1. /\ pc = "body" /\ pc' = "crc" /\ flash' \in TornBody(flash, target)
            /\ target' = target /\ record' = record /\ committed' = committed
        BY <3>4 DEF ProgramBody, TornBody
      <4> QED  BY <3>1, <4>1, BodyOrder DEF TargetFollows
    <3>5. CASE ProgramCrc
      <4>1. /\ pc = "crc" /\ pc' = "idle" /\ flash' \in TornCrc(flash, target, record)
            /\ NowCommitted(flash')
        BY <3>5 DEF ProgramCrc, TornCrc
      <4>2. HomeIsOrderly'  BY <3>1, <4>1, CrcOrder
      <4> QED  BY <4>1, <4>2 DEF TargetFollows
    <3>6. CASE OperationFails  BY <3>1, <3>6, TornOrder DEF OperationFails
    <3>7. CASE PowerLoss  BY <3>1, <3>7, TornOrder DEF PowerLoss
    <3> QED  BY <2>1, <3>2, <3>3, <3>4, <3>5, <3>6, <3>7 DEF Next
  <2> QED  BY <2>2, <2>3 DEF OrderInv
<1> QED  BY <1>1, <1>2

(* While no erase was torn, every record on the flash is one of the last   *)
(* 2N appended ones, for any page size: the bound on the wear in           *)
(* BeginAppend excludes nothing then, and the comparison of sequence       *)
(* numbers never meets two that are half the space apart.                  *)
THEOREM RecordsAreRecent == MCSpec => []StaleRecordsBounded
<1>1. MCInit => Inv /\ OrderInv  BY InitInv, InitOrder DEF MCInit
<1>2. Inv /\ OrderInv /\ [MCNext]_<<vars, torn>> => Inv' /\ OrderInv'
  <2>1. [MCNext]_<<vars, torn>> => [Next]_vars  BY DEF MCNext
  <2> QED  BY <2>1, NextInv, NextOrder
<1>3. Inv /\ OrderInv => StaleRecordsBounded
  <2> SUFFICES ASSUME Inv, OrderInv, ~torn, NEW q \in Pages, NEW j \in Slots,
                      isValidRecord(flash[q][j])
               PROVE  Behind(findNewestMetadataRecord(flash).seq, flash[q][j].seq) < 2 * N
    BY DEF StaleRecordsBounded
  <2>1. flash \in Flashes /\ committed # NoRecord
    BY DEF Inv, TypeOK, CommittedIsNewest, NoValidRecord
  <2>2. PICK p \in Pages, i \in Slots : Home(flash, committed, p, i)
    BY <2>1 DEF Inv, CommittedIsNewest
  <2>3. findNewestMetadataRecord(flash) = committed
    BY <2>1, <2>2, ReaderFindsHome DEF Inv
  <2> DEFINE a == Behind(committed.seq, flash[q][j].seq)
  <2>4. a \in Nat
    <3>1. committed.seq \in Seqs /\ flash[q][j].seq \in Seqs
      BY <2>1, <2>2, RecordFacts DEF Home, Flashes
    <3> QED  BY <3>1, BehindType
  <2>5. (q = p => a <= i - j) /\ (q # p => a <= i + (N - j))
    BY <2>1, <2>2 DEF OrderInv, HomeIsOrderly, Orderly, AgesBounded
  <2>6. i \in 0 .. N - 1 /\ j \in 0 .. N - 1 /\ N \in Nat
    BY JournalAssumption DEF Slots
  <2> HIDE DEF a
  <2>7. a < 2 * N  BY <2>4, <2>5, <2>6
  <2> QED  BY <2>3, <2>7 DEF a
<1> QED  BY <1>1, <1>2, <1>3, PTL DEF MCSpec
=============================================================================
