---------------------------- MODULE AppBootProofs ----------------------------
(***************************************************************************)
(* Proofs about AppBoot: the confirmation of the boot happens once, a tx   *)
(* command finds the radio open, the journal keeps a record wherever the   *)
(* radio thread's append falls in the CLI thread's call, and calls that do *)
(* not overlap are durable, for any page size and any number width that    *)
(* leaves room for a few appends.                                          *)
(***************************************************************************)
EXTENDS AppBoot, JournalFlashProofs, SequenceTheorems

-----------------------------------------------------------------------------
(* Types *)

Outside  == {"start", "dead", "idle", "reset", "tx"}
Calls    == {"scan", "choose", "copy", "number", "slot", "erase", "body", "crc"}
Results  == {"ok", "error"}
Pointers == Pages \X Slots

CliTypes ==
    [step   : Outside \cup Calls,
     call   : {"none", "confirm", "request"},
     at     : Pages \X (0 .. N),
     found  : [Pages -> Pointers \cup {None}],
     newest : Pointers \cup {None},
     record : Records \cup {None},
     own    : BOOLEAN]

\* The step a call is at and what it has got so far.
Staged(c) ==
    /\ c.call # "none" <=> c.step \in Calls
    /\ c.step = "copy" => c.record = None
    /\ c.step \in {"number", "slot", "erase", "body", "crc"} => c.record # None
    /\ c.step \in {"erase", "body", "crc"} => c.at \in Pointers

TypeInv ==
    /\ flash \in Flashes
    /\ cli \in CliTypes
    /\ Staged(cli)
    /\ confirms \in Seq(Results)

(* The constants of both modules.                                          *)
LEMMA Constants ==
    /\ Pages = {0, 1} /\ Primary = 0 /\ Secondary = 1
    /\ N \in Nat /\ N > 0 /\ 0 \in Slots /\ Slots = 0 .. N - 1
    /\ SeqHalf \in Nat /\ SeqHalf - 4 >= 2 /\ SeqMod = 2 * SeqHalf
    /\ Seqs = 0 .. SeqMod - 1 /\ 0 \in Seqs
    /\ None \notin Records /\ None \notin Pointers
    /\ Values = Metadata
BY JournalAssumption, AppAssumption
   DEF Pages, Primary, Secondary, Slots, SeqMod, Seqs, Pointers

(* A thread outside a call.                                                *)
LEMMA IdleType ==
    /\ \A s \in Outside :
          /\ [Idle EXCEPT !.step = s] \in CliTypes
          /\ Staged([Idle EXCEPT !.step = s])
          /\ [Idle EXCEPT !.step = s].step = s
          /\ [Idle EXCEPT !.step = s].call = "none"
    /\ Idle = [Idle EXCEPT !.step = "idle"]
    /\ \A k \in {"confirm", "request"} :
          /\ Call(k) \in CliTypes
          /\ Staged(Call(k))
          /\ Call(k).step = "scan" /\ Call(k).call = k
          /\ Call(k).at = <<Primary, 0>> /\ Call(k).record = None
          /\ \A p \in Pages : Call(k).found[p] = None
<1>1. Idle \in CliTypes
  BY Constants DEF Idle, CliTypes, Outside
<1>2. /\ Idle.step = "idle" /\ Idle.call = "none" /\ Idle.at = <<Primary, 0>>
      /\ Idle.record = None /\ Idle.own = FALSE
      /\ \A p \in Pages : Idle.found[p] = None
  BY DEF Idle
<1> HIDE DEF Idle
<1>3. ASSUME NEW s \in Outside
      PROVE  /\ [Idle EXCEPT !.step = s] \in CliTypes
             /\ Staged([Idle EXCEPT !.step = s])
             /\ [Idle EXCEPT !.step = s].step = s
             /\ [Idle EXCEPT !.step = s].call = "none"
  BY <1>1, <1>2 DEF CliTypes, Outside, Calls, Staged
<1>4. Idle = [Idle EXCEPT !.step = "idle"]
  BY <1>1, <1>2 DEF CliTypes
<1>5. ASSUME NEW k \in {"confirm", "request"}
      PROVE  /\ Call(k) \in CliTypes
             /\ Staged(Call(k))
             /\ Call(k).step = "scan" /\ Call(k).call = k
             /\ Call(k).at = <<Primary, 0>> /\ Call(k).record = None
             /\ \A p \in Pages : Call(k).found[p] = None
  BY <1>1, <1>2 DEF CliTypes, Outside, Calls, Staged, Call
<1> QED  BY <1>3, <1>4, <1>5

(* The payload changes of the two calls.                                   *)
LEMMA PayloadType ==
    /\ Booted \in Metadata
    /\ \A v \in Metadata :
          /\ Confirmed(v) \in Metadata /\ Requested(v) \in Metadata
          /\ Confirmed(v).confirmed /\ Confirmed(v).state = v.state
          /\ Requested(v).state = "requested" /\ Requested(v).confirmed = v.confirmed
BY DEF Booted, Metadata, Confirmed, Requested

(* What is read through a pointer.                                         *)
LEMMA ReadType ==
    ASSUME NEW fl \in Flashes
    PROVE  /\ \A t \in Pointers \cup {None} : NumbersAt(fl, t) \subseteq Seqs
           /\ \A t \in Pointers : ValuesAt(fl, t) \subseteq Metadata
           /\ \A t \in Pointers : At(fl, t) \in Contents
<1>1. \A t \in Pointers : At(fl, t) \in Contents
  BY DEF Pointers, At, Flashes
<1>2. \A c \in Contents : isValidRecord(c) => c.seq \in Seqs /\ c.val \in Metadata
  BY RecordFacts, Constants DEF Records
<1>3. SeqMod - 1 \in Seqs /\ 0 \in Seqs  BY Constants
<1> QED  BY <1>1, <1>2, <1>3 DEF NumbersAt, ValuesAt

(* A pointer from a choice of both pages.                                  *)
LEMMA ChosenType ==
    ASSUME NEW fl, NEW a \in Pointers \cup {None}, NEW b \in Pointers \cup {None}
    PROVE  Chosen(fl, a, b) \subseteq {a, b}
BY DEF Chosen

(* What the flash operations leave is a flash.                             *)
LEMMA FlashTypes ==
    ASSUME NEW fl \in Flashes
    PROVE  /\ \A t \in Pointers : \A c \in Contents : Programmed(fl, t, c) \in Flashes
           /\ \A p \in Pages : ErasedPage(fl, p) \in Flashes
           /\ \A p \in Pages : PartlyErased(fl, p) \subseteq Flashes
           /\ Garbage \in Contents
<1>1. Garbage \in Contents /\ Erased \in Contents  BY DEF Contents
<1>2. ASSUME NEW t \in Pointers, NEW c \in Contents
      PROVE  Programmed(fl, t, c) \in Flashes
  BY <1>1, <1>2, WrittenSlot DEF Programmed, Pointers
<1>3. ASSUME NEW p \in Pages PROVE ErasedPage(fl, p) \in Flashes
  BY <1>1 DEF ErasedPage, Flashes
<1>4. ASSUME NEW p \in Pages PROVE PartlyErased(fl, p) \subseteq Flashes
  BY <1>1 DEF PartlyErased, Flashes
<1> QED  BY <1>1, <1>2, <1>3, <1>4

(* A slot number of a choice, and the rotation page.                       *)
LEMMA TargetType ==
    ASSUME NEW fl \in Flashes
    PROVE  Target(fl) \in Pointers /\ RotationPage(fl) \in Pages
<1>1. RotationPage(fl) \in Pages  BY DEF RotationPage, Pages
<1>2. CASE NoFreeSlot(fl)  BY <1>1, <1>2, Constants DEF Target, Pointers
<1>3. CASE ~NoFreeSlot(fl)  BY <1>1, <1>3, FirstErased DEF Target, Pointers
<1> QED  BY <1>1, <1>2, <1>3

(* The next record of a journal that yields one.                           *)
LEMMA NextRecordType ==
    ASSUME NEW fl \in Flashes, NEW v \in Values, HasRecord(fl),
           findNewestMetadataRecord(fl) \in Records
    PROVE  NextRecord(fl, v) \in Records
BY Constants DEF NextRecord, Records, NextSeq

-----------------------------------------------------------------------------
(* The types are kept *)

(* Nothing is under way at the start, and the journal is one.              *)
LEMMA TypeInit == Init => TypeInv
<1> SUFFICES ASSUME Init PROVE TypeInv  OBVIOUS
<1>1. cli \in CliTypes /\ Staged(cli)  BY IdleType DEF Init, Outside
<1>2. PICK k \in 1 .. 2 * N : flash = Journal(k)  BY DEF Init
<1>3. \A p \in Pages, i \in Slots : flash[p][i] \in Contents
  <2> SUFFICES ASSUME NEW p \in Pages, NEW i \in Slots PROVE flash[p][i] \in Contents
    OBVIOUS
  <2> DEFINE n == p * N + i + 1
  <2>1. n \in Nat /\ n > 0 /\ n <= 2 * N /\ n \in Seqs
    <3>1. CASE p = 0  BY <3>1, Constants, AppAssumption
    <3>2. CASE p = 1  BY <3>2, Constants, AppAssumption
    <3> QED  BY <3>1, <3>2, Constants
  <2>2. [Booted EXCEPT !.confirmed = n < k] \in Metadata
    <3>1. \A b \in BOOLEAN : [Booted EXCEPT !.confirmed = b] \in Metadata
      BY DEF Booted, Metadata
    <3>2. (n < k) \in BOOLEAN  BY <2>1, <1>2, Constants
    <3> QED  BY <3>1, <3>2, Zenon
  <2>3. flash[p][i] = IF n > k THEN Erased
                      ELSE [seq |-> n, val |-> [Booted EXCEPT !.confirmed = n < k]]
    BY <1>2 DEF Journal
  <2> HIDE DEF n
  <2> QED  BY <2>1, <2>2, <2>3, Constants DEF Contents, Records
<1>4. flash \in Flashes
  <2>1. flash = [p \in Pages |-> [i \in Slots |-> flash[p][i]]]
    BY <1>2 DEF Journal
  <2> QED  BY <1>3, <2>1 DEF Flashes
<1>5. confirms \in Seq(Results)  BY EmptySeq DEF Init
<1> QED  BY <1>1, <1>4, <1>5 DEF TypeInv

(* Appending a result makes one confirmation more.                         *)
LEMMA OneMore ==
    ASSUME NEW s \in Seq(Results), NEW r \in Results
    PROVE  /\ Append(s, r) \in Seq(Results)
           /\ Len(Append(s, r)) = Len(s) + 1
           /\ Len(s) \in Nat
BY AppendProperties, LenProperties

(* The end of a call.                                                      *)
LEMMA ReturnType ==
    ASSUME TypeInv, NEW result \in Results, Return(result), flash' \in Flashes
    PROVE  /\ TypeInv'
           /\ cli' \in {Idle, [Idle EXCEPT !.step = "reset"]}
<1>1. cli' \in {Idle, [Idle EXCEPT !.step = "reset"]}  BY DEF Return
<1>2. cli' \in CliTypes /\ Staged(cli')  BY <1>1, IdleType DEF Outside
<1>3. confirms' \in Seq(Results)  BY OneMore DEF Return, TypeInv
<1> QED  BY <1>1, <1>2, <1>3 DEF TypeInv

(* The steps of the CLI thread, field by field.                            *)
LEMMA ScanFields ==
    ASSUME TypeInv, CliScan
    PROVE  /\ cli.step = "scan" /\ AtRecord /\ cli.at \in Pointers
           /\ cli' \in CliTypes /\ Staged(cli')
           /\ cli'.step = "scan" /\ cli'.call = cli.call /\ cli'.record = cli.record
           /\ cli'.at = Following(cli.at)
           /\ \E s \in NumbersAt(flash, cli.found[cli.at[1]]) :
                cli'.found = [cli.found EXCEPT ![cli.at[1]] =
                   IF /\ isValidRecord(At(flash, cli.at))
                      /\ \/ cli.found[cli.at[1]] = None
                         \/ isSequenceNewer(At(flash, cli.at).seq, s)
                         \/ At(flash, cli.at).seq = s
                   THEN cli.at ELSE cli.found[cli.at[1]]]
<1>1. cli.step = "scan" /\ AtRecord  BY DEF CliScan, CliLocal, CliStep
<1>2. cli \in CliTypes /\ Staged(cli)  BY DEF TypeInv
<1>3. PICK p \in Pages, i \in 0 .. N : cli.at = <<p, i>>  BY <1>2 DEF CliTypes
<1>4. i \in Slots /\ cli.at \in Pointers
  BY <1>1, <1>3, Constants DEF AtRecord, Pointers
<1>5. Following(cli.at) = <<p, i + 1>> /\ Following(cli.at) \in Pages \X (0 .. N)
  BY <1>3, <1>4, Constants DEF Following
<1>6. PICK s \in NumbersAt(flash, cli.found[cli.at[1]]) :
        cli' = [cli EXCEPT
                !.at = Following(cli.at),
                !.found[cli.at[1]] =
                    IF /\ isValidRecord(At(flash, cli.at))
                       /\ \/ cli.found[cli.at[1]] = None
                          \/ isSequenceNewer(At(flash, cli.at).seq, s)
                          \/ At(flash, cli.at).seq = s
                    THEN cli.at ELSE cli.found[cli.at[1]]]
  BY DEF CliScan
<1> DEFINE e == IF /\ isValidRecord(At(flash, cli.at))
                   /\ \/ cli.found[cli.at[1]] = None
                      \/ isSequenceNewer(At(flash, cli.at).seq, s)
                      \/ At(flash, cli.at).seq = s
                THEN cli.at ELSE cli.found[cli.at[1]]
<1>7. e \in Pointers \cup {None}  BY <1>2, <1>3, <1>4 DEF CliTypes
<1>8. cli' = [cli EXCEPT !.at = Following(cli.at), !.found[cli.at[1]] = e]  BY <1>6
<1>9. e = IF /\ isValidRecord(At(flash, cli.at))
             /\ \/ cli.found[cli.at[1]] = None
                \/ isSequenceNewer(At(flash, cli.at).seq, s)
                \/ At(flash, cli.at).seq = s
          THEN cli.at ELSE cli.found[cli.at[1]]
  OBVIOUS
<1> HIDE DEF e
<1>10. /\ cli' \in CliTypes /\ cli'.step = "scan" /\ cli'.call = cli.call
       /\ cli'.record = cli.record /\ cli'.at = Following(cli.at)
       /\ cli'.found = [cli.found EXCEPT ![cli.at[1]] = e]
  BY <1>1, <1>2, <1>3, <1>5, <1>7, <1>8 DEF CliTypes
<1>11. Staged(cli')  BY <1>1, <1>2, <1>10 DEF Staged, Calls
<1> QED  BY <1>1, <1>4, <1>9, <1>10, <1>11

LEMMA ScannedFields ==
    ASSUME TypeInv, CliScanned
    PROVE  /\ cli.step = "scan" /\ ~AtRecord
           /\ cli' \in CliTypes /\ Staged(cli')
           /\ cli'.call = cli.call /\ cli'.record = cli.record /\ cli'.found = cli.found
           /\ cli.at[1] = Primary => cli'.step = "scan" /\ cli'.at = <<Secondary, 0>>
           /\ cli.at[1] # Primary => cli'.step = "choose" /\ cli'.at = cli.at
<1>1. cli.step = "scan" /\ ~AtRecord  BY DEF CliScanned, CliLocal, CliStep
<1>2. cli \in CliTypes /\ Staged(cli)  BY DEF TypeInv
<1>3. cli' = IF cli.at[1] = Primary THEN [cli EXCEPT !.at = <<Secondary, 0>>]
             ELSE [cli EXCEPT !.step = "choose"]
  BY DEF CliScanned
<1>4. /\ cli' \in CliTypes
      /\ cli'.call = cli.call /\ cli'.record = cli.record /\ cli'.found = cli.found
      /\ cli.at[1] = Primary => cli'.step = "scan" /\ cli'.at = <<Secondary, 0>>
      /\ cli.at[1] # Primary => cli'.step = "choose" /\ cli'.at = cli.at
  BY <1>1, <1>2, <1>3, Constants DEF CliTypes, Calls
<1>5. Staged(cli')  BY <1>1, <1>2, <1>4 DEF Staged, Calls
<1> QED  BY <1>1, <1>4, <1>5

LEMMA ChooseFields ==
    ASSUME TypeInv, CliChoose
    PROVE  /\ cli.step = "choose"
           /\ cli' \in CliTypes /\ Staged(cli')
           /\ cli'.call = cli.call /\ cli'.record = cli.record
           /\ cli'.step = IF cli.record = None THEN "copy" ELSE "number"
           /\ cli'.newest \in Chosen(flash, cli.found[Primary], cli.found[Secondary])
<1>1. cli.step = "choose"  BY DEF CliChoose, CliLocal, CliStep
<1>2. cli \in CliTypes /\ Staged(cli)  BY DEF TypeInv
<1>3. PICK t \in Chosen(flash, cli.found[Primary], cli.found[Secondary]) :
        cli' = [cli EXCEPT !.newest = t,
                           !.step = IF cli.record = None THEN "copy" ELSE "number"]
  BY DEF CliChoose
<1>4. /\ cli.found[Primary] \in Pointers \cup {None}
      /\ cli.found[Secondary] \in Pointers \cup {None}
  BY <1>2, Constants DEF CliTypes
<1>5. t \in Pointers \cup {None}  BY <1>3, <1>4, ChosenType
<1>6. /\ cli' \in CliTypes
      /\ cli'.call = cli.call /\ cli'.record = cli.record
      /\ cli'.step = IF cli.record = None THEN "copy" ELSE "number"
      /\ cli'.newest = t
  BY <1>2, <1>3, <1>5 DEF CliTypes, Calls
<1>7. Staged(cli')  BY <1>1, <1>2, <1>6 DEF Staged, Calls
<1> QED  BY <1>1, <1>3, <1>6, <1>7

LEMMA NumberFields ==
    ASSUME TypeInv, CliNumber
    PROVE  /\ cli.step = "number"
           /\ cli' \in CliTypes /\ Staged(cli')
           /\ cli'.call = cli.call /\ cli'.newest = cli.newest
           /\ cli'.step = "slot" /\ cli'.at = <<Primary, 0>>
           /\ cli'.record \in Records /\ cli'.record.val = cli.record.val
           /\ \E s \in NumbersAt(flash, cli.newest) :
                 s \in Seqs /\ cli'.record.seq = NextSeq(s)
<1>1. cli.step = "number"  BY DEF CliNumber, CliLocal, CliStep
<1>2. cli \in CliTypes /\ Staged(cli) /\ flash \in Flashes  BY DEF TypeInv
<1>3. cli.record \in Records /\ cli.newest \in Pointers \cup {None}
  BY <1>1, <1>2 DEF Staged, CliTypes
<1>4. PICK s \in NumbersAt(flash, cli.newest) :
        cli' = [cli EXCEPT !.record.seq = NextSeq(s),
                           !.at = <<Primary, 0>>,
                           !.step = "slot"]
  BY DEF CliNumber
<1>5. s \in Seqs  BY <1>2, <1>3, <1>4, ReadType
<1>6. NextSeq(s) \in Seqs  BY <1>5, Constants DEF NextSeq
<1> DEFINE r == [cli.record EXCEPT !.seq = NextSeq(s)]
<1>7. r \in Records /\ r.val = cli.record.val /\ r.seq = NextSeq(s)
  BY <1>3, <1>6 DEF Records
<1>8. cli' = [cli EXCEPT !.record = r, !.at = <<Primary, 0>>, !.step = "slot"]
  BY <1>2, <1>4 DEF CliTypes
<1> HIDE DEF r
<1>9. /\ cli' \in CliTypes /\ cli'.call = cli.call /\ cli'.newest = cli.newest
      /\ cli'.step = "slot" /\ cli'.at = <<Primary, 0>> /\ cli'.record = r
  <2>1. <<Primary, 0>> \in Pages \X (0 .. N)  BY Constants
  <2> QED  BY <1>2, <1>7, <1>8, <2>1 DEF CliTypes, Calls
<1>10. Staged(cli')  BY <1>1, <1>2, <1>7, <1>9, Constants DEF Staged, Calls
<1> QED  BY <1>1, <1>4, <1>5, <1>7, <1>9, <1>10

LEMMA SlotFields ==
    ASSUME TypeInv, CliSlot
    PROVE  /\ cli.step = "slot"
           /\ cli' \in CliTypes /\ Staged(cli')
           /\ cli'.call = cli.call /\ cli'.newest = cli.newest /\ cli'.record = cli.record
           /\ \/ /\ cli.at \in Pointers /\ At(flash, cli.at) = Erased
                 /\ cli'.step = "body" /\ cli'.at = cli.at
              \/ /\ cli.at \in Pointers /\ At(flash, cli.at) # Erased
                 /\ cli'.step = "slot" /\ cli'.at = Following(cli.at)
              \/ /\ cli.at = <<Primary, N>>
                 /\ cli'.step = "slot" /\ cli'.at = <<Secondary, 0>>
              \/ /\ cli.at = <<Secondary, N>>
                 /\ cli'.step = "erase"
                 /\ cli'.at = <<IF cli.newest # None /\ cli.newest[1] = Secondary
                                THEN Primary ELSE Secondary, 0>>
<1>1. cli.step = "slot"  BY DEF CliSlot, CliLocal, CliStep
<1>2. cli \in CliTypes /\ Staged(cli)  BY DEF TypeInv
<1>3. PICK p \in Pages, i \in 0 .. N : cli.at = <<p, i>>  BY <1>2 DEF CliTypes
<1> DEFINE X == IF cli.newest # None /\ cli.newest[1] = Secondary THEN Primary ELSE Secondary
<1>4. X \in Pages  BY Constants
<1>5. CASE i < N /\ At(flash, cli.at) = Erased
  <2>1. cli' = [cli EXCEPT !.step = "body"]  BY <1>3, <1>5 DEF CliSlot
  <2>2. cli.at \in Pointers  BY <1>3, <1>5, Constants DEF Pointers
  <2>3. /\ cli' \in CliTypes /\ cli'.step = "body" /\ cli'.at = cli.at
        /\ cli'.call = cli.call /\ cli'.newest = cli.newest /\ cli'.record = cli.record
    BY <1>2, <2>1 DEF CliTypes, Calls
  <2>4. Staged(cli')  BY <1>1, <1>2, <2>2, <2>3 DEF Staged, Calls
  <2> QED  BY <1>1, <1>5, <2>2, <2>3, <2>4
<1>6. CASE i < N /\ At(flash, cli.at) # Erased
  <2>1. cli' = [cli EXCEPT !.at = Following(cli.at)]  BY <1>3, <1>6 DEF CliSlot
  <2>2. /\ cli.at \in Pointers
        /\ Following(cli.at) \in Pages \X (0 .. N)
    BY <1>3, <1>6, Constants DEF Pointers, Following
  <2>3. /\ cli' \in CliTypes /\ cli'.step = "slot" /\ cli'.at = Following(cli.at)
        /\ cli'.call = cli.call /\ cli'.newest = cli.newest /\ cli'.record = cli.record
    BY <1>1, <1>2, <2>1, <2>2 DEF CliTypes
  <2>4. Staged(cli')  BY <1>1, <1>2, <2>3 DEF Staged, Calls
  <2> QED  BY <1>1, <1>6, <2>2, <2>3, <2>4
<1>7. CASE i = N /\ p = Primary
  <2>1. cli' = [cli EXCEPT !.at = <<Secondary, 0>>]  BY <1>3, <1>7, Constants DEF CliSlot
  <2>2. /\ cli' \in CliTypes /\ cli'.step = "slot" /\ cli'.at = <<Secondary, 0>>
        /\ cli'.call = cli.call /\ cli'.newest = cli.newest /\ cli'.record = cli.record
    BY <1>1, <1>2, <2>1, Constants DEF CliTypes
  <2>3. Staged(cli')  BY <1>1, <1>2, <2>2 DEF Staged, Calls
  <2> QED  BY <1>1, <1>3, <1>7, <2>2, <2>3
<1>8. CASE i = N /\ p = Secondary
  <2>1. cli' = [cli EXCEPT !.step = "erase", !.at = <<X, 0>>]
    BY <1>3, <1>8, Constants DEF CliSlot
  <2>2. X = IF cli.newest # None /\ cli.newest[1] = Secondary THEN Primary ELSE Secondary
    OBVIOUS
  <2> HIDE DEF X
  <2>3. /\ cli' \in CliTypes /\ cli'.step = "erase" /\ cli'.at = <<X, 0>>
        /\ cli'.call = cli.call /\ cli'.newest = cli.newest /\ cli'.record = cli.record
    <3>1. <<X, 0>> \in Pages \X (0 .. N)  BY <1>4, Constants
    <3> QED  BY <1>2, <2>1, <3>1 DEF CliTypes, Calls
  <2>4. cli'.at \in Pointers  BY <1>4, <2>3, Constants DEF Pointers
  <2>5. Staged(cli')  BY <1>1, <1>2, <2>3, <2>4 DEF Staged, Calls
  <2> QED  BY <1>1, <1>3, <1>8, <2>2, <2>3, <2>5
<1>9. i < N \/ i = N  BY Constants
<1>10. p = Primary \/ p = Secondary  BY Constants
<1> HIDE DEF X
<1> QED  BY <1>5, <1>6, <1>7, <1>8, <1>9, <1>10

LEMMA CopyFields ==
    ASSUME TypeInv, CliCopy
    PROVE  /\ cli.step = "copy" /\ flash' = flash
           /\ \/ /\ ~Refused /\ UNCHANGED <<confirms, told>>
                 /\ cli' \in CliTypes /\ Staged(cli')
                 /\ cli'.call = cli.call /\ cli'.step = "scan" /\ cli'.at = <<Primary, 0>>
                 /\ \A p \in Pages : cli'.found[p] = None
                 /\ cli'.record \in Records /\ cli'.record.val \in Changed
              \/ Refused /\ Return("error")
<1>1. cli.step = "copy" /\ flash' = flash  BY DEF CliCopy, CliStep
<1>2. cli \in CliTypes /\ Staged(cli) /\ flash \in Flashes  BY DEF TypeInv
<1>3. cli.call \in {"confirm", "request"}  BY <1>1, <1>2 DEF Staged, CliTypes, Calls
<1>4. CASE Refused /\ Return("error")  BY <1>1, <1>4
<1>5. CASE ~Refused /\ UNCHANGED <<confirms, told>> /\
           \E v \in Changed : cli' = [Call(cli.call) EXCEPT !.record = [seq |-> 0, val |-> v]]
  <2>1. PICK v \in Changed : cli' = [Call(cli.call) EXCEPT !.record = [seq |-> 0, val |-> v]]
    BY <1>5
  <2>2. v \in Metadata
    <3>1. CASE cli.newest = None  BY <2>1, <3>1, PayloadType DEF Changed
    <3>2. CASE cli.newest # None
      <4>1. cli.newest \in Pointers  BY <1>2, <3>2 DEF CliTypes
      <4>2. ValuesAt(flash, cli.newest) \subseteq Metadata  BY <1>2, <4>1, ReadType
      <4> QED  BY <2>1, <3>2, <4>2, PayloadType DEF Changed
    <3> QED  BY <3>1, <3>2
  <2> DEFINE r == [seq |-> 0, val |-> v]
  <2>3. r \in Records /\ r.val = v  BY <2>2, Constants DEF Records
  <2>4. cli' = [Call(cli.call) EXCEPT !.record = r]  BY <2>1
  <2> HIDE DEF r
  <2>5. /\ Call(cli.call) \in CliTypes /\ Staged(Call(cli.call))
        /\ Call(cli.call).step = "scan" /\ Call(cli.call).call = cli.call
        /\ Call(cli.call).at = <<Primary, 0>>
        /\ \A p \in Pages : Call(cli.call).found[p] = None
    BY <1>3, IdleType
  <2>6. /\ cli' \in CliTypes /\ cli'.step = "scan" /\ cli'.call = cli.call
        /\ cli'.at = <<Primary, 0>> /\ cli'.record = r
        /\ \A p \in Pages : cli'.found[p] = None
    BY <2>3, <2>4, <2>5 DEF CliTypes
  <2>7. Staged(cli')  BY <1>3, <2>6 DEF Staged, Calls
  <2> QED  BY <1>1, <1>5, <2>1, <2>3, <2>6, <2>7
<1> QED  BY <1>4, <1>5 DEF CliCopy

(* Between two flash operations only the step, and own, change.            *)
LEMMA WritingFields ==
    ASSUME TypeInv, CliErase \/ CliBody
    PROVE  /\ cli' \in CliTypes
           /\ cli'.call = cli.call /\ cli'.newest = cli.newest /\ cli'.record = cli.record
           /\ cli'.at = cli.at
           /\ CliErase => cli.step = "erase" /\ cli'.step = "body"
           /\ CliBody => /\ cli.step = "body" /\ cli'.step = "crc"
                         /\ cli'.own = (At(flash, cli.at) = Erased)
<1>1. cli \in CliTypes  BY DEF TypeInv
<1>2. CASE CliErase
  <2>1. cli.step = "erase" /\ cli' = [cli EXCEPT !.step = "body"]
    BY <1>2 DEF CliErase, CliStep
  <2>2. ~CliBody  BY <2>1 DEF CliBody, CliStep
  <2> QED  BY <1>1, <2>1, <2>2 DEF CliTypes, Calls
<1>3. CASE CliBody
  <2>1. cli.step = "body" /\ cli' = [cli EXCEPT !.step = "crc", !.own = At(flash, cli.at) = Erased]
    BY <1>3 DEF CliBody, CliStep
  <2>2. ~CliErase  BY <2>1 DEF CliErase, CliStep
  <2> DEFINE o == At(flash, cli.at) = Erased
  <2>3. o \in BOOLEAN  OBVIOUS
  <2>4. cli' = [cli EXCEPT !.step = "crc", !.own = o]  BY <2>1
  <2> HIDE DEF o
  <2>5. /\ cli' \in CliTypes /\ cli'.call = cli.call /\ cli'.newest = cli.newest
        /\ cli'.record = cli.record /\ cli'.at = cli.at /\ cli'.step = "crc" /\ cli'.own = o
    BY <1>1, <2>3, <2>4 DEF CliTypes, Calls
  <2> QED  BY <2>1, <2>2, <2>5 DEF o
<1> QED  BY <1>2, <1>3

(* What the CRC word, and a flash operation that fails, leave.             *)
LEMMA CrcType ==
    ASSUME TypeInv, cli.step = "crc"
    PROVE  AfterCrc \in Flashes /\ cli.at \in Pointers /\ cli.record \in Records
<1>1. cli.at \in Pointers /\ cli.record \in Records
  BY DEF TypeInv, Staged, CliTypes
<1>2. (IF cli.own THEN cli.record ELSE Garbage) \in Contents  BY <1>1 DEF Contents
<1> QED  BY <1>1, <1>2, WrittenSlot DEF AfterCrc, TypeInv, Pointers

LEMMA FailsType ==
    ASSUME TypeInv, CliFlashFails
    PROVE  /\ flash' \in Flashes /\ Return("error")
           /\ \/ cli.step = "erase" /\ flash' \in PartlyErased(flash, cli.at[1])
              \/ cli.step = "body" /\ flash' \in {flash, Programmed(flash, cli.at, Garbage)}
              \/ cli.step = "crc" /\ flash' \in {flash, AfterCrc}
<1>1. /\ \/ cli.step = "erase" /\ flash' \in PartlyErased(flash, cli.at[1])
         \/ cli.step = "body" /\ flash' \in {flash, Programmed(flash, cli.at, Garbage)}
         \/ cli.step = "crc" /\ flash' \in {flash, AfterCrc}
      /\ Return("error")
  BY DEF CliFlashFails, CliStep
<1>2. flash \in Flashes /\ cli \in CliTypes /\ Staged(cli)  BY DEF TypeInv
<1>3. cli.at[1] \in Pages  BY <1>2 DEF CliTypes
<1>4. CASE cli.step = "erase"  BY <1>1, <1>2, <1>3, <1>4, FlashTypes
<1>5. CASE cli.step = "body"
  <2>1. cli.at \in Pointers  BY <1>2, <1>5 DEF Staged
  <2> QED  BY <1>1, <1>2, <1>5, <2>1, FlashTypes
<1>6. CASE cli.step = "crc"  BY <1>1, <1>2, <1>6, CrcType
<1> QED  BY <1>1, <1>4, <1>5, <1>6

\* The radio thread's step of this name changes nothing but own.
RfAppendStep == RfAppends \/ RfEraseFails \/ RfProgramFails

LEMMA RfFields ==
    ASSUME TypeInv, RfAppendStep
    PROVE  /\ cli' \in CliTypes /\ Staged(cli')
           /\ cli'.step = cli.step /\ cli'.call = cli.call /\ cli'.at = cli.at
           /\ cli'.found = cli.found /\ cli'.newest = cli.newest /\ cli'.record = cli.record
           /\ cli'.own => cli.own
           /\ \E r \in Results : RfConfirms(r)
<1>1. cli \in CliTypes /\ Staged(cli)  BY DEF TypeInv
<1>2. \E o \in BOOLEAN : cli' = [cli EXCEPT !.own = o] /\ (o => cli.own)
  <2>1. CASE RfAppends \/ RfProgramFails
    <3>1. cli' = [cli EXCEPT !.own = cli.own /\ ~TakesBody]
      BY <2>1 DEF RfAppends, RfProgramFails
    <3>2. (cli.own /\ ~TakesBody) \in BOOLEAN  OBVIOUS
    <3> QED  BY <3>1, <3>2, Zenon
  <2>2. CASE RfEraseFails
    <3>1. PICK kept \in BOOLEAN :
            cli' = [cli EXCEPT !.own = cli.own /\ (TakesBody => kept /\ At(flash', cli.at) = Garbage)]
      BY <2>2 DEF RfEraseFails
    <3>2. (cli.own /\ (TakesBody => kept /\ At(flash', cli.at) = Garbage)) \in BOOLEAN
      OBVIOUS
    <3> QED  BY <3>1, <3>2, Zenon
  <2> QED  BY <2>1, <2>2 DEF RfAppendStep
<1>3. PICK o \in BOOLEAN : cli' = [cli EXCEPT !.own = o] /\ (o => cli.own)  BY <1>2
<1>4. /\ cli' \in CliTypes
      /\ cli'.step = cli.step /\ cli'.call = cli.call /\ cli'.at = cli.at
      /\ cli'.found = cli.found /\ cli'.newest = cli.newest /\ cli'.record = cli.record
      /\ cli'.own = o
  BY <1>1, <1>3 DEF CliTypes
<1>5. Staged(cli')  BY <1>1, <1>4 DEF Staged
<1>6. \E r \in Results : RfConfirms(r)
  BY DEF RfAppendStep, RfAppends, RfEraseFails, RfProgramFails, Results
<1> QED  BY <1>3, <1>4, <1>5, <1>6

(* Every other step keeps the types.                                       *)
LEMMA TypeNext ==
    ASSUME TypeInv, [Next]_vars, ~RfAppendStep
    PROVE  TypeInv'
<1>0. flash \in Flashes /\ cli \in CliTypes /\ Staged(cli) /\ confirms \in Seq(Results)
  BY DEF TypeInv
<1>1. CASE RfOpen \/ RfTuneFails
  BY <1>0, <1>1 DEF RfOpen, RfTuneFails, TypeInv
<1>2. CASE RfReady
  <2>1. flash' = flash /\ cli' = cli  BY <1>2 DEF RfReady
  <2>2. confirms' \in Seq(Results)  BY <1>0, <1>2, OneMore DEF RfReady, Results
  <2> QED  BY <1>0, <2>1, <2>2 DEF TypeInv
<1>3. CASE CliReady
  <2>1. /\ flash' = flash /\ confirms' = confirms
        /\ cli' = IF BecomesReady("cli") THEN Call("confirm") ELSE Idle
    BY <1>3 DEF CliReady
  <2> QED  BY <1>0, <2>1, IdleType DEF TypeInv, Outside
<1>4. CASE CliOpenFails \/ CliTx \/ CliTxDone
  <2>1. /\ flash' = flash /\ confirms' = confirms
        /\ cli' \in {[Idle EXCEPT !.step = "dead"], [Idle EXCEPT !.step = "tx"], Idle}
    BY <1>4 DEF CliOpenFails, CliTx, CliTxDone, CliLocal
  <2> QED  BY <1>0, <2>1, IdleType DEF TypeInv, Outside
<1>5. CASE CliRequest
  BY <1>0, <1>5, IdleType DEF CliRequest, TypeInv
<1>6. CASE CliScan
  BY <1>0, <1>6, ScanFields DEF CliScan, CliLocal, TypeInv
<1>7. CASE CliScanned
  BY <1>0, <1>7, ScannedFields DEF CliScanned, CliLocal, TypeInv
<1>8. CASE CliChoose
  BY <1>0, <1>8, ChooseFields DEF CliChoose, CliLocal, TypeInv
<1>9. CASE CliCopy
  <2>1. CASE Return("error")
    BY <1>0, <1>9, <2>1, CopyFields, ReturnType DEF Results
  <2>2. CASE ~Return("error")
    BY <1>0, <1>9, <2>2, CopyFields DEF TypeInv
  <2> QED  BY <2>1, <2>2
<1>10. CASE CliNumber
  BY <1>0, <1>10, NumberFields DEF CliNumber, CliLocal, TypeInv
<1>11. CASE CliSlot
  BY <1>0, <1>11, SlotFields DEF CliSlot, CliLocal, TypeInv
<1>12. CASE CliErase
  <2>1. cli.step = "erase" /\ flash' = ErasedPage(flash, cli.at[1]) /\ confirms' = confirms
    BY <1>12 DEF CliErase, CliStep
  <2>2. cli.at[1] \in Pages  BY <1>0 DEF CliTypes
  <2>3. flash' \in Flashes  BY <1>0, <2>1, <2>2, FlashTypes
  <2>4. Staged(cli')
    BY <1>0, <1>12, <2>1, WritingFields DEF Staged, Calls
  <2> QED  BY <1>0, <1>12, <2>1, <2>3, <2>4, WritingFields DEF TypeInv
<1>13. CASE CliBody
  <2>1. cli.step = "body" /\ flash' = Programmed(flash, cli.at, Garbage) /\ confirms' = confirms
    BY <1>13 DEF CliBody, CliStep
  <2>2. cli.at \in Pointers  BY <1>0, <2>1 DEF Staged
  <2>3. flash' \in Flashes  BY <1>0, <2>1, <2>2, FlashTypes
  <2>4. Staged(cli')  BY <1>0, <1>13, <2>1, WritingFields DEF Staged, Calls
  <2> QED  BY <1>0, <1>13, <2>1, <2>3, <2>4, WritingFields DEF TypeInv
<1>14. CASE CliCrc
  <2>1. cli.step = "crc" /\ flash' = AfterCrc /\ Return("ok")  BY <1>14 DEF CliCrc, CliStep
  <2> QED  BY <2>1, CrcType, ReturnType DEF Results
<1>15. CASE CliFlashFails
  BY <1>15, FailsType, ReturnType DEF Results
<1>16. CASE UNCHANGED vars
  BY <1>0, <1>16 DEF vars, TypeInv
<1> QED
  BY <1>1, <1>2, <1>3, <1>4, <1>5, <1>6, <1>7, <1>8, <1>9, <1>10, <1>11, <1>12, <1>13,
     <1>14, <1>15, <1>16 DEF Next, RfAppendStep

-----------------------------------------------------------------------------
(* Readiness and the one confirmation *)

\* The confirmation under way and those that returned.
Confirmations == Len(confirms) + (IF cli.call = "confirm" THEN 1 ELSE 0)

ReadyInv ==
    /\ ready \subseteq {"rf", "cli"}
    /\ "rf" \in ready <=> rf = "ready"
    /\ "cli" \in ready <=> cli.step \notin {"start", "dead"}
    /\ attempted \in BOOLEAN /\ (attempted <=> ready = {"rf", "cli"})
    /\ Confirmations = IF attempted THEN 1 ELSE 0
    /\ rf \in {"tuning", "ready"} => handle
    /\ cli.step = "tx" => handle

(* Nothing is ready and nothing is confirmed at the start.                 *)
LEMMA ReadyInit == Init => ReadyInv
<1> SUFFICES ASSUME Init PROVE ReadyInv  OBVIOUS
<1>1. cli.step = "start" /\ cli.call = "none"  BY IdleType DEF Init, Outside
<1>2. Len(confirms) = 0  BY EmptySeq DEF Init
<1>3. ready = {} /\ ~attempted /\ attempted \in BOOLEAN /\ rf = "start"  BY DEF Init
<1>4. ready # {"rf", "cli"} /\ Confirmations = 0  BY <1>1, <1>2, <1>3 DEF Confirmations
<1> HIDE DEF Confirmations
<1> QED  BY <1>1, <1>3, <1>4 DEF ReadyInv

(* The radio thread's call of firmwareStartupMarkRfReady.                  *)
LEMMA RfReportsReady ==
    ASSUME TypeInv, ReadyInv, RfReports,
           cli'.step = cli.step, cli'.call = cli.call,
           IF BecomesReady("rf") THEN \E r \in Results : confirms' = Append(confirms, r)
           ELSE confirms' = confirms
    PROVE  ReadyInv'
<1>1. /\ rf = "tuning" /\ rf' = "ready" /\ ready' = ready \cup {"rf"}
      /\ attempted' = (attempted \/ BecomesReady("rf"))
      /\ handle' = handle
  BY DEF RfReports
<1>2. "rf" \notin ready /\ ~attempted  BY <1>1 DEF ReadyInv
<1>3. /\ (attempted' <=> ready' = {"rf", "cli"}) /\ attempted' \in BOOLEAN
      /\ BecomesReady("rf") <=> ready' = {"rf", "cli"}
  BY <1>1, <1>2 DEF BecomesReady
<1>4. Len(confirms) = 0 /\ cli.call # "confirm" /\ confirms \in Seq(Results)
  <2>1. Confirmations = 0 /\ confirms \in Seq(Results)  BY <1>2 DEF ReadyInv, TypeInv
  <2>2. Len(confirms) \in Nat  BY <2>1, LenProperties
  <2> QED  BY <2>1, <2>2 DEF Confirmations
<1>5. Confirmations' = IF attempted' THEN 1 ELSE 0
  <2>1. CASE BecomesReady("rf")
    <3>1. PICK r \in Results : confirms' = Append(confirms, r)  BY <2>1
    <3>2. Len(confirms') = 1  BY <3>1, <1>4, OneMore
    <3> QED  BY <1>3, <1>4, <2>1, <3>2 DEF Confirmations
  <2>2. CASE ~BecomesReady("rf")
    BY <1>3, <1>4, <2>2 DEF Confirmations
  <2> QED  BY <2>1, <2>2
<1>6. /\ ready' \subseteq {"rf", "cli"} /\ "rf" \in ready'
      /\ "cli" \in ready' <=> "cli" \in ready
  BY <1>1 DEF ReadyInv
<1>7. handle  BY <1>1 DEF ReadyInv
<1> HIDE DEF Confirmations
<1> QED  BY <1>1, <1>3, <1>5, <1>6, <1>7 DEF ReadyInv

(* The CLI thread's call of firmwareStartupMarkCliReady.                   *)
LEMMA CliReadyReady ==
    ASSUME TypeInv, ReadyInv, CliReady
    PROVE  ReadyInv'
<1>1. /\ cli.step = "start" /\ ready' = ready \cup {"cli"} /\ rf \in {"tuning", "ready"}
      /\ attempted' = (attempted \/ BecomesReady("cli"))
      /\ rf' = rf /\ handle' = handle /\ confirms' = confirms
      /\ cli' = IF BecomesReady("cli") THEN Call("confirm") ELSE Idle
  BY DEF CliReady, CliStep, CliRuns
<1>2. "cli" \notin ready /\ ~attempted /\ cli.call = "none"
  BY <1>1 DEF ReadyInv, TypeInv, Staged, Calls
<1>3. /\ (attempted' <=> ready' = {"rf", "cli"}) /\ attempted' \in BOOLEAN
      /\ BecomesReady("cli") <=> ready' = {"rf", "cli"}
  BY <1>1, <1>2 DEF BecomesReady
<1>4. Len(confirms) = 0
  <2>1. Confirmations = 0 /\ confirms \in Seq(Results)  BY <1>2 DEF ReadyInv, TypeInv
  <2>2. Len(confirms) \in Nat  BY <2>1, LenProperties
  <2> QED  BY <2>1, <2>2 DEF Confirmations
<1>5. /\ cli'.step \in {"scan", "idle"}
      /\ cli'.call = IF BecomesReady("cli") THEN "confirm" ELSE "none"
  BY <1>1, IdleType DEF Outside
<1>6. Confirmations' = IF attempted' THEN 1 ELSE 0
  BY <1>1, <1>3, <1>4, <1>5 DEF Confirmations
<1>7. /\ ready' \subseteq {"rf", "cli"} /\ "cli" \in ready'
      /\ "rf" \in ready' <=> "rf" \in ready
  BY <1>1 DEF ReadyInv
<1>8. handle  BY <1>1 DEF ReadyInv
<1> HIDE DEF Confirmations
<1> QED  BY <1>1, <1>3, <1>5, <1>6, <1>7, <1>8 DEF ReadyInv

(* A call of the CLI thread that ends: its result is counted.              *)
LEMMA ReturnReady ==
    ASSUME TypeInv, ReadyInv, NEW result \in Results, Return(result),
           cli.step \in Calls,
           UNCHANGED <<rf, handle, ready, attempted>>
    PROVE  ReadyInv'
<1>1. cli'.call = "none" /\ cli'.step \in {"idle", "reset"}
  BY IdleType DEF Return, Outside
<1>2. confirms \in Seq(Results) /\ Confirmations = IF attempted THEN 1 ELSE 0
  BY DEF ReadyInv, TypeInv
<1>3. confirms' = IF cli.call = "confirm" THEN Append(confirms, result) ELSE confirms
  BY DEF Return
<1>4. Confirmations' = Confirmations
  BY <1>1, <1>2, <1>3, OneMore DEF Confirmations
<1> HIDE DEF Confirmations
<1>5. "cli" \in ready  BY DEF ReadyInv, Calls
<1> QED  BY <1>1, <1>2, <1>4, <1>5 DEF ReadyInv

(* The steps of the CLI thread that neither start nor end a confirmation.  *)
LEMMA QuietReady ==
    ASSUME ReadyInv,
           cli'.call = "confirm" <=> cli.call = "confirm",
           cli'.step \in {"start", "dead"} <=> cli.step \in {"start", "dead"},
           cli'.step = "tx" => handle,
           UNCHANGED <<rf, handle, ready, attempted, confirms>>
    PROVE  ReadyInv'
<1>1. Confirmations' = Confirmations  BY DEF Confirmations
<1> HIDE DEF Confirmations
<1> QED  BY <1>1 DEF ReadyInv

(* Every step keeps the readiness invariant.                               *)
LEMMA ReadyNext ==
    ASSUME TypeInv, ReadyInv, [Next]_vars
    PROVE  ReadyInv'
<1>0. cli.call # "none" <=> cli.step \in Calls  BY DEF TypeInv, Staged
<1>1. CASE RfOpen \/ RfTuneFails
  <2>1. /\ cli' = cli /\ ready' = ready /\ attempted' = attempted /\ confirms' = confirms
        /\ rf \in {"start", "tuning"} /\ rf' \in {"tuning", "dead"}
        /\ rf' = "tuning" => handle'
        /\ handle => handle'
    BY <1>1 DEF RfOpen, RfTuneFails
  <2>2. Confirmations' = Confirmations  BY <2>1 DEF Confirmations
  <2> HIDE DEF Confirmations
  <2> QED  BY <2>1, <2>2 DEF ReadyInv
<1>2. CASE RfReady
  BY <1>2, RfReportsReady DEF RfReady, Results
<1>3. CASE RfAppendStep
  <2>1. PICK r \in Results : RfConfirms(r)  BY <1>3, RfFields
  <2>2. BecomesReady("rf") /\ RfReports /\ confirms' = Append(confirms, r)
    BY <2>1 DEF RfConfirms
  <2>3. cli'.step = cli.step /\ cli'.call = cli.call  BY <1>3, RfFields
  <2> QED  BY <2>2, <2>3, RfReportsReady
<1>4. CASE CliReady  BY <1>4, CliReadyReady
<1>5. CASE CliOpenFails \/ CliTx \/ CliTxDone
  <2>1. /\ cli.step \in Outside
        /\ \E s \in {"dead", "tx", "idle"} :
              /\ cli' = [Idle EXCEPT !.step = s]
              /\ cli.step \in {"start", "dead"} <=> s = "dead"
        /\ rf \in {"tuning", "ready"}
        /\ UNCHANGED <<rf, handle, ready, attempted, confirms>>
    <3>1. CASE CliOpenFails  BY <3>1 DEF CliOpenFails, CliStep, CliRuns, Outside
    <3>2. CASE CliTx  BY <3>2 DEF CliTx, CliLocal, CliStep, CliRuns, Outside
    <3>3. CASE CliTxDone
      BY <3>3, IdleType DEF CliTxDone, CliLocal, CliStep, CliRuns, Outside
    <3> QED  BY <1>5, <3>1, <3>2, <3>3
  <2>2. PICK s \in {"dead", "tx", "idle"} :
           /\ cli' = [Idle EXCEPT !.step = s]
           /\ cli.step \in {"start", "dead"} <=> s = "dead"
    BY <2>1
  <2>3. cli.call = "none" /\ cli'.call = "none" /\ cli'.step = s
    BY <1>0, <2>1, <2>2, IdleType DEF Calls, Outside
  <2>4. handle  BY <2>1 DEF ReadyInv
  <2> QED  BY <2>1, <2>2, <2>3, <2>4, QuietReady
<1>6. CASE CliRequest
  <2>1. /\ cli.step = "idle" /\ cli' = Call("request")
        /\ UNCHANGED <<rf, handle, ready, attempted, confirms>>
    BY <1>6 DEF CliRequest, CliStep
  <2>2. cli.call = "none" /\ cli'.call = "request" /\ cli'.step = "scan"
    BY <1>0, <2>1, IdleType DEF Calls
  <2> QED  BY <2>1, <2>2, QuietReady
<1>7. CASE \/ CliScan \/ CliScanned \/ CliChoose \/ CliNumber \/ CliSlot
           \/ CliErase \/ CliBody
  <2>1. /\ cli'.call = cli.call
        /\ cli.step \in Calls /\ cli'.step \in Calls
        /\ UNCHANGED <<rf, handle, ready, attempted, confirms>>
    <3>1. CASE CliScan  BY <3>1, ScanFields DEF CliScan, CliLocal, CliStep, Calls
    <3>2. CASE CliScanned  BY <3>2, ScannedFields DEF CliScanned, CliLocal, CliStep, Calls
    <3>3. CASE CliChoose  BY <3>3, ChooseFields DEF CliChoose, CliLocal, CliStep, Calls
    <3>4. CASE CliNumber  BY <3>4, NumberFields DEF CliNumber, CliLocal, CliStep, Calls
    <3>5. CASE CliSlot  BY <3>5, SlotFields DEF CliSlot, CliLocal, CliStep, Calls
    <3>6. CASE CliErase  BY <3>6, WritingFields DEF CliErase, CliStep, Calls
    <3>7. CASE CliBody  BY <3>7, WritingFields DEF CliBody, CliStep, Calls
    <3> QED  BY <1>7, <3>1, <3>2, <3>3, <3>4, <3>5, <3>6, <3>7
  <2> QED  BY <2>1, QuietReady DEF Calls
<1>8. CASE CliCopy
  <2>1. UNCHANGED <<rf, handle, ready, attempted>>  BY <1>8 DEF CliCopy, CliStep
  <2>2. CASE Return("error")
    BY <1>8, <2>1, <2>2, CopyFields, ReturnReady DEF Calls, Results
  <2>3. CASE ~Return("error")
    BY <1>8, <2>1, <2>3, CopyFields, QuietReady
  <2> QED  BY <2>2, <2>3
<1>9. CASE CliCrc
  <2>1. /\ cli.step = "crc" /\ Return("ok") /\ UNCHANGED <<rf, handle, ready, attempted>>
    BY <1>9 DEF CliCrc, CliStep
  <2> QED  BY <2>1, ReturnReady DEF Results, Calls
<1>10. CASE CliFlashFails
  <2>1. /\ cli.step \in {"erase", "body", "crc"} /\ Return("error")
        /\ UNCHANGED <<rf, handle, ready, attempted>>
    BY <1>10 DEF CliFlashFails, CliStep
  <2> QED  BY <2>1, ReturnReady DEF Results, Calls
<1>11. CASE UNCHANGED vars
  <2>1. UNCHANGED <<cli, rf, handle, ready, attempted, confirms>>  BY <1>11 DEF vars
  <2>2. Confirmations' = Confirmations  BY <2>1 DEF Confirmations
  <2> HIDE DEF Confirmations
  <2> QED  BY <2>1, <2>2 DEF ReadyInv
<1> QED  BY <1>1, <1>2, <1>3, <1>4, <1>5, <1>6, <1>7, <1>8, <1>9, <1>10, <1>11
         DEF Next, RfAppendStep

-----------------------------------------------------------------------------
(* Numbers far below the turn of the comparison *)

Small(fl, m) ==
    \A t \in Pointers : isValidRecord(At(fl, t)) => At(fl, t).seq <= m

\* The room left for the command under way and for the radio thread.
Limit(c, radio) ==
    (SeqHalf - 4) + (IF c.step \in Calls \cup {"start"} THEN 0 ELSE 1)
                  + (IF radio = "ready" THEN 1 ELSE 0)

Writing == {"slot", "erase", "body", "crc"}

NumbersSmall(fl, c, radio) ==
    /\ Small(fl, Limit(c, radio))
    /\ c.step \in Writing => c.record.seq <= Limit(c, radio) + 1

LEMMA LimitType ==
    ASSUME NEW c, NEW radio
    PROVE  Limit(c, radio) \in (SeqHalf - 4) .. (SeqHalf - 2)
BY Constants DEF Limit

(* Among such numbers newer is greater, and the all ones of an erased slot *)
(* are older than any.                                                     *)
LEMMA SmallOrder ==
    ASSUME NEW a \in Seqs, a <= SeqHalf - 2, NEW b \in Seqs, b <= SeqHalf - 2
    PROVE  /\ isSequenceNewer(a, b) <=> a > b
           /\ ~isSequenceNewer(SeqMod - 1, b)
           /\ isSequenceNewer(a, SeqMod - 1)
           /\ NextSeq(a) = a + 1
BY Constants DEF isSequenceNewer, Behind, NextSeq

-----------------------------------------------------------------------------
(* What the CLI thread's pointers are worth while the journal may change   *)

\* The reader gets to a valid record in slot t.
Seen(fl, t) ==
    /\ t \in Pointers
    /\ isValidRecord(At(fl, t))
    /\ \A j \in 0 .. t[2] : fl[t[1]][j] # Erased

Before(t, u) == t[1] < u[1] \/ (t[1] = u[1] /\ t[2] < u[2])

\* The scan has been at slot t.
Looked(c, t) == c.step = "choose" \/ Before(t, c.at)

AtRec(fl, c) == c.at[2] < N /\ At(fl, c.at) # Erased

\* A pointer of the scan leads to a record the reader gets to, or to a slot
\* erased since; in a page where that happened the scan is at its end.
FoundFits(fl, c, p) ==
    c.found[p] # None =>
        /\ c.found[p][1] = p
        /\ \/ Seen(fl, c.found[p])
           \/ /\ At(fl, c.found[p]) = Erased
              /\ c.step = "choose" \/ p < c.at[1] \/ (p = c.at[1] /\ ~AtRec(fl, c))

\* One such record is found or still ahead of the scan.
Promise(fl, c) ==
    \E t \in Pointers : Seen(fl, t) /\ (c.found[t[1]] = t \/ ~Looked(c, t))

\* What lies behind a scan that goes on is not erased.
ScanClear(fl, c) ==
    (c.step = "scan" /\ AtRec(fl, c)) =>
        \A j \in Slots : j < c.at[2] => fl[c.at[1]][j] # Erased

KeptFound(fl, c) ==
    c.step \in {"scan", "choose"} =>
        /\ \A p \in Pages : FoundFits(fl, c, p)
        /\ ScanClear(fl, c)
        /\ Promise(fl, c)

Chose == {"copy", "number", "slot", "erase", "body", "crc"}

KeptNewest(fl, c) ==
    /\ c.step \in Chose => Seen(fl, c.newest)
    /\ c.step = "erase" => c.at[1] # c.newest[1]
    /\ c.step \in {"body", "crc"} => c.at # c.newest

Kept(fl, c) ==
    /\ HasRecord(fl)
    /\ KeptFound(fl, c)
    /\ KeptNewest(fl, c)

(* The reader's view of a slot.                                            *)
LEMMA SeenVisible ==
    ASSUME NEW fl
    PROVE  /\ HasRecord(fl) <=> \E t \in Pointers : Seen(fl, t)
           /\ \A p \in Pages, i \in Slots : i \in Visible(fl, p) <=> Seen(fl, <<p, i>>)
<1>1. \A p \in Pages, i \in Slots : i \in Visible(fl, p) <=> Seen(fl, <<p, i>>)
  BY DEF Visible, Scanned, Seen, At, Pointers
<1>2. \A t \in Pointers : t[1] \in Pages /\ t[2] \in Slots /\ t = <<t[1], t[2]>>
  BY DEF Pointers
<1>3. \A p \in Pages : Visible(fl, p) \subseteq Slots  BY DEF Visible, Scanned
<1>4. ASSUME HasRecord(fl) PROVE \E t \in Pointers : Seen(fl, t)
  <2>1. PICK p \in Pages, i \in Slots : i \in Visible(fl, p)
    BY <1>3, <1>4 DEF HasRecord
  <2> QED  BY <1>1, <2>1 DEF Seen
<1>5. ASSUME NEW t \in Pointers, Seen(fl, t) PROVE HasRecord(fl)
  BY <1>1, <1>2, <1>5 DEF HasRecord
<1> QED  BY <1>1, <1>4, <1>5

(* The parts of a pointer.                                                 *)
LEMMA PointerParts ==
    /\ \A t \in Pointers : /\ t[1] \in Pages /\ t[2] \in Slots /\ t = <<t[1], t[2]>>
                           /\ t[1] \in 0 .. 1 /\ t[2] \in Nat /\ t[2] < N
    /\ \A t, u \in Pointers : t[1] = u[1] /\ t[2] = u[2] => t = u
    /\ \A c \in CliTypes : c.at[1] \in 0 .. 1 /\ c.at[2] \in 0 .. N
    /\ \A c \in CliTypes : c.at[1] \in Pages
<1>1. \A t \in Pointers : t[1] \in Pages /\ t[2] \in Slots /\ t = <<t[1], t[2]>>
  BY DEF Pointers
<1>2. \A c \in CliTypes : c.at \in Pages \X (0 .. N)  BY DEF CliTypes
<1> QED  BY <1>1, <1>2, Constants

(* A write somewhere else leaves a record in sight.                        *)
LEMMA SeenWritten ==
    ASSUME NEW fl \in Flashes, NEW t, Seen(fl, t), NEW u \in Pointers, u # t,
           NEW c \in Contents, c # Erased
    PROVE  Seen(Written(fl, u[1], u[2], c), t)
<1> DEFINE fl2 == Written(fl, u[1], u[2], c)
<1>1. t \in Pointers  BY DEF Seen
<1>2. /\ fl2[u[1]][u[2]] = c
      /\ \A q \in Pages, j \in Slots : ~(q = u[1] /\ j = u[2]) => fl2[q][j] = fl[q][j]
  BY PointerParts, WrittenSlot
<1>3. At(fl2, t) = At(fl, t)  BY <1>1, <1>2, PointerParts DEF At
<1>4. \A j \in 0 .. t[2] : j \in Slots  BY <1>1, PointerParts, Constants
<1>5. \A j \in 0 .. t[2] : fl2[t[1]][j] # Erased
  BY <1>1, <1>2, <1>4, PointerParts DEF Seen
<1> HIDE DEF fl2
<1> QED  BY <1>1, <1>3, <1>5 DEF Seen, fl2

(* So does whatever happens to the other page.                             *)
LEMMA SeenPage ==
    ASSUME NEW fl, NEW fl2, NEW t, Seen(fl, t), fl2[t[1]] = fl[t[1]]
    PROVE  Seen(fl2, t)
BY DEF Seen, At

(* An erased or partly erased page, and the page beside it.                *)
LEMMA ErasedFacts ==
    ASSUME NEW fl \in Flashes, NEW p \in Pages
    PROVE  /\ \A q \in Pages : q # p => ErasedPage(fl, p)[q] = fl[q]
           /\ \A i \in Slots : ErasedPage(fl, p)[p][i] = Erased
           /\ \A fl2 \in PartlyErased(fl, p) :
                /\ \A q \in Pages : q # p => fl2[q] = fl[q]
                /\ \A i \in Slots : fl2[p][i] \in {fl[p][i], Erased, Garbage}
<1>1. /\ \A q \in Pages : q # p => ErasedPage(fl, p)[q] = fl[q]
      /\ \A i \in Slots : ErasedPage(fl, p)[p][i] = Erased
  BY DEF ErasedPage, Flashes
<1>2. ASSUME NEW fl2 \in PartlyErased(fl, p)
      PROVE  /\ \A q \in Pages : q # p => fl2[q] = fl[q]
             /\ \A i \in Slots : fl2[p][i] \in {fl[p][i], Erased, Garbage}
  <2>1. PICK fate \in [Slots -> {"kept", Erased, Garbage}] :
          fl2 = [fl EXCEPT ![p] = [i \in Slots |->
                              IF fate[i] = "kept" THEN fl[p][i] ELSE fate[i]]]
    BY <1>2 DEF PartlyErased
  <2> QED  BY <2>1 DEF Flashes
<1> QED  BY <1>1, <1>2

-----------------------------------------------------------------------------
(* The CLI thread keeps it, one step of its call after the other *)

(* A scan that begins has everything ahead.                                *)
LEMMA KeptCall ==
    ASSUME NEW fl, NEW c \in CliTypes, HasRecord(fl),
           c.step = "scan", c.at = <<Primary, 0>>,
           \A p \in Pages : c.found[p] = None
    PROVE  Kept(fl, c)
<1>1. PICK t \in Pointers : Seen(fl, t)  BY SeenVisible
<1>2. ~Before(t, c.at)  BY PointerParts, Constants DEF Before
<1>3. Promise(fl, c)  BY <1>1, <1>2 DEF Promise, Looked
<1>4. \A j \in Slots : ~(j < c.at[2])  BY Constants
<1> QED  BY <1>3, <1>4 DEF Kept, KeptFound, KeptNewest, FoundFits, ScanClear, Chose

(* Outside the scan and the append there is nothing to keep.               *)
LEMMA KeptOutside ==
    ASSUME NEW fl, NEW c, HasRecord(fl), c.step \in Outside
    PROVE  Kept(fl, c)
BY DEF Kept, KeptFound, KeptNewest, Chose, Outside

(* Numbers read through a pointer to a record in sight.                    *)
LEMMA SeenNumber ==
    ASSUME NEW fl \in Flashes, NEW t, Seen(fl, t)
    PROVE  /\ NumbersAt(fl, t) = {At(fl, t).seq}
           /\ ValuesAt(fl, t) = {At(fl, t).val}
           /\ t # None /\ t \in Pointers
           /\ At(fl, t) \in Records /\ At(fl, t).seq \in Seqs /\ At(fl, t).val \in Metadata
<1>1. t \in Pointers /\ t # None /\ isValidRecord(At(fl, t))
  BY Constants DEF Seen
<1>2. At(fl, t) \in Records  BY <1>1, ReadType, RecordFacts
<1> QED  BY <1>1, <1>2, Constants DEF NumbersAt, ValuesAt, Records

LEMMA KeptScan ==
    ASSUME TypeInv, CliScan, Kept(flash, cli)
    PROVE  Kept(flash, cli')
<1>1. /\ cli.step = "scan" /\ AtRecord /\ cli.at \in Pointers
      /\ cli \in CliTypes /\ cli' \in CliTypes /\ flash \in Flashes
      /\ cli'.step = "scan" /\ cli'.at = Following(cli.at)
  BY ScanFields DEF TypeInv
<1> DEFINE p == cli.at[1]
           e == cli'.found[p]
<1>2. /\ p \in Pages
      /\ \A q \in Pages : q # p => cli'.found[q] = cli.found[q]
      /\ e \in {cli.at, cli.found[p]}
      /\ e = cli.at => isValidRecord(At(flash, cli.at)) \/ cli.found[p] = cli.at
      /\ cli.found[p] = None /\ isValidRecord(At(flash, cli.at)) => e = cli.at
  <2>1. p \in Pages /\ cli.found \in [Pages -> Pointers \cup {None}]
    BY <1>1, PointerParts DEF CliTypes
  <2>2. PICK s \in NumbersAt(flash, cli.found[cli.at[1]]) :
          cli'.found = [cli.found EXCEPT ![cli.at[1]] =
             IF /\ isValidRecord(At(flash, cli.at))
                /\ \/ cli.found[cli.at[1]] = None
                   \/ isSequenceNewer(At(flash, cli.at).seq, s)
                   \/ At(flash, cli.at).seq = s
             THEN cli.at ELSE cli.found[cli.at[1]]]
    BY ScanFields
  <2> QED  BY <2>1, <2>2
<1>3. /\ \A q \in Pages : FoundFits(flash, cli, q)
      /\ ScanClear(flash, cli) /\ Promise(flash, cli)
  BY <1>1 DEF Kept, KeptFound
<1>4. /\ cli'.at[1] = p /\ cli'.at[2] = cli.at[2] + 1
      /\ p \in 0 .. 1 /\ cli.at[2] \in Nat /\ cli.at[2] < N /\ AtRec(flash, cli)
  BY <1>1, PointerParts DEF Following, AtRecord, AtRec
<1>5. cli.found[p] # None => Seen(flash, cli.found[p]) /\ cli.found[p][1] = p
  BY <1>1, <1>2, <1>3, <1>4 DEF FoundFits
<1> HIDE DEF p, e
<1>6. \A j \in Slots : j < cli.at[2] + 1 => flash[p][j] # Erased
  <2>1. \A j \in Slots : j < cli.at[2] => flash[p][j] # Erased
    BY <1>1, <1>3, <1>4 DEF ScanClear, p
  <2>2. flash[p][cli.at[2]] # Erased  BY <1>4 DEF AtRec, At, p
  <2> QED  BY <1>4, <2>1, <2>2, Constants
<1>7. isValidRecord(At(flash, cli.at)) => Seen(flash, cli.at)
  BY <1>1, <1>4, <1>6, Constants DEF Seen, p
<1>8. e # None => Seen(flash, e) /\ e[1] = p
  BY <1>2, <1>5, <1>7 DEF p
<1>9. ASSUME NEW q \in Pages PROVE FoundFits(flash, cli', q)
  <2>1. CASE q = p  BY <1>8, <2>1 DEF FoundFits, e
  <2>2. CASE q # p
    <3>1. cli'.found[q] = cli.found[q] /\ FoundFits(flash, cli, q)  BY <1>2, <1>3, <2>2
    <3> QED  BY <1>1, <1>4, <2>2, <3>1 DEF FoundFits, p
  <2> QED  BY <2>1, <2>2
<1>10. ScanClear(flash, cli')  BY <1>4, <1>6 DEF ScanClear
<1>11. PICK t \in Pointers : Seen(flash, t) /\ (cli.found[t[1]] = t \/ ~Looked(cli, t))
  BY <1>3 DEF Promise
<1>12. Promise(flash, cli')
  <2>1. CASE e # None  BY <1>8, <2>1 DEF Promise, e, Seen
  <2>2. CASE e = None
    <3>1. cli.found[p] = None /\ ~isValidRecord(At(flash, cli.at))
      BY <1>1, <1>2, <2>2, Constants
    <3>2. t # cli.at  BY <1>11, <3>1 DEF Seen
    <3>3. CASE cli.found[t[1]] = t
      <4>1. t[1] # p  BY <3>1, <3>3, Constants
      <4> QED  BY <1>2, <1>11, <3>3, <4>1, PointerParts DEF Promise
    <3>4. CASE ~Looked(cli, t)
      <4>1. ~Before(t, cli.at)  BY <1>1, <3>4 DEF Looked
      <4>2. t[1] # p \/ t[2] # cli.at[2]  BY <1>1, <3>2, PointerParts DEF p
      <4>3. ~Before(t, cli'.at)
        BY <1>4, <4>1, <4>2, PointerParts DEF Before, p
      <4> QED  BY <1>1, <1>11, <4>3 DEF Promise, Looked
    <3> QED  BY <1>11, <3>3, <3>4
  <2> QED  BY <2>1, <2>2
<1> QED  BY <1>1, <1>9, <1>10, <1>12 DEF Kept, KeptFound, KeptNewest, Chose

LEMMA KeptScanned ==
    ASSUME TypeInv, CliScanned, Kept(flash, cli)
    PROVE  Kept(flash, cli')
<1>1. /\ cli.step = "scan" /\ ~AtRecord /\ cli'.found = cli.found
      /\ cli.at[1] = Primary => cli'.step = "scan" /\ cli'.at = <<Secondary, 0>>
      /\ cli.at[1] # Primary => cli'.step = "choose" /\ cli'.at = cli.at
      /\ cli \in CliTypes
  BY ScannedFields DEF TypeInv
<1>2. /\ \A q \in Pages : FoundFits(flash, cli, q)
      /\ HasRecord(flash)
  BY <1>1 DEF Kept, KeptFound
<1>3. PICK t \in Pointers : Seen(flash, t) /\ (cli.found[t[1]] = t \/ ~Looked(cli, t))
  BY <1>1 DEF Kept, KeptFound, Promise
<1>4. cli.at[1] \in 0 .. 1 /\ cli.at[2] \in 0 .. N /\ N \in Nat
  BY <1>1, PointerParts, Constants
\* A record in sight in this page lies behind the scan.
<1>5. t[1] = cli.at[1] => t[2] < cli.at[2]
  <2> SUFFICES ASSUME t[1] = cli.at[1], ~(t[2] < cli.at[2]) PROVE FALSE  OBVIOUS
  <2>1. t[2] \in Nat /\ t[2] < N  BY PointerParts
  <2>2. cli.at[2] < N /\ cli.at[2] \in 0 .. t[2]  BY <1>4, <2>1
  <2>3. At(flash, cli.at) # Erased  BY <1>3, <2>2 DEF Seen, At
  <2> QED  BY <1>1, <2>2, <2>3 DEF AtRecord
<1>6. \A q \in Pages : FoundFits(flash, cli', q)
  BY <1>1, <1>2, <1>4, Constants DEF FoundFits
<1>7. ScanClear(flash, cli')
  <2>1. \A j \in Slots : ~(j < 0)  BY Constants
  <2> QED  BY <1>1, <2>1 DEF ScanClear
<1>8. cli.found[t[1]] = t \/ ~Looked(cli', t)
  <2> SUFFICES ASSUME ~Looked(cli, t), Looked(cli', t) PROVE FALSE  BY <1>3
  <2>1. ~Before(t, cli.at)  BY <1>1 DEF Looked
  <2>2. t[1] > cli.at[1]  BY <1>4, <1>5, <2>1, PointerParts DEF Before
  <2>3. cli.at[1] = 0 /\ t[1] = 1  BY <1>4, <2>2, PointerParts
  <2>4. cli'.step = "scan" /\ cli'.at = <<1, 0>>  BY <1>1, <2>3, Constants
  <2>5. ~Before(t, cli'.at)  BY <2>3, <2>4, PointerParts DEF Before
  <2> QED  BY <2>4, <2>5 DEF Looked
<1>9. Promise(flash, cli')  BY <1>1, <1>3, <1>8 DEF Promise
<1>10. cli'.step \in {"scan", "choose"}  BY <1>1
<1> QED  BY <1>2, <1>6, <1>7, <1>9, <1>10 DEF Kept, KeptFound, KeptNewest, Chose

(* The comparison through both pointers prefers a record in sight to a     *)
(* slot erased since.                                                      *)
LEMMA KeptChoose ==
    ASSUME TypeInv, CliChoose, Kept(flash, cli), Small(flash, SeqHalf - 2)
    PROVE  Kept(flash, cli')
<1>1. /\ cli.step = "choose" /\ cli \in CliTypes /\ flash \in Flashes
      /\ cli'.step \in {"copy", "number"}
      /\ cli'.newest \in Chosen(flash, cli.found[Primary], cli.found[Secondary])
  BY ChooseFields DEF TypeInv
<1> DEFINE a == cli.found[Primary]
           b == cli.found[Secondary]
<1>2. /\ a # None => Seen(flash, a) \/ (At(flash, a) = Erased /\ a \in Pointers)
      /\ b # None => Seen(flash, b) \/ (At(flash, b) = Erased /\ b \in Pointers)
      /\ HasRecord(flash)
  BY <1>1, Constants DEF Kept, KeptFound, FoundFits, CliTypes
<1>3. (a # None /\ Seen(flash, a)) \/ (b # None /\ Seen(flash, b))
  <2>1. PICK t \in Pointers : Seen(flash, t) /\ cli.found[t[1]] = t
    BY <1>1 DEF Kept, KeptFound, Promise, Looked
  <2>2. t[1] = Primary \/ t[1] = Secondary  BY PointerParts, Constants
  <2> QED  BY <2>1, <2>2, Constants
<1>4. \A t \in Pointers : Seen(flash, t) =>
         /\ NumbersAt(flash, t) = {At(flash, t).seq}
         /\ At(flash, t).seq \in Seqs /\ At(flash, t).seq <= SeqHalf - 2
  BY <1>1, SeenNumber DEF Small, Seen
<1>5. \A t \in Pointers : At(flash, t) = Erased => NumbersAt(flash, t) = {SeqMod - 1}
  BY Constants, RecordFacts DEF NumbersAt, isValidRecord
<1>6. Seen(flash, cli'.newest)
  <2>1. CASE a = None \/ b = None
    BY <1>1, <1>3, <2>1 DEF Chosen
  <2>2. CASE a # None /\ b # None
    <3>1. PICK s \in NumbersAt(flash, b), f \in NumbersAt(flash, a) :
            cli'.newest = IF isSequenceNewer(s, f) THEN b ELSE a
      BY <1>1, <2>2 DEF Chosen
    <3>2. CASE Seen(flash, a) /\ Seen(flash, b)  BY <3>1, <3>2
    <3>3. CASE Seen(flash, a) /\ ~Seen(flash, b)
      <4>1. s = SeqMod - 1 /\ f \in Seqs /\ f <= SeqHalf - 2
        BY <1>2, <1>4, <1>5, <2>2, <3>1, <3>3 DEF Seen
      <4> QED  BY <3>1, <3>3, <4>1, SmallOrder
    <3>4. CASE ~Seen(flash, a) /\ Seen(flash, b)
      <4>1. f = SeqMod - 1 /\ s \in Seqs /\ s <= SeqHalf - 2
        BY <1>2, <1>4, <1>5, <2>2, <3>1, <3>4 DEF Seen
      <4> QED  BY <3>1, <3>4, <4>1, SmallOrder
    <3> QED  BY <1>3, <3>2, <3>3, <3>4
  <2> QED  BY <2>1, <2>2
<1> QED  BY <1>1, <1>2, <1>6 DEF Kept, KeptFound, KeptNewest

(* The number, and the search for a slot.                                  *)
LEMMA KeptNumber ==
    ASSUME TypeInv, CliNumber, Kept(flash, cli)
    PROVE  Kept(flash, cli')
BY NumberFields DEF Kept, KeptFound, KeptNewest, Chose

LEMMA KeptSlot ==
    ASSUME TypeInv, CliSlot, Kept(flash, cli)
    PROVE  Kept(flash, cli')
<1>1. /\ HasRecord(flash) /\ Seen(flash, cli.newest) /\ cli'.newest = cli.newest
      /\ cli'.step \in {"slot", "body", "erase"}
  BY SlotFields DEF Kept, KeptNewest, Chose
<1>2. cli'.step = "erase" => cli'.at[1] # cli.newest[1]
  <2>1. cli.newest \in Pointers /\ cli.newest # None  BY <1>1, Constants DEF Seen
  <2>2. cli.newest[1] \in {Primary, Secondary}  BY <2>1, PointerParts, Constants
  <2> QED  BY <2>1, <2>2, SlotFields, Constants
<1>3. cli'.step = "body" => cli'.at # cli.newest
  BY <1>1, SlotFields, RecordFacts DEF Seen, isValidRecord
<1> QED  BY <1>1, <1>2, <1>3 DEF Kept, KeptFound, KeptNewest

(* The flash operations.                                                   *)
LEMMA KeptErase ==
    ASSUME TypeInv, CliErase, Kept(flash, cli)
    PROVE  Kept(flash', cli')
<1>1. /\ cli.step = "erase" /\ cli'.step = "body" /\ cli'.at = cli.at
      /\ cli'.newest = cli.newest /\ flash' = ErasedPage(flash, cli.at[1])
      /\ flash \in Flashes /\ cli.at[1] \in Pages
  BY WritingFields, PointerParts DEF CliErase, TypeInv
<1>2. Seen(flash, cli.newest) /\ cli.at[1] # cli.newest[1]
  BY <1>1 DEF Kept, KeptNewest, Chose
<1>3. cli.newest[1] \in Pages  BY <1>2, PointerParts DEF Seen
<1>4. Seen(flash', cli.newest)  BY <1>1, <1>2, <1>3, ErasedFacts, SeenPage
<1>5. HasRecord(flash')  BY <1>4, SeenVisible DEF Seen
<1> QED  BY <1>1, <1>2, <1>4, <1>5 DEF Kept, KeptFound, KeptNewest

LEMMA KeptBody ==
    ASSUME TypeInv, CliBody, Kept(flash, cli)
    PROVE  Kept(flash', cli')
<1>1. /\ cli.step = "body" /\ cli'.step = "crc" /\ cli'.at = cli.at
      /\ cli'.newest = cli.newest /\ flash' = Programmed(flash, cli.at, Garbage)
      /\ flash \in Flashes /\ cli.at \in Pointers
  BY WritingFields DEF CliBody, TypeInv, Staged
<1>2. Seen(flash, cli.newest) /\ cli.at # cli.newest
  BY <1>1 DEF Kept, KeptNewest, Chose
<1>3. flash' = Written(flash, cli.at[1], cli.at[2], Garbage)
  BY <1>1 DEF Programmed
<1>4. Seen(flash', cli.newest)
  BY <1>1, <1>2, <1>3, SeenWritten, RecordFacts, FlashTypes
<1>5. HasRecord(flash')  BY <1>4, SeenVisible DEF Seen
<1> QED  BY <1>1, <1>2, <1>4, <1>5 DEF Kept, KeptFound, KeptNewest

(* The end of an append, whichever operation fails, leaves the record that *)
(* newest points to in sight.                                              *)
LEMMA KeptCrc ==
    ASSUME TypeInv, Kept(flash, cli), cli.step = "crc"
    PROVE  Seen(AfterCrc, cli.newest)
<1>1. /\ flash \in Flashes /\ cli.at \in Pointers /\ cli.record \in Records
      /\ Seen(flash, cli.newest) /\ cli.at # cli.newest
  BY CrcType DEF TypeInv, Kept, KeptNewest, Chose
<1>2. /\ (IF cli.own THEN cli.record ELSE Garbage) \in Contents
      /\ (IF cli.own THEN cli.record ELSE Garbage) # Erased
  BY <1>1, RecordFacts DEF Contents
<1> QED  BY <1>1, <1>2, SeenWritten DEF AfterCrc

LEMMA KeptFails ==
    ASSUME TypeInv, CliFlashFails, Kept(flash, cli)
    PROVE  HasRecord(flash')
<1>1. flash \in Flashes /\ cli \in CliTypes /\ Staged(cli)  BY DEF TypeInv
<1>2. CASE cli.step = "erase" /\ flash' \in PartlyErased(flash, cli.at[1])
  <2>1. Seen(flash, cli.newest) /\ cli.at[1] # cli.newest[1]
    BY <1>2 DEF Kept, KeptNewest, Chose
  <2>2. cli.newest[1] \in Pages /\ cli.at[1] \in Pages
    BY <1>1, <2>1, PointerParts DEF Seen
  <2>3. Seen(flash', cli.newest)  BY <1>1, <1>2, <2>1, <2>2, ErasedFacts, SeenPage
  <2> QED  BY <2>3, SeenVisible DEF Seen
<1>3. CASE cli.step = "body" /\ flash' = Programmed(flash, cli.at, Garbage)
  <2>1. Seen(flash, cli.newest) /\ cli.at # cli.newest /\ cli.at \in Pointers
    BY <1>1, <1>3 DEF Kept, KeptNewest, Chose, Staged
  <2>2. flash' = Written(flash, cli.at[1], cli.at[2], Garbage)  BY <1>3 DEF Programmed
  <2>3. Seen(flash', cli.newest)
    BY <1>1, <2>1, <2>2, SeenWritten, RecordFacts, FlashTypes
  <2> QED  BY <2>3, SeenVisible DEF Seen
<1>4. CASE cli.step = "crc" /\ flash' = AfterCrc
  BY <1>4, KeptCrc, SeenVisible DEF Seen
<1>5. CASE flash' = flash  BY <1>5 DEF Kept
<1> QED  BY <1>2, <1>3, <1>4, <1>5, FailsType

-----------------------------------------------------------------------------
(* What the CLI thread holds while no other append has come in between *)

\* The newest record of all, in sight, lies in slot h.
HomeAt(fl, h) ==
    /\ h \in Pointers
    /\ Home(fl, At(fl, h), h[1], h[2])
    /\ Distinct(fl)

ExactFound(fl, c, h) ==
    c.step \in {"scan", "choose"} =>
        /\ \A p \in Pages : c.found[p] # None =>
              /\ c.found[p][1] = p
              /\ Seen(fl, c.found[p])
              /\ Looked(c, c.found[p])
        /\ Looked(c, h) => c.found[h[1]] = h
        /\ c.step = "scan" => \A j \in Slots : j < c.at[2] => fl[c.at[1]][j] # Erased

ExactRecord(fl, c, h) ==
    /\ (c.step \in Calls /\ c.record # None) =>
          c.record.val = IF c.call = "confirm" THEN Confirmed(At(fl, h).val)
                         ELSE Requested(At(fl, h).val)
    /\ c.step \in Writing => c.record.seq = At(fl, h).seq + 1

ExactTarget(fl, c) ==
    /\ c.step = "slot" => \A t \in Pointers : Before(t, c.at) => At(fl, t) # Erased
    /\ c.step = "erase" => c.at[2] = 0
    /\ c.step \in {"body", "crc"} => \A j \in Slots : j < c.at[2] => fl[c.at[1]][j] # Erased
    /\ c.step = "body" => At(fl, c.at) = Erased
    /\ c.step = "crc" => At(fl, c.at) = Garbage /\ c.own

Exact(fl, c, h) ==
    /\ HomeAt(fl, h)
    /\ ExactFound(fl, c, h)
    /\ c.step \in Chose => c.newest = h
    /\ ExactRecord(fl, c, h)
    /\ ExactTarget(fl, c)

(* The home is in sight and ahead of every other record.                   *)
LEMMA HomeFacts ==
    ASSUME NEW fl \in Flashes, NEW h, HomeAt(fl, h)
    PROVE  /\ h \in Pointers /\ Seen(fl, h) /\ HasRecord(fl)
           /\ At(fl, h) \in Records /\ At(fl, h).seq \in Seqs /\ At(fl, h).val \in Metadata
           /\ \A t \in Pointers : isValidRecord(At(fl, t)) =>
                 t = h \/ isSequenceNewer(At(fl, h).seq, At(fl, t).seq)
<1>1. h \in Pointers /\ At(fl, h) \in Records  BY DEF HomeAt, Home
<1>2. isValidRecord(At(fl, h))  BY <1>1, RecordFacts, ReadType
<1>3. Seen(fl, h)  BY <1>1, <1>2 DEF HomeAt, Home, Seen
<1>4. \A t \in Pointers : isValidRecord(At(fl, t)) =>
         t = h \/ isSequenceNewer(At(fl, h).seq, At(fl, t).seq)
  BY <1>1, PointerParts DEF HomeAt, Home, At
<1>5. At(fl, h).seq \in Seqs /\ At(fl, h).val \in Metadata
  BY <1>1, Constants DEF Records
<1>6. HasRecord(fl)  BY <1>1, <1>3, SeenVisible
<1> QED  BY <1>1, <1>3, <1>4, <1>5, <1>6

(* Outside a call only the home counts.                                    *)
LEMMA ExactOutside ==
    ASSUME NEW fl, NEW c, NEW h, HomeAt(fl, h), c.step \in Outside
    PROVE  Exact(fl, c, h)
BY DEF Exact, ExactFound, ExactRecord, ExactTarget, Outside, Calls, Chose, Writing

LEMMA ExactCall ==
    ASSUME NEW fl, NEW c \in CliTypes, NEW h, HomeAt(fl, h),
           c.step = "scan", c.at = <<Primary, 0>>,
           \A p \in Pages : c.found[p] = None,
           c.record # None => c.record.val = IF c.call = "confirm" THEN Confirmed(At(fl, h).val)
                                             ELSE Requested(At(fl, h).val)
    PROVE  Exact(fl, c, h)
<1>1. h \in Pointers  BY DEF HomeAt
<1>2. ~Looked(c, h)  BY <1>1, PointerParts, Constants DEF Before, Looked
<1>3. \A j \in Slots : ~(j < c.at[2])  BY Constants
<1>4. ExactFound(fl, c, h)  BY <1>2, <1>3 DEF ExactFound
<1> QED  BY <1>4 DEF Exact, ExactRecord, ExactTarget, Calls, Chose, Writing

LEMMA ExactScan ==
    ASSUME TypeInv, CliScan, NEW h, Exact(flash, cli, h)
    PROVE  Exact(flash, cli', h)
<1>1. /\ cli.step = "scan" /\ AtRecord /\ cli.at \in Pointers
      /\ cli \in CliTypes /\ cli' \in CliTypes /\ flash \in Flashes
      /\ cli'.step = "scan" /\ cli'.at = Following(cli.at)
      /\ cli'.record = cli.record /\ cli'.call = cli.call
  BY ScanFields DEF TypeInv
<1> DEFINE p == cli.at[1]
           e == cli'.found[p]
           old == cli.found[p]
<1>2. PICK s \in NumbersAt(flash, old) :
        /\ p \in Pages
        /\ \A q \in Pages : q # p => cli'.found[q] = cli.found[q]
        /\ e = IF /\ isValidRecord(At(flash, cli.at))
                  /\ \/ old = None
                     \/ isSequenceNewer(At(flash, cli.at).seq, s)
                     \/ At(flash, cli.at).seq = s
               THEN cli.at ELSE old
  <2>1. p \in Pages /\ cli.found \in [Pages -> Pointers \cup {None}]
    BY <1>1, PointerParts DEF CliTypes
  <2> QED  BY <2>1, ScanFields
<1>3. /\ cli'.at[1] = p /\ cli'.at[2] = cli.at[2] + 1
      /\ p \in 0 .. 1 /\ cli.at[2] \in Nat /\ cli.at[2] < N
      /\ flash[p][cli.at[2]] # Erased
  BY <1>1, PointerParts DEF Following, AtRecord, At
<1>4. /\ HomeAt(flash, h) /\ h \in Pointers
      /\ \A q \in Pages : cli.found[q] # None =>
            /\ cli.found[q][1] = q /\ Seen(flash, cli.found[q]) /\ Looked(cli, cli.found[q])
      /\ Looked(cli, h) => cli.found[h[1]] = h
      /\ \A j \in Slots : j < cli.at[2] => flash[p][j] # Erased
  BY <1>1 DEF Exact, ExactFound, HomeAt
<1> HIDE DEF p, e, old
<1>5. \A j \in Slots : j < cli'.at[2] => flash[cli'.at[1]][j] # Erased
  BY <1>3, <1>4, Constants
<1>6. isValidRecord(At(flash, cli.at)) => Seen(flash, cli.at)
  BY <1>1, <1>3, <1>5, Constants DEF Seen, p
<1>7. \A t \in Pointers : Looked(cli', t) <=> Looked(cli, t) \/ t = cli.at
  <2> SUFFICES ASSUME NEW t \in Pointers
               PROVE  Before(t, cli'.at) <=> Before(t, cli.at) \/ t = cli.at
    BY <1>1 DEF Looked
  <2>1. t = cli.at <=> t[1] = p /\ t[2] = cli.at[2]  BY <1>1, PointerParts DEF p
  <2> QED  BY <1>3, <2>1, PointerParts DEF Before, p
<1>8. e # None => /\ e[1] = p /\ Seen(flash, e) /\ Looked(cli', e)
  <2>1. CASE e = cli.at /\ isValidRecord(At(flash, cli.at))
    BY <1>1, <1>6, <1>7, <2>1 DEF p
  <2>2. CASE e = old
    BY <1>2, <1>4, <1>7, <2>2 DEF old, Seen
  <2> QED  BY <1>2, <2>1, <2>2
<1>9. \A q \in Pages : cli'.found[q] # None =>
         /\ cli'.found[q][1] = q /\ Seen(flash, cli'.found[q]) /\ Looked(cli', cli'.found[q])
  <2> SUFFICES ASSUME NEW q \in Pages, cli'.found[q] # None
               PROVE  /\ cli'.found[q][1] = q /\ Seen(flash, cli'.found[q])
                      /\ Looked(cli', cli'.found[q])
    OBVIOUS
  <2>1. CASE q = p  BY <1>8, <2>1 DEF e
  <2>2. CASE q # p
    <3>1. cli'.found[q] = cli.found[q]  BY <1>2, <2>2
    <3> QED  BY <1>4, <1>7, <3>1 DEF Seen
  <2> QED  BY <2>1, <2>2
<1>10. Looked(cli', h) => cli'.found[h[1]] = h
  <2> SUFFICES ASSUME Looked(cli', h) PROVE cli'.found[h[1]] = h  OBVIOUS
  <2>0. h[1] \in Pages  BY <1>4, PointerParts
  <2>1. CASE h = cli.at
    <3>1. Seen(flash, h) /\ h[1] = p /\ isValidRecord(At(flash, h))
      BY <1>4, <2>1, HomeFacts, <1>1 DEF p, Seen
    <3>2. CASE old = None  BY <1>2, <2>1, <3>1, <3>2 DEF e
    <3>3. CASE old # None
      <4>1. Seen(flash, old) /\ old \in Pointers /\ Looked(cli, old)
        BY <1>2, <1>4, <3>3 DEF old, Seen
      <4>2. s = At(flash, old).seq  BY <1>1, <1>2, <4>1, SeenNumber
      <4>3. old # h
        BY <1>1, <1>3, <2>1, <4>1 DEF Looked, Before, p
      <4>4. isSequenceNewer(At(flash, h).seq, s)
        BY <1>1, <1>4, <4>1, <4>2, <4>3, HomeFacts DEF Seen
      <4> QED  BY <1>2, <2>1, <3>1, <4>4 DEF e
    <3> QED  BY <3>2, <3>3
  <2>2. CASE h # cli.at
    <3>1. cli.found[h[1]] = h  BY <1>4, <1>7, <2>2
    <3>2. CASE h[1] # p  BY <1>2, <2>0, <3>1, <3>2
    <3>3. CASE h[1] = p
      <4>1. old = h /\ old # None  BY <1>4, <3>1, <3>3, Constants DEF old
      <4>2. s = At(flash, h).seq /\ s \in Seqs
        BY <1>1, <1>2, <1>4, <4>1, HomeFacts, SeenNumber
      <4>3. ASSUME isValidRecord(At(flash, cli.at))
            PROVE  /\ ~isSequenceNewer(At(flash, cli.at).seq, s)
                   /\ At(flash, cli.at).seq # s
        <5>1. isSequenceNewer(s, At(flash, cli.at).seq)
          BY <1>1, <1>4, <2>2, <4>2, <4>3, HomeFacts
        <5>2. At(flash, cli.at).seq \in Seqs
          BY <1>1, <1>6, <4>3, SeenNumber
        <5> QED  BY <4>2, <5>1, <5>2, NewerAsymmetric
      <4> QED  BY <1>2, <3>3, <4>1, <4>3 DEF e
    <3> QED  BY <3>2, <3>3
  <2> QED  BY <2>1, <2>2
<1>11. ExactFound(flash, cli', h)  BY <1>5, <1>9, <1>10 DEF ExactFound
<1>12. ExactRecord(flash, cli', h)
  BY <1>1 DEF Exact, ExactRecord, Calls, Writing
<1> QED  BY <1>1, <1>4, <1>11, <1>12 DEF Exact, ExactTarget, Chose

LEMMA ExactScanned ==
    ASSUME TypeInv, CliScanned, NEW h, Exact(flash, cli, h)
    PROVE  Exact(flash, cli', h)
<1>1. /\ cli.step = "scan" /\ ~AtRecord /\ cli'.found = cli.found
      /\ cli'.record = cli.record /\ cli'.call = cli.call
      /\ cli.at[1] = Primary => cli'.step = "scan" /\ cli'.at = <<Secondary, 0>>
      /\ cli.at[1] # Primary => cli'.step = "choose" /\ cli'.at = cli.at
      /\ cli \in CliTypes /\ flash \in Flashes
  BY ScannedFields DEF TypeInv
<1>2. cli'.step \in {"scan", "choose"}  BY <1>1
<1>3. cli.at[1] \in 0 .. 1 /\ cli.at[2] \in 0 .. N /\ N \in Nat
  BY <1>1, PointerParts, Constants
<1>4. /\ HomeAt(flash, h) /\ h \in Pointers /\ Seen(flash, h)
      /\ \A q \in Pages : cli.found[q] # None =>
            /\ cli.found[q][1] = q /\ Seen(flash, cli.found[q]) /\ Looked(cli, cli.found[q])
      /\ Looked(cli, h) => cli.found[h[1]] = h
  BY <1>1, HomeFacts DEF Exact, ExactFound
<1>5. \A t \in Pointers : Looked(cli, t) => Looked(cli', t)
  <2> SUFFICES ASSUME NEW t \in Pointers, Before(t, cli.at), cli'.step = "scan"
               PROVE  Before(t, cli'.at)
    BY <1>1, <1>2 DEF Looked
  <2>1. cli.at[1] = 0 /\ cli'.at = <<1, 0>>  BY <1>1, Constants
  <2> QED  BY <2>1, PointerParts DEF Before
<1>6. Looked(cli', h) => Looked(cli, h)
  <2> SUFFICES ASSUME Looked(cli', h), ~Before(h, cli.at) PROVE FALSE  BY DEF Looked
  <2>1. CASE h[1] = cli.at[1]
    <3>1. h[2] \in Nat /\ h[2] < N /\ ~(h[2] < cli.at[2])  BY <1>4, <2>1, PointerParts DEF Before
    <3>2. cli.at[2] < N /\ cli.at[2] \in 0 .. h[2]  BY <1>3, <3>1
    <3>3. At(flash, cli.at) # Erased  BY <1>4, <2>1, <3>2 DEF Seen, At
    <3> QED  BY <1>1, <3>2, <3>3 DEF AtRecord
  <2>2. CASE h[1] # cli.at[1]
    <3>1. cli.at[1] = 0 /\ h[1] = 1  BY <1>3, <1>4, <2>2, PointerParts DEF Before
    <3>2. cli'.step = "scan" /\ cli'.at = <<1, 0>>  BY <1>1, <3>1, Constants
    <3>3. ~Before(h, cli'.at)  BY <1>4, <3>1, <3>2, PointerParts DEF Before
    <3> QED  BY <3>2, <3>3 DEF Looked
  <2> QED  BY <2>1, <2>2
<1>7. cli'.step = "scan" => \A j \in Slots : ~(j < cli'.at[2])
  <2>1. cli'.step = "scan" => cli'.at[2] = 0  BY <1>1
  <2> QED  BY <2>1, Constants
<1>8. ExactFound(flash, cli', h)
  BY <1>1, <1>4, <1>5, <1>6, <1>7 DEF ExactFound, Seen
<1>9. ExactRecord(flash, cli', h)
  BY <1>1, <1>2 DEF Exact, ExactRecord, Calls, Writing
<1> QED  BY <1>2, <1>4, <1>8, <1>9 DEF Exact, ExactTarget, Chose

(* The comparison finds the home.                                          *)
LEMMA ExactChoose ==
    ASSUME TypeInv, CliChoose, NEW h, Exact(flash, cli, h)
    PROVE  Exact(flash, cli', h)
<1>1. /\ cli.step = "choose" /\ cli \in CliTypes /\ flash \in Flashes
      /\ cli'.step \in {"copy", "number"} /\ cli'.record = cli.record /\ cli'.call = cli.call
      /\ cli'.newest \in Chosen(flash, cli.found[Primary], cli.found[Secondary])
  BY ChooseFields DEF TypeInv
<1>2. /\ HomeAt(flash, h) /\ h \in Pointers /\ h # None /\ Seen(flash, h)
      /\ cli.found[h[1]] = h
      /\ \A q \in Pages : cli.found[q] # None =>
            cli.found[q][1] = q /\ Seen(flash, cli.found[q])
  BY <1>1, HomeFacts, Constants DEF Exact, ExactFound, Looked
<1> DEFINE a == cli.found[Primary]
           b == cli.found[Secondary]
<1>3. h[1] \in {Primary, Secondary}  BY <1>2, PointerParts, Constants
<1>4. Primary \in Pages /\ Secondary \in Pages /\ Primary # Secondary  BY Constants
<1>5. NumbersAt(flash, h) = {At(flash, h).seq} /\ At(flash, h).seq \in Seqs
  BY <1>1, <1>2, SeenNumber
<1>6. cli'.newest = h
  <2>1. CASE a = None \/ b = None
    BY <1>1, <1>2, <1>3, <2>1 DEF Chosen
  <2>2. CASE a # None /\ b # None
    <3>1. PICK s \in NumbersAt(flash, b), f \in NumbersAt(flash, a) :
            cli'.newest = IF isSequenceNewer(s, f) THEN b ELSE a
      BY <1>1, <2>2 DEF Chosen
    <3>2. /\ Seen(flash, a) /\ Seen(flash, b) /\ a[1] = Primary /\ b[1] = Secondary
      BY <1>2, <1>4, <2>2
    <3>3. /\ s = At(flash, b).seq /\ f = At(flash, a).seq /\ s \in Seqs /\ f \in Seqs
          /\ isValidRecord(At(flash, a)) /\ isValidRecord(At(flash, b))
          /\ a \in Pointers /\ b \in Pointers
      BY <1>1, <3>1, <3>2, SeenNumber DEF Seen
    <3>4. CASE h = a
      <4>1. b # h  BY <1>4, <3>2, <3>4
      <4>2. isSequenceNewer(f, s)  BY <1>1, <1>2, <3>3, <3>4, <4>1, HomeFacts
      <4> QED  BY <3>1, <3>3, <3>4, <4>2, NewerAsymmetric
    <3>5. CASE h = b
      <4>1. a # h  BY <1>4, <3>2, <3>5
      <4>2. isSequenceNewer(s, f)  BY <1>1, <1>2, <3>3, <3>5, <4>1, HomeFacts
      <4> QED  BY <3>1, <3>5, <4>2
    <3> QED  BY <1>2, <1>3, <3>4, <3>5
  <2> QED  BY <2>1, <2>2
<1>7. ExactRecord(flash, cli', h)
  BY <1>1 DEF Exact, ExactRecord, Calls, Writing
<1> QED  BY <1>1, <1>2, <1>6, <1>7 DEF Exact, ExactFound, ExactTarget

LEMMA ExactCopy ==
    ASSUME TypeInv, CliCopy, ~Refused, NEW h, Exact(flash, cli, h)
    PROVE  Exact(flash, cli', h)
<1>1. /\ cli.step = "copy" /\ cli' \in CliTypes /\ cli \in CliTypes
      /\ cli'.call = cli.call /\ cli'.step = "scan" /\ cli'.at = <<Primary, 0>>
      /\ \A p \in Pages : cli'.found[p] = None
      /\ cli'.record.val \in Changed /\ flash \in Flashes
  BY CopyFields DEF TypeInv
<1>2. HomeAt(flash, h) /\ cli.newest = h  BY <1>1 DEF Exact, Chose
<1>3. h # None /\ ValuesAt(flash, h) = {At(flash, h).val}
  BY <1>1, <1>2, HomeFacts, SeenNumber
<1>4. cli'.record.val = IF cli.call = "confirm" THEN Confirmed(At(flash, h).val)
                        ELSE Requested(At(flash, h).val)
  BY <1>1, <1>2, <1>3 DEF Changed
<1> QED  BY <1>1, <1>2, <1>4, ExactCall

LEMMA ExactNumber ==
    ASSUME TypeInv, CliNumber, NEW h, Exact(flash, cli, h), Small(flash, SeqHalf - 2)
    PROVE  Exact(flash, cli', h)
<1>1. /\ cli.step = "number" /\ cli'.call = cli.call /\ cli'.newest = cli.newest
      /\ cli'.step = "slot" /\ cli'.at = <<Primary, 0>>
      /\ cli'.record.val = cli.record.val /\ flash \in Flashes /\ cli.record # None
  BY NumberFields DEF TypeInv, Staged
<1>2. HomeAt(flash, h) /\ cli.newest = h  BY <1>1 DEF Exact, Chose
<1>3. PICK s \in NumbersAt(flash, h) : s \in Seqs /\ cli'.record.seq = NextSeq(s)
  BY <1>2, NumberFields
<1>4. s = At(flash, h).seq /\ s <= SeqHalf - 2
  BY <1>1, <1>2, <1>3, HomeFacts, SeenNumber DEF Small, Seen
<1>5. cli'.record.seq = At(flash, h).seq + 1  BY <1>3, <1>4, SmallOrder
<1>6. \A t \in Pointers : ~Before(t, cli'.at)  BY <1>1, PointerParts, Constants DEF Before
<1>7. ExactRecord(flash, cli', h)
  BY <1>1, <1>5 DEF Exact, ExactRecord, Calls, Writing
<1>8. ExactTarget(flash, cli')  BY <1>1, <1>6 DEF ExactTarget
<1> QED  BY <1>1, <1>2, <1>7, <1>8 DEF Exact, ExactFound, Chose

(* The search stops at the first free slot.                                *)
LEMMA ExactSlot ==
    ASSUME TypeInv, CliSlot, NEW h, Exact(flash, cli, h)
    PROVE  Exact(flash, cli', h)
<1>1. /\ cli.step = "slot" /\ cli'.call = cli.call /\ cli'.newest = cli.newest
      /\ cli'.record = cli.record /\ cli \in CliTypes
  BY SlotFields DEF TypeInv
<1>2. /\ HomeAt(flash, h) /\ cli.newest = h
      /\ \A t \in Pointers : Before(t, cli.at) => At(flash, t) # Erased
  BY <1>1 DEF Exact, ExactTarget, Chose
<1>3. cli'.step \in {"slot", "body", "erase"}  BY SlotFields
<1>4. ExactRecord(flash, cli', h)
  BY <1>1, <1>3 DEF Exact, ExactRecord, Calls, Writing
<1>5. ExactTarget(flash, cli')
  <2>1. CASE cli.at \in Pointers /\ At(flash, cli.at) = Erased
             /\ cli'.step = "body" /\ cli'.at = cli.at
    <3>1. ASSUME NEW j \in Slots, j < cli.at[2] PROVE flash[cli.at[1]][j] # Erased
      <4>1. cli.at[1] \in Pages  BY <2>1, PointerParts
      <4>2. <<cli.at[1], j>> \in Pointers  BY <4>1 DEF Pointers
      <4>3. Before(<<cli.at[1], j>>, cli.at)  BY <3>1 DEF Before
      <4> QED  BY <1>2, <4>2, <4>3 DEF At
    <3> QED  BY <2>1, <3>1 DEF ExactTarget
  <2>2. CASE cli.at \in Pointers /\ At(flash, cli.at) # Erased
             /\ cli'.step = "slot" /\ cli'.at = Following(cli.at)
    <3>1. ASSUME NEW t \in Pointers, Before(t, cli'.at) PROVE At(flash, t) # Erased
      <4>1. Before(t, cli.at) \/ t = cli.at
        BY <2>2, <3>1, PointerParts DEF Before, Following
      <4> QED  BY <1>2, <2>2, <4>1
    <3> QED  BY <2>2, <3>1 DEF ExactTarget
  <2>3. CASE cli.at = <<Primary, N>> /\ cli'.step = "slot" /\ cli'.at = <<Secondary, 0>>
    <3>1. ASSUME NEW t \in Pointers, Before(t, cli'.at) PROVE At(flash, t) # Erased
      <4>1. Before(t, cli.at)
        BY <2>3, <3>1, PointerParts, Constants DEF Before
      <4> QED  BY <1>2, <4>1
    <3> QED  BY <2>3, <3>1 DEF ExactTarget
  <2>4. CASE cli'.step = "erase"
    <3>1. cli'.at[2] = 0  BY <2>4, SlotFields
    <3> QED  BY <2>4, <3>1 DEF ExactTarget
  <2> QED  BY <2>1, <2>2, <2>3, <2>4, SlotFields
<1> QED  BY <1>1, <1>2, <1>3, <1>4, <1>5 DEF Exact, ExactFound, Chose

-----------------------------------------------------------------------------
(* What the flash operations do to the home *)

(* Records are lost, none of them on the home page.                        *)
LEMMA HomeKept ==
    ASSUME NEW fl \in Flashes, NEW fl2, Loses(fl, fl2), NEW h, HomeAt(fl, h),
           Keeps(fl, fl2, h[1])
    PROVE  HomeAt(fl2, h) /\ At(fl2, h) = At(fl, h)
<1>1. h \in Pointers /\ h[1] \in Pages /\ h[2] \in Slots  BY PointerParts DEF HomeAt
<1>2. Home(fl2, At(fl, h), h[1], h[2]) /\ Distinct(fl2)
  BY <1>1, LosesPreserves DEF HomeAt
<1>3. At(fl2, h) = At(fl, h)  BY <1>2 DEF Home, At
<1> QED  BY <1>1, <1>2, <1>3 DEF HomeAt

LEMMA SmallLoses ==
    ASSUME NEW fl, NEW fl2, Loses(fl, fl2), NEW m, Small(fl, m)
    PROVE  Small(fl2, m)
BY PointerParts DEF Small, Loses, At

(* Garbage in an erased slot, and an erase of the other page.              *)
LEMMA GarbledFacts ==
    ASSUME NEW fl \in Flashes, NEW t \in Pointers, At(fl, t) = Erased
    PROVE  /\ Loses(fl, Written(fl, t[1], t[2], Garbage))
           /\ \A p \in Pages : Keeps(fl, Written(fl, t[1], t[2], Garbage), p)
<1> DEFINE fl2 == Written(fl, t[1], t[2], Garbage)
<1>1. t[1] \in Pages /\ t[2] \in Slots  BY PointerParts
<1>2. /\ fl2 \in Flashes /\ fl2[t[1]][t[2]] = Garbage
      /\ \A q \in Pages, j \in Slots : ~(q = t[1] /\ j = t[2]) => fl2[q][j] = fl[q][j]
  BY <1>1, WrittenSlot, FlashTypes
<1> HIDE DEF fl2
<1>3. Loses(fl, fl2)  BY <1>2 DEF Loses, isValidRecord
<1>4. \A p \in Pages : Keeps(fl, fl2, p)  BY <1>2 DEF Keeps, At
<1> QED  BY <1>3, <1>4 DEF fl2

LEMMA ErasedLoses ==
    ASSUME NEW fl \in Flashes, NEW p \in Pages, NEW q \in Pages, q # p,
           NEW fl2, fl2 = ErasedPage(fl, p) \/ fl2 \in PartlyErased(fl, p)
    PROVE  Loses(fl, fl2) /\ Keeps(fl, fl2, q)
<1>1. fl2 \in Flashes  BY FlashTypes
<1>2. /\ \A x \in Pages : x # p => fl2[x] = fl[x]
      /\ \A i \in Slots : fl2[p][i] \in {fl[p][i], Erased, Garbage}
  BY ErasedFacts
<1> QED  BY <1>1, <1>2 DEF Loses, Keeps, isValidRecord

(* The next record in the first free slot of a page is the new home.       *)
LEMMA NextHome ==
    ASSUME NEW fl \in Flashes, NEW h, HomeAt(fl, h), Small(fl, SeqHalf - 3),
           NEW t \in Pointers, ~isValidRecord(At(fl, t)),
           \A j \in Slots : j < t[2] => fl[t[1]][j] # Erased,
           NEW r \in Records, r.seq = At(fl, h).seq + 1
    PROVE  /\ HomeAt(Written(fl, t[1], t[2], r), t)
           /\ At(Written(fl, t[1], t[2], r), t) = r
<1>1. /\ t[1] \in Pages /\ t[2] \in Slots /\ t = <<t[1], t[2]>>  BY PointerParts
<1>2. \A j \in 0 .. t[2] - 1 : fl[t[1]][j] # Erased
  BY <1>1, Constants
<1>3. ASSUME NEW q \in Pages, NEW j \in Slots, isValidRecord(fl[q][j])
      PROVE  isSequenceNewer(r.seq, fl[q][j].seq)
  <2> DEFINE u == <<q, j>>
  <2>1. u \in Pointers /\ At(fl, u) = fl[q][j]  BY DEF Pointers, At
  <2> HIDE DEF u
  <2>2. At(fl, u).seq <= SeqHalf - 3 /\ At(fl, u).seq \in Seqs
    <3>1. At(fl, u) \in Records  BY <1>3, <2>1, ReadType, RecordFacts
    <3> QED  BY <1>3, <2>1, <3>1, RecordFacts DEF Small
  <2>3. /\ At(fl, h).seq <= SeqHalf - 3 /\ At(fl, h).seq \in Seqs
        /\ u = h \/ isSequenceNewer(At(fl, h).seq, At(fl, u).seq)
    BY <1>3, <2>1, HomeFacts DEF Small, Seen
  <2>4. At(fl, u).seq <= At(fl, h).seq
    <3>1. CASE u = h  BY <2>3, <3>1, Constants
    <3>2. CASE isSequenceNewer(At(fl, h).seq, At(fl, u).seq)
      BY <2>2, <2>3, <3>2, SmallOrder, Constants
    <3> QED  BY <2>3, <3>1, <3>2
  <2>5. r.seq \in Seqs  BY RecordFacts
  <2>6. isSequenceNewer(r.seq, At(fl, u).seq)
    <3>1. r.seq <= SeqHalf - 2 /\ At(fl, u).seq <= SeqHalf - 2 /\ r.seq > At(fl, u).seq
      BY <2>2, <2>3, <2>4, Constants
    <3> QED  BY <2>2, <2>5, <3>1, SmallOrder
  <2> QED  BY <2>1, <2>6
<1>4. /\ Home(Written(fl, t[1], t[2], r), r, t[1], t[2])
      /\ Distinct(Written(fl, t[1], t[2], r))
  BY <1>1, <1>2, <1>3, NewHome DEF HomeAt, At
<1>5. At(Written(fl, t[1], t[2], r), t) = r  BY <1>4 DEF Home, At
<1> QED  BY <1>4, <1>5 DEF HomeAt

(* It is the only record that is added.                                    *)
LEMMA SmallWritten ==
    ASSUME NEW fl \in Flashes, NEW t \in Pointers, NEW c \in Contents,
           NEW m \in Int, NEW m2 \in Int, m <= m2, Small(fl, m),
           isValidRecord(c) => c.seq <= m2
    PROVE  Small(Written(fl, t[1], t[2], c), m2)
<1> DEFINE fl2 == Written(fl, t[1], t[2], c)
<1>1. /\ fl2[t[1]][t[2]] = c
      /\ \A q \in Pages, j \in Slots : ~(q = t[1] /\ j = t[2]) => fl2[q][j] = fl[q][j]
  BY PointerParts, WrittenSlot
<1> HIDE DEF fl2
<1>2. ASSUME NEW u \in Pointers, isValidRecord(At(fl2, u)) PROVE At(fl2, u).seq <= m2
  <2>1. CASE u[1] = t[1] /\ u[2] = t[2]  BY <1>1, <1>2, <2>1 DEF At
  <2>2. CASE ~(u[1] = t[1] /\ u[2] = t[2])
    <3>1. At(fl2, u) = At(fl, u)  BY <1>1, <2>2, PointerParts DEF At
    <3>2. At(fl, u).seq <= m  BY <1>2, <3>1 DEF Small
    <3>3. At(fl, u).seq \in Seqs
      BY <1>2, <3>1, ReadType, RecordFacts
    <3> QED  BY <3>1, <3>2, <3>3, Constants
  <2> QED  BY <2>1, <2>2
<1> QED  BY <1>2 DEF Small, fl2

-----------------------------------------------------------------------------
(* The CLI thread's flash operations, with no other append in between *)

LEMMA ExactErase ==
    ASSUME TypeInv, CliErase, Kept(flash, cli), NEW h, Exact(flash, cli, h)
    PROVE  Exact(flash', cli', h) /\ At(flash', h) = At(flash, h) /\ Loses(flash, flash')
<1>1. /\ cli.step = "erase" /\ cli'.step = "body" /\ cli'.at = cli.at /\ cli'.call = cli.call
      /\ cli'.newest = cli.newest /\ cli'.record = cli.record
      /\ flash' = ErasedPage(flash, cli.at[1])
      /\ flash \in Flashes /\ cli.at[1] \in Pages /\ cli.at \in Pointers
  BY WritingFields, PointerParts DEF CliErase, TypeInv, Staged
<1>2. /\ HomeAt(flash, h) /\ cli.newest = h /\ cli.at[1] # h[1] /\ cli.at[2] = 0
      /\ h[1] \in Pages
  BY <1>1, PointerParts DEF Exact, ExactTarget, Kept, KeptNewest, Chose, HomeAt
<1>3. Loses(flash, flash') /\ Keeps(flash, flash', h[1])  BY <1>1, <1>2, ErasedLoses
<1>4. HomeAt(flash', h) /\ At(flash', h) = At(flash, h)  BY <1>1, <1>2, <1>3, HomeKept
<1>5. At(flash', cli.at) = Erased  BY <1>1, ErasedFacts, PointerParts DEF At
<1>6. ExactTarget(flash', cli')
  <2>1. \A j \in Slots : ~(j < cli.at[2])  BY <1>2, Constants
  <2> QED  BY <1>1, <1>5, <2>1 DEF ExactTarget
<1>7. ExactRecord(flash', cli', h)
  BY <1>1, <1>4 DEF Exact, ExactRecord, Calls, Writing
<1> QED  BY <1>1, <1>2, <1>3, <1>4, <1>6, <1>7 DEF Exact, ExactFound

LEMMA ExactBody ==
    ASSUME TypeInv, CliBody, NEW h, Exact(flash, cli, h)
    PROVE  Exact(flash', cli', h) /\ At(flash', h) = At(flash, h) /\ Loses(flash, flash')
<1>1. /\ cli.step = "body" /\ cli'.step = "crc" /\ cli'.at = cli.at /\ cli'.call = cli.call
      /\ cli'.newest = cli.newest /\ cli'.record = cli.record
      /\ cli'.own = (At(flash, cli.at) = Erased)
      /\ flash' = Programmed(flash, cli.at, Garbage)
      /\ flash \in Flashes /\ cli.at \in Pointers
  BY WritingFields DEF CliBody, TypeInv, Staged
<1>2. /\ HomeAt(flash, h) /\ cli.newest = h /\ h \in Pointers
      /\ At(flash, cli.at) = Erased
      /\ \A j \in Slots : j < cli.at[2] => flash[cli.at[1]][j] # Erased
  BY <1>1 DEF Exact, ExactTarget, Chose, HomeAt
<1>3. flash' = Written(flash, cli.at[1], cli.at[2], Garbage)
  BY <1>1 DEF Programmed
<1>4. /\ Loses(flash, flash') /\ Keeps(flash, flash', h[1])
      /\ Keeps(flash, flash', cli.at[1])
  BY <1>1, <1>2, <1>3, GarbledFacts, PointerParts
<1>5. HomeAt(flash', h) /\ At(flash', h) = At(flash, h)  BY <1>1, <1>2, <1>4, HomeKept
<1>6. At(flash', cli.at) = Garbage
  <2>1. cli.at[1] \in Pages /\ cli.at[2] \in Slots  BY <1>1, PointerParts
  <2>2. flash'[cli.at[1]][cli.at[2]] = Garbage  BY <1>1, <1>3, <2>1, WrittenSlot, FlashTypes
  <2> QED  BY <2>2 DEF At
<1>7. ExactTarget(flash', cli')
  <2>1. cli'.own  BY <1>1, <1>2, Zenon
  <2>2. \A j \in Slots : j < cli.at[2] => flash'[cli.at[1]][j] # Erased
    BY <1>2, <1>4 DEF Keeps
  <2> QED  BY <1>1, <1>6, <2>1, <2>2 DEF ExactTarget
<1>8. ExactRecord(flash', cli', h)
  BY <1>1, <1>5 DEF Exact, ExactRecord, Calls, Writing
<1> QED  BY <1>1, <1>2, <1>4, <1>5, <1>7, <1>8 DEF Exact, ExactFound

(* The CRC word makes the call's record the home.                          *)
LEMMA ExactCrc ==
    ASSUME TypeInv, cli.step = "crc", NEW h, Exact(flash, cli, h), Small(flash, SeqHalf - 3)
    PROVE  /\ cli.at \in Pointers
           /\ HomeAt(AfterCrc, cli.at)
           /\ At(AfterCrc, cli.at) = cli.record
<1>1. cli.at \in Pointers /\ cli.record \in Records /\ flash \in Flashes
  BY CrcType DEF TypeInv
<1>2. /\ HomeAt(flash, h) /\ At(flash, cli.at) = Garbage /\ cli.own
      /\ \A j \in Slots : j < cli.at[2] => flash[cli.at[1]][j] # Erased
      /\ cli.record.seq = At(flash, h).seq + 1
  BY DEF Exact, ExactTarget, ExactRecord, Writing
<1>3. AfterCrc = Written(flash, cli.at[1], cli.at[2], cli.record)  BY <1>2 DEF AfterCrc
<1>4. ~isValidRecord(At(flash, cli.at))  BY <1>2 DEF isValidRecord
<1> QED  BY <1>1, <1>2, <1>3, <1>4, NextHome

(* A failed operation leaves the home, or the call's record as the home.   *)
LEMMA ExactFails ==
    ASSUME TypeInv, CliFlashFails, Kept(flash, cli), NEW h, Exact(flash, cli, h),
           Small(flash, SeqHalf - 3)
    PROVE  \/ HomeAt(flash', h) /\ At(flash', h) = At(flash, h)
           \/ /\ cli.step = "crc" /\ cli.at \in Pointers
              /\ HomeAt(flash', cli.at) /\ At(flash', cli.at) = cli.record
<1>1. flash \in Flashes /\ cli \in CliTypes /\ Staged(cli)  BY DEF TypeInv
<1>2. HomeAt(flash, h) /\ h \in Pointers /\ h[1] \in Pages
  BY PointerParts DEF Exact, HomeAt
<1>3. CASE cli.step = "erase" /\ flash' \in PartlyErased(flash, cli.at[1])
  <2>1. cli.at[1] # h[1] /\ cli.at[1] \in Pages
    BY <1>1, <1>3, PointerParts DEF Exact, Kept, KeptNewest, Chose
  <2>2. Loses(flash, flash') /\ Keeps(flash, flash', h[1])
    BY <1>1, <1>2, <1>3, <2>1, ErasedLoses
  <2> QED  BY <1>1, <1>2, <2>2, HomeKept
<1>4. CASE cli.step = "body" /\ flash' = Programmed(flash, cli.at, Garbage)
  <2>1. At(flash, cli.at) = Erased /\ cli.at \in Pointers
    BY <1>1, <1>4 DEF Exact, ExactTarget, Staged
  <2>2. flash' = Written(flash, cli.at[1], cli.at[2], Garbage)  BY <1>4 DEF Programmed
  <2>3. Loses(flash, flash') /\ Keeps(flash, flash', h[1])
    BY <1>1, <1>2, <2>1, <2>2, GarbledFacts
  <2> QED  BY <1>1, <1>2, <2>3, HomeKept
<1>5. CASE cli.step = "crc" /\ flash' = AfterCrc  BY <1>5, ExactCrc
<1>6. CASE flash' = flash  BY <1>2, <1>6
<1> QED  BY <1>3, <1>4, <1>5, <1>6, FailsType

(* The numbers stay small.                                                 *)
LEMMA SmallCrc ==
    ASSUME TypeInv, cli.step = "crc", NEW m \in Int, Small(flash, m),
           cli.record.seq <= m + 1
    PROVE  Small(AfterCrc, m + 1)
<1>1. cli.at \in Pointers /\ cli.record \in Records /\ flash \in Flashes
  BY CrcType DEF TypeInv
<1>2. /\ (IF cli.own THEN cli.record ELSE Garbage) \in Contents
      /\ isValidRecord(IF cli.own THEN cli.record ELSE Garbage) =>
            (IF cli.own THEN cli.record ELSE Garbage).seq <= m + 1
  BY <1>1 DEF Contents, isValidRecord
<1> QED  BY <1>1, <1>2, SmallWritten DEF AfterCrc

LEMMA SmallFails ==
    ASSUME TypeInv, CliFlashFails, NEW m \in Int, Small(flash, m),
           cli.step = "crc" => cli.record.seq <= m + 1
    PROVE  Small(flash', m + 1)
<1>1. flash \in Flashes /\ cli \in CliTypes /\ Staged(cli) /\ cli.at[1] \in Pages
  BY PointerParts DEF TypeInv
<1>2. Small(flash, m + 1)
  <2>1. \A t \in Pointers : isValidRecord(At(flash, t)) => At(flash, t).seq \in Seqs
    BY <1>1, ReadType, RecordFacts
  <2> QED  BY <2>1, Constants DEF Small
<1>3. CASE cli.step = "erase" /\ flash' \in PartlyErased(flash, cli.at[1])
  <2>1. PICK q \in Pages : q # cli.at[1]  BY Constants
  <2>2. Loses(flash, flash')  BY <1>1, <1>3, <2>1, ErasedLoses
  <2> QED  BY <1>2, <2>2, SmallLoses
<1>4. CASE cli.step = "body" /\ flash' = Programmed(flash, cli.at, Garbage)
  <2>1. cli.at \in Pointers  BY <1>1, <1>4 DEF Staged
  <2>2. flash' = Written(flash, cli.at[1], cli.at[2], Garbage)  BY <1>4 DEF Programmed
  <2> QED  BY <1>1, <2>1, <2>2, SmallWritten, FlashTypes DEF isValidRecord
<1>5. CASE cli.step = "crc" /\ flash' = AfterCrc  BY <1>5, SmallCrc
<1>6. CASE flash' = flash  BY <1>2, <1>6
<1> QED  BY <1>3, <1>4, <1>5, <1>6, FailsType

-----------------------------------------------------------------------------
(* The radio thread's append *)

(* Where it goes and what it writes.                                       *)
LEMMA RfShape ==
    ASSUME NEW fl \in Flashes, NEW h, HomeAt(fl, h), Small(fl, SeqHalf - 3),
           NEW w \in Metadata
    PROVE  /\ findNewestMetadataRecord(fl) = At(fl, h)
           /\ RotationPage(fl) \in Pages /\ RotationPage(fl) # h[1]
           /\ NextRecord(fl, w) \in Records
           /\ NextRecord(fl, w).seq = At(fl, h).seq + 1 /\ NextRecord(fl, w).val = w
           /\ Target(fl) \in Pointers /\ Cleared(fl) \in Flashes
           /\ At(Cleared(fl), Target(fl)) = Erased
           /\ \A j \in Slots : j < Target(fl)[2] => Cleared(fl)[Target(fl)[1]][j] # Erased
           /\ Loses(fl, Cleared(fl))
           /\ HomeAt(Cleared(fl), h) /\ At(Cleared(fl), h) = At(fl, h)
           /\ Appended(fl, w) =
                 Written(Cleared(fl), Target(fl)[1], Target(fl)[2], NextRecord(fl, w))
           /\ Programmed(Cleared(fl), Target(fl), Garbage) =
                 Written(Cleared(fl), Target(fl)[1], Target(fl)[2], Garbage)
<1>1. /\ h \in Pointers /\ h[1] \in Pages /\ h[2] \in Slots
      /\ At(fl, h) \in Records /\ At(fl, h).seq \in Seqs /\ At(fl, h).seq <= SeqHalf - 3
  BY HomeFacts, PointerParts DEF Small, Seen
<1>2. /\ HasRecord(fl) /\ NewestPage(fl) = h[1] /\ findNewestMetadataRecord(fl) = At(fl, h)
  BY <1>1, ReaderFindsHome DEF HomeAt
<1> DEFINE X == RotationPage(fl)
           t == Target(fl)
           fl1 == Cleared(fl)
           r == NextRecord(fl, w)
<1>3. X \in Pages /\ X # h[1]  BY <1>1, <1>2, Constants DEF RotationPage
<1>4. r \in Records /\ r.seq = At(fl, h).seq + 1 /\ r.val = w
  <2>1. r = [seq |-> NextSeq(At(fl, h).seq), val |-> w]  BY <1>2 DEF NextRecord
  <2>2. NextSeq(At(fl, h).seq) = At(fl, h).seq + 1  BY <1>1, SmallOrder, Constants
  <2>3. At(fl, h).seq + 1 \in Seqs  BY <1>1, Constants
  <2> QED  BY <2>1, <2>2, <2>3, Constants DEF Records
<1>5. /\ t \in Pointers /\ fl1 \in Flashes /\ At(fl1, t) = Erased
      /\ \A j \in Slots : j < t[2] => fl1[t[1]][j] # Erased
      /\ Loses(fl, fl1) /\ HomeAt(fl1, h) /\ At(fl1, h) = At(fl, h)
  <2>1. CASE NoFreeSlot(fl)
    <3>1. t = <<X, 0>> /\ fl1 = ErasedPage(fl, X)  BY <2>1 DEF Target, Cleared
    <3>2. t \in Pointers /\ t[1] = X /\ t[2] = 0  BY <1>3, <3>1, Constants DEF Pointers
    <3>3. fl1 \in Flashes /\ At(fl1, t) = Erased
      BY <1>3, <3>1, <3>2, FlashTypes, ErasedFacts, Constants DEF At
    <3>4. \A j \in Slots : ~(j < t[2])  BY <3>2, Constants
    <3>5. Loses(fl, fl1) /\ Keeps(fl, fl1, h[1])  BY <1>1, <1>3, <3>1, ErasedLoses
    <3> QED  BY <3>2, <3>3, <3>4, <3>5, HomeKept
  <2>2. CASE ~NoFreeSlot(fl)
    <3> DEFINE p == AppendPage(fl)
               i == findFirstErasedRecord(fl, p)
    <3>1. t = <<p, i>> /\ fl1 = fl  BY <2>2 DEF Target, Cleared
    <3>2. /\ p \in Pages /\ i \in Slots /\ fl[p][i] = Erased
          /\ \A j \in 0 .. i - 1 : fl[p][j] # Erased
      BY <2>2, FirstErased
    <3> HIDE DEF p, i
    <3>3. t \in Pointers /\ t[1] = p /\ t[2] = i  BY <3>1, <3>2 DEF Pointers
    <3>4. \A j \in Slots : j < i => j \in 0 .. i - 1  BY <3>2, Constants
    <3> QED  BY <3>1, <3>2, <3>3, <3>4 DEF At, Loses
  <2> QED  BY <2>1, <2>2
<1>6. /\ Appended(fl, w) = Written(fl1, t[1], t[2], r)
      /\ Programmed(fl1, t, Garbage) = Written(fl1, t[1], t[2], Garbage)
  BY <1>5 DEF Appended, Programmed
<1> QED  BY <1>2, <1>3, <1>4, <1>5, <1>6

\* The radio thread's step as the journal sees it.
Placed == flash' = Appended(flash, Confirmed(Newest))
Lost   == \/ /\ NoFreeSlot(flash)
             /\ flash' \in PartlyErased(flash, RotationPage(flash))
          \/ flash' \in {Cleared(flash), Programmed(Cleared(flash), Target(flash), Garbage)}

LEMMA RfCases ==
    ASSUME RfAppendStep
    PROVE  /\ Placed \/ Lost
           /\ Placed \/ confirms' = Append(confirms, "error")
           /\ ~blind' => /\ ~blind
                         /\ (NoFreeSlot(flash) /\ cli.step \in {"scan", "choose"}) => Placed
           /\ \E r \in Results : RfConfirms(r)
<1>1. CASE RfAppends
  BY <1>1 DEF RfAppends, Placed, Results
<1>2. CASE RfEraseFails
  BY <1>2 DEF RfEraseFails, RfConfirms, Lost, Blinds, Results
<1>3. CASE RfProgramFails
  BY <1>3 DEF RfProgramFails, RfConfirms, AppendFailed, Lost, Placed, Blinds, Results
<1> QED  BY <1>1, <1>2, <1>3 DEF RfAppendStep

(* What is left: the old home, or the new record as the home.              *)
LEMMA RfHome ==
    ASSUME TypeInv, NEW h, HomeAt(flash, h), Small(flash, SeqHalf - 3), Placed \/ Lost
    PROVE  /\ flash' \in Flashes /\ Seen(flash', h)
           /\ \A m \in Int : Small(flash, m) => Small(flash', m + 1)
           /\ \/ HomeAt(flash', h) /\ At(flash', h) = At(flash, h) /\ ~Placed
              \/ \E t \in Pointers : /\ HomeAt(flash', t)
                                     /\ At(flash', t).val = Confirmed(At(flash, h).val)
<1>1. flash \in Flashes  BY DEF TypeInv
<1>2. /\ h \in Pointers /\ h[1] \in Pages /\ Seen(flash, h) /\ At(flash, h).val \in Metadata
      /\ At(flash, h).seq \in Seqs /\ isValidRecord(At(flash, h))
  BY <1>1, HomeFacts, PointerParts DEF Seen
<1> DEFINE w == Confirmed(At(flash, h).val)
           X == RotationPage(flash)
           t == Target(flash)
           fl1 == Cleared(flash)
           r == NextRecord(flash, w)
<1>3. w \in Metadata  BY <1>2, PayloadType
<1>4. /\ findNewestMetadataRecord(flash) = At(flash, h)
      /\ X \in Pages /\ X # h[1]
      /\ r \in Records /\ r.seq = At(flash, h).seq + 1 /\ r.val = w
      /\ t \in Pointers /\ fl1 \in Flashes /\ At(fl1, t) = Erased
      /\ \A j \in Slots : j < t[2] => fl1[t[1]][j] # Erased
      /\ Loses(flash, fl1)
      /\ HomeAt(fl1, h) /\ At(fl1, h) = At(flash, h)
      /\ Appended(flash, w) = Written(fl1, t[1], t[2], r)
      /\ Programmed(fl1, t, Garbage) = Written(fl1, t[1], t[2], Garbage)
  BY <1>1, <1>3, RfShape
<1>5. Confirmed(Newest) = w  BY <1>4 DEF Newest
<1> HIDE DEF w, X, t, fl1, r
<1>6. \A m \in Int : Small(flash, m) => Small(flash, m + 1)
  <2>1. \A u \in Pointers : isValidRecord(At(flash, u)) => At(flash, u).seq \in Seqs
    BY <1>1, ReadType, RecordFacts
  <2> QED  BY <2>1, Constants DEF Small
<1>7. CASE Placed
  <2>1. flash' = Written(fl1, t[1], t[2], r)  BY <1>4, <1>5, <1>7 DEF Placed
  <2>2. flash' \in Flashes
    BY <1>4, <2>1, WrittenSlot, PointerParts DEF Contents
  <2>3. ~isValidRecord(At(fl1, t))  BY <1>4 DEF isValidRecord
  <2>4. Small(fl1, SeqHalf - 3)  BY <1>4, SmallLoses
  <2>5. HomeAt(flash', t) /\ At(flash', t) = r
    BY <1>4, <2>1, <2>3, <2>4, NextHome
  <2>6. Seen(fl1, h)  BY <1>4, HomeFacts
  <2>7. h # t  BY <1>2, <1>4, <2>3
  <2>8. r \in Contents /\ r # Erased  BY <1>4, RecordFacts DEF Contents
  <2>9. Seen(flash', h)  BY <1>4, <2>1, <2>6, <2>7, <2>8, SeenWritten
  <2>10. ASSUME NEW m \in Int, Small(flash, m) PROVE Small(flash', m + 1)
    <3>1. Small(fl1, m)  BY <1>4, <2>10, SmallLoses
    <3>2. r.seq <= m + 1  BY <1>2, <1>4, <2>10, Constants DEF Small
    <3> QED  BY <1>4, <2>1, <2>8, <3>1, <3>2, SmallWritten
  <2> QED  BY <1>4, <2>2, <2>5, <2>9, <2>10 DEF w
<1>8. CASE Lost /\ ~Placed
  <2>1. Loses(flash, flash') /\ HomeAt(flash', h) /\ At(flash', h) = At(flash, h)
    <3>1. CASE NoFreeSlot(flash) /\ flash' \in PartlyErased(flash, X)
      <4>1. Loses(flash, flash') /\ Keeps(flash, flash', h[1])
        BY <1>1, <1>2, <1>4, <3>1, ErasedLoses
      <4> QED  BY <1>1, <4>1, HomeKept
    <3>2. CASE flash' = fl1  BY <1>4, <3>2
    <3>3. CASE flash' = Written(fl1, t[1], t[2], Garbage)
      <4>1. Loses(fl1, flash') /\ Keeps(fl1, flash', h[1])
        BY <1>2, <1>4, <3>3, GarbledFacts
      <4>2. HomeAt(flash', h) /\ At(flash', h) = At(flash, h)
        BY <1>4, <4>1, HomeKept
      <4>3. Loses(flash, flash')
        BY <1>4, <4>1 DEF Loses
      <4> QED  BY <4>2, <4>3
    <3> QED  BY <1>4, <1>8, <3>1, <3>2, <3>3 DEF Lost, X, t, fl1
  <2>2. flash' \in Flashes  BY <2>1 DEF Loses
  <2>3. Seen(flash', h)  BY <2>1, <2>2, HomeFacts
  <2> QED  BY <1>6, <1>8, <2>1, <2>2, <2>3, SmallLoses
<1> QED  BY <1>7, <1>8

(* Where it falls in the CLI thread's call does not matter to the pointers *)
(* that thread holds, unless the rotation fails under its scan.            *)
LEMMA RfKept ==
    ASSUME TypeInv, RfAppendStep, NEW h, Exact(flash, cli, h), Kept(flash, cli),
           Small(flash, SeqHalf - 3), ~blind'
    PROVE  Kept(flash', cli')
<1>1. /\ flash \in Flashes /\ cli \in CliTypes /\ cli' \in CliTypes
      /\ cli'.step = cli.step /\ cli'.at = cli.at
      /\ cli'.found = cli.found /\ cli'.newest = cli.newest
  BY RfFields DEF TypeInv
<1>2. /\ HomeAt(flash, h) /\ h \in Pointers /\ h[1] \in Pages
      /\ cli.step \in Chose => cli.newest = h
  BY PointerParts DEF Exact, HomeAt
<1>3. flash' \in Flashes /\ Seen(flash', h)  BY <1>2, RfCases, RfHome
<1>4. HasRecord(flash')  BY <1>3, SeenVisible DEF Seen
<1>5. KeptNewest(flash', cli')
  BY <1>1, <1>2, <1>3 DEF Kept, KeptNewest, Chose
<1>6. ASSUME cli.step \in {"scan", "choose"}
      PROVE  /\ \A p \in Pages : FoundFits(flash', cli', p)
             /\ ScanClear(flash', cli')
             /\ Promise(flash', cli')
  <2>1. /\ \A p \in Pages : cli.found[p] # None =>
              cli.found[p][1] = p /\ Seen(flash, cli.found[p]) /\ Looked(cli, cli.found[p])
        /\ Looked(cli, h) => cli.found[h[1]] = h
        /\ cli.step = "scan" => \A j \in Slots : j < cli.at[2] => flash[cli.at[1]][j] # Erased
    BY <1>6 DEF Exact, ExactFound
  <2>2. Promise(flash', cli')
    BY <1>1, <1>2, <1>3, <2>1 DEF Promise, Looked
  <2> DEFINE w == Confirmed(At(flash, h).val)
             X == RotationPage(flash)
             t == Target(flash)
             fl1 == Cleared(flash)
             r == NextRecord(flash, w)
  <2>3. w \in Metadata  BY <1>1, <1>2, HomeFacts, PayloadType
  <2>4. /\ findNewestMetadataRecord(flash) = At(flash, h)
        /\ X \in Pages /\ X # h[1]
        /\ r \in Records
        /\ t \in Pointers /\ fl1 \in Flashes /\ At(fl1, t) = Erased
        /\ Appended(flash, w) = Written(fl1, t[1], t[2], r)
        /\ Programmed(fl1, t, Garbage) = Written(fl1, t[1], t[2], Garbage)
    BY <1>1, <1>2, <2>3, RfShape
  <2>5. Confirmed(Newest) = w  BY <2>4 DEF Newest
  <2>6. r \in Contents /\ r # Erased /\ Garbage \in Contents /\ Garbage # Erased
    BY <2>4, RecordFacts DEF Contents
  <2>7. NoFreeSlot(flash) => fl1 = ErasedPage(flash, X) /\ t = <<X, 0>>
    BY DEF Cleared, Target
  <2>8. ~NoFreeSlot(flash) => fl1 = flash  BY DEF Cleared
  <2> HIDE DEF w, X, t, fl1, r
  <2>9. CASE ~NoFreeSlot(flash)
    <3>1. flash' = flash \/ \E c \in {r, Garbage} : flash' = Written(flash, t[1], t[2], c)
      BY <2>4, <2>5, <2>8, <2>9, RfCases DEF Placed, Lost, w, t, fl1, r
    <3>2. \A u \in Pointers : Seen(flash, u) => Seen(flash', u)
      <4> SUFFICES ASSUME NEW u \in Pointers, Seen(flash, u) PROVE Seen(flash', u)
        OBVIOUS
      <4>1. u # t  BY <2>4, <2>8, <2>9 DEF Seen, isValidRecord
      <4> QED  BY <1>1, <2>4, <2>6, <3>1, <4>1, SeenWritten
    <3>3. \A q \in Pages, j \in Slots : flash[q][j] # Erased => flash'[q][j] # Erased
      <4>1. t[1] \in Pages /\ t[2] \in Slots  BY <2>4, PointerParts
      <4>2. ASSUME NEW c \in {r, Garbage}, flash' = Written(flash, t[1], t[2], c),
                   NEW q \in Pages, NEW j \in Slots, flash[q][j] # Erased
            PROVE  flash'[q][j] # Erased
        <5>1. c \in Contents /\ c # Erased  BY <2>6
        <5>2. CASE q = t[1] /\ j = t[2]
          BY <1>1, <4>1, <4>2, <5>1, <5>2, WrittenSlot
        <5>3. CASE ~(q = t[1] /\ j = t[2])
          BY <1>1, <4>1, <4>2, <5>1, <5>3, WrittenSlot
        <5> QED  BY <5>2, <5>3
      <4> QED  BY <3>1, <4>2
    <3>4. \A p \in Pages : FoundFits(flash', cli', p)
      BY <1>1, <2>1, <3>2 DEF FoundFits, Seen
    <3>5. ScanClear(flash', cli')
      BY <1>1, <2>1, <3>3, PointerParts DEF ScanClear
    <3> QED  BY <2>2, <3>4, <3>5
  <2>10. CASE NoFreeSlot(flash)
    <3>1. flash' = Written(fl1, t[1], t[2], r) /\ t[1] = X /\ t[2] = 0
      BY <1>6, <2>4, <2>5, <2>7, <2>10, RfCases DEF Placed, w, t, fl1, r
    <3>2. /\ flash'[X][0] = r
          /\ \A j \in Slots : j # 0 => flash'[X][j] = Erased
          /\ \A q \in Pages : q # X => flash'[q] = flash[q]
      <4>1. 0 \in Slots  BY Constants
      <4>2. /\ flash'[X][0] = r
            /\ \A q \in Pages, j \in Slots : ~(q = X /\ j = 0) => flash'[q][j] = fl1[q][j]
        BY <2>4, <2>6, <3>1, <4>1, WrittenSlot
      <4>3. /\ \A q \in Pages : q # X => fl1[q] = flash[q]
            /\ \A j \in Slots : fl1[X][j] = Erased
        BY <1>1, <2>4, <2>7, <2>10, ErasedFacts
      <4>4. \A q \in Pages : q # X => flash'[q] = fl1[q]
        BY <2>4, <3>1 DEF Written, Flashes
      <4> QED  BY <2>4, <4>2, <4>3, <4>4
    <3>3. Seen(flash', <<X, 0>>)
      <4>1. <<X, 0>> \in Pointers  BY <2>4, Constants DEF Pointers
      <4>2. isValidRecord(r)  BY <2>4, RecordFacts DEF isValidRecord
      <4>3. \A j \in 0 .. 0 : flash'[X][j] # Erased  BY <2>6, <3>2
      <4> QED  BY <3>2, <4>1, <4>2, <4>3 DEF Seen, At
    <3>4. cli.at[1] \in 0 .. 1 /\ cli.at[2] \in 0 .. N /\ X \in 0 .. 1
      BY <1>1, <2>4, PointerParts, Constants
    <3>5. (cli.at[1] = X /\ AtRec(flash', cli')) => cli.at[2] = 0
      <4> SUFFICES ASSUME cli.at[1] = X, cli.at[2] < N, cli.at[2] # 0
                   PROVE  At(flash', cli.at) = Erased
        BY <1>1 DEF AtRec
      <4>1. cli.at[2] \in Slots  BY <3>4, Constants
      <4> QED  BY <3>2, <4>1 DEF At
    <3>6. ASSUME NEW p \in Pages PROVE FoundFits(flash', cli', p)
      <4> DEFINE f == cli.found[p]
      <4> SUFFICES ASSUME f # None PROVE FoundFits(flash', cli', p)
        BY <1>1 DEF FoundFits
      <4>1. f[1] = p /\ Seen(flash, f) /\ Looked(cli, f) /\ f \in Pointers
        BY <2>1 DEF Seen
      <4>2. CASE p # X
        <5>1. Seen(flash', f)  BY <3>2, <4>1, <4>2, SeenPage
        <5> QED  BY <1>1, <4>1, <5>1 DEF FoundFits
      <4>3. CASE p = X /\ f[2] = 0
        <5>1. f = <<X, 0>>  BY <4>1, <4>3, PointerParts
        <5> QED  BY <1>1, <3>3, <4>1, <5>1 DEF FoundFits
      <4>4. CASE p = X /\ f[2] # 0
        <5>1. At(flash', f) = Erased  BY <3>2, <4>1, <4>4, PointerParts DEF At
        <5>2. \/ cli.step = "choose" \/ p < cli.at[1]
              \/ p = cli.at[1] /\ f[2] < cli.at[2]
          BY <4>1 DEF Looked, Before
        <5>3. ASSUME p = cli.at[1], f[2] < cli.at[2] PROVE ~AtRec(flash', cli')
          <6>1. cli.at[2] # 0  BY <3>4, <4>1, <5>3, PointerParts
          <6> QED  BY <3>5, <4>4, <5>3, <6>1
        <5> QED  BY <1>1, <4>1, <5>1, <5>2, <5>3 DEF FoundFits
      <4> QED  BY <4>2, <4>3, <4>4
    <3>7. ScanClear(flash', cli')
      <4> SUFFICES ASSUME cli.step = "scan", AtRec(flash', cli'),
                          NEW j \in Slots, j < cli.at[2]
                   PROVE  flash'[cli.at[1]][j] # Erased
        BY <1>1 DEF ScanClear
      <4>1. cli.at[1] # X  BY <3>4, <3>5, Constants
      <4>2. cli.at[1] \in Pages  BY <1>1, PointerParts
      <4> QED  BY <2>1, <3>2, <4>1, <4>2
    <3> QED  BY <2>2, <3>6, <3>7
  <2> QED  BY <2>9, <2>10
<1>7. KeptFound(flash', cli')  BY <1>1, <1>6 DEF KeptFound
<1> QED  BY <1>4, <1>5, <1>7 DEF Kept

-----------------------------------------------------------------------------
(* The invariant of the journal *)

ConfirmedOk == \E i \in 1 .. Len(confirms) : confirms[i] = "ok"

\* What the answers so far ask of the newest record.
Durable(ok, answer, v) ==
    /\ ok => v.confirmed
    /\ answer = "ok" => v.state = "requested"

JournalInv ==
    /\ alone \in BOOLEAN /\ blind \in BOOLEAN
    /\ rf # "ready" => alone
    /\ alone => ~blind
    /\ ~blind => NumbersSmall(flash, cli, rf) /\ Kept(flash, cli)
    /\ alone => \E h \in Pointers : Exact(flash, cli, h) /\ Durable(ConfirmedOk, told, At(flash, h).val)

(* One confirmation more.                                                  *)
LEMMA AppendOk ==
    ASSUME confirms \in Seq(Results), NEW r \in Results, confirms' = Append(confirms, r)
    PROVE  ConfirmedOk' <=> (ConfirmedOk \/ r = "ok")
<1> DEFINE n == Len(confirms)
<1>1. /\ n \in Nat /\ Len(confirms') = n + 1 /\ confirms'[n + 1] = r
      /\ \A i \in 1 .. n : confirms'[i] = confirms[i]
  BY AppendProperties, LenProperties
<1> HIDE DEF n
<1>2. ConfirmedOk' <=> \E i \in 1 .. n + 1 : confirms'[i] = "ok"  BY <1>1 DEF ConfirmedOk
<1>3. ConfirmedOk <=> \E i \in 1 .. n : confirms[i] = "ok"  BY DEF ConfirmedOk, n
<1>4. ASSUME NEW i \in 1 .. n + 1, confirms'[i] = "ok" PROVE ConfirmedOk \/ r = "ok"
  <2>1. CASE i = n + 1  BY <1>1, <1>4, <2>1
  <2>2. CASE i # n + 1
    <3>1. i \in 1 .. n  BY <1>1, <2>2
    <3> QED  BY <1>1, <1>3, <1>4, <3>1
  <2> QED  BY <2>1, <2>2
<1>5. ASSUME ConfirmedOk PROVE ConfirmedOk'
  <2>1. PICK i \in 1 .. n : confirms[i] = "ok"  BY <1>3, <1>5
  <2>2. i \in 1 .. n + 1 /\ confirms'[i] = "ok"  BY <1>1, <2>1
  <2> QED  BY <1>2, <2>2
<1>6. ASSUME r = "ok" PROVE ConfirmedOk'
  <2>1. n + 1 \in 1 .. n + 1 /\ confirms'[n + 1] = "ok"  BY <1>1, <1>6
  <2> QED  BY <1>2, <2>1
<1> QED  BY <1>2, <1>4, <1>5, <1>6

(* Room for one record more, and for the radio thread's.                   *)
LEMMA LimitFacts ==
    ASSUME NEW c, NEW radio
    PROVE  /\ Limit(c, radio) \in Int /\ Limit(c, radio) <= SeqHalf - 2
           /\ (c.step \in Calls \/ radio # "ready") => Limit(c, radio) <= SeqHalf - 3
           /\ \A c2 : (c2.step \in Calls \cup {"start"} => c.step \in Calls \cup {"start"})
                        => Limit(c, radio) <= Limit(c2, radio)
           /\ \A c2 : (c.step \in Calls /\ c2.step \in Outside \ {"start"})
                        => Limit(c2, radio) = Limit(c, radio) + 1
           /\ radio # "ready" => \A c2 : c2.step = c.step => Limit(c2, "ready") = Limit(c, radio) + 1
           /\ SeqHalf - 4 <= Limit(c, radio)
<1>1. SeqHalf \in Int  BY Constants
<1>2. \A s \in Outside \ {"start"} : s \notin Calls \cup {"start"}  BY DEF Outside, Calls
<1> QED  BY <1>1, <1>2 DEF Limit

LEMMA SmallMore ==
    ASSUME NEW fl \in Flashes, NEW m \in Int, NEW m2 \in Int, m <= m2, Small(fl, m)
    PROVE  Small(fl, m2)
<1>1. \A t \in Pointers : isValidRecord(At(fl, t)) => At(fl, t).seq \in Int
  BY ReadType, RecordFacts, Constants
<1> QED  BY <1>1 DEF Small

(* The journal the device starts with: the record with number k is home.   *)
LEMMA JournalInit == Init => JournalInv
<1> SUFFICES ASSUME Init PROVE JournalInv  OBVIOUS
<1>1. PICK k \in 1 .. 2 * N : flash = Journal(k)  BY DEF Init
<1>2. flash \in Flashes /\ cli \in CliTypes  BY TypeInit DEF TypeInv
<1>3. cli.step = "start"  BY IdleType DEF Init, Outside
<1> DEFINE num(t) == t[1] * N + t[2] + 1
<1>4. \A p \in Pages, i \in Slots : num(<<p, i>>) \in Nat /\ num(<<p, i>>) >= 1
  BY Constants
<1>5. \A p \in Pages, i \in Slots :
        /\ flash[p][i] = Erased <=> num(<<p, i>>) > k
        /\ num(<<p, i>>) <= k => /\ flash[p][i] \in Records
                                /\ flash[p][i].seq = num(<<p, i>>)
  <2> SUFFICES ASSUME NEW p \in Pages, NEW i \in Slots
               PROVE  /\ flash[p][i] = Erased <=> num(<<p, i>>) > k
                      /\ num(<<p, i>>) <= k => /\ flash[p][i] \in Records
                                              /\ flash[p][i].seq = num(<<p, i>>)
    OBVIOUS
  <2> DEFINE n == p * N + i + 1
             r == [seq |-> n, val |-> [Booted EXCEPT !.confirmed = n < k]]
  <2>1. flash[p][i] = IF n > k THEN Erased ELSE r  BY <1>1 DEF Journal
  <2>2. num(<<p, i>>) = n /\ n \in Nat /\ k \in Nat  BY <1>1, <1>4, Constants
  <2>3. r.seq = n  OBVIOUS
  <2>4. n <= k => r # Erased /\ r # Garbage
    <3>1. n <= k => r \in Records
      <4>1. \A b \in BOOLEAN : [Booted EXCEPT !.confirmed = b] \in Metadata
        BY DEF Booted, Metadata
      <4>2. [Booted EXCEPT !.confirmed = n < k] \in Metadata
        <5>1. (n < k) \in BOOLEAN  BY <2>2
        <5> QED  BY <4>1, <5>1, Zenon
      <4> QED  BY <2>2, <4>2, Constants, AppAssumption DEF Records
    <3> QED  BY <3>1, RecordFacts
  <2>5. flash[p][i] \in Contents  BY <1>2 DEF Flashes
  <2> HIDE DEF r, n, num
  <2> QED  BY <2>1, <2>2, <2>3, <2>4, <2>5, RecordFacts DEF Contents
<1>6. \E p \in Pages, i \in Slots : num(<<p, i>>) = k
  <2>1. CASE k <= N
    <3>1. k - 1 \in Slots /\ 0 \in Pages /\ num(<<0, k - 1>>) = k  BY <2>1, Constants
    <3> QED  BY <3>1
  <2>2. CASE k > N
    <3>1. k - N - 1 \in Slots /\ 1 \in Pages /\ num(<<1, k - N - 1>>) = k  BY <2>2, Constants
    <3> QED  BY <3>1
  <2> QED  BY <2>1, <2>2, Constants
<1>7. PICK hp \in Pages, hi \in Slots : num(<<hp, hi>>) = k  BY <1>6
<1>8. \A p \in Pages, i \in Slots, q \in Pages, j \in Slots :
        num(<<p, i>>) = num(<<q, j>>) => p = q /\ i = j
  BY Constants
<1>9. \A j \in 0 .. hi : j \in Slots /\ num(<<hp, j>>) <= k  BY <1>7, Constants
<1>10. k \in Seqs /\ k <= SeqHalf - 4 /\ k \in Nat  BY Constants, AppAssumption
<1> HIDE DEF num
<1> DEFINE h == <<hp, hi>>
<1>11. h \in Pointers /\ At(flash, h) = flash[hp][hi] /\ h[1] = hp /\ h[2] = hi
  BY DEF Pointers, At
<1>12. At(flash, h) \in Records /\ At(flash, h).seq = k
  BY <1>4, <1>5, <1>7, <1>10, <1>11
<1>13. \A p \in Pages, i \in Slots : isValidRecord(flash[p][i]) =>
         flash[p][i].seq = num(<<p, i>>) /\ num(<<p, i>>) <= k
  BY <1>4, <1>5, <1>10 DEF isValidRecord
<1>14. Distinct(flash)
  <2> SUFFICES ASSUME NEW p \in Pages, NEW q \in Pages, NEW i \in Slots, NEW j \in Slots,
                      isValidRecord(flash[p][i]), isValidRecord(flash[q][j]),
                      flash[p][i].seq = flash[q][j].seq
               PROVE  p = q /\ i = j
    BY DEF Distinct
  <2>1. num(<<p, i>>) = num(<<q, j>>)  BY <1>13
  <2> QED  BY <1>8, <2>1
<1>15. ASSUME NEW j \in 0 .. hi PROVE flash[hp][j] # Erased
  <2>1. j \in Slots /\ num(<<hp, j>>) <= k  BY <1>9
  <2>2. num(<<hp, j>>) \in Nat  BY <1>4, <2>1
  <2>3. ~(num(<<hp, j>>) > k)  BY <1>10, <2>1, <2>2
  <2> QED  BY <1>5, <2>1, <2>3
<1>16. ASSUME NEW q \in Pages, NEW j \in Slots, isValidRecord(flash[q][j])
       PROVE  (q = hp /\ j = hi) \/ isSequenceNewer(At(flash, h).seq, flash[q][j].seq)
  <2>1. flash[q][j].seq = num(<<q, j>>) /\ num(<<q, j>>) <= k  BY <1>13, <1>16
  <2>2. CASE num(<<q, j>>) = k  BY <1>7, <1>8, <2>2
  <2>3. CASE num(<<q, j>>) < k
    <3>1. num(<<q, j>>) \in Seqs /\ num(<<q, j>>) <= SeqHalf - 2 /\ k <= SeqHalf - 2
      BY <1>4, <1>10, <2>1, Constants
    <3> QED  BY <1>10, <1>12, <2>1, <2>3, <3>1, SmallOrder
  <2> QED  BY <1>4, <1>10, <2>1, <2>2, <2>3
<1>17. HomeAt(flash, h)
  BY <1>11, <1>12, <1>14, <1>15, <1>16 DEF HomeAt, Home
<1>18. Small(flash, SeqHalf - 4)
  <2> SUFFICES ASSUME NEW t \in Pointers, isValidRecord(At(flash, t))
               PROVE  At(flash, t).seq <= SeqHalf - 4
    BY DEF Small
  <2>1. t[1] \in Pages /\ t[2] \in Slots /\ At(flash, t) = flash[t[1]][t[2]]
    BY PointerParts DEF At
  <2>2. At(flash, t).seq = num(<<t[1], t[2]>>) /\ num(<<t[1], t[2]>>) <= k
    BY <1>13, <2>1
  <2>3. num(<<t[1], t[2]>>) \in Nat  BY <1>4, <2>1
  <2> QED  BY <1>10, <2>2, <2>3, Constants
<1>19. NumbersSmall(flash, cli, rf)
  <2>1. /\ Limit(cli, rf) \in Int /\ SeqHalf - 4 <= Limit(cli, rf) /\ SeqHalf - 4 \in Int
    BY LimitFacts, Constants
  <2>2. Small(flash, Limit(cli, rf))  BY <1>2, <1>18, <2>1, SmallMore
  <2> QED  BY <1>3, <2>2 DEF NumbersSmall, Writing
<1>20. Kept(flash, cli)  BY <1>2, <1>3, <1>17, HomeFacts, KeptOutside DEF Outside
<1>21. Exact(flash, cli, h)  BY <1>3, <1>17, ExactOutside DEF Outside
<1>22. Durable(ConfirmedOk, told, At(flash, h).val)
  <2>1. Len(confirms) = 0 /\ told = "none"  BY EmptySeq DEF Init
  <2>2. 1 .. 0 = {}  OBVIOUS
  <2> QED  BY <2>1, <2>2 DEF Durable, ConfirmedOk
<1>23. alone = TRUE /\ blind = FALSE  BY DEF Init
<1> HIDE DEF h
<1> QED  BY <1>11, <1>19, <1>20, <1>21, <1>22, <1>23 DEF JournalInv

(* Steps that leave the journal and the answers alone.                     *)
LEMMA QuietJournal ==
    ASSUME JournalInv, UNCHANGED <<flash, confirms, told, alone, blind>>,
           rf' = "ready" \/ rf # "ready",
           ~blind => NumbersSmall(flash, cli', rf') /\ Kept(flash, cli'),
           alone => \A h \in Pointers : Exact(flash, cli, h) => Exact(flash, cli', h)
    PROVE  JournalInv'
<1>1. ConfirmedOk' <=> ConfirmedOk  BY DEF ConfirmedOk
<1>2. \A v : Durable(ConfirmedOk, told, v) => Durable(ConfirmedOk', told', v)
  BY <1>1 DEF Durable
<1>3. ASSUME alone PROVE \E h \in Pointers : Exact(flash', cli', h) /\ Durable(ConfirmedOk', told', At(flash', h).val)
  <2>1. PICK h \in Pointers : Exact(flash, cli, h) /\ Durable(ConfirmedOk, told, At(flash, h).val)
    BY <1>3 DEF JournalInv
  <2> QED  BY <1>2, <1>3, <2>1
<1> QED  BY <1>3 DEF JournalInv

(* The end of a call asks no more than what the call has written.          *)
LEMMA ReturnDurable ==
    ASSUME TypeInv, NEW result \in Results, Return(result), cli.step \in Calls,
           NEW v \in Metadata, Durable(ConfirmedOk, told, v)
    PROVE  /\ result = "error" => Durable(ConfirmedOk', told', v)
           /\ Durable(ConfirmedOk', told',
                      IF cli.call = "confirm" THEN Confirmed(v) ELSE Requested(v))
<1>1. cli.call \in {"confirm", "request"} /\ confirms \in Seq(Results)
  BY DEF TypeInv, Staged, CliTypes
<1>2. /\ confirms' = IF cli.call = "confirm" THEN Append(confirms, result) ELSE confirms
      /\ told' = IF cli.call = "request" THEN result ELSE told
  BY DEF Return
<1>3. /\ cli.call = "confirm" => (ConfirmedOk' <=> (ConfirmedOk \/ result = "ok"))
      /\ cli.call # "confirm" => (ConfirmedOk' <=> ConfirmedOk)
  <2>1. CASE cli.call = "confirm"  BY <1>1, <1>2, <2>1, AppendOk
  <2>2. CASE cli.call # "confirm"  BY <1>2, <2>2 DEF ConfirmedOk
  <2> QED  BY <2>1, <2>2
<1>4. /\ Confirmed(v).confirmed /\ Confirmed(v).state = v.state
      /\ Requested(v).state = "requested" /\ Requested(v).confirmed = v.confirmed
  BY PayloadType
<1>5. (ConfirmedOk => v.confirmed) /\ (told = "ok" => v.state = "requested")
  BY DEF Durable
<1>6. CASE cli.call = "confirm"
  <2>1. told' = told /\ (ConfirmedOk' <=> (ConfirmedOk \/ result = "ok"))
    BY <1>2, <1>3, <1>6
  <2>2. Durable(ConfirmedOk', told', Confirmed(v))  BY <1>4, <1>5, <2>1 DEF Durable
  <2>3. result = "error" => Durable(ConfirmedOk', told', v)  BY <1>5, <2>1 DEF Durable
  <2> QED  BY <1>6, <2>2, <2>3
<1>7. CASE cli.call = "request"
  <2>1. told' = result /\ (ConfirmedOk' <=> ConfirmedOk)
    BY <1>2, <1>3, <1>7
  <2>2. Durable(ConfirmedOk', told', Requested(v))  BY <1>4, <1>5, <2>1 DEF Durable
  <2>3. result = "error" => Durable(ConfirmedOk', told', v)  BY <1>5, <2>1 DEF Durable
  <2> QED  BY <1>7, <2>2, <2>3
<1> QED  BY <1>1, <1>6, <1>7

(* The call returns: nothing is left of it but the flash.                  *)
LEMMA ReturnJournal ==
    ASSUME TypeInv, JournalInv, NEW result \in Results, Return(result), cli.step \in Calls,
           flash' \in Flashes, UNCHANGED <<rf, alone, blind>>,
           ~blind => HasRecord(flash') /\ Small(flash', Limit(cli, rf) + 1),
           alone => \E h \in Pointers : HomeAt(flash', h) /\ Durable(ConfirmedOk', told', At(flash', h).val)
    PROVE  JournalInv'
<1>1. cli'.step \in {"idle", "reset"}  BY IdleType DEF Return, Outside
<1>2. cli'.step \in Outside \ {"start"} /\ cli'.step \notin Writing
  BY <1>1 DEF Outside, Writing
<1>3. Limit(cli', rf) = Limit(cli, rf) + 1  BY <1>2, LimitFacts
<1>4. ~blind => NumbersSmall(flash', cli', rf) /\ Kept(flash', cli')
  BY <1>2, <1>3, KeptOutside DEF NumbersSmall
<1>5. alone => \E h \in Pointers : Exact(flash', cli', h) /\ Durable(ConfirmedOk', told', At(flash', h).val)
  BY <1>2, ExactOutside
<1> QED  BY <1>4, <1>5 DEF JournalInv

-----------------------------------------------------------------------------
(* The invariant is inductive *)

(* Steps of the CLI thread between calls.                                  *)
LEMMA OutsideJournal ==
    ASSUME TypeInv, TypeInv', JournalInv,
           CliReady \/ CliOpenFails \/ CliRequest \/ CliTx \/ CliTxDone
    PROVE  JournalInv'
<1>1. /\ UNCHANGED <<flash, rf, confirms, told, alone, blind>>
      /\ cli.step \in Outside
  BY DEF CliReady, CliOpenFails, CliRequest, CliTx, CliTxDone, CliLocal, CliStep, Outside
<1>2. flash \in Flashes /\ cli' \in CliTypes  BY DEF TypeInv
<1>3. \/ /\ cli'.step \in Outside
         /\ cli'.step = "start" => cli.step = "start"
      \/ /\ cli'.step = "scan" /\ cli'.at = <<Primary, 0>> /\ cli'.record = None
         /\ \A p \in Pages : cli'.found[p] = None
         /\ cli.step = "start" \/ WithinWear(flash)
  <2>1. CASE CliReady
    BY <2>1, IdleType DEF CliReady, CliLocal, CliStep, Outside
  <2>2. CASE CliRequest
    BY <2>2, IdleType DEF CliRequest, CliStep
  <2>3. CASE CliOpenFails \/ CliTx \/ CliTxDone
    BY <2>3, IdleType DEF CliOpenFails, CliTx, CliTxDone, CliLocal, CliStep, Outside
  <2> QED  BY <2>1, <2>2, <2>3
<1>4. CASE cli'.step \in Outside /\ (cli'.step = "start" => cli.step = "start")
  <2>1. Limit(cli, rf) <= Limit(cli', rf) /\ Limit(cli, rf) \in Int /\ Limit(cli', rf) \in Int
    <3>1. cli'.step \in Calls \cup {"start"} => cli.step \in Calls \cup {"start"}
      BY <1>4 DEF Outside, Calls
    <3> QED  BY <3>1, LimitFacts
  <2>2. ~blind => NumbersSmall(flash, cli', rf)
    BY <1>2, <1>4, <2>1, SmallMore DEF JournalInv, NumbersSmall, Writing, Outside
  <2>3. ~blind => Kept(flash, cli')
    BY <1>4, KeptOutside DEF JournalInv, Kept
  <2>4. \A h \in Pointers : Exact(flash, cli, h) => Exact(flash, cli', h)
    BY <1>4, ExactOutside DEF Exact
  <2> QED  BY <1>1, <2>2, <2>3, <2>4, QuietJournal
<1>5. CASE /\ cli'.step = "scan" /\ cli'.at = <<Primary, 0>> /\ cli'.record = None
           /\ \A p \in Pages : cli'.found[p] = None
           /\ cli.step = "start" \/ WithinWear(flash)
  <2>1. cli'.step \in Calls \cup {"start"} /\ cli'.step \notin Writing
    BY <1>5 DEF Calls, Writing
  <2>2. ~blind => Small(flash, Limit(cli', rf))
    <3>1. CASE cli.step = "start"
      <4>1. Limit(cli', rf) = Limit(cli, rf)  BY <2>1, <3>1 DEF Limit
      <4> QED  BY <4>1 DEF JournalInv, NumbersSmall
    <3>2. CASE WithinWear(flash)
      <4>1. Small(flash, SeqHalf - 4)
        BY <3>2, PointerParts DEF Small, WithinWear, At
      <4>2. /\ SeqHalf - 4 \in Int /\ Limit(cli', rf) \in Int /\ SeqHalf - 4 <= Limit(cli', rf)
        BY LimitFacts, Constants
      <4> QED  BY <1>2, <4>1, <4>2, SmallMore
    <3> QED  BY <1>5, <3>1, <3>2
  <2>3. ~blind => NumbersSmall(flash, cli', rf)  BY <2>1, <2>2 DEF NumbersSmall
  <2>4. ~blind => Kept(flash, cli')
    BY <1>2, <1>5, KeptCall DEF JournalInv, Kept
  <2>5. \A h \in Pointers : Exact(flash, cli, h) => Exact(flash, cli', h)
    BY <1>2, <1>5, ExactCall DEF Exact
  <2> QED  BY <1>1, <2>3, <2>4, <2>5, QuietJournal
<1> QED  BY <1>3, <1>4, <1>5

(* Steps of a call that only read.                                         *)
LEMMA ReadingJournal ==
    ASSUME TypeInv, JournalInv, CliScan \/ CliScanned \/ CliChoose \/ CliNumber \/ CliSlot
    PROVE  JournalInv'
<1>1. /\ UNCHANGED <<flash, rf, confirms, told, alone, blind>>
      /\ cli.step \in Calls
  BY DEF CliScan, CliScanned, CliChoose, CliNumber, CliSlot, CliLocal, CliStep, Calls
<1>2. flash \in Flashes  BY DEF TypeInv
<1>3. Limit(cli, rf) \in Int /\ Limit(cli, rf) <= SeqHalf - 3  BY <1>1, LimitFacts
<1>4. ~blind => Small(flash, Limit(cli, rf)) /\ Small(flash, SeqHalf - 2) /\ Kept(flash, cli)
  <2>1. SeqHalf - 2 \in Int /\ Limit(cli, rf) <= SeqHalf - 2  BY <1>3, Constants
  <2> QED  BY <1>2, <1>3, <2>1, SmallMore DEF JournalInv, NumbersSmall
<1>5. ~blind => Kept(flash, cli')
  BY <1>4, KeptScan, KeptScanned, KeptChoose, KeptNumber, KeptSlot
<1>6. alone => \A h \in Pointers : Exact(flash, cli, h) => Exact(flash, cli', h)
  BY <1>4, ExactScan, ExactScanned, ExactChoose, ExactNumber, ExactSlot DEF JournalInv
<1>7. ~blind => NumbersSmall(flash, cli', rf)
  <2>1. CASE CliScan \/ CliScanned \/ CliChoose
    <3>1. cli'.step \in {"scan", "choose", "copy", "number"}
      BY <2>1, ScanFields, ScannedFields, ChooseFields
    <3>2. Limit(cli', rf) = Limit(cli, rf) /\ cli'.step \notin Writing
      BY <1>1, <3>1 DEF Limit, Calls, Writing
    <3> QED  BY <1>4, <3>2 DEF NumbersSmall
  <2>2. CASE CliSlot
    <3>1. /\ cli.step = "slot" /\ cli'.step \in Writing /\ cli'.step \in Calls
          /\ cli'.record = cli.record
      BY <2>2, SlotFields DEF Writing, Calls
    <3>2. Limit(cli', rf) = Limit(cli, rf)  BY <1>1, <3>1 DEF Limit
    <3> QED  BY <3>1, <3>2 DEF NumbersSmall, JournalInv, Writing
  <2>3. CASE CliNumber
    <3> SUFFICES ASSUME ~blind PROVE NumbersSmall(flash, cli', rf)  OBVIOUS
    <3>1. /\ cli.step = "number" /\ cli'.step = "slot"
          /\ \E s \in NumbersAt(flash, cli.newest) : s \in Seqs /\ cli'.record.seq = NextSeq(s)
      BY <2>3, NumberFields
    <3>2. Limit(cli', rf) = Limit(cli, rf)  BY <1>1, <3>1 DEF Limit, Calls
    <3>3. Seen(flash, cli.newest)  BY <1>4, <3>1 DEF Kept, KeptNewest, Chose
    <3>4. /\ NumbersAt(flash, cli.newest) = {At(flash, cli.newest).seq}
          /\ cli.newest \in Pointers /\ At(flash, cli.newest).seq \in Seqs
      BY <1>2, <3>3, SeenNumber
    <3>5. At(flash, cli.newest).seq <= Limit(cli, rf)
      BY <1>4, <3>3, <3>4 DEF Small, Seen
    <3>6. At(flash, cli.newest).seq <= SeqHalf - 2  BY <1>3, <3>4, <3>5, Constants
    <3>7. NextSeq(At(flash, cli.newest).seq) = At(flash, cli.newest).seq + 1
      BY <3>4, <3>6, SmallOrder
    <3>8. cli'.record.seq <= Limit(cli, rf) + 1
      BY <1>3, <3>1, <3>4, <3>5, <3>7, Constants
    <3> QED  BY <1>4, <3>2, <3>8 DEF NumbersSmall
  <2> QED  BY <2>1, <2>2, <2>3
<1> QED  BY <1>1, <1>5, <1>6, <1>7, QuietJournal DEF JournalInv

(* The metadata is copied, or refused.                                     *)
LEMMA CopyJournal ==
    ASSUME TypeInv, JournalInv, CliCopy
    PROVE  JournalInv'
<1>1. /\ UNCHANGED <<flash, rf, alone, blind>> /\ cli.step = "copy" /\ flash \in Flashes
  BY DEF CliCopy, CliStep, TypeInv
<1>2. cli.step \in Calls  BY <1>1 DEF Calls
<1>3. Limit(cli, rf) \in Int  BY LimitFacts
<1>4. CASE Return("error")
  <2>1. ~blind => HasRecord(flash) /\ Small(flash, Limit(cli, rf) + 1)
    BY <1>1, <1>3, SmallMore DEF JournalInv, Kept, NumbersSmall
  <2>2. ASSUME alone
        PROVE  \E h \in Pointers : HomeAt(flash, h) /\ Durable(ConfirmedOk', told', At(flash, h).val)
    <3>1. PICK h \in Pointers : Exact(flash, cli, h) /\ Durable(ConfirmedOk, told, At(flash, h).val)
      BY <2>2 DEF JournalInv
    <3>2. HomeAt(flash, h) /\ At(flash, h).val \in Metadata
      BY <1>1, <3>1, HomeFacts DEF Exact
    <3>3. Durable(ConfirmedOk', told', At(flash, h).val)
      BY <1>2, <1>4, <3>1, <3>2, ReturnDurable DEF Results
    <3> QED  BY <3>2, <3>3
  <2> QED  BY <1>1, <1>2, <1>4, <2>1, <2>2, ReturnJournal DEF Results
<1>5. CASE ~Return("error")
  <2>1. /\ ~Refused /\ UNCHANGED <<confirms, told>>
        /\ cli' \in CliTypes /\ cli'.step = "scan" /\ cli'.at = <<Primary, 0>>
        /\ \A p \in Pages : cli'.found[p] = None
    BY <1>5, CopyFields
  <2>2. Limit(cli', rf) = Limit(cli, rf) /\ cli'.step \notin Writing
    BY <1>2, <2>1 DEF Limit, Calls, Writing
  <2>3. ~blind => NumbersSmall(flash, cli', rf) /\ Kept(flash, cli')
    BY <2>1, <2>2, KeptCall DEF JournalInv, NumbersSmall, Kept
  <2>4. \A h \in Pointers : Exact(flash, cli, h) => Exact(flash, cli', h)
    BY <2>1, ExactCopy
  <2> QED  BY <1>1, <2>1, <2>3, <2>4, QuietJournal DEF JournalInv
<1> QED  BY <1>4, <1>5

(* The erase and the body.                                                 *)
LEMMA WritingJournal ==
    ASSUME TypeInv, JournalInv, CliErase \/ CliBody
    PROVE  JournalInv'
<1>1. /\ UNCHANGED <<rf, confirms, told, alone, blind>>
  BY DEF CliErase, CliBody, CliStep
<1>2. /\ cli.step \in {"erase", "body"} /\ cli'.step \in {"body", "crc"}
      /\ cli'.record = cli.record
  BY WritingFields
<1>3. Limit(cli', rf) = Limit(cli, rf) /\ cli.step \in Writing
  BY <1>2 DEF Limit, Calls, Writing
<1>4. ~blind => Kept(flash', cli')  BY KeptErase, KeptBody DEF JournalInv
<1>5. Loses(flash, flash')
  <2>1. flash \in Flashes /\ cli \in CliTypes /\ Staged(cli)  BY DEF TypeInv
  <2>2. cli.at[1] \in Pages  BY <2>1, PointerParts
  <2>3. CASE CliErase
    <3>1. PICK q \in Pages : q # cli.at[1]  BY <2>2, Constants
    <3> QED  BY <2>1, <2>2, <2>3, <3>1, ErasedLoses DEF CliErase
  <2>4. CASE CliBody
    <3>1. flash' = Programmed(flash, cli.at, Garbage)  BY <2>4 DEF CliBody
    <3>2. cli.at \in Pointers  BY <2>1, <2>4 DEF Staged, CliBody, CliStep
    <3>3. flash' = Written(flash, cli.at[1], cli.at[2], Garbage)
      BY <3>1, <3>2 DEF Programmed
    <3>4. cli.at[1] \in Pages /\ cli.at[2] \in Slots /\ Garbage \in Contents
      BY <3>2, PointerParts DEF Contents
    <3>5. ~isValidRecord(Garbage)  BY DEF isValidRecord
    <3> QED  BY <2>1, <3>3, <3>4, <3>5, WrittenSlot DEF Loses
  <2> QED  BY <2>3, <2>4
<1>6. ~blind => NumbersSmall(flash', cli', rf)
  <2>1. ~blind => Small(flash', Limit(cli, rf))
    BY <1>5, SmallLoses DEF JournalInv, NumbersSmall
  <2> QED  BY <1>2, <1>3, <2>1 DEF JournalInv, NumbersSmall
<1>7. ASSUME alone
      PROVE  \E h \in Pointers : Exact(flash', cli', h) /\ Durable(ConfirmedOk', told', At(flash', h).val)
  <2>1. PICK h \in Pointers : Exact(flash, cli, h) /\ Durable(ConfirmedOk, told, At(flash, h).val)
    BY <1>7 DEF JournalInv
  <2>2. Kept(flash, cli)  BY <1>7 DEF JournalInv
  <2>3. Exact(flash', cli', h) /\ At(flash', h) = At(flash, h)
    BY <2>1, <2>2, ExactErase, ExactBody
  <2>4. ConfirmedOk' <=> ConfirmedOk  BY <1>1 DEF ConfirmedOk
  <2>5. Durable(ConfirmedOk', told', At(flash', h).val)
    BY <1>1, <2>1, <2>3, <2>4 DEF Durable
  <2> QED  BY <2>3, <2>5
<1> QED  BY <1>1, <1>4, <1>6, <1>7 DEF JournalInv

(* The CRC word, and a flash operation that fails.                         *)
LEMMA EndJournal ==
    ASSUME TypeInv, TypeInv', JournalInv, CliCrc \/ CliFlashFails
    PROVE  JournalInv'
<1>1. UNCHANGED <<rf, alone, blind>> /\ cli.step \in Writing /\ cli.step \in Calls
  BY DEF CliCrc, CliFlashFails, CliStep, Writing, Calls
<1>2. flash \in Flashes /\ flash' \in Flashes  BY DEF TypeInv
<1>3. Limit(cli, rf) \in Int /\ Limit(cli, rf) <= SeqHalf - 3  BY <1>1, LimitFacts
<1>4. ASSUME ~blind
      PROVE  /\ Kept(flash, cli) /\ Small(flash, Limit(cli, rf)) /\ Small(flash, SeqHalf - 3)
             /\ cli.record.seq <= Limit(cli, rf) + 1
  <2>1. SeqHalf - 3 \in Int  BY Constants
  <2> QED  BY <1>1, <1>2, <1>3, <1>4, <2>1, SmallMore DEF JournalInv, NumbersSmall
<1>5. PICK result \in Results :
         /\ Return(result)
         /\ CliCrc => cli.step = "crc" /\ flash' = AfterCrc
         /\ ~CliCrc => CliFlashFails /\ result = "error"
  <2>1. CASE CliCrc  BY <2>1 DEF CliCrc, CliStep, Results
  <2>2. CASE ~CliCrc
    <3>1. CliFlashFails  BY <2>2
    <3> QED  BY <2>2, <3>1, FailsType DEF Results
  <2> QED  BY <2>1, <2>2
<1>6. ~blind => HasRecord(flash') /\ Small(flash', Limit(cli, rf) + 1)
  <2>1. CASE CliCrc
    BY <1>2, <1>3, <1>4, <1>5, <2>1, KeptCrc, SeenVisible, SmallCrc DEF Seen
  <2>2. CASE ~CliCrc
    BY <1>3, <1>4, <1>5, <2>2, KeptFails, SmallFails
  <2> QED  BY <2>1, <2>2
<1>7. ASSUME alone
      PROVE  \E h \in Pointers : HomeAt(flash', h) /\ Durable(ConfirmedOk', told', At(flash', h).val)
  <2>1. PICK h \in Pointers : Exact(flash, cli, h) /\ Durable(ConfirmedOk, told, At(flash, h).val)
    BY <1>7 DEF JournalInv
  <2>2. Kept(flash, cli) /\ Small(flash, SeqHalf - 3)  BY <1>4, <1>7 DEF JournalInv
  <2>3. HomeAt(flash, h) /\ At(flash, h).val \in Metadata
    BY <1>2, <2>1, HomeFacts DEF Exact
  <2>4. /\ result = "error" => Durable(ConfirmedOk', told', At(flash, h).val)
        /\ Durable(ConfirmedOk', told', IF cli.call = "confirm" THEN Confirmed(At(flash, h).val)
                                        ELSE Requested(At(flash, h).val))
    BY <1>1, <1>5, <2>1, <2>3, ReturnDurable
  <2>5. cli.record.val = IF cli.call = "confirm" THEN Confirmed(At(flash, h).val)
                         ELSE Requested(At(flash, h).val)
    <3>1. cli.record # None
      BY <1>1, Constants DEF TypeInv, Staged, Writing
    <3> QED  BY <1>1, <2>1, <3>1 DEF Exact, ExactRecord
  <2>6. CASE HomeAt(flash', h) /\ At(flash', h) = At(flash, h) /\ result = "error"
    BY <2>4, <2>6
  <2>7. CASE cli.at \in Pointers /\ HomeAt(flash', cli.at) /\ At(flash', cli.at) = cli.record
    BY <2>4, <2>5, <2>7
  <2>8. CASE CliCrc  BY <1>5, <2>1, <2>2, <2>7, <2>8, ExactCrc
  <2>9. CASE ~CliCrc  BY <1>5, <2>1, <2>2, <2>6, <2>7, <2>9, ExactFails
  <2> QED  BY <2>8, <2>9
<1> QED  BY <1>1, <1>2, <1>5, <1>6, <1>7, ReturnJournal

(* The radio thread's steps that leave the journal alone.                  *)
LEMMA RfQuietJournal ==
    ASSUME TypeInv, JournalInv, RfOpen \/ RfTuneFails \/ RfReady
    PROVE  JournalInv'
<1>1. UNCHANGED <<flash, cli, told, alone, blind>> /\ rf # "ready"
  BY DEF RfOpen, RfTuneFails, RfReady, RfReports
<1>2. ConfirmedOk' <=> ConfirmedOk
  <2>1. CASE confirms' = confirms  BY <2>1 DEF ConfirmedOk
  <2>2. CASE confirms' = Append(confirms, "error")
    BY <2>2, AppendOk DEF TypeInv, Results
  <2> QED  BY <2>1, <2>2 DEF RfOpen, RfTuneFails, RfReady
<1>3. /\ Limit(cli, rf) \in Int /\ Limit(cli, rf') \in Int /\ Limit(cli, rf) <= Limit(cli, rf')
  <2>1. SeqHalf \in Int  BY Constants
  <2> QED  BY <1>1, <2>1 DEF Limit
<1>4. ASSUME ~blind PROVE NumbersSmall(flash, cli, rf')
  <2>1. flash \in Flashes /\ cli \in CliTypes /\ Staged(cli)  BY DEF TypeInv
  <2>2. Small(flash, Limit(cli, rf'))
    BY <1>3, <1>4, <2>1, SmallMore DEF JournalInv, NumbersSmall
  <2>3. cli.step \in Writing => cli.record.seq \in Int
    BY <2>1, RecordFacts, Constants DEF Staged, Writing, CliTypes
  <2>4. cli.step \in Writing => cli.record.seq <= Limit(cli, rf') + 1
    BY <1>3, <1>4, <2>3 DEF JournalInv, NumbersSmall
  <2> QED  BY <2>2, <2>4 DEF NumbersSmall
<1>5. ASSUME alone
      PROVE  \E h \in Pointers : Exact(flash, cli, h) /\ Durable(ConfirmedOk', told', At(flash, h).val)
  <2>1. PICK h \in Pointers : Exact(flash, cli, h) /\ Durable(ConfirmedOk, told, At(flash, h).val)
    BY <1>5 DEF JournalInv
  <2> QED  BY <1>1, <1>2, <2>1 DEF Durable
<1> QED  BY <1>1, <1>4, <1>5 DEF JournalInv

(* Its append: outside a call of the CLI thread it takes the home along,   *)
(* inside one it leaves that thread's pointers usable.                     *)
LEMMA RfAppendJournal ==
    ASSUME TypeInv, JournalInv, RfAppendStep
    PROVE  TypeInv' /\ JournalInv'
<1>1. PICK r \in Results : RfConfirms(r)  BY RfFields
<1>2. /\ rf = "tuning" /\ rf' = "ready" /\ told' = told
      /\ confirms' = Append(confirms, r)
      /\ alone' = (alone /\ cli.call = "none")
  BY <1>1 DEF RfConfirms, RfReports
<1>3. alone /\ ~blind /\ alone \in BOOLEAN /\ blind \in BOOLEAN  BY <1>2 DEF JournalInv
<1>4. PICK h \in Pointers : Exact(flash, cli, h) /\ Durable(ConfirmedOk, told, At(flash, h).val)
  BY <1>3 DEF JournalInv
<1>5. NumbersSmall(flash, cli, rf) /\ Kept(flash, cli)  BY <1>3 DEF JournalInv
<1>6. /\ flash \in Flashes /\ cli \in CliTypes /\ Staged(cli) /\ confirms \in Seq(Results)
  BY DEF TypeInv
<1>7. /\ Limit(cli, rf) \in Int /\ Limit(cli, rf) <= SeqHalf - 3 /\ SeqHalf - 3 \in Int
  BY <1>2, LimitFacts, Constants
<1>8. Small(flash, Limit(cli, rf)) /\ Small(flash, SeqHalf - 3)
  BY <1>5, <1>6, <1>7, SmallMore DEF NumbersSmall
<1>9. /\ cli' \in CliTypes /\ Staged(cli')
      /\ cli'.step = cli.step /\ cli'.call = cli.call /\ cli'.record = cli.record
  BY RfFields
<1>10. Placed \/ Lost  BY RfCases
<1>11. HomeAt(flash, h)  BY <1>4 DEF Exact
<1>12. /\ flash' \in Flashes /\ Seen(flash', h) /\ Small(flash', Limit(cli, rf) + 1)
       /\ \/ HomeAt(flash', h) /\ At(flash', h) = At(flash, h) /\ ~Placed
          \/ \E t \in Pointers : /\ HomeAt(flash', t)
                                 /\ At(flash', t).val = Confirmed(At(flash, h).val)
  BY <1>7, <1>8, <1>10, <1>11, RfHome
<1>13. TypeInv'
  BY <1>2, <1>6, <1>9, <1>12, OneMore DEF TypeInv
<1>14. HasRecord(flash')  BY <1>12, SeenVisible
<1>15. NumbersSmall(flash', cli', rf')
  <2>1. Limit(cli', rf') = Limit(cli, rf) + 1  BY <1>2, <1>9, LimitFacts
  <2>2. cli.step \in Writing => cli.record.seq \in Int
    BY <1>6, RecordFacts, Constants DEF Staged, Writing, CliTypes
  <2> QED  BY <1>5, <1>7, <1>9, <1>12, <2>1, <2>2 DEF NumbersSmall
<1>16. blind' => cli.step \in {"scan", "choose"}
  BY <1>3 DEF RfAppendStep, RfAppends, RfEraseFails, RfProgramFails, Blinds
<1>17. blind' \in BOOLEAN
  <2>1. CASE RfAppends  BY <1>3, <2>1 DEF RfAppends
  <2>2. CASE RfEraseFails \/ RfProgramFails
    <3>1. blind' = (blind \/ Blinds)  BY <2>2 DEF RfEraseFails, RfProgramFails
    <3> QED  BY <3>1, Zenon
  <2> QED  BY <2>1, <2>2 DEF RfAppendStep
<1>18. CASE cli.call = "none"
  <2>1. cli.step \in Outside
    BY <1>6, <1>18 DEF Staged, CliTypes
  <2>2. alone' /\ ~blind' /\ alone' \in BOOLEAN
    BY <1>2, <1>3, <1>16, <1>18, <2>1 DEF Outside
  <2>3. Kept(flash', cli')  BY <1>9, <1>14, <2>1, KeptOutside
  <2>4. \E t \in Pointers :
           Exact(flash', cli', t) /\ Durable(ConfirmedOk', told', At(flash', t).val)
    <3>1. ConfirmedOk' <=> (ConfirmedOk \/ r = "ok")  BY <1>2, <1>6, AppendOk
    <3>2. At(flash, h).val \in Metadata  BY <1>6, <1>11, HomeFacts
    <3>3. CASE HomeAt(flash', h) /\ At(flash', h) = At(flash, h) /\ ~Placed
      <4>1. confirms' = Append(confirms, "error")  BY <3>3, RfCases
      <4>2. ConfirmedOk' <=> ConfirmedOk  BY <1>6, <4>1, AppendOk DEF Results
      <4>3. Durable(ConfirmedOk', told', At(flash', h).val)
        BY <1>2, <1>4, <3>3, <4>2 DEF Durable
      <4> QED  BY <1>9, <2>1, <3>3, <4>3, ExactOutside
    <3>4. CASE \E t \in Pointers : /\ HomeAt(flash', t)
                                   /\ At(flash', t).val = Confirmed(At(flash, h).val)
      <4>1. PICK t \in Pointers : /\ HomeAt(flash', t)
                                  /\ At(flash', t).val = Confirmed(At(flash, h).val)
        BY <3>4
      <4>2. Confirmed(At(flash, h).val).confirmed
            /\ Confirmed(At(flash, h).val).state = At(flash, h).val.state
        BY <3>2, PayloadType
      <4>3. Durable(ConfirmedOk', told', At(flash', t).val)
        BY <1>2, <1>4, <4>1, <4>2 DEF Durable
      <4> QED  BY <1>9, <2>1, <4>1, <4>3, ExactOutside
    <3> QED  BY <1>12, <3>3, <3>4
  <2>5. JournalInv'  BY <1>2, <1>15, <1>17, <2>2, <2>3, <2>4 DEF JournalInv
  <2> QED  BY <1>13, <2>5
<1>19. CASE cli.call # "none"
  <2>1. ~alone' /\ alone' \in BOOLEAN  BY <1>2, <1>19
  <2>2. ~blind' => Kept(flash', cli')  BY <1>4, <1>5, <1>8, RfKept
  <2>3. JournalInv'  BY <1>2, <1>15, <1>17, <2>1, <2>2 DEF JournalInv
  <2> QED  BY <1>13, <2>3
<1> QED  BY <1>18, <1>19

AllInv == TypeInv /\ ReadyInv /\ JournalInv

(* The conjunction of the three is inductive.                              *)
LEMMA AllNext ==
    ASSUME AllInv, [Next]_vars
    PROVE  AllInv'
<1>1. TypeInv /\ ReadyInv /\ JournalInv  BY DEF AllInv
<1>2. ReadyInv'  BY <1>1, ReadyNext
<1>3. CASE RfAppendStep  BY <1>1, <1>2, <1>3, RfAppendJournal DEF AllInv
<1>4. CASE ~RfAppendStep
  <2>1. TypeInv'  BY <1>1, <1>4, TypeNext
  <2>2. JournalInv'
    <3>1. CASE RfOpen \/ RfTuneFails \/ RfReady  BY <1>1, <3>1, RfQuietJournal
    <3>2. CASE CliReady \/ CliOpenFails \/ CliRequest \/ CliTx \/ CliTxDone
      BY <1>1, <2>1, <3>2, OutsideJournal
    <3>3. CASE CliScan \/ CliScanned \/ CliChoose \/ CliNumber \/ CliSlot
      BY <1>1, <3>3, ReadingJournal
    <3>4. CASE CliCopy  BY <1>1, <3>4, CopyJournal
    <3>5. CASE CliErase \/ CliBody  BY <1>1, <3>5, WritingJournal
    <3>6. CASE CliCrc \/ CliFlashFails  BY <1>1, <2>1, <3>6, EndJournal
    <3>7. CASE UNCHANGED vars
      <4>1. UNCHANGED <<flash, rf, cli, confirms, told, alone, blind>>  BY <3>7 DEF vars
      <4>2. ~blind => NumbersSmall(flash, cli', rf') /\ Kept(flash, cli')
        BY <1>1, <4>1 DEF JournalInv
      <4>3. \A h \in Pointers : Exact(flash, cli, h) => Exact(flash, cli', h)  BY <4>1
      <4> QED  BY <1>1, <4>1, <4>2, <4>3, QuietJournal
    <3> QED  BY <1>4, <3>1, <3>2, <3>3, <3>4, <3>5, <3>6, <3>7 DEF Next, RfAppendStep
  <2> QED  BY <1>2, <2>1, <2>2 DEF AllInv
<1> QED  BY <1>3, <1>4

LEMMA AllAlways == Spec => []AllInv
<1>1. Init => AllInv  BY TypeInit, ReadyInit, JournalInit DEF AllInv
<1>2. AllInv /\ [Next]_vars => AllInv'  BY AllNext
<1> QED  BY <1>1, <1>2, PTL DEF Spec

-----------------------------------------------------------------------------
(* Theorems *)

(* Whichever thread comes second, and wherever the radio thread preempts   *)
(* the other, the boot is confirmed exactly once and only after both are   *)
(* ready (updateReadiness).                                                *)
THEOREM ConfirmedOnce == Spec => []ConfirmedOnceWhenReady
<1>1. AllInv => ConfirmedOnceWhenReady
  <2> SUFFICES ASSUME AllInv PROVE ConfirmedOnceWhenReady  OBVIOUS
  <2>1. confirms \in Seq(Results) /\ Len(confirms) \in Nat
    BY LenProperties DEF AllInv, TypeInv
  <2>2. confirms # <<>> => Len(confirms) # 0  BY <2>1, EmptySeq
  <2>3. Confirmations = IF attempted THEN 1 ELSE 0  BY DEF AllInv, ReadyInv
  <2>4. attempted <=> ready = {"rf", "cli"}  BY DEF AllInv, ReadyInv
  <2>5. Len(confirms) # 0 => attempted  BY <2>1, <2>3 DEF Confirmations
  <2>6. attempted => Confirmations = 1  BY <2>3
  <2>7. confirms # <<>> => ready = {"rf", "cli"}  BY <2>2, <2>4, <2>5, Zenon
  <2>8. ready = {"rf", "cli"} => Confirmations = 1  BY <2>4, <2>6, Zenon
  <2> QED  BY <2>7, <2>8 DEF ConfirmedOnceWhenReady, Confirmations
<1> QED  BY <1>1, AllAlways, PTL

(* The CLI thread runs only while the radio thread is blocked behind its   *)
(* RF_open, so rfHandle is set when a tx command uses it.                  *)
THEOREM TxFindsRadio == Spec => []TxHasRadio
<1>1. AllInv => TxHasRadio  BY DEF AllInv, ReadyInv, TxHasRadio
<1> QED  BY <1>1, AllAlways, PTL

(* Wherever the radio thread's confirmation falls among the CLI thread's   *)
(* unlocked reads and flash operations, and whichever operation of either  *)
(* fails, the journal yields a record, except when a rotation of the radio *)
(* thread fails under the CLI thread's scan (appendMetadataRecord).        *)
THEOREM JournalKeepsRecord == Spec => []JournalSurvives
<1>1. AllInv => JournalSurvives
  BY DEF AllInv, JournalInv, Kept, JournalSurvives
<1> QED  BY <1>1, AllAlways, PTL

(* While no two calls have overlapped, a confirmation and an update        *)
(* request that returned success are both in the newest record, whatever   *)
(* failed before and in between (confirmApplicationBoot,                   *)
(* requestFirmwareUpdate).                                                 *)
THEOREM AloneAppendsDurable == Spec => []AloneIsDurable
<1>1. AllInv => AloneIsDurable
  <2> SUFFICES ASSUME AllInv, alone
               PROVE  /\ ConfirmedOk => Newest.confirmed
                      /\ told = "ok" => Newest.state = "requested"
    BY DEF AloneIsDurable, ConfirmedOk
  <2>1. PICK h \in Pointers : Exact(flash, cli, h) /\ Durable(ConfirmedOk, told, At(flash, h).val)
    BY DEF AllInv, JournalInv
  <2>2. findNewestMetadataRecord(flash) = At(flash, h)
    BY <2>1, ReaderFindsHome, PointerParts DEF AllInv, TypeInv, Exact, HomeAt
  <2> QED  BY <2>1, <2>2 DEF Newest, Durable
<1> QED  BY <1>1, AllAlways, PTL
=============================================================================
