------------------------- MODULE JournalFlashProofs -------------------------
(***************************************************************************)
(* Lemmas about the journal as a value: what the reader returns, where the *)
(* writer appends, and what the flash operations preserve, for any page    *)
(* size, any sequence number width and any set of payloads.                *)
(***************************************************************************)
EXTENDS JournalFlash, TLAPS, WellFoundedInduction

-----------------------------------------------------------------------------
(* Arithmetic *)

(* Every non-empty set of naturals has a least element.                    *)
LEMMA LeastNatural ==
    ASSUME NEW T \in SUBSET Nat, T # {}
    PROVE  \E x \in T : \A y \in T : x <= y
<1> DEFINE R == OpToRel(<, Nat)
<1>1. \E x \in T : \A y \in T : ~(<<y, x>> \in R)
  BY WFMin, NatLessThanWellFounded, Zenon
<1>2. PICK x \in T : \A y \in T : ~(<<y, x>> \in R)
  BY <1>1, Zenon
<1>3. ASSUME NEW y \in T PROVE x <= y
  <2>1. ~(<<y, x>> \in R)
    BY <1>2
  <2>2. ~(y < x)
    BY <2>1, Zenon DEF OpToRel
  <2> QED BY <2>2
<1> QED BY <1>3, Zenon

(* isSequenceNewer is asymmetric: of two numbers less than half the space  *)
(* apart, only one is newer.                                               *)
LEMMA NewerAsymmetric ==
    ASSUME NEW a \in Seqs, NEW b \in Seqs, isSequenceNewer(a, b)
    PROVE  a # b /\ ~isSequenceNewer(b, a)
BY JournalAssumption DEF isSequenceNewer, Behind, Seqs, SeqMod

(* Seen from a number c that is ahead of both, the one less far behind is  *)
(* the newer one.                                                          *)
LEMMA CloserIsNewer ==
    ASSUME NEW a \in Seqs, NEW b \in Seqs, NEW c \in Seqs,
           Behind(c, a) < SeqHalf, Behind(c, b) < SeqHalf,
           Behind(c, a) <= Behind(c, b), a # b
    PROVE  isSequenceNewer(a, b)
BY JournalAssumption DEF isSequenceNewer, Behind, Seqs, SeqMod

(* Behind is a distance: a natural number, zero only between equals.       *)
LEMMA BehindType ==
    ASSUME NEW a \in Seqs, NEW b \in Seqs
    PROVE  Behind(a, b) \in Nat /\ (Behind(a, b) = 0 <=> a = b)
BY JournalAssumption DEF Behind, Seqs, SeqMod

(* One append moves every number one further behind.                       *)
LEMMA NextSeqAhead ==
    ASSUME NEW a \in Seqs, NEW b \in Seqs, Behind(a, b) < SeqHalf - 1
    PROVE  /\ NextSeq(a) \in Seqs
           /\ NextSeq(a) # b
           /\ Behind(NextSeq(a), b) < SeqHalf
BY JournalAssumption DEF Behind, NextSeq, Seqs, SeqMod

-----------------------------------------------------------------------------
(* The newest record and its place *)

\* The committed record c is in slot i of page p, where the reader sees it,
\* and every other valid record, seen or not, is older.
Home(fl, c, p, i) ==
    /\ fl[p][i] = c
    /\ c \in Records
    /\ \A j \in 0 .. i : fl[p][j] # Erased
    /\ \A q \in Pages, j \in Slots :
          isValidRecord(fl[q][j]) =>
              \/ q = p /\ j = i
              \/ isSequenceNewer(c.seq, fl[q][j].seq)

Distinct(fl) ==
    \A p, q \in Pages, i, j \in Slots :
        (/\ isValidRecord(fl[p][i]) /\ isValidRecord(fl[q][j])
         /\ fl[p][i].seq = fl[q][j].seq) => p = q /\ i = j

NoValidRecord(fl) == \A p \in Pages, i \in Slots : ~isValidRecord(fl[p][i])

-----------------------------------------------------------------------------
(* What the reader returns *)

(* A record is neither of the two special slot contents.                   *)
LEMMA RecordFacts ==
    /\ Erased \notin Records /\ Garbage \notin Records /\ Erased # Garbage
    /\ \A c \in Contents : isValidRecord(c) <=> c \in Records
    /\ \A c \in Records : c.seq \in Seqs
BY JournalAssumption DEF isValidRecord, Contents, Records

(* findNewestRecordInPage finds the committed record in its home page.     *)
LEMMA HomePageNewest ==
    ASSUME NEW fl \in Flashes, NEW c, NEW p \in Pages, NEW i \in Slots,
           Home(fl, c, p, i)
    PROVE  /\ i \in Visible(fl, p)
           /\ findNewestRecordInPage(fl, p) = i
           /\ PageNewest(fl, p) = c
<1>1. i \in Visible(fl, p)
  BY RecordFacts DEF Visible, Scanned, Home, Flashes, isValidRecord
<1>2. \A j \in Visible(fl, p) : Beats(fl, p, i, j)
  <2> TAKE j \in Visible(fl, p)
  <2>1. j \in Slots /\ isValidRecord(fl[p][j])
    BY DEF Visible, Scanned
  <2>2. CASE j = i
    BY <2>1, <2>2 DEF Beats, Slots
  <2>3. CASE j # i
    BY <2>1, <2>3 DEF Beats, Home
  <2> QED BY <2>2, <2>3
<1>3. ASSUME NEW k \in Visible(fl, p), \A j \in Visible(fl, p) : Beats(fl, p, k, j)
      PROVE  k = i
  <2>1. Beats(fl, p, k, i)
    BY <1>1, <1>3
  <2>2. k \in Slots /\ isValidRecord(fl[p][k]) /\ fl[p][k] \in Contents
    BY DEF Visible, Scanned, Flashes
  <2>3. fl[p][k].seq \in Seqs /\ c.seq \in Seqs /\ fl[p][i] = c
    BY <2>2, RecordFacts DEF Home
  <2>4. ASSUME k # i PROVE FALSE
    <3>1. isSequenceNewer(c.seq, fl[p][k].seq)
      BY <2>2, <2>4 DEF Home
    <3>2. c.seq # fl[p][k].seq /\ ~isSequenceNewer(fl[p][k].seq, c.seq)
      BY <2>3, <3>1, NewerAsymmetric
    <3> QED BY <2>1, <2>3, <3>2 DEF Beats
  <2> QED BY <2>4
<1>4. findNewestRecordInPage(fl, p) = i
  BY <1>1, <1>2, <1>3, Zenon DEF findNewestRecordInPage
<1>5. PageNewest(fl, p) = c
  BY <1>4 DEF PageNewest, Home
<1> QED BY <1>1, <1>4, <1>5

(* In the other page it finds some valid record, if there is one to see.   *)
LEMMA OtherPageNewest ==
    ASSUME NEW fl \in Flashes, NEW c, NEW p \in Pages, NEW i \in Slots,
           Home(fl, c, p, i), Distinct(fl),
           NEW q \in Pages, q # p, Visible(fl, q) # {}
    PROVE  /\ PageNewest(fl, q).seq \in Seqs
           /\ isSequenceNewer(c.seq, PageNewest(fl, q).seq)
<1> DEFINE V == Visible(fl, q)
           age(j) == Behind(c.seq, fl[q][j].seq)
           T == {age(j) : j \in V}
<1>1. \A j \in V : /\ j \in Slots
                   /\ isValidRecord(fl[q][j])
                   /\ fl[q][j].seq \in Seqs
                   /\ isSequenceNewer(c.seq, fl[q][j].seq)
  BY RecordFacts DEF Visible, Scanned, Home, Flashes
<1>2. c.seq \in Seqs
  BY RecordFacts DEF Home
<1>3. \A j \in V : age(j) \in Nat /\ age(j) < SeqHalf
  BY <1>1, <1>2, BehindType DEF isSequenceNewer
<1>4. T \in SUBSET Nat /\ T # {}
  BY <1>3
<1>5. PICK a \in T : \A b \in T : a <= b
  <2> HIDE DEF T
  <2> QED BY <1>4, LeastNatural
<1>6. PICK m \in V : age(m) = a
  BY <1>5
<1>7. \A j \in V : Beats(fl, q, m, j)
  <2> TAKE j \in V
  <2>1. age(m) <= age(j)
    BY <1>5, <1>6
  <2>2. CASE j = m
    BY <1>1, <2>2 DEF Beats, Slots
  <2>3. CASE j # m
    <3>1. fl[q][m].seq # fl[q][j].seq
      BY <1>1, <2>3 DEF Distinct
    <3>2. isSequenceNewer(fl[q][m].seq, fl[q][j].seq)
      BY <1>1, <1>2, <1>3, <2>1, <3>1, CloserIsNewer
    <3> QED BY <3>2 DEF Beats
  <2> QED BY <2>2, <2>3
<1>8. findNewestRecordInPage(fl, q) \in V
  BY <1>7, Zenon DEF findNewestRecordInPage
<1> QED BY <1>1, <1>8 DEF PageNewest

(* So readBootMetadata returns the committed record.                       *)
LEMMA ReaderFindsHome ==
    ASSUME NEW fl \in Flashes, NEW c, NEW p \in Pages, NEW i \in Slots,
           Home(fl, c, p, i), Distinct(fl)
    PROVE  /\ HasRecord(fl)
           /\ NewestPage(fl) = p
           /\ findNewestMetadataRecord(fl) = c
<1>1. i \in Visible(fl, p) /\ PageNewest(fl, p) = c
  BY HomePageNewest
<1>2. HasRecord(fl)
  BY <1>1 DEF HasRecord
<1>3. \A q \in Pages : q # p /\ Visible(fl, q) # {} =>
          /\ isSequenceNewer(c.seq, PageNewest(fl, q).seq)
          /\ ~isSequenceNewer(PageNewest(fl, q).seq, c.seq)
  <2> TAKE q \in Pages
  <2> HAVE q # p /\ Visible(fl, q) # {}
  <2>1. /\ PageNewest(fl, q).seq \in Seqs
        /\ isSequenceNewer(c.seq, PageNewest(fl, q).seq)
    BY OtherPageNewest
  <2>2. c.seq \in Seqs
    BY RecordFacts DEF Home
  <2> QED BY <2>1, <2>2, NewerAsymmetric
<1>4. NewestPage(fl) = p
  BY <1>1, <1>3 DEF NewestPage, Pages, Primary, Secondary
<1>5. findNewestMetadataRecord(fl) = c
  BY <1>1, <1>4 DEF findNewestMetadataRecord
<1> QED BY <1>2, <1>4, <1>5

(* Without a valid record the reader finds none.                           *)
LEMMA ReaderFindsNothing ==
    ASSUME NEW fl, NoValidRecord(fl)
    PROVE  ~HasRecord(fl)
BY DEF NoValidRecord, HasRecord, Visible, Scanned

-----------------------------------------------------------------------------
(* What the flash operations preserve *)

(* Programming a slot changes that slot only.                              *)
LEMMA WrittenSlot ==
    ASSUME NEW fl \in Flashes, NEW p \in Pages, NEW i \in Slots, NEW c \in Contents
    PROVE  /\ Written(fl, p, i, c) \in Flashes
           /\ Written(fl, p, i, c)[p][i] = c
           /\ \A q \in Pages, j \in Slots :
                 ~(q = p /\ j = i) => Written(fl, p, i, c)[q][j] = fl[q][j]
BY DEF Written, Flashes

\* Every valid record of the new flash was there before: what an erase, whole
\* or torn, and the programming of a body do.
Loses(fl, fl2) ==
    /\ fl2 \in Flashes
    /\ \A q \in Pages, j \in Slots :
          isValidRecord(fl2[q][j]) => fl2[q][j] = fl[q][j]

\* Programmed slots of page p stay what they are.
Keeps(fl, fl2, p) ==
    \A j \in Slots : fl[p][j] # Erased => fl2[p][j] = fl[p][j]

(* Losing records outside the home page changes nothing that matters.      *)
LEMMA LosesPreserves ==
    ASSUME NEW fl \in Flashes, NEW fl2, Loses(fl, fl2)
    PROVE  /\ NoValidRecord(fl) => NoValidRecord(fl2)
           /\ Distinct(fl) => Distinct(fl2)
           /\ \A c : \A p \in Pages, i \in Slots :
                 Home(fl, c, p, i) /\ Keeps(fl, fl2, p) => Home(fl2, c, p, i)
<1>1. NoValidRecord(fl) => NoValidRecord(fl2)
  BY DEF NoValidRecord, Loses
<1>2. Distinct(fl) => Distinct(fl2)
  BY DEF Distinct, Loses
<1>3. ASSUME NEW c, NEW p \in Pages, NEW i \in Slots,
             Home(fl, c, p, i), Keeps(fl, fl2, p)
      PROVE  Home(fl2, c, p, i)
  <2>1. \A j \in 0 .. i : j \in Slots
    BY JournalAssumption DEF Slots
  <2>2. \A j \in 0 .. i : fl2[p][j] = fl[p][j]
    BY <1>3, <2>1 DEF Home, Keeps
  <2>3. i \in 0 .. i
    BY JournalAssumption DEF Slots
  <2> QED BY <1>3, <2>2, <2>3 DEF Home, Loses
<1> QED BY <1>1, <1>2, <1>3

(* A new record that is newer than all others becomes the home.            *)
LEMMA NewHome ==
    ASSUME NEW fl \in Flashes, NEW r \in Records, NEW p \in Pages, NEW i \in Slots,
           ~isValidRecord(fl[p][i]),
           \A j \in 0 .. i - 1 : fl[p][j] # Erased,
           \A q \in Pages, j \in Slots :
               isValidRecord(fl[q][j]) => isSequenceNewer(r.seq, fl[q][j].seq),
           Distinct(fl)
    PROVE  /\ Home(Written(fl, p, i, r), r, p, i)
           /\ Distinct(Written(fl, p, i, r))
<1> DEFINE fl2 == Written(fl, p, i, r)
<1>1. /\ fl2 \in Flashes
      /\ fl2[p][i] = r
      /\ \A q \in Pages, j \in Slots : ~(q = p /\ j = i) => fl2[q][j] = fl[q][j]
  BY WrittenSlot DEF Contents
<1> HIDE DEF fl2
<1>2. \A j \in 0 .. i : fl2[p][j] # Erased
  <2> TAKE j \in 0 .. i
  <2>1. CASE j = i
    BY <1>1, <2>1, RecordFacts
  <2>2. CASE j # i
    <3>1. j \in 0 .. i - 1 /\ j \in Slots
      BY <2>2, JournalAssumption DEF Slots
    <3> QED BY <1>1, <2>2, <3>1
  <2> QED BY <2>1, <2>2
<1>3. Home(fl2, r, p, i)
  BY <1>1, <1>2 DEF Home
<1>4. \A q \in Pages, j \in Slots :
         isValidRecord(fl[q][j]) => fl[q][j].seq # r.seq
  BY DEF isSequenceNewer
<1>5. Distinct(fl2)
  BY <1>1, <1>4 DEF Distinct
<1> QED BY <1>3, <1>5 DEF fl2

-----------------------------------------------------------------------------
(* Where the writer appends *)

(* findFirstErasedRecord finds the first erased slot of a page with one.   *)
LEMMA FirstErased ==
    ASSUME NEW fl, ~NoFreeSlot(fl)
    PROVE  /\ AppendPage(fl) \in Pages
           /\ findFirstErasedRecord(fl, AppendPage(fl)) \in Slots
           /\ fl[AppendPage(fl)][findFirstErasedRecord(fl, AppendPage(fl))] = Erased
           /\ \A j \in 0 .. findFirstErasedRecord(fl, AppendPage(fl)) - 1 :
                 fl[AppendPage(fl)][j] # Erased
<1> DEFINE p == AppendPage(fl)
           E == ErasedSlots(fl, p)
           i == findFirstErasedRecord(fl, p)
<1>1. p \in Pages /\ E # {}  BY DEF NoFreeSlot, AppendPage, Pages
<1>2. E \in SUBSET Nat  BY JournalAssumption DEF ErasedSlots, Slots
<1>3. \E k \in E : \A j \in E : k <= j  BY <1>1, <1>2, LeastNatural
<1>4. i \in E /\ \A j \in E : i <= j  BY <1>3, Zenon DEF findFirstErasedRecord
<1>5. i \in Slots /\ fl[p][i] = Erased  BY <1>4 DEF ErasedSlots
<1>6. \A j \in 0 .. i - 1 : fl[p][j] # Erased
  <2> SUFFICES ASSUME NEW j \in 0 .. i - 1, fl[p][j] = Erased PROVE FALSE
    OBVIOUS
  <2>1. j \in Slots /\ ~(i <= j)  BY <1>5, JournalAssumption DEF Slots
  <2> QED BY <1>4, <2>1 DEF ErasedSlots
<1> QED BY <1>1, <1>5, <1>6

-----------------------------------------------------------------------------
(* The scan as a loop *)

\* The step of the loop: from the newest record before k - 1 to the one before k.
LoopStep(fl, p, k, newest) ==
    IF k - 1 \in Visible(fl, p) /\ (newest = N \/ Beats(fl, p, k - 1, newest))
    THEN k - 1 ELSE newest

MakesLoopSteps(fl, p, g) ==
    g = [k \in 0 .. N |-> IF k = 0 THEN N ELSE LoopStep(fl, p, k, g[k - 1])]

(* Two functions that start with nothing and make these steps agree.       *)
LEMMA LoopUnique ==
    ASSUME NEW fl, NEW p, NEW f, NEW g, f[0] = N, g[0] = N,
           \A k \in 1 .. N : /\ f[k] = LoopStep(fl, p, k, f[k - 1])
                             /\ g[k] = LoopStep(fl, p, k, g[k - 1])
    PROVE  f[N] = g[N]
<1> DEFINE T == {k \in 0 .. N : f[k] # g[k]}
<1>1. T \in SUBSET Nat  OBVIOUS
<1>2. T = {}
  <2> SUFFICES ASSUME T # {} PROVE FALSE  OBVIOUS
  <2>1. PICK k \in T : \A j \in T : k <= j
    <3> HIDE DEF T
    <3> QED  BY <1>1, LeastNatural
  <2>2. k \in 1 .. N /\ f[k] # g[k]  OBVIOUS
  <2>3. k - 1 \in 0 .. N /\ ~(k <= k - 1)  BY <2>2, JournalAssumption
  <2>4. f[k - 1] = g[k - 1]  BY <2>1, <2>3
  <2> QED  BY <2>2, <2>4
<1>3. N \in 0 .. N  BY JournalAssumption
<1> QED  BY <1>2, <1>3

(* The loop computes the one function that starts with nothing and makes   *)
(* these steps, if there is one.                                           *)
LEMMA LoopUnrolled ==
    ASSUME NEW fl, NEW p
    PROVE  \A g : MakesLoopSteps(fl, p, g) => ScanLoop(fl, p) = g[N]
<1>0. SUFFICES ASSUME NEW g, MakesLoopSteps(fl, p, g)
               PROVE  ScanLoop(fl, p) = g[N]
  OBVIOUS
<1> DEFINE F(h) == [k \in 0 .. N |->
                      IF k = 0 THEN N
                      ELSE IF /\ k - 1 \in Visible(fl, p)
                              /\ h[k - 1] = N \/ Beats(fl, p, k - 1, h[k - 1])
                           THEN k - 1 ELSE h[k - 1]]
           f == CHOOSE h : h = F(h)
<1>1. g = F(g)  BY <1>0 DEF LoopStep, MakesLoopSteps
<1>2. f = F(f)  BY <1>1
<1>3. ScanLoop(fl, p) = f[N]  BY DEF ScanLoop
<1>4. \A k \in 0 .. N : /\ f[0] = N /\ g[0] = N
                        /\ k # 0 => /\ f[k] = LoopStep(fl, p, k, f[k - 1])
                                    /\ g[k] = LoopStep(fl, p, k, g[k - 1])
  <2>1. 0 \in 0 .. N  BY JournalAssumption
  <2>2. \A h : h = F(h) => /\ h[0] = N
                           /\ \A k \in 0 .. N : k # 0 => h[k] = LoopStep(fl, p, k, h[k - 1])
    BY <2>1 DEF LoopStep
  <2> HIDE DEF F, f
  <2> QED  BY <1>1, <1>2, <2>2
<1> HIDE DEF F, f
<1>5. /\ f[0] = N /\ g[0] = N
      /\ \A k \in 1 .. N : /\ f[k] = LoopStep(fl, p, k, f[k - 1])
                            /\ g[k] = LoopStep(fl, p, k, g[k - 1])
  <2>1. 0 \in 0 .. N /\ \A k \in 1 .. N : k \in 0 .. N /\ k # 0  BY JournalAssumption
  <2> QED  BY <1>4, <2>1
<1> QED  BY <1>3, <1>5, LoopUnique

(* If every record the scan sees lies less than half the number space      *)
(* behind some c, and no two have the same number, then the loop finds the *)
(* record that findNewestRecordInPage is defined to find.                  *)
LEMMA LoopIsReader ==
    ASSUME NEW fl, NEW p, NEW c \in Seqs,
           \A i \in Visible(fl, p) : fl[p][i].seq \in Seqs /\ Behind(c, fl[p][i].seq) < SeqHalf,
           \A i, j \in Visible(fl, p) : fl[p][i].seq = fl[p][j].seq => i = j
    PROVE  ScanLoop(fl, p) = IF Visible(fl, p) = {} THEN N ELSE findNewestRecordInPage(fl, p)
<1> DEFINE V == Visible(fl, p)
           age(i) == Behind(c, fl[p][i].seq)
           B(i, j) == Beats(fl, p, i, j)
           seen(k) == {i \in V : i < k}
           best(S) == CHOOSE i \in S : \A j \in S : B(i, j)
           g == [k \in 0 .. N |-> IF seen(k) = {} THEN N ELSE best(seen(k))]
<1>1. V \subseteq Slots /\ V \subseteq Nat /\ N \notin V
  BY JournalAssumption DEF Visible, Scanned, Slots
<1>2. \A i \in V : age(i) \in Nat  BY BehindType
<1>3. \A i, j \in V : B(i, j) <=> age(i) <= age(j)
  <2> TAKE i, j \in V
  <2>1. CASE i = j  BY <1>1, <1>2, <2>1 DEF Beats
  <2>2. CASE i # j
    <3>1. fl[p][i].seq # fl[p][j].seq /\ fl[p][i].seq \in Seqs /\ fl[p][j].seq \in Seqs
      BY <2>2
    <3>2. age(i) <= age(j) => isSequenceNewer(fl[p][i].seq, fl[p][j].seq)
      BY <3>1, CloserIsNewer
    <3>3. age(j) <= age(i) => isSequenceNewer(fl[p][j].seq, fl[p][i].seq)
      BY <3>1, CloserIsNewer
    <3>4. ~(age(i) <= age(j)) => age(j) <= age(i)  BY <1>2
    <3>5. isSequenceNewer(fl[p][j].seq, fl[p][i].seq) =>
            ~isSequenceNewer(fl[p][i].seq, fl[p][j].seq)
      BY <3>1, NewerAsymmetric
    <3> QED  BY <3>1, <3>2, <3>3, <3>4, <3>5 DEF Beats
  <2> QED  BY <2>1, <2>2
<1>4. \A i, j \in V : age(i) = age(j) => i = j
  <2> TAKE i, j \in V
  <2> SUFFICES ASSUME age(i) = age(j), i # j PROVE FALSE  OBVIOUS
  <2>1. /\ fl[p][i].seq # fl[p][j].seq /\ fl[p][i].seq \in Seqs /\ fl[p][j].seq \in Seqs
        /\ age(i) <= age(j) /\ age(j) <= age(i)
    BY <1>2
  <2>2. /\ isSequenceNewer(fl[p][i].seq, fl[p][j].seq)
        /\ isSequenceNewer(fl[p][j].seq, fl[p][i].seq)
    BY <2>1, CloserIsNewer
  <2> QED  BY <2>1, <2>2, NewerAsymmetric
<1>5. ASSUME NEW S \in SUBSET V, S # {}
      PROVE  best(S) \in S /\ \A j \in S : age(best(S)) <= age(j)
  <2> DEFINE T == {age(i) : i \in S}
  <2>1. T \in SUBSET Nat /\ T # {}  BY <1>2, <1>5
  <2>2. PICK a \in T : \A b \in T : a <= b
    <3> HIDE DEF T
    <3> QED  BY <2>1, LeastNatural
  <2>3. PICK m \in S : a = age(m)  BY <2>2
  <2>4. \A j \in S : age(m) <= age(j)  BY <2>2, <2>3
  <2>5. \A j \in S : B(m, j)  BY <1>3, <2>4
  <2> HIDE DEF B
  <2>6. best(S) \in S /\ \A j \in S : B(best(S), j)  BY <2>5
  <2> HIDE DEF best
  <2> QED  BY <1>3, <1>5, <2>6
<1>6. ASSUME NEW S \in SUBSET V, NEW m \in S, \A j \in S : age(m) <= age(j)
      PROVE  best(S) = m
  <2>1. best(S) \in S /\ \A j \in S : age(best(S)) <= age(j)  BY <1>5, <1>6
  <2> HIDE DEF best
  <2>2. age(best(S)) = age(m)  BY <1>2, <1>6, <2>1
  <2> QED  BY <1>4, <2>1, <2>2
<1> HIDE DEF best, age
<1>7. ASSUME NEW k \in 0 .. N, k # 0
      PROVE  g[k] = LoopStep(fl, p, k, g[k - 1])
  <2> DEFINE S == seen(k - 1)
             R == seen(k)
             n == g[k - 1]
  <2>0. k - 1 \in 0 .. N /\ k \in Nat /\ k - 1 \in Nat  BY <1>7, JournalAssumption
  <2>1. /\ n = IF S = {} THEN N ELSE best(S)
        /\ g[k] = IF R = {} THEN N ELSE best(R)
    BY <2>0
  <2>2. S \in SUBSET V /\ R \in SUBSET V /\ k - 1 \notin S  BY <1>1, <2>0
  <2>3. R = IF k - 1 \in V THEN S \cup {k - 1} ELSE S  BY <1>1, <2>0
  <2>4. S # {} => n \in S /\ n # N /\ \A j \in S : age(n) <= age(j)
    <3>1. S # {} => best(S) \in S /\ \A j \in S : age(best(S)) <= age(j)  BY <1>5, <2>2
    <3> QED  BY <1>1, <2>1, <2>2, <3>1
  <2>5. LoopStep(fl, p, k, n) = IF k - 1 \in V /\ (n = N \/ B(k - 1, n)) THEN k - 1 ELSE n
    BY DEF LoopStep
  <2> HIDE DEF S, R, n, g, V, B
  <2>6. CASE k - 1 \notin V
    <3>1. R = S  BY <2>3, <2>6
    <3>2. g[k] = n  BY <2>1, <3>1
    <3> QED  BY <2>5, <2>6, <3>2 DEF n
  <2>7. CASE k - 1 \in V /\ S = {}
    <3>1. R = {k - 1} /\ n = N  BY <2>1, <2>3, <2>7
    <3>2. age(k - 1) <= age(k - 1)  BY <1>2, <2>7
    <3>3. best(R) = k - 1  BY <1>6, <2>2, <3>1, <3>2
    <3> QED  BY <2>1, <2>5, <2>7, <3>1, <3>3 DEF n
  <2>8. CASE k - 1 \in V /\ S # {} /\ B(k - 1, n)
    <3>1. age(k - 1) <= age(n)  BY <1>3, <2>2, <2>4, <2>8
    <3>2. \A j \in R : age(k - 1) <= age(j)
      <4> TAKE j \in R
      <4>1. CASE j = k - 1  BY <1>2, <2>8, <4>1
      <4>2. CASE j # k - 1
        <5>1. j \in S /\ j \in V /\ n \in V  BY <2>2, <2>3, <2>4, <2>8, <4>2
        <5> QED  BY <1>2, <2>4, <2>8, <3>1, <5>1
      <4> QED  BY <4>1, <4>2
    <3>3. best(R) = k - 1 /\ R # {}  BY <1>6, <2>2, <2>3, <2>8, <3>2
    <3> QED  BY <2>1, <2>5, <2>8, <3>3 DEF n
  <2>9. CASE k - 1 \in V /\ S # {} /\ ~B(k - 1, n)
    <3>0. n \in V  BY <2>2, <2>4, <2>9
    <3>1. ~(age(k - 1) <= age(n))  BY <1>3, <2>9, <3>0
    <3>2. age(n) <= age(k - 1)  BY <1>2, <2>9, <3>0, <3>1
    <3>3. \A j \in R : age(n) <= age(j)  BY <2>3, <2>4, <2>9, <3>2
    <3>4. best(R) = n /\ R # {}  BY <1>6, <2>2, <2>3, <2>4, <2>9, <3>3
    <3> QED  BY <2>1, <2>4, <2>5, <2>9, <3>4 DEF n
  <2> QED  BY <2>6, <2>7, <2>8, <2>9 DEF n
<1>8. g[0] = N
  <2>1. seen(0) = {} /\ 0 \in 0 .. N  BY <1>1, JournalAssumption
  <2> QED  BY <2>1
<1>9. MakesLoopSteps(fl, p, g)
  <2> DEFINE h == [k \in 0 .. N |-> IF k = 0 THEN N ELSE LoopStep(fl, p, k, g[k - 1])]
  <2>1. DOMAIN g = 0 .. N /\ g = [k \in 0 .. N |-> g[k]]  OBVIOUS
  <2> HIDE DEF g
  <2>2. \A k \in 0 .. N : g[k] = h[k]  BY <1>7, <1>8
  <2> QED  BY <2>1, <2>2 DEF MakesLoopSteps
<1>10. ScanLoop(fl, p) = g[N]
  <2> HIDE DEF g
  <2> QED  BY <1>9, LoopUnrolled
<1>11. seen(N) = V /\ N \in 0 .. N  BY <1>1, JournalAssumption DEF Slots
<1>12. g[N] = IF V = {} THEN N ELSE best(V)  BY <1>11
<1>13. best(V) = findNewestRecordInPage(fl, p)  BY DEF best, findNewestRecordInPage
<1> QED  BY <1>10, <1>12, <1>13
====
