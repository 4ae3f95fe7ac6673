------------------------- MODULE UpdateSessionProofs -------------------------
(***************************************************************************)
(* Proofs about Bootloader, for any set of images, slot size, failure      *)
(* limit and counter width; then about UpdateSession, for any image size,  *)
(* retry limits, sequence number width and number of faults: the device is *)
(* the one of Bootloader, and, in one run of the tool, what the host       *)
(* believes is true.                                                       *)
(***************************************************************************)
EXTENDS UpdateSession, TLAPS, SequenceTheorems

-----------------------------------------------------------------------------
(* The device: the inductive invariant of Bootloader *)

\* (uint32_t)(attempt - confirmed): boot attempts since the last confirmed one.
Since(m) ==
    IF m.attempt >= m.confirmed THEN m.attempt - m.confirmed
    ELSE (m.attempt + AttemptMod) - m.confirmed

\* n handoffs are covered by the record m.
Counts(m, n) == n <= m.count /\ m.count <= Limit /\ Since(m) <= m.count

Names(m) == m # NoMeta /\ m.img # NoImage

\* What an append in progress would make durable is as sound as what is.
AppendIsSound ==
    /\ pc \in Appending /\ Names(ram) => CrcMatches(app, ram.img)
    /\ pc \in {"end", "setRole"} => Counts(ram, unconfirmed)
    /\ pc \in {"begin", "erase"} => ram = setDefaultMetadata
    /\ pc = "erase" => meta = setDefaultMetadata
    /\ pc = "request" => ram = [meta EXCEPT !.state = "requested"]
    /\ pc = "confirm" =>
          /\ asked
          /\ unconfirmed > 0
          /\ meta.count > 0
          /\ meta.confirmed # meta.attempt
          /\ ram = [meta EXCEPT !.confirmed = meta.attempt, !.count = meta.count - 1]

\* A session writes behind every image a record, or the RAM copy, names.
SessionIsBehind ==
    /\ sess.active =>
          /\ pc \in {"updater", "begin", "erase", "program", "end", "setRole"}
          /\ unconfirmed = 0
          /\ Names(meta) => Size[meta.img] <= sess.written
          /\ Names(ram)  => Size[ram.img]  <= sess.written
    /\ pc = "program" => sess.active

BootsAreCounted ==
    /\ meta = NoMeta => unconfirmed = 0
    /\ meta # NoMeta => Counts(meta, unconfirmed)
    /\ pc \in {"updater", "program", "end", "setRole", "request"} /\ Names(ram) =>
          Counts(ram, unconfirmed)
    /\ pc = "track" =>
          /\ Counts(ram, unconfirmed + 1)
          /\ ram.attempt # ram.confirmed
          /\ isApplicationImageValid(ram, app)
    /\ Running /\ ~asked => unconfirmed > 0 /\ meta.count > 0

Inv ==
    /\ TypeOK
    /\ NamedImageIsIntact
    /\ RunningIsTracked
    /\ AppendIsSound
    /\ SessionIsBehind
    /\ BootsAreCounted

-----------------------------------------------------------------------------
(* Records *)

\* The defaults are metadata, without an image.
LEMMA DefaultFacts ==
    /\ setDefaultMetadata \in Metadata
    /\ setDefaultMetadata.img = NoImage
    /\ setDefaultMetadata.count = 0
    /\ setDefaultMetadata.state = "inProgress"
    /\ ~Names(setDefaultMetadata)
BY BootAssumption DEF setDefaultMetadata, Metadata, States, AnyRole, Attempts, Names

\* What Boot puts on record.
LEMMA CountedFacts ==
    ASSUME NEW m \in Metadata,
           NEW x, x = [m EXCEPT !.count = @ + 1, !.attempt = NextAttempt(@)]
    PROVE  /\ x \in Metadata
           /\ x.state = m.state /\ x.img = m.img /\ x.role = m.role
           /\ x.count = m.count + 1
           /\ x.attempt = NextAttempt(m.attempt)
           /\ x.confirmed = m.confirmed
<1>1. m.count + 1 \in Nat /\ NextAttempt(m.attempt) \in Attempts
  BY BootAssumption DEF Metadata, Attempts, NextAttempt
<1> QED BY <1>1 DEF Metadata

\* One more attempt is one more since the last confirmed one, and as long as
\* the counter is below the limit the wraparound does not reach that one.
LEMMA OneMoreAttempt ==
    ASSUME NEW m \in Metadata, NEW n \in Nat, Counts(m, n), m.count < Limit,
           NEW x, x = [m EXCEPT !.count = @ + 1, !.attempt = NextAttempt(@)]
    PROVE  Counts(x, n + 1) /\ x.attempt # x.confirmed
<1>1. /\ x.count = m.count + 1
      /\ x.attempt = NextAttempt(m.attempt)
      /\ x.confirmed = m.confirmed
  BY CountedFacts
<1>2. m.count \in Nat /\ m.attempt \in 0 .. AttemptMod - 1 /\ m.confirmed \in 0 .. AttemptMod - 1
  BY DEF Metadata, Attempts
<1> QED BY <1>1, <1>2, BootAssumption DEF Counts, Since, NextAttempt

\* What AppConfirm puts on record.
LEMMA ConfirmedFacts ==
    ASSUME NEW m \in Metadata, m.count > 0,
           NEW x, x = [m EXCEPT !.confirmed = m.attempt, !.count = m.count - 1]
    PROVE  /\ x \in Metadata
           /\ x.state = m.state /\ x.img = m.img /\ x.role = m.role
           /\ x.count = m.count - 1
           /\ x.attempt = m.attempt
           /\ x.confirmed = m.attempt
           /\ x # m
<1>1. m.count - 1 \in Nat /\ m.attempt \in Attempts /\ m.count # m.count - 1
  BY DEF Metadata
<1>2. /\ x \in Metadata
      /\ x.count = m.count - 1
  BY <1>1 DEF Metadata
<1> QED BY <1>1, <1>2 DEF Metadata

\* A confirmed record has no attempt since the last confirmed one.
LEMMA ConfirmedCounts ==
    ASSUME NEW m \in Metadata, NEW n \in Nat, n > 0, m.count > 0, Counts(m, n),
           NEW x, x = [m EXCEPT !.confirmed = m.attempt, !.count = m.count - 1]
    PROVE  Counts(x, n - 1)
<1>1. x.count = m.count - 1 /\ x.attempt = m.attempt /\ x.confirmed = m.attempt
  BY ConfirmedFacts
<1>2. m.count \in Nat /\ m.attempt \in Nat
  BY BootAssumption DEF Metadata, Attempts
<1> QED BY <1>1, <1>2, BootAssumption DEF Counts, Since

\* What AppRequestUpdate and HandleSetRole put on record counts the same.
LEMMA RewrittenFacts ==
    ASSUME NEW m \in Metadata, NEW s \in States, NEW r \in AnyRole,
           NEW x, x = [m EXCEPT !.state = s, !.role = r] \/ x = [m EXCEPT !.state = s]
    PROVE  /\ x \in Metadata
           /\ x.state = s /\ x.img = m.img
           /\ x.count = m.count /\ x.attempt = m.attempt /\ x.confirmed = m.confirmed
           /\ \A n : Counts(m, n) => Counts(x, n)
BY DEF Metadata, Counts, Since

\* The session while DATA is handled.
LEMMA SessionFacts ==
    ASSUME NEW s \in Sessions, NEW d \in Images \cup {NoImage}, NEW l \in 0 .. MaxLen,
           NEW w \in Nat
    PROVE  /\ [s EXCEPT !.written = w, !.data = d, !.len = l] \in Sessions
           /\ [s EXCEPT !.data = d, !.len = l] \in Sessions
<1> DEFINE L == 0 .. MaxLen
<1>1. s \in [active : BOOLEAN, hdr : Headers,
             role : AnyRole, written : Nat, data : Images \cup {NoImage}, len : L]
  BY DEF Sessions
<1>2. l \in L
  OBVIOUS
<1> HIDE DEF L
<1>3. [s EXCEPT !.written = w, !.data = d, !.len = l] \in
          [active : BOOLEAN, hdr : Headers,
           role : AnyRole, written : Nat, data : Images \cup {NoImage}, len : L]
  BY <1>1, <1>2
<1>4. [s EXCEPT !.data = d, !.len = l] \in
          [active : BOOLEAN, hdr : Headers,
           role : AnyRole, written : Nat, data : Images \cup {NoImage}, len : L]
  BY <1>1, <1>2
<1> QED BY <1>3, <1>4 DEF Sessions, L

-----------------------------------------------------------------------------
(* One lemma per action *)

\* The boot decision.
LEMMA BootInv ==
    ASSUME Inv, Boot
    PROVE  Inv'
<1> USE BootAssumption, MetaAssumption
<1>1. TypeOK'
  <2> DEFINE m == IF meta = NoMeta THEN setDefaultMetadata ELSE meta
  <2>1. m \in Metadata
    BY DefaultFacts DEF Inv, TypeOK
  <2>2. ram' \in Metadata
    BY <2>1, CountedFacts DEF Boot
  <2> QED BY <2>2 DEF Inv, Boot, TypeOK, Appending
<1>2. NamedImageIsIntact'
  BY DEF Inv, Boot, NamedImageIsIntact
<1>3. RunningIsTracked'
  BY DEF Inv, Boot, RunningIsTracked, Running
<1>4. AppendIsSound'
  <2> DEFINE m == IF meta = NoMeta THEN setDefaultMetadata ELSE meta
  <2>1. m \in Metadata
    BY DefaultFacts DEF Inv, TypeOK
  <2>2. CASE MayStart(m)
    <3>1. ram'.img = m.img
      BY <2>1, <2>2, CountedFacts DEF Boot
    <3> QED BY <2>2, <3>1 DEF Boot, MayStart, isApplicationImageValid, AppendIsSound,
       CrcMatches
  <2>3. CASE ~MayStart(m)
    BY <2>3 DEF Boot, AppendIsSound, Appending
  <2> QED BY <2>2, <2>3
<1>5. SessionIsBehind'
  BY DEF Inv, Boot, SessionIsBehind
<1>6. BootsAreCounted'
  <2> DEFINE m == IF meta = NoMeta THEN setDefaultMetadata ELSE meta
  <2>1. m \in Metadata
    BY DefaultFacts DEF Inv, TypeOK
  <2>2. Names(m) => meta # NoMeta /\ m = meta /\ Counts(m, unconfirmed)
    BY DefaultFacts DEF Names, Inv, BootsAreCounted
  <2>3. unconfirmed \in Nat
    BY DEF Inv, TypeOK
  <2>4. CASE MayStart(m)
    <3>1. Names(m) /\ m.count < Limit
      BY <2>1, <2>4 DEF MayStart, isApplicationImageValid, Names
    <3>2. Counts(ram', unconfirmed + 1) /\ ram'.attempt # ram'.confirmed /\ ram'.img = m.img
      BY <2>1, <2>2, <2>3, <2>4, <3>1, OneMoreAttempt, CountedFacts, ZenonT(30) DEF Boot
    <3>3. isApplicationImageValid(ram', app)
      BY <2>4, <3>2 DEF MayStart, isApplicationImageValid
    <3> QED BY <2>4, <3>2, <3>3 DEF Boot, Inv, BootsAreCounted, Running,
       isApplicationImageValid, CrcMatches
  <2>5. CASE ~MayStart(m)
    BY <2>2, <2>5 DEF Boot, Inv, BootsAreCounted, Running, Names
  <2> QED BY <2>4, <2>5
<1> QED BY <1>1, <1>2, <1>3, <1>4, <1>5, <1>6 DEF Inv

\* The attempt is on record and the application takes over.
LEMMA HandoffInv ==
    ASSUME Inv, Handoff
    PROVE  Inv'
<1> USE BootAssumption, MetaAssumption
<1>1. TypeOK'
  <2>1. handoff' \in Handoffs
    BY DEF Inv, TypeOK, Handoff, Handoffs, Metadata
  <2>2. unconfirmed' \in Nat
    BY DEF Inv, TypeOK, Handoff
  <2> QED BY <2>1, <2>2, DefaultFacts DEF Inv, Handoff, TypeOK, AppendSucceeds
<1>2. NamedImageIsIntact'
  BY DEF Inv, Handoff, NamedImageIsIntact, AppendIsSound, Names, Appending, AppendSucceeds
<1>3. RunningIsTracked'
  BY DEF Inv, Handoff, TypeOK, RunningIsTracked, BootsAreCounted, Counts, Metadata,
     AppendSucceeds
<1>4. AppendIsSound'
  BY DEF Inv, Handoff, AppendIsSound, Names, setDefaultMetadata
<1>5. SessionIsBehind'
  BY DEF Inv, Handoff, SessionIsBehind
<1>6. BootsAreCounted'
  BY DEF Inv, Handoff, TypeOK, BootsAreCounted, Counts, Metadata, AppendSucceeds
<1> QED BY <1>1, <1>2, <1>3, <1>4, <1>5, <1>6 DEF Inv

\* The attempt may be on record; the application does not run.
LEMMA NoHandoffWithoutRecordInv ==
    ASSUME Inv, NoHandoffWithoutRecord
    PROVE  Inv'
<1> USE BootAssumption, MetaAssumption
<1>1. TypeOK'
  BY DEF Inv, NoHandoffWithoutRecord, TypeOK, AppendFails
<1>2. NamedImageIsIntact'
  BY DEF Inv, NoHandoffWithoutRecord, NamedImageIsIntact, AppendIsSound, Names,
     Appending, AppendFails
<1>3. RunningIsTracked'
  BY DEF Inv, NoHandoffWithoutRecord, RunningIsTracked, Running
<1>4. AppendIsSound'
  BY DEF Inv, NoHandoffWithoutRecord, AppendIsSound, BootsAreCounted,
     isApplicationImageValid
<1>5. SessionIsBehind'
  BY DEF Inv, NoHandoffWithoutRecord, SessionIsBehind
<1>6. BootsAreCounted'
  BY DEF Inv, NoHandoffWithoutRecord, TypeOK, BootsAreCounted, Running, Counts,
     Metadata, AppendFails
<1> QED BY <1>1, <1>2, <1>3, <1>4, <1>5, <1>6 DEF Inv

\* HELLO.
LEMMA HandleHelloInv ==
    ASSUME Inv, HandleHello
    PROVE  Inv'
<1> USE BootAssumption, MetaAssumption
<1>1. TypeOK'
  BY DEF Inv, HandleHello, TypeOK, Replies, Answer, Frame
<1>2. NamedImageIsIntact'
  BY DEF Inv, HandleHello, NamedImageIsIntact
<1>3. RunningIsTracked'
  BY DEF Inv, HandleHello, RunningIsTracked, Running
<1>4. AppendIsSound'
  BY DEF Inv, HandleHello, AppendIsSound
<1>5. SessionIsBehind'
  BY DEF Inv, HandleHello, SessionIsBehind
<1>6. BootsAreCounted'
  BY DEF Inv, HandleHello, BootsAreCounted, Running
<1> QED BY <1>1, <1>2, <1>3, <1>4, <1>5, <1>6 DEF Inv

\* BEGIN, accepted or not.
LEMMA HandleBeginInv ==
    ASSUME Inv, NEW h \in Headers, NEW role \in AnyRole, HandleBegin(h, role)
    PROVE  Inv'
<1> USE BootAssumption, MetaAssumption
<1>1. TypeOK'
  <2>1. sess' \in Sessions
    BY DEF Inv, TypeOK, HandleBegin, Sessions, AnyRole, Headers
  <2>2. accepted' \in SUBSET Images
    BY DEF Inv, TypeOK, HandleBegin, Refuse, Headers, EmptyHeader, isValidPackageHeader
  <2>3. ram' \in Metadata /\ reply' \in Replies
    BY DefaultFacts DEF Inv, TypeOK, HandleBegin, Refuse, Answer, Frame, Replies
  <2> QED BY <2>1, <2>2, <2>3 DEF Inv, HandleBegin, Refuse, TypeOK, Appending
<1>2. NamedImageIsIntact'
  BY DEF Inv, HandleBegin, NamedImageIsIntact, Refuse
<1>3. RunningIsTracked'
  BY DEF Inv, HandleBegin, RunningIsTracked, Running, Refuse
<1>4. AppendIsSound'
  BY DEF Inv, HandleBegin, AppendIsSound, Names, Refuse, setDefaultMetadata
<1>5. SessionIsBehind'
  BY DEF Inv, HandleBegin, SessionIsBehind, Names, Refuse, setDefaultMetadata, Headers
<1>6. BootsAreCounted'
  BY DEF Inv, HandleBegin, BootsAreCounted, Running, Refuse
<1> QED BY <1>1, <1>2, <1>3, <1>4, <1>5, <1>6 DEF Inv

\* The defaults are on record, no boot attempt among them.
LEMMA BeginRecordedInv ==
    ASSUME Inv, BeginRecorded
    PROVE  Inv'
<1> USE BootAssumption, MetaAssumption
<1>1. TypeOK'
  BY DEF Inv, BeginRecorded, TypeOK, AppendSucceeds, CountAnew
<1>2. NamedImageIsIntact'
  BY DEF Inv, BeginRecorded, NamedImageIsIntact, AppendIsSound, AppendSucceeds,
     setDefaultMetadata
<1>3. RunningIsTracked'
  BY DEF Inv, BeginRecorded, RunningIsTracked, Running
<1>4. AppendIsSound'
  BY DEF Inv, BeginRecorded, AppendIsSound, Names, AppendSucceeds, setDefaultMetadata
<1>5. SessionIsBehind'
  BY DEF Inv, BeginRecorded, SessionIsBehind, AppendSucceeds, CountAnew
<1>6. BootsAreCounted'
  BY DEF Inv, BeginRecorded, AppendIsSound, BootsAreCounted, Running, Counts, Since,
     AppendSucceeds, CountAnew, setDefaultMetadata
<1> QED BY <1>1, <1>2, <1>3, <1>4, <1>5, <1>6 DEF Inv

\* The append of BEGIN failed.
LEMMA BeginNotRecordedInv ==
    ASSUME Inv, BeginNotRecorded
    PROVE  Inv'
<1> USE BootAssumption, MetaAssumption
<1>1. TypeOK'
  BY DEF Inv, BeginNotRecorded, TypeOK, Replies, AppendFails, CountAnew, Answer, Frame
<1>2. NamedImageIsIntact'
  BY DEF Inv, BeginNotRecorded, NamedImageIsIntact, AppendIsSound, AppendFails,
     setDefaultMetadata
<1>3. RunningIsTracked'
  BY DEF Inv, BeginNotRecorded, RunningIsTracked, Running
<1>4. AppendIsSound'
  BY DEF Inv, BeginNotRecorded, AppendIsSound, Names, setDefaultMetadata
<1>5. SessionIsBehind'
  BY DEF Inv, BeginNotRecorded, SessionIsBehind, AppendFails, CountAnew
<1>6. BootsAreCounted'
  BY DEF Inv, BeginNotRecorded, AppendIsSound, BootsAreCounted, Running, Names, Counts,
     Since, AppendFails, CountAnew, setDefaultMetadata
<1> QED BY <1>1, <1>2, <1>3, <1>4, <1>5, <1>6 DEF Inv

\* The slot is erased: the metadata names no image any more.
LEMMA EraseCompletesInv ==
    ASSUME Inv, EraseCompletes
    PROVE  Inv'
<1> USE BootAssumption, MetaAssumption
<1>1. TypeOK'
  BY DEF Inv, EraseCompletes, TypeOK, Appending, Sessions, Replies, Contents, Answer, Frame
<1>2. NamedImageIsIntact'
  BY DEF Inv, EraseCompletes, NamedImageIsIntact, AppendIsSound, setDefaultMetadata
<1>3. RunningIsTracked'
  BY DEF Inv, EraseCompletes, RunningIsTracked, Running
<1>4. AppendIsSound'
  BY DEF Inv, EraseCompletes, AppendIsSound, Names, setDefaultMetadata
<1>5. SessionIsBehind'
  <2>1. meta = setDefaultMetadata /\ ram = setDefaultMetadata /\ unconfirmed = 0
    BY DefaultFacts DEF Inv, TypeOK, EraseCompletes, AppendIsSound, BootsAreCounted,
       Counts, Metadata
  <2>2. /\ sess'.hdr = sess.hdr /\ pc' = "updater"
        /\ meta' = meta /\ ram' = ram /\ unconfirmed' = unconfirmed
    BY DEF Inv, TypeOK, EraseCompletes, Sessions
  <2> QED BY <2>1, <2>2, DefaultFacts DEF Inv, SessionIsBehind, EraseCompletes, Names
<1>6. BootsAreCounted'
  BY DEF Inv, EraseCompletes, AppendIsSound, BootsAreCounted, Running, Counts, Since,
     setDefaultMetadata
<1> QED BY <1>1, <1>2, <1>3, <1>4, <1>5, <1>6 DEF Inv

\* The slot is partly erased.
LEMMA EraseFailsInv ==
    ASSUME Inv, EraseFails
    PROVE  Inv'
<1> USE BootAssumption, MetaAssumption
<1>1. TypeOK'
  <2>1. app' \in [Blocks -> Contents]
    <3>1. PICK k \in AppSlot : app' \in ErasedUpTo(app, k)
      BY DEF EraseFails, TornErase
    <3>2. PICK c \in {app[k], Erased, Garbage} :
             app' = [b \in Blocks |-> IF b < k THEN Erased ELSE IF b = k THEN c ELSE app[b]]
      BY <3>1 DEF ErasedUpTo
    <3>3. app \in [Blocks -> Contents] /\ k \in Blocks
      BY DEF Inv, TypeOK, AppSlot, Blocks
    <3>4. c \in Contents
      BY <3>3 DEF Contents
    <3> QED BY <3>2, <3>3, <3>4 DEF Contents
  <2>2. reply' \in Replies
    BY DEF EraseFails, Answer, Frame, Replies
  <2> QED BY <2>1, <2>2 DEF Inv, EraseFails, TypeOK
<1>2. NamedImageIsIntact'
  BY DEF Inv, EraseFails, NamedImageIsIntact, AppendIsSound, setDefaultMetadata
<1>3. RunningIsTracked'
  BY DEF Inv, EraseFails, RunningIsTracked, Running
<1>4. AppendIsSound'
  BY DEF Inv, EraseFails, AppendIsSound, Names, setDefaultMetadata
<1>5. SessionIsBehind'
  BY DEF Inv, EraseFails, SessionIsBehind
<1>6. BootsAreCounted'
  BY DEF Inv, EraseFails, AppendIsSound, BootsAreCounted, Running, Counts, Since,
     setDefaultMetadata
<1> QED BY <1>1, <1>2, <1>3, <1>4, <1>5, <1>6 DEF Inv

\* DATA up to FlashProgram.
LEMMA HandleDataInv ==
    ASSUME Inv, NEW off \in Offsets, NEW len \in 1 .. MaxLen, NEW img \in Images, HandleData(off, len, img)
    PROVE  Inv'
<1> USE BootAssumption, MetaAssumption
<1>1. TypeOK'
  <2>1. sess' \in Sessions
    <3>1. len \in 0 .. MaxLen /\ img \in Images \cup {NoImage} /\ sess \in Sessions
      BY DEF Inv, TypeOK
    <3>2. sess' = sess \/ sess' = [sess EXCEPT !.data = img, !.len = len]
      BY DEF HandleData, Refuse
    <3>3. 0 \in Nat
      OBVIOUS
    <3>4. [sess EXCEPT !.data = img, !.len = len] \in Sessions
      BY <3>1, <3>3, SessionFacts, Zenon
    <3> QED BY <3>1, <3>2, <3>4, Zenon
  <2>2. reply' \in Replies
    BY DEF Inv, TypeOK, HandleData, Refuse, Answer, Frame, Replies, Sessions
  <2> QED BY <2>1, <2>2 DEF Inv, HandleData, Refuse, TypeOK
<1>2. NamedImageIsIntact'
  BY DEF Inv, HandleData, NamedImageIsIntact, Refuse
<1>3. RunningIsTracked'
  BY DEF Inv, HandleData, RunningIsTracked, Running, Refuse
<1>4. AppendIsSound'
  BY DEF Inv, HandleData, AppendIsSound, Appending, Refuse
<1>5. SessionIsBehind'
  <2>1. sess'.active = sess.active /\ sess'.hdr = sess.hdr /\ sess'.written = sess.written
    BY DEF Inv, TypeOK, HandleData, Refuse, Sessions
  <2>2. meta' = meta /\ ram' = ram /\ unconfirmed' = unconfirmed /\ pc' \in {"updater", "program"}
    BY DEF HandleData, Refuse
  <2> QED BY <2>1, <2>2 DEF Inv, HandleData, SessionIsBehind, Names
<1>6. BootsAreCounted'
  BY DEF Inv, HandleData, BootsAreCounted, Running, Refuse
<1> QED BY <1>1, <1>2, <1>3, <1>4, <1>5, <1>6 DEF Inv

\* The blocks programmed are behind the named image.
LEMMA ProgramCompletesInv ==
    ASSUME Inv, ProgramCompletes
    PROVE  Inv'
<1> USE BootAssumption, MetaAssumption
<1>1. TypeOK'
  <2>1. app' \in [Blocks -> Contents]
    BY DEF ProgramCompletes, ProgramOutcomes
  <2>2. sess' \in Sessions
    <3>1. sess \in Sessions /\ 0 \in 0 .. MaxLen /\ NoImage \in Images \cup {NoImage}
      BY DEF Inv, TypeOK
    <3>2. sess.written + sess.len \in Nat
      BY <3>1 DEF Sessions
    <3>3. [sess EXCEPT !.written = sess.written + sess.len, !.data = NoImage, !.len = 0] \in Sessions
      BY <3>1, <3>2, SessionFacts, Zenon
    <3> QED BY <3>3 DEF ProgramCompletes
  <2>3. reply' \in Replies
    BY DEF Inv, TypeOK, ProgramCompletes, Answer, Frame, Replies, Sessions
  <2> QED BY <2>1, <2>2, <2>3 DEF Inv, ProgramCompletes, TypeOK
<1>2. NamedImageIsIntact'
  <2> SUFFICES ASSUME Names(meta), NEW b \in 0 .. Size[meta.img] - 1
                PROVE  app'[b] = meta.img
    BY DEF NamedImageIsIntact, CrcMatches, SizeOf, Names, ProgramCompletes
  <2>1. meta.img \in Images /\ Size[meta.img] <= sess.written
    BY DEF Inv, TypeOK, SessionIsBehind, ProgramCompletes, Names, Metadata
  <2>2. Size[meta.img] \in 1 .. Slot + 1 /\ sess.written \in Nat /\ sess.len \in Nat
    BY <2>1 DEF Inv, TypeOK, Sessions
  <2>3. b \in Blocks /\ b \notin DataBlocks
    BY <2>1, <2>2 DEF Blocks, DataBlocks
  <2>4. app'[b] = app[b]
    BY <2>3 DEF ProgramCompletes, ProgramOutcomes
  <2> QED BY <2>4 DEF Inv, NamedImageIsIntact, CrcMatches, SizeOf, Names
<1>3. RunningIsTracked'
  BY DEF Inv, ProgramCompletes, RunningIsTracked, Running
<1>4. AppendIsSound'
  BY DEF Inv, ProgramCompletes, AppendIsSound, Appending
<1>5. SessionIsBehind'
  <2>1. /\ sess'.active = sess.active /\ sess'.hdr = sess.hdr
        /\ sess'.written = sess.written + sess.len
        /\ sess.written \in Nat /\ sess.len \in Nat
    BY DEF Inv, TypeOK, ProgramCompletes, Sessions
  <2>2. \A m \in Metadata : Names(m) => Size[m.img] \in Nat
    BY DEF Names, Metadata
  <2>3. meta \in Metadata \cup {NoMeta} /\ ram \in Metadata
    BY DEF Inv, TypeOK
  <2>4. /\ pc = "program" /\ pc' = "updater"
        /\ meta' = meta /\ ram' = ram /\ unconfirmed' = unconfirmed
    BY DEF ProgramCompletes
  <2>5. /\ sess.active /\ unconfirmed = 0
        /\ Names(meta) => Size[meta.img] <= sess.written + sess.len
        /\ Names(ram) => Size[ram.img] <= sess.written + sess.len
    BY <2>1, <2>2, <2>3, <2>4 DEF Inv, SessionIsBehind, Names
  <2> QED BY <2>1, <2>4, <2>5 DEF SessionIsBehind, Names
<1>6. BootsAreCounted'
  BY DEF Inv, ProgramCompletes, BootsAreCounted, Running
<1> QED BY <1>1, <1>2, <1>3, <1>4, <1>5, <1>6 DEF Inv

\* So are the blocks an error may have disturbed.
LEMMA ProgramFailsInv ==
    ASSUME Inv, ProgramFails
    PROVE  Inv'
<1> USE BootAssumption, MetaAssumption
<1>1. TypeOK'
  <2>1. app' \in [Blocks -> Contents]
    BY DEF ProgramFails, TornProgram
  <2>2. sess' \in Sessions
    <3>1. sess \in Sessions /\ 0 \in 0 .. MaxLen /\ NoImage \in Images \cup {NoImage}
      BY DEF Inv, TypeOK
    <3>2. 0 \in Nat
      OBVIOUS
    <3>3. [sess EXCEPT !.data = NoImage, !.len = 0] \in Sessions
      BY <3>1, <3>2, SessionFacts, Zenon
    <3> QED BY <3>3 DEF ProgramFails
  <2>3. reply' \in Replies
    BY DEF Inv, TypeOK, ProgramFails, Answer, Frame, Replies, Sessions
  <2> QED BY <2>1, <2>2, <2>3 DEF Inv, ProgramFails, TypeOK
<1>2. NamedImageIsIntact'
  <2> SUFFICES ASSUME Names(meta), NEW b \in 0 .. Size[meta.img] - 1
                PROVE  app'[b] = meta.img
    BY DEF NamedImageIsIntact, CrcMatches, SizeOf, Names, ProgramFails
  <2>1. meta.img \in Images /\ Size[meta.img] <= sess.written
    BY DEF Inv, TypeOK, SessionIsBehind, ProgramFails, Names, Metadata
  <2>2. Size[meta.img] \in 1 .. Slot + 1 /\ sess.written \in Nat /\ sess.len \in Nat
    BY <2>1 DEF Inv, TypeOK, Sessions
  <2>3. b \in Blocks /\ b \notin DataBlocks
    BY <2>1, <2>2 DEF Blocks, DataBlocks
  <2>4. app'[b] = app[b]
    BY <2>3 DEF ProgramFails, TornProgram
  <2> QED BY <2>4 DEF Inv, NamedImageIsIntact, CrcMatches, SizeOf, Names
<1>3. RunningIsTracked'
  BY DEF Inv, ProgramFails, RunningIsTracked, Running
<1>4. AppendIsSound'
  BY DEF Inv, ProgramFails, AppendIsSound, Appending
<1>5. SessionIsBehind'
  BY DEF Inv, ProgramFails, SessionIsBehind
<1>6. BootsAreCounted'
  BY DEF Inv, ProgramFails, BootsAreCounted, Running
<1> QED BY <1>1, <1>2, <1>3, <1>4, <1>5, <1>6 DEF Inv

\* END: the whole image is there before it is named.
LEMMA HandleEndInv ==
    ASSUME Inv, HandleEnd
    PROVE  Inv'
<1> USE BootAssumption, MetaAssumption
<1>1. TypeOK'
  <2>1. ram' \in Metadata
    <3>1. CASE MayCommit
      <4>1. sess.hdr.img \in Images \cup {NoImage} /\ sess.role \in AnyRole
        BY <3>1 DEF Inv, TypeOK, Sessions, Headers, EmptyHeader
      <4> QED BY <3>1, <4>1 DEF HandleEnd, Metadata, States, Attempts
    <3>2. CASE ~MayCommit
      BY <3>2 DEF Inv, TypeOK, HandleEnd, Refuse
    <3> QED BY <3>1, <3>2
  <2>2. reply' \in Replies
    BY DEF Inv, TypeOK, HandleEnd, Refuse, Answer, Frame, Replies
  <2> QED BY <2>1, <2>2 DEF Inv, HandleEnd, Refuse, TypeOK, Appending
<1>2. NamedImageIsIntact'
  BY DEF Inv, HandleEnd, NamedImageIsIntact, Refuse
<1>3. RunningIsTracked'
  BY DEF Inv, HandleEnd, RunningIsTracked, Running, Refuse
<1>4. AppendIsSound'
  <2>1. CASE MayCommit
    <3>1. /\ ram'.img = sess.hdr.img /\ app' = app /\ pc' = "end"
          /\ ram'.count = 0 /\ ram'.attempt = 0 /\ ram'.confirmed = 0
          /\ unconfirmed' = 0
      BY <2>1 DEF HandleEnd, MayCommit, Inv, SessionIsBehind
    <3>2. Counts(ram', unconfirmed')
      BY <3>1 DEF Counts, Since
    <3> QED BY <2>1, <3>1, <3>2 DEF AppendIsSound, MayCommit, CrcMatches
  <2>2. CASE ~MayCommit
    BY <2>2 DEF HandleEnd, Refuse, AppendIsSound, Appending
  <2> QED BY <2>1, <2>2
<1>5. SessionIsBehind'
  <2>1. CASE MayCommit
    <3>1. /\ ram'.img = sess.hdr.img /\ meta' = meta /\ sess' = sess /\ pc' = "end"
          /\ unconfirmed' = unconfirmed
          /\ sess.active /\ sess.written = SizeOf(sess.hdr.img) /\ sess.written \in Nat
      BY <2>1 DEF HandleEnd, MayCommit, Inv, TypeOK, Sessions
    <3>2. ram'.img # NoImage => Size[ram'.img] <= sess.written
      BY <3>1 DEF SizeOf
    <3> QED BY <3>1, <3>2 DEF Inv, SessionIsBehind, Names
  <2>2. CASE ~MayCommit
    BY <2>2 DEF HandleEnd, Refuse, Inv, SessionIsBehind, Names
  <2> QED BY <2>1, <2>2
<1>6. BootsAreCounted'
  BY DEF Inv, HandleEnd, SessionIsBehind, BootsAreCounted, Running, Counts, Since,
     Refuse, MayCommit
<1> QED BY <1>1, <1>2, <1>3, <1>4, <1>5, <1>6 DEF Inv

\* SET_ROLE rewrites state and role of the RAM copy only.
LEMMA HandleSetRoleInv ==
    ASSUME Inv, NEW role \in AnyRole, HandleSetRole(role)
    PROVE  Inv'
<1> USE BootAssumption, MetaAssumption
<1>1. TypeOK'
  <2>1. \/ ram' = ram
        \/ ram' = [ram EXCEPT !.state = "valid", !.role = role]
    BY DEF HandleSetRole, Refuse
  <2>2. ram \in Metadata /\ "valid" \in States
    BY DEF Inv, TypeOK, States
  <2>3. ram' \in Metadata
    BY <2>1, <2>2 DEF Metadata
  <2>4. reply' \in Replies
    BY DEF Inv, TypeOK, HandleSetRole, Refuse, Answer, Frame, Replies
  <2> QED BY <2>3, <2>4 DEF Inv, HandleSetRole, Refuse, TypeOK, Appending
<1>2. NamedImageIsIntact'
  BY DEF Inv, HandleSetRole, NamedImageIsIntact, Refuse
<1>3. RunningIsTracked'
  BY DEF Inv, HandleSetRole, RunningIsTracked, Running, Refuse
<1>4. AppendIsSound'
  <2>1. \/ ram' = ram
        \/ ram' = [ram EXCEPT !.state = "valid", !.role = role]
    BY DEF HandleSetRole, Refuse
  <2>2. ram \in Metadata /\ "valid" \in States
    BY DEF Inv, TypeOK, States
  <2>3. ram'.img = ram.img /\ ram' # NoMeta /\ ram # NoMeta
    BY <2>1, <2>2, <1>1 DEF TypeOK, Metadata
  <2>4. CASE pc' = "setRole"
    <3>1. ram' = [ram EXCEPT !.state = "valid", !.role = role] /\ Names(ram)
      BY <2>3, <2>4 DEF Inv, HandleSetRole, Refuse, isApplicationImageValid, Names
    <3>2. pc = "updater" /\ unconfirmed' = unconfirmed
      BY DEF HandleSetRole, Refuse
    <3>3. Counts(ram, unconfirmed)
      BY <3>1, <3>2 DEF Inv, BootsAreCounted
    <3>4. Counts(ram', unconfirmed')
      <4>1. /\ ram'.count = ram.count /\ ram'.attempt = ram.attempt
            /\ ram'.confirmed = ram.confirmed
        BY <2>2, <3>1 DEF Metadata
      <4> QED BY <3>2, <3>3, <4>1 DEF Counts, Since
    <3> QED BY <2>3, <2>4, <3>4 DEF HandleSetRole, Refuse, AppendIsSound,
       isApplicationImageValid, CrcMatches, Names
  <2>5. CASE pc' # "setRole"
    BY <2>5 DEF HandleSetRole, Refuse, AppendIsSound, Appending
  <2> QED BY <2>4, <2>5
<1>5. SessionIsBehind'
  BY DEF Inv, HandleSetRole, TypeOK, SessionIsBehind, Names, Metadata, Refuse
<1>6. BootsAreCounted'
  <2>1. \/ ram' = ram
        \/ ram' = [ram EXCEPT !.state = "valid", !.role = role]
    BY DEF HandleSetRole, Refuse
  <2>2. ram \in Metadata /\ "valid" \in States
    BY DEF Inv, TypeOK, States
  <2>3. /\ Names(ram') => Names(ram)
        /\ Counts(ram, unconfirmed) => Counts(ram', unconfirmed)
    BY <2>1, <2>2, <1>1 DEF Names, TypeOK, Metadata, Counts, Since
  <2>4. meta' = meta /\ unconfirmed' = unconfirmed /\ pc' \in {"updater", "setRole"}
    BY DEF HandleSetRole, Refuse
  <2> QED BY <2>3, <2>4 DEF Inv, HandleSetRole, BootsAreCounted, Running
<1> QED BY <1>1, <1>2, <1>3, <1>4, <1>5, <1>6 DEF Inv

\* The record of END or SET_ROLE is written.
LEMMA CommitRecordedInv ==
    ASSUME Inv, CommitRecorded
    PROVE  Inv'
<1> USE BootAssumption, MetaAssumption
<1>1. TypeOK'
  BY DEF Inv, CommitRecorded, TypeOK, Metadata, States, AnyRole, Attempts, Appending,
     Sessions, Headers, Replies, NoSession, AppendSucceeds, Answer, Frame, setDefaultMetadata
<1>2. NamedImageIsIntact'
  BY DEF Inv, CommitRecorded, NamedImageIsIntact, AppendIsSound, Appending, AppendSucceeds,
     Names
<1>3. RunningIsTracked'
  BY DEF Inv, CommitRecorded, RunningIsTracked, Running
<1>4. AppendIsSound'
  BY DEF Inv, CommitRecorded, AppendIsSound, Names, setDefaultMetadata
<1>5. SessionIsBehind'
  BY DEF Inv, CommitRecorded, SessionIsBehind, NoSession
<1>6. BootsAreCounted'
  <2>1. Counts(ram, unconfirmed)
    BY DEF Inv, CommitRecorded, AppendIsSound
  <2> QED BY <2>1 DEF Inv, TypeOK, CommitRecorded, AppendSucceeds, BootsAreCounted, Running
<1> QED BY <1>1, <1>2, <1>3, <1>4, <1>5, <1>6 DEF Inv

\* The record of END or SET_ROLE may be written.
LEMMA CommitNotRecordedInv ==
    ASSUME Inv, CommitNotRecorded
    PROVE  Inv'
<1> USE BootAssumption, MetaAssumption
<1>1. TypeOK'
  BY DEF Inv, CommitNotRecorded, TypeOK, Appending, Replies, AppendFails, Answer, Frame
<1>2. NamedImageIsIntact'
  BY DEF Inv, CommitNotRecorded, NamedImageIsIntact, AppendIsSound, Appending, AppendFails,
     Names
<1>3. RunningIsTracked'
  BY DEF Inv, CommitNotRecorded, RunningIsTracked, Running
<1>4. AppendIsSound'
  BY DEF Inv, CommitNotRecorded, AppendIsSound, Appending
<1>5. SessionIsBehind'
  BY DEF Inv, CommitNotRecorded, SessionIsBehind, AppendFails
<1>6. BootsAreCounted'
  <2>1. Counts(ram, unconfirmed)
    BY DEF Inv, CommitNotRecorded, AppendIsSound
  <2> QED BY <2>1 DEF Inv, TypeOK, CommitNotRecorded, AppendFails, BootsAreCounted, Running
<1> QED BY <1>1, <1>2, <1>3, <1>4, <1>5, <1>6 DEF Inv

\* A refused frame.
LEMMA HandleOtherInv ==
    ASSUME Inv, HandleOther
    PROVE  Inv'
<1> USE BootAssumption, MetaAssumption
<1>1. TypeOK'
  BY DEF Inv, HandleOther, TypeOK, Replies, Refuse, Answer, Frame
<1>2. NamedImageIsIntact'
  BY DEF Inv, HandleOther, NamedImageIsIntact, Refuse
<1>3. RunningIsTracked'
  BY DEF Inv, HandleOther, RunningIsTracked, Running, Refuse
<1>4. AppendIsSound'
  BY DEF Inv, HandleOther, AppendIsSound, Refuse
<1>5. SessionIsBehind'
  BY DEF Inv, HandleOther, SessionIsBehind, Refuse
<1>6. BootsAreCounted'
  BY DEF Inv, HandleOther, BootsAreCounted, Running, Refuse
<1> QED BY <1>1, <1>2, <1>3, <1>4, <1>5, <1>6 DEF Inv

\* bl_confirm_boot up to the append.
LEMMA AppConfirmInv ==
    ASSUME Inv, AppConfirm
    PROVE  Inv'
<1> USE BootAssumption, MetaAssumption
<1>1. TypeOK'
  <2>1. ram' \in Metadata
    <3>1. CASE pc' = "confirm"
      <4>1. meta \in Metadata /\ meta.count \in Nat /\ handoff.attempt \in Attempts
        BY <3>1 DEF Inv, TypeOK, AppConfirm, Metadata, Handoffs
      <4>2. (IF meta.count > 0 THEN meta.count - 1 ELSE 0) \in Nat
        BY <4>1
      <4> QED BY <3>1, <4>1, <4>2 DEF Inv, TypeOK, AppConfirm, Metadata
    <3>2. CASE pc' # "confirm"
      BY <3>2 DEF Inv, TypeOK, AppConfirm
    <3> QED BY <3>1, <3>2
  <2> QED BY <2>1 DEF Inv, AppConfirm, TypeOK, Appending
<1>2. NamedImageIsIntact'
  BY DEF Inv, AppConfirm, NamedImageIsIntact
<1>3. RunningIsTracked'
  BY DEF Inv, AppConfirm, RunningIsTracked, Running
<1>4. AppendIsSound'
  BY DEF Inv, AppConfirm, TypeOK, RunningIsTracked, AppendIsSound, BootsAreCounted,
     Running, isApplicationImageValid, Metadata
<1>5. SessionIsBehind'
  BY DEF Inv, AppConfirm, SessionIsBehind
<1>6. BootsAreCounted'
  BY DEF Inv, AppConfirm, BootsAreCounted
<1> QED BY <1>1, <1>2, <1>3, <1>4, <1>5, <1>6 DEF Inv

\* The attempt is confirmed.
LEMMA ConfirmRecordedInv ==
    ASSUME Inv, ConfirmRecorded
    PROVE  Inv'
<1> USE BootAssumption, MetaAssumption
<1>1. TypeOK'
  <2>1. unconfirmed' \in Nat
    BY DEF Inv, TypeOK, ConfirmRecorded, AppendIsSound
  <2>2. handoff' \in Handoffs
    BY DEF Inv, TypeOK, ConfirmRecorded, Handoffs
  <2> QED BY <2>1, <2>2, DefaultFacts DEF Inv, ConfirmRecorded, AppendSucceeds, TypeOK
<1>2. NamedImageIsIntact'
  BY DEF Inv, ConfirmRecorded, NamedImageIsIntact, AppendIsSound, Names, Appending,
     AppendSucceeds
<1>3. RunningIsTracked'
  <2>1. meta \in Metadata /\ meta # NoMeta /\ meta.count > 0 /\ unconfirmed \in Nat /\ unconfirmed > 0
    BY DEF Inv, TypeOK, ConfirmRecorded, AppendIsSound, RunningIsTracked, Running
  <2>2. ram = [meta EXCEPT !.confirmed = meta.attempt, !.count = meta.count - 1]
    BY DEF Inv, AppendIsSound, ConfirmRecorded
  <2>3. /\ ram \in Metadata /\ ram.img = meta.img /\ ram.role = meta.role
        /\ ram.attempt = meta.attempt /\ ram.confirmed = meta.attempt
    BY <2>1, <2>2, ConfirmedFacts
  <2>4. handoff'.attempt = handoff.attempt /\ handoff'.role = handoff.role /\ asked'
    BY DEF Inv, TypeOK, ConfirmRecorded, AppendIsSound, Handoffs
  <2>5. meta' \in {meta, ram} /\ app' = app
    BY DEF ConfirmRecorded, AppendSucceeds
  <2> QED BY <2>1, <2>3, <2>4, <2>5
          DEF Inv, RunningIsTracked, Running, ConfirmRecorded, isApplicationImageValid, CrcMatches
<1>4. AppendIsSound'
  BY DEF Inv, ConfirmRecorded, AppendIsSound, Names, setDefaultMetadata
<1>5. SessionIsBehind'
  BY DEF Inv, ConfirmRecorded, SessionIsBehind
<1>6. BootsAreCounted'
  <2>1. meta \in Metadata /\ meta # NoMeta /\ meta.count > 0 /\ unconfirmed \in Nat /\ unconfirmed > 0
    BY DEF Inv, TypeOK, ConfirmRecorded, AppendIsSound, RunningIsTracked, Running
  <2>2. ram = [meta EXCEPT !.confirmed = meta.attempt, !.count = meta.count - 1]
    BY DEF Inv, AppendIsSound, ConfirmRecorded
  <2>3. Counts(meta, unconfirmed) /\ asked
    BY <2>1 DEF Inv, BootsAreCounted, AppendIsSound, ConfirmRecorded
  <2>4. Counts(ram, unconfirmed - 1) /\ ram # NoMeta /\ ram # meta
    BY <2>1, <2>2, <2>3, ConfirmedCounts, ConfirmedFacts
  <2> QED BY <2>1, <2>3, <2>4 DEF ConfirmRecorded, AppendSucceeds, BootsAreCounted, Running
<1> QED BY <1>1, <1>2, <1>3, <1>4, <1>5, <1>6 DEF Inv

\* The attempt may be confirmed.
LEMMA ConfirmNotRecordedInv ==
    ASSUME Inv, ConfirmNotRecorded
    PROVE  Inv'
<1> USE BootAssumption, MetaAssumption
<1>1. TypeOK'
  <2>1. unconfirmed' \in Nat
    BY DEF Inv, TypeOK, ConfirmNotRecorded, AppendIsSound
  <2>2. handoff' \in Handoffs
    BY DEF Inv, TypeOK, ConfirmNotRecorded, Handoffs
  <2> QED BY <2>1, <2>2, DefaultFacts DEF Inv, ConfirmNotRecorded, AppendFails, TypeOK
<1>2. NamedImageIsIntact'
  BY DEF Inv, ConfirmNotRecorded, TypeOK, NamedImageIsIntact, AppendIsSound, Names,
     CrcMatches, AppendFails
<1>3. RunningIsTracked'
  <2>1. meta \in Metadata /\ meta # NoMeta /\ meta.count > 0 /\ unconfirmed \in Nat /\ unconfirmed > 0
    BY DEF Inv, TypeOK, ConfirmNotRecorded, AppendIsSound, RunningIsTracked, Running
  <2>2. ram = [meta EXCEPT !.confirmed = meta.attempt, !.count = meta.count - 1]
    BY DEF Inv, AppendIsSound, ConfirmNotRecorded
  <2>3. /\ ram \in Metadata /\ ram.img = meta.img /\ ram.role = meta.role
        /\ ram.attempt = meta.attempt /\ ram.confirmed = meta.attempt
    BY <2>1, <2>2, ConfirmedFacts
  <2>4. handoff'.attempt = handoff.attempt /\ handoff'.role = handoff.role /\ asked'
    BY DEF Inv, TypeOK, ConfirmNotRecorded, AppendIsSound, Handoffs
  <2>5. meta' \in {meta, ram} /\ app' = app
    BY DEF ConfirmNotRecorded, AppendFails
  <2> QED BY <2>1, <2>3, <2>4, <2>5
          DEF Inv, RunningIsTracked, Running, ConfirmNotRecorded, isApplicationImageValid, CrcMatches
<1>4. AppendIsSound'
  BY DEF Inv, ConfirmNotRecorded, AppendIsSound, Names, setDefaultMetadata
<1>5. SessionIsBehind'
  BY DEF Inv, ConfirmNotRecorded, SessionIsBehind
<1>6. BootsAreCounted'
  <2>1. meta \in Metadata /\ meta # NoMeta /\ meta.count > 0 /\ unconfirmed \in Nat /\ unconfirmed > 0
    BY DEF Inv, TypeOK, ConfirmNotRecorded, AppendIsSound, RunningIsTracked, Running
  <2>2. ram = [meta EXCEPT !.confirmed = meta.attempt, !.count = meta.count - 1]
    BY DEF Inv, AppendIsSound, ConfirmNotRecorded
  <2>3. Counts(meta, unconfirmed) /\ asked
    BY <2>1 DEF Inv, BootsAreCounted, AppendIsSound, ConfirmNotRecorded
  <2>4. Counts(ram, unconfirmed - 1) /\ ram # NoMeta /\ ram # meta
    BY <2>1, <2>2, <2>3, ConfirmedCounts, ConfirmedFacts
  <2> QED BY <2>1, <2>3, <2>4 DEF ConfirmNotRecorded, AppendFails, BootsAreCounted, Running
<1> QED BY <1>1, <1>2, <1>3, <1>4, <1>5, <1>6 DEF Inv

\* bl_request_update up to the append.
LEMMA AppRequestUpdateInv ==
    ASSUME Inv, AppRequestUpdate
    PROVE  Inv'
<1> USE BootAssumption, MetaAssumption
<1>1. TypeOK'
  <2>1. ram' \in Metadata
    <3>1. PICK m \in Metadata : ram' = [m EXCEPT !.state = "requested"]
      BY DefaultFacts DEF Inv, TypeOK, AppRequestUpdate
    <3>2. m.role \in AnyRole /\ "requested" \in States
      BY DEF Metadata, States
    <3> QED BY <3>1, <3>2, RewrittenFacts
  <2> QED BY <2>1 DEF Inv, AppRequestUpdate, TypeOK, Appending
<1>2. NamedImageIsIntact'
  BY DEF Inv, AppRequestUpdate, NamedImageIsIntact
<1>3. RunningIsTracked'
  BY DEF Inv, AppRequestUpdate, RunningIsTracked, Running
<1>4. AppendIsSound'
  BY DEF Inv, AppRequestUpdate, RunningIsTracked, AppendIsSound, Running,
     isApplicationImageValid
<1>5. SessionIsBehind'
  BY DEF Inv, AppRequestUpdate, SessionIsBehind
<1>6. BootsAreCounted'
  BY DEF Inv, AppRequestUpdate, BootsAreCounted, Running, Counts, Since, setDefaultMetadata
<1> QED BY <1>1, <1>2, <1>3, <1>4, <1>5, <1>6 DEF Inv

\* The request is on record.
LEMMA RequestRecordedInv ==
    ASSUME Inv, RequestRecorded
    PROVE  Inv'
<1> USE BootAssumption, MetaAssumption
<1>1. TypeOK'
  <2>1. handoff' \in Handoffs
    BY DEF RequestRecorded, NoHandoff, Handoffs, Attempts, AnyRole
  <2> QED BY <2>1, DefaultFacts DEF Inv, RequestRecorded, TypeOK, AppendSucceeds
<1>2. NamedImageIsIntact'
  BY DEF Inv, RequestRecorded, NamedImageIsIntact, AppendIsSound, Names, Appending,
     AppendSucceeds
<1>3. RunningIsTracked'
  BY DEF Inv, RequestRecorded, RunningIsTracked, Running
<1>4. AppendIsSound'
  BY DEF Inv, RequestRecorded, AppendIsSound, Names, setDefaultMetadata
<1>5. SessionIsBehind'
  BY DEF Inv, RequestRecorded, SessionIsBehind
<1>6. BootsAreCounted'
  BY DEF Inv, RequestRecorded, TypeOK, RunningIsTracked, AppendIsSound, BootsAreCounted,
     Running, Counts, Since, Metadata, AppendSucceeds
<1> QED BY <1>1, <1>2, <1>3, <1>4, <1>5, <1>6 DEF Inv

\* The request may be on record.
LEMMA RequestNotRecordedInv ==
    ASSUME Inv, RequestNotRecorded
    PROVE  Inv'
<1> USE BootAssumption, MetaAssumption
<1>1. TypeOK'
  BY DEF Inv, RequestNotRecorded, TypeOK, Metadata, States, AnyRole, Attempts,
     AppendFails, setDefaultMetadata
<1>2. NamedImageIsIntact'
  BY DEF Inv, RequestNotRecorded, NamedImageIsIntact, AppendIsSound, Names, Appending,
     AppendFails
<1>3. RunningIsTracked'
  BY DEF Inv, RequestNotRecorded, TypeOK, RunningIsTracked, AppendIsSound, Running,
     isApplicationImageValid, Metadata, AppendFails
<1>4. AppendIsSound'
  BY DEF Inv, RequestNotRecorded, AppendIsSound, Names, setDefaultMetadata
<1>5. SessionIsBehind'
  BY DEF Inv, RequestNotRecorded, SessionIsBehind
<1>6. BootsAreCounted'
  BY DEF Inv, RequestNotRecorded, TypeOK, RunningIsTracked, AppendIsSound,
     BootsAreCounted, Running, Counts, Since, Metadata, AppendFails
<1> QED BY <1>1, <1>2, <1>3, <1>4, <1>5, <1>6 DEF Inv

\* After a reset only the durable state is left; what an interrupted operation
\* may have left there is what its completion or its failure may leave.
LEMMA PowerLossInv ==
    ASSUME Inv, PowerLoss
    PROVE  Inv'
<1> USE BootAssumption, MetaAssumption
<1>1. /\ pc' = "boot" /\ sess' = NoSession /\ ram' = setDefaultMetadata
      /\ handoff' = NoHandoff /\ asked' = FALSE /\ reply' = NoFrame /\ accepted' = accepted
  BY DEF PowerLoss
<1>2. meta' = meta \/ (pc \in Appending /\ meta' = ram)
  BY DEF PowerLoss
<1>3. app' \in [Blocks -> Contents] /\ (pc \notin {"erase", "program"} => app' = app)
  <2>1. CASE pc = "erase"
    <3>1. app' \in TornErase(app)
      BY <2>1 DEF PowerLoss
    <3>2. PICK k \in AppSlot : app' \in ErasedUpTo(app, k)
      BY <3>1 DEF TornErase
    <3>3. PICK c \in {app[k], Erased, Garbage} :
             app' = [b \in Blocks |-> IF b < k THEN Erased ELSE IF b = k THEN c ELSE app[b]]
      BY <3>2 DEF ErasedUpTo
    <3>4. app \in [Blocks -> Contents] /\ k \in Blocks
      BY DEF Inv, TypeOK, AppSlot, Blocks
    <3>5. c \in Contents
      BY <3>4 DEF Contents
    <3> QED BY <2>1, <3>3, <3>4, <3>5 DEF Contents
  <2>2. CASE pc = "program"
    BY <2>2 DEF PowerLoss, TornProgram
  <2>3. CASE pc \notin {"erase", "program"}
    BY <2>3 DEF PowerLoss, Inv, TypeOK
  <2> QED BY <2>1, <2>2, <2>3
<1>4. /\ pc = "begin" /\ meta' # meta => unconfirmed' = 0
      /\ pc = "confirm" /\ meta' # meta => unconfirmed' = unconfirmed - 1
      /\ ~(pc \in {"begin", "confirm"} /\ meta' # meta) => unconfirmed' = unconfirmed
  BY DEF PowerLoss
<1>5. TypeOK'
  <2>1. unconfirmed' \in Nat
    BY <1>4 DEF Inv, TypeOK, AppendIsSound
  <2>2. NoSession \in Sessions
    BY DEF NoSession, Sessions, Headers, AnyRole
  <2>3. NoHandoff \in Handoffs /\ NoFrame \in Replies
    BY DEF NoHandoff, Handoffs, Attempts, AnyRole, NoFrame, Frame, Replies
  <2>4. meta' \in Metadata \cup {NoMeta}
    BY <1>2 DEF Inv, TypeOK
  <2> QED BY <1>1, <1>3, <2>1, <2>2, <2>3, <2>4, DefaultFacts DEF Inv, TypeOK
<1>6. NamedImageIsIntact'
  <2>1. CASE pc = "erase"
    BY <1>2, <2>1, DefaultFacts DEF Inv, AppendIsSound, NamedImageIsIntact, Appending
  <2>2. CASE pc = "program"
    <3> SUFFICES ASSUME Names(meta), NEW b \in 0 .. Size[meta.img] - 1
                 PROVE  app'[b] = meta.img
      BY <1>2, <2>2 DEF NamedImageIsIntact, CrcMatches, SizeOf, Names, Appending
    <3>1. meta.img \in Images /\ Size[meta.img] <= sess.written
      BY <2>2 DEF Inv, TypeOK, SessionIsBehind, Names, Metadata
    <3>2. Size[meta.img] \in 1 .. Slot + 1 /\ sess.written \in Nat /\ sess.len \in Nat
      BY <3>1 DEF Inv, TypeOK, Sessions
    <3>3. b \in Blocks /\ b \notin DataBlocks
      BY <3>1, <3>2 DEF Blocks, DataBlocks
    <3>4. app' \in TornProgram(app)
      BY <2>2 DEF PowerLoss
    <3>5. app'[b] = app[b]
      BY <3>3, <3>4 DEF TornProgram
    <3> QED BY <3>5 DEF Inv, NamedImageIsIntact, CrcMatches, SizeOf, Names
  <2>3. CASE pc \notin {"erase", "program"}
    BY <1>2, <1>3, <2>3 DEF Inv, AppendIsSound, NamedImageIsIntact, CrcMatches, Names
  <2> QED BY <2>1, <2>2, <2>3
<1>7. RunningIsTracked'
  BY <1>1 DEF RunningIsTracked, Running
<1>8. AppendIsSound'
  BY <1>1 DEF AppendIsSound, Appending
<1>9. SessionIsBehind'
  BY <1>1 DEF SessionIsBehind, NoSession
<1>10. BootsAreCounted'
  <2> SUFFICES /\ meta' = NoMeta => unconfirmed' = 0
               /\ meta' # NoMeta => Counts(meta', unconfirmed')
    BY <1>1, DefaultFacts DEF BootsAreCounted, Running, Names
  <2>1. CASE meta' = meta
    BY <1>4, <2>1 DEF Inv, BootsAreCounted
  <2>2. CASE meta' # meta
    <3>1. pc \in Appending /\ meta' = ram /\ ram # NoMeta /\ unconfirmed \in Nat
      BY <1>2, <2>2 DEF Inv, TypeOK
    <3>2. CASE pc = "begin"
      BY <1>4, <2>2, <3>1, <3>2 DEF Inv, AppendIsSound, Counts, Since, setDefaultMetadata
    <3>3. CASE pc = "confirm"
      <4>1. meta \in Metadata /\ meta # NoMeta /\ meta.count > 0 /\ unconfirmed > 0
        BY <3>3 DEF Inv, TypeOK, AppendIsSound, RunningIsTracked, Running
      <4>2. ram = [meta EXCEPT !.confirmed = meta.attempt, !.count = meta.count - 1]
        BY <3>3 DEF Inv, AppendIsSound
      <4>3. Counts(meta, unconfirmed)
        BY <4>1 DEF Inv, BootsAreCounted
      <4> QED BY <1>4, <2>2, <3>1, <3>3, <4>1, <4>2, <4>3, ConfirmedCounts, ZenonT(30)
    <3>4. CASE pc = "track"
      BY <1>4, <3>1, <3>4 DEF Inv, TypeOK, BootsAreCounted, Counts, Metadata
    <3>5. CASE pc \in {"end", "setRole"}
      BY <1>4, <3>1, <3>5 DEF Inv, AppendIsSound, BootsAreCounted
    <3>6. CASE pc = "request"
      BY <1>4, <3>1, <3>6
         DEF Inv, TypeOK, AppendIsSound, BootsAreCounted, RunningIsTracked, Running,
             isApplicationImageValid, Names, Metadata, Counts, Since
    <3> QED BY <3>1, <3>2, <3>3, <3>4, <3>5, <3>6 DEF Appending
  <2> QED BY <2>1, <2>2
<1> QED BY <1>5, <1>6, <1>7, <1>8, <1>9, <1>10 DEF Inv

\* The factory states.
LEMMA InitInv ==
    ASSUME Init
    PROVE  Inv
<1> USE BootAssumption, MetaAssumption
<1>1. \A img \in Images \cup {NoImage} : FlashHolding(img) \in [Blocks -> Contents]
  BY DEF FlashHolding, Blocks, Contents
<1>2. \A img \in Images, role \in Roles : FactoryMetadata(img, role) \in Metadata
  <2> TAKE img \in Images, role \in Roles
  <2>1. role \in AnyRole /\ "valid" \in States
    BY DEF AnyRole, States
  <2> HIDE DEF setDefaultMetadata
  <2> QED BY <2>1, DefaultFacts DEF FactoryMetadata, Metadata
<1>3. /\ pc = "boot" /\ ram = setDefaultMetadata /\ sess = NoSession
      /\ handoff = NoHandoff /\ asked = FALSE /\ reply = NoFrame /\ unconfirmed = 0
  BY DEF Init
<1>4. \/ meta = NoMeta
      \/ /\ meta \in Metadata /\ meta.img \in Images
         /\ CrcMatches(app, meta.img) /\ Counts(meta, 0)
  <2>1. CASE \E img \in {i \in Images : Size[i] <= Slot}, role \in Roles \ {"unset"} :
                meta = FactoryMetadata(img, role) /\ app = FlashHolding(img)
    <3>1. PICK img \in Images, role \in Roles :
             /\ Size[img] <= Slot
             /\ meta = FactoryMetadata(img, role) /\ app = FlashHolding(img)
      BY <2>1
    <3>2. meta.img = img /\ meta.count = 0 /\ meta.attempt = 0 /\ meta.confirmed = 0
      BY <3>1 DEF FactoryMetadata, setDefaultMetadata
    <3>3. CrcMatches(app, img)
      <4>1. Size[img] \in Nat /\ Slot \in Nat
        OBVIOUS
      <4> QED BY <3>1, <4>1 DEF CrcMatches, SizeOf, FlashHolding, Blocks
    <3>4. Counts(meta, 0)
      BY <3>2 DEF Counts, Since
    <3> QED BY <1>2, <3>1, <3>2, <3>3, <3>4
  <2> QED BY <2>1 DEF Init
<1>5. TypeOK
  <2>1. NoSession \in Sessions
    BY DEF NoSession, Sessions, Headers, AnyRole
  <2>2. NoHandoff \in Handoffs /\ NoFrame \in Replies
    BY DEF NoHandoff, Handoffs, Attempts, AnyRole, NoFrame, Frame, Replies
  <2>3. app \in [Blocks -> Contents] /\ accepted \in SUBSET Images
    BY <1>1 DEF Init
  <2> QED BY <1>3, <1>4, <2>1, <2>2, <2>3, DefaultFacts DEF TypeOK
<1>6. NamedImageIsIntact
  BY <1>4 DEF NamedImageIsIntact
<1>7. RunningIsTracked /\ AppendIsSound
  BY <1>3 DEF RunningIsTracked, Running, AppendIsSound, Appending
<1>8. SessionIsBehind
  BY <1>3 DEF SessionIsBehind, NoSession
<1>9. BootsAreCounted
  BY <1>3, <1>4, DefaultFacts DEF BootsAreCounted, Running
<1> QED BY <1>5, <1>6, <1>7, <1>8, <1>9 DEF Inv

\* Every step preserves the invariant.
LEMMA NextInv ==
    ASSUME Inv, [Next]_vars
    PROVE  Inv'
<1>1. CASE Boot \/ Handoff \/ NoHandoffWithoutRecord
  BY <1>1, BootInv, HandoffInv, NoHandoffWithoutRecordInv
<1>2. CASE HandleFrame
  BY <1>2, HandleHelloInv, HandleBeginInv, HandleDataInv, HandleEndInv, HandleSetRoleInv,
     HandleOtherInv DEF HandleFrame
<1>3. CASE UpdaterFlash
  BY <1>3, BeginRecordedInv, BeginNotRecordedInv, EraseCompletesInv, EraseFailsInv,
     ProgramCompletesInv, ProgramFailsInv, CommitRecordedInv, CommitNotRecordedInv
  DEF UpdaterFlash
<1>4. CASE Application
  BY <1>4, AppConfirmInv, ConfirmRecordedInv, ConfirmNotRecordedInv, AppRequestUpdateInv,
     RequestRecordedInv, RequestNotRecordedInv DEF Application
<1>5. CASE PowerLoss
  BY <1>5, PowerLossInv
<1>6. CASE UNCHANGED vars
  BY <1>6 DEF vars, deviceVars, Inv, TypeOK, NamedImageIsIntact, RunningIsTracked,
              AppendIsSound, SessionIsBehind, BootsAreCounted, Running, Names, Counts,
              Since, CrcMatches, isApplicationImageValid
<1> QED BY <1>1, <1>2, <1>3, <1>4, <1>5, <1>6 DEF Next

\* The invariant holds throughout.
LEMMA InvHolds == Spec => []Inv
<1>1. Init => Inv
  BY InitInv
<1>2. Inv /\ [Next]_vars => Inv'
  BY NextInv
<1> QED BY <1>1, <1>2, PTL DEF Spec

-----------------------------------------------------------------------------
(* Theorems *)

\* Every variable stays in its type; bootAttemptId wraps instead of growing.
THEOREM TypeCorrect == Spec => []TypeOK
<1>1. Inv => TypeOK
  BY DEF Inv
<1> QED BY <1>1, InvHolds, PTL

\* Whatever frames arrive and wherever power is lost, the image the durable
\* metadata names is completely in flash.
THEOREM ImageIntact == Spec => []NamedImageIsIntact
<1>1. Inv => NamedImageIsIntact
  BY DEF Inv
<1> QED BY <1>1, InvHolds, PTL

\* A running application is intact, has its role, and its attempt is on record.
THEOREM ApplicationTracked == Spec => []RunningIsTracked
<1>1. Inv => RunningIsTracked
  BY DEF Inv
<1> QED BY <1>1, InvHolds, PTL

\* An installation is started at most Limit times without being confirmed,
\* although bootAttemptId wraps and records are cut short.
THEOREM BoundedFailures == Spec => []FailureLimit
<1>1. Inv => FailureLimit
  BY BootAssumption, MetaAssumption
     DEF Inv, TypeOK, FailureLimit, BootsAreCounted, Counts, Metadata
<1> QED BY <1>1, InvHolds, PTL

-----------------------------------------------------------------------------
(* The invariant of the wire, for any number of runs of the tool *)

Hosts == [phase : Framed \cup Text \cup Ended, cmd : {"flash", "setRole"}, seq : Nat,
          tries : Nat, wait : BOOLEAN, dirty : BOOLEAN, offset : Nat]

Requests == [type : {"HELLO", "BEGIN", "DATA", "END", "SET_ROLE"} \cup Text, seq : Nat,
             off : Nat, len : Nat]

Answers == [type : {"none", "INFO", "READY", "ACK", "NACK", "COMPLETE", "ERROR"} \cup CliText,
            seq : Nat, at : Nat]

\* What DATA carries lies within the image.
InRange(f) == f.type = "DATA" => f.off < Size[Pkg] /\ f.len \in 1 .. MaxLen

WireInv ==
    /\ host \in Hosts
    /\ toDev \in Seq(Requests) /\ toHost \in Seq(Answers)
    /\ current \in Nat
    /\ host.phase \in Connecting \cup {"begin"} => host.offset = 0
    /\ host.phase = "data" => host.offset < Size[Pkg]
    /\ \A i \in 1 .. Len(toDev) : InRange(toDev[i])

-----------------------------------------------------------------------------
(* The invariant of one run of the tool *)

\* A frame of one of the types is in q.
Holds(q, types) == \E i \in 1 .. Len(q) : q[i].type \in types

\* Requests that come after BEGIN, and the replies only they have.
Later   == {"DATA", "END", "SET_ROLE"}
Results == {"ACK", "NACK", "COMPLETE"}
Busy    == {"program", "end", "setRole"}

\* A BEGIN is still to take effect.
BeginPending == pc \in {"begin", "erase"} \/ Holds(toDev, {"BEGIN"})

\* Each command sends its own requests.
CommandInv ==
    /\ host.cmd = "flash" =>
          /\ host.phase # "setRole" /\ pc # "setRole"
          /\ ~Holds(toDev, {"SET_ROLE"})
    /\ host.cmd = "setRole" =>
          /\ host.phase \notin {"begin", "data", "end"}
          /\ pc \notin {"begin", "erase", "program", "end"}
          /\ ~sess.active
          /\ ~Holds(toDev, {"BEGIN"})

\* Until BEGIN is answered nothing that follows it is on its way.
StartInv ==
    host.phase \in Connecting \cup {"begin"} =>
        /\ pc \notin Busy
        /\ ~Holds(toDev, Later) /\ ~Holds(toHost, Results)

\* A BEGIN takes effect before everything that follows it.
OrderInv ==
    /\ BeginPending =>
          /\ host.offset = 0
          /\ pc \notin Busy
          /\ ~Holds(toHost, Results)
    /\ \A i, j \in 1 .. Len(toDev) :
          i < j /\ toDev[j].type = "BEGIN" => toDev[i].type \notin Later

\* An offset on its way to the host, or known to it, is written.
AckInv ==
    /\ sess.active => \A i \in 1 .. Len(toHost) :
          toHost[i].type \in {"ACK", "NACK"} => toHost[i].at <= sess.written
    /\ HostNotAhead

\* The device works on the package.
PackageInv ==
    /\ sess.active \/ pc \in {"begin", "erase"} => sess.hdr.img = Pkg /\ sess.role = Role
    /\ pc = "end" => sess.active /\ ram.img = Pkg /\ ram.role = Role
    /\ pc = "setRole" => ram.role = Role
    /\ pc = "track" => meta # NoMeta /\ ram.img = meta.img /\ ram.role = meta.role

Completed == host.phase = "done" \/ Holds(toHost, {"COMPLETE"})

Installed == meta # NoMeta /\ meta.role = Role /\ (host.cmd = "flash" => meta.img = Pkg)

\* From the reply on, nothing undoes the installation.
DoneInv == Completed => Installed /\ ~BeginPending /\ ~sess.active

RunInv == CommandInv /\ StartInv /\ OrderInv /\ AckInv /\ PackageInv /\ DoneInv

-----------------------------------------------------------------------------
(* Sequences: what loss leaves of q is q with some of its elements *)

\* p is q without some of its elements.
Embeds(p, q) ==
    \E f \in [1 .. Len(p) -> 1 .. Len(q)] :
        /\ \A i \in 1 .. Len(p) : p[i] = q[f[i]]
        /\ \A i, j \in 1 .. Len(p) : i < j => f[i] < f[j]

\* A sequence is q without nothing.
LEMMA EmbedsSelf ==
    ASSUME NEW S, NEW q \in Seq(S)
    PROVE  Embeds(q, q)
<1> DEFINE f == [i \in 1 .. Len(q) |-> i]
<1>1. f \in [1 .. Len(q) -> 1 .. Len(q)]  OBVIOUS
<1>2. /\ \A i \in 1 .. Len(q) : q[i] = q[f[i]]
      /\ \A i, j \in 1 .. Len(q) : i < j => f[i] < f[j]
  OBVIOUS
<1> HIDE DEF f
<1> QED  BY <1>1, <1>2 DEF Embeds

\* The first element is taken.
LEMMA EmbedsTail ==
    ASSUME NEW S, NEW q \in Seq(S), q # <<>>
    PROVE  Tail(q) \in Seq(S) /\ Embeds(Tail(q), q)
<1> DEFINE p == Tail(q)
           f == [i \in 1 .. Len(p) |-> i + 1]
<1>1. p \in Seq(S) /\ Len(q) \in Nat /\ Len(p) = Len(q) - 1  OBVIOUS
<1>2. \A i \in 1 .. Len(p) : p[i] = q[i + 1]  OBVIOUS
<1> HIDE DEF p
<1>3. f \in [1 .. Len(p) -> 1 .. Len(q)]  BY <1>1
<1>4. /\ \A i \in 1 .. Len(p) : p[i] = q[f[i]]
      /\ \A i, j \in 1 .. Len(p) : i < j => f[i] < f[j]
  BY <1>1, <1>2
<1> HIDE DEF f
<1>5. Embeds(p, q)  BY <1>3, <1>4 DEF Embeds
<1> QED  BY <1>1, <1>5 DEF p

\* A reset loses the first frames.
LEMMA EmbedsSuffix ==
    ASSUME NEW S, NEW q \in Seq(S), NEW p \in Suffixes(q)
    PROVE  p \in Seq(S) /\ Embeds(p, q)
<1> PICK k \in 1 .. Len(q) + 1 : p = SubSeq(q, k, Len(q))  BY DEF Suffixes
<1> DEFINE f == [i \in 1 .. Len(p) |-> i + (k - 1)]
<1>0. Len(q) \in Nat  OBVIOUS
<1>1. p \in Seq(S) /\ Len(p) = Len(q) - k + 1  BY <1>0
<1>2. \A i \in 1 .. Len(p) : p[i] = q[i + (k - 1)]  BY <1>0, <1>1
<1>3. f \in [1 .. Len(p) -> 1 .. Len(q)]  BY <1>0, <1>1
<1>4. /\ \A i \in 1 .. Len(p) : p[i] = q[f[i]]
      /\ \A i, j \in 1 .. Len(p) : i < j => f[i] < f[j]
  BY <1>0, <1>1, <1>2
<1> HIDE DEF f
<1> QED  BY <1>1, <1>3, <1>4 DEF Embeds

\* One frame is lost.
LEMMA EmbedsWithout ==
    ASSUME NEW S, NEW q \in Seq(S), NEW k \in 1 .. Len(q)
    PROVE  Without(q, k) \in Seq(S) /\ Embeds(Without(q, k), q)
<1> DEFINE a == SubSeq(q, 1, k - 1)
           b == SubSeq(q, k + 1, Len(q))
           p == a \o b
           f == [i \in 1 .. Len(p) |-> IF i < k THEN i ELSE i + 1]
<1>0. Len(q) \in Nat  OBVIOUS
<1>1. a \in Seq(S) /\ Len(a) = k - 1 /\ \A i \in 1 .. k - 1 : a[i] = q[i]  BY <1>0
<1>2. /\ b \in Seq(S) /\ Len(b) = Len(q) - k
      /\ \A i \in 1 .. Len(q) - k : b[i] = q[i + k]
  BY <1>0
<1> HIDE DEF a, b
<1>c. /\ p \in Seq(S) /\ Len(p) = Len(a) + Len(b)
      /\ \A i \in 1 .. Len(a) + Len(b) :
            p[i] = IF i <= Len(a) THEN a[i] ELSE b[i - Len(a)]
  BY <1>1, <1>2, ConcatProperties
<1>3. p \in Seq(S) /\ Len(p) = Len(q) - 1  BY <1>0, <1>1, <1>2, <1>c
<1>4. \A i \in 1 .. Len(p) : p[i] = q[IF i < k THEN i ELSE i + 1]
  <2> TAKE i \in 1 .. Len(p)
  <2>1. CASE i < k
    <3> i \in 1 .. k - 1  BY <1>0, <1>3, <2>1
    <3> QED  BY <1>0, <1>1, <1>2, <1>3, <1>c, <2>1
  <2>2. CASE ~(i < k)
    <3> i - (k - 1) \in 1 .. Len(q) - k /\ (i - (k - 1)) + k = i + 1  BY <1>0, <1>3, <2>2
    <3> p[i] = b[i - (k - 1)]  BY <1>0, <1>1, <1>2, <1>3, <1>c, <2>2
    <3> QED  BY <1>2, <2>2
  <2> QED  BY <2>1, <2>2
<1> HIDE DEF p
<1>5. f \in [1 .. Len(p) -> 1 .. Len(q)]  BY <1>0, <1>3
<1>6. /\ \A i \in 1 .. Len(p) : p[i] = q[f[i]]
      /\ \A i, j \in 1 .. Len(p) : i < j => f[i] < f[j]
  BY <1>0, <1>3, <1>4
<1> HIDE DEF f
<1>7. Embeds(p, q)  BY <1>5, <1>6 DEF Embeds
<1>8. p = Without(q, k)  BY DEF p, a, b, Without
<1> QED  BY <1>3, <1>7, <1>8

\* Nothing embeds in everything.
LEMMA EmbedsEmpty ==
    ASSUME NEW S, NEW q \in Seq(S)
    PROVE  << >> \in Seq(S) /\ Embeds(<< >>, q)
<1> DEFINE p == << >>
           f == [i \in 1 .. Len(p) |-> i]
<1>0. p \in Seq(S) /\ Len(p) = 0  OBVIOUS
<1> HIDE DEF p
<1>1. f \in [1 .. Len(p) -> 1 .. Len(q)]  BY <1>0
<1>2. /\ \A i \in 1 .. Len(p) : p[i] = q[f[i]]
      /\ \A i, j \in 1 .. Len(p) : i < j => f[i] < f[j]
  BY <1>0
<1> HIDE DEF f
<1>3. Embeds(p, q)  BY <1>1, <1>2 DEF Embeds
<1> QED  BY <1>0, <1>3 DEF p

\* The last frame is lost, if there is one.
LEMMA WithoutLast ==
    ASSUME NEW S, NEW q \in Seq(S)
    PROVE  Without(q, Len(q)) \in Seq(S) /\ Embeds(Without(q, Len(q)), q)
<1>1. CASE Len(q) = 0
  <2>1. SubSeq(q, 1, Len(q) - 1) = << >> /\ SubSeq(q, Len(q) + 1, Len(q)) = << >>
    BY <1>1, SubSeqEmpty
  <2>2. Without(q, Len(q)) = << >> \o << >>  BY <2>1 DEF Without
  <2>3. << >> \o << >> = << >>  OBVIOUS
  <2> QED  BY <2>2, <2>3, EmbedsEmpty
<1>2. CASE Len(q) # 0
  <2> Len(q) \in 1 .. Len(q)  BY <1>2
  <2> QED  BY EmbedsWithout
<1> QED  BY <1>1, <1>2

-----------------------------------------------------------------------------
(* Any number of runs: the device is the one of Bootloader *)

\* The constants, as the proofs use them.
LEMMA PackageFacts ==
    /\ Pkg \in Images /\ Size[Pkg] \in 1 .. Slot /\ Role \in Roles /\ Role \in AnyRole
    /\ [img |-> Pkg, good |-> TRUE] \in Headers
    /\ SeqMod \in Nat \ {0} /\ MaxLen \in Nat \ {0}
BY SessionAssumption, BootAssumption DEF AnyRole, Headers

\* A sequence number is a number.
LEMMA NextSeq ==
    ASSUME NEW n \in Nat
    PROVE  (n + 1) % SeqMod \in Nat
BY PackageFacts

\* What entering a phase makes of a host.
LEMMA EnterFacts ==
    ASSUME NEW h \in Hosts, NEW p \in Framed \cup Text \cup Ended
    PROVE  /\ Enter(h, p) \in Hosts
           /\ Enter(h, p).phase = p /\ Enter(h, p).cmd = h.cmd
           /\ Enter(h, p).offset = h.offset
<1>1. h.seq \in Nat /\ (h.seq + 1) % SeqMod \in Nat  BY NextSeq DEF Hosts
<1>2. (IF p \in Framed THEN (h.seq + 1) % SeqMod ELSE h.seq) \in Nat  BY <1>1
<1> QED  BY <1>2 DEF Enter, Hosts

\* The same with another offset.
LEMMA OffsetFacts ==
    ASSUME NEW h \in Hosts, NEW n \in Nat
    PROVE  /\ [h EXCEPT !.offset = n] \in Hosts
           /\ [h EXCEPT !.offset = n].offset = n
           /\ [h EXCEPT !.offset = n].cmd = h.cmd
BY DEF Hosts

\* An attempt that brought nothing is repeated, or ends the command.
LEMMA AttemptFacts ==
    ASSUME NEW h \in Hosts
    PROVE  /\ AttemptFails(h) \in Hosts
           /\ AttemptFails(h).phase \in {h.phase, "version", "absent", "failed"}
           /\ AttemptFails(h).phase = "version" => h.phase \in {"hello", "version"}
           /\ AttemptFails(h).cmd = h.cmd
           /\ AttemptFails(h).offset = h.offset
<1>1. CASE h.tries + 1 < RetryLimit(h.phase)
  <2> DEFINE g == [h EXCEPT !.tries = @ + 1, !.wait = FALSE, !.dirty = FALSE]
  <2>1. AttemptFails(h) = g  BY <1>1 DEF AttemptFails
  <2>0. h.tries + 1 \in Nat  BY DEF Hosts
  <2>2. g \in Hosts  BY <2>0 DEF Hosts
  <2>3. g.phase = h.phase /\ g.cmd = h.cmd /\ g.offset = h.offset  BY DEF Hosts
  <2> HIDE DEF g
  <2> QED  BY <2>1, <2>2, <2>3
<1>2. CASE ~(h.tries + 1 < RetryLimit(h.phase))
  <2> DEFINE p == CASE h.phase = "hello"   -> "version"
                    [] h.phase = "rehello" -> "absent"
                    [] OTHER               -> "failed"
  <2>1. p \in {"version", "absent", "failed"} /\ (p = "version" => h.phase = "hello")
    OBVIOUS
  <2>2. p \in Framed \cup Text \cup Ended  BY <2>1 DEF Text, Ended
  <2>3. AttemptFails(h) = Enter(h, p)  BY <1>2 DEF AttemptFails
  <2> HIDE DEF p
  <2> QED  BY <2>1, <2>2, <2>3, EnterFacts
<1> QED  BY <1>1, <1>2

\* An accepted reply: the next phase, and the offset it comes with.
LEMMA AcceptFacts ==
    ASSUME NEW h \in Hosts, h.phase \in Framed, NEW r \in Answers,
           r.type \in Expected(h.phase),
           h.phase \in Connecting \cup {"begin"} => h.offset = 0
    PROVE  LET g == Accept(h, r)
           IN  /\ g \in Hosts /\ g.cmd = h.cmd
               /\ \/ /\ h.phase \in {"hello", "rehello"} /\ g.offset = 0
                     /\ g.phase = IF h.cmd = "flash" THEN "begin" ELSE "setRole"
                  \/ h.phase = "begin" /\ g.phase \in {"data", "failed"} /\ g.offset = 0
                  \/ /\ h.phase = "data" /\ g.phase = "failed"
                     /\ r.type \in {"ACK", "NACK"}
                  \/ /\ h.phase = "data" /\ g.offset = r.at
                     /\ r.type \in {"ACK", "NACK"}
                     /\ g.phase = IF r.at < Size[Pkg] THEN "data" ELSE "end"
                  \/ /\ h.phase \in {"end", "setRole"} /\ g.phase = "done"
                     /\ r.type = "COMPLETE"
<1> USE DEF Framed, Text, Ended
<1>1. CASE h.phase \in {"hello", "rehello"}
  <2> DEFINE k == [h EXCEPT !.offset = 0]
             p == IF h.cmd = "flash" THEN "begin" ELSE "setRole"
  <2>1. k \in Hosts /\ k.offset = 0 /\ k.cmd = h.cmd  BY OffsetFacts
  <2>2. Accept(h, r) = Enter(k, p)  BY <1>1, <2>1 DEF Accept, Connected
  <2>3. p \in Framed \cup Text \cup Ended  OBVIOUS
  <2> HIDE DEF k, p
  <2>4. Enter(k, p) \in Hosts /\ Enter(k, p).phase = p /\ Enter(k, p).cmd = h.cmd /\ Enter(k, p).offset = 0
    BY <2>1, <2>3, EnterFacts
  <2> QED  BY <1>1, <2>2, <2>4 DEF p
<1>2. CASE h.phase = "begin"
  <2> DEFINE p == IF r.at = 0 THEN "data" ELSE "failed"
  <2>1. Accept(h, r) = Enter(h, p)  BY <1>2 DEF Accept
  <2> QED  BY <1>2, <2>1, EnterFacts
<1>3. CASE h.phase = "data" /\ r.type = "NACK" /\ r.at > h.offset
  <2>1. Accept(h, r) = Enter(h, "failed")  BY <1>3 DEF Accept
  <2> QED  BY <1>3, <2>1, EnterFacts
<1>4. CASE h.phase = "data" /\ ~(r.type = "NACK" /\ r.at > h.offset)
  <2> DEFINE k == [h EXCEPT !.offset = r.at]
             p == IF r.at < Size[Pkg] THEN "data" ELSE "end"
  <2>1. k \in Hosts /\ k.offset = r.at /\ k.cmd = h.cmd  BY OffsetFacts DEF Answers
  <2>2. Accept(h, r) = Enter(k, p)  BY <1>4 DEF Accept
  <2>3. p \in Framed \cup Text \cup Ended /\ r.type \in {"ACK", "NACK"}
    BY <1>4 DEF Expected
  <2> HIDE DEF k, p
  <2>4. Enter(k, p) \in Hosts /\ Enter(k, p).phase = p /\ Enter(k, p).cmd = h.cmd /\ Enter(k, p).offset = r.at
    BY <2>1, <2>3, EnterFacts
  <2> QED  BY <1>4, <2>2, <2>3, <2>4 DEF p
<1>5. CASE h.phase \in {"end", "setRole"}
  <2>1. Accept(h, r) = Enter(h, "done") /\ r.type = "COMPLETE"  BY <1>5 DEF Accept, Expected
  <2> QED  BY <1>5, <2>1, EnterFacts
<1> QED  BY <1>1, <1>2, <1>3, <1>4, <1>5

\* Loss leaves frames that are in range.
LEMMA WireShrinks ==
    ASSUME WireInv, toDev' \in Seq(Requests), Embeds(toDev', toDev)
    PROVE  \A i \in 1 .. Len(toDev') : InRange(toDev'[i])
BY DEF WireInv, Embeds

\* A step in which only the device's side of the host's data changes.
LEMMA WireDeviceStep ==
    ASSUME WireInv, UNCHANGED host, toDev' \in Seq(Requests), Embeds(toDev', toDev),
           toHost' \in Seq(Answers), current' \in Nat
    PROVE  WireInv'
<1>1. \A i \in 1 .. Len(toDev') : InRange(toDev'[i])  BY WireShrinks
<1> QED  BY <1>1 DEF WireInv, InRange

\* A reply of the updater fits the wire.
LEMMA RespondFacts ==
    ASSUME WireInv, reply' \in Replies, NEW s \in Nat, Respond(s)
    PROVE  /\ toHost' \in Seq(Answers)
           /\ Len(toHost') = Len(toHost) + 1
           /\ \A i \in 1 .. Len(toHost) : toHost'[i] = toHost[i]
           /\ toHost'[Len(toHost) + 1].type = reply'.type
           /\ toHost'[Len(toHost) + 1].at = reply'.at
<1> DEFINE r == [type |-> reply'.type, seq |-> s, at |-> reply'.at]
<1>1. r \in Answers /\ r.type = reply'.type /\ r.at = reply'.at  BY DEF Answers, Replies
<1>2. toHost' = Append(toHost, r) /\ toHost \in Seq(Answers)  BY DEF Respond, WireInv
<1> HIDE DEF r
<1> QED  BY <1>1, <1>2

\* A line of the application's CLI fits the wire.
LEMMA LineFacts ==
    ASSUME WireInv, NEW t \in CliText, toHost' = Append(toHost, Line(t))
    PROVE  /\ toHost' \in Seq(Answers)
           /\ Len(toHost') = Len(toHost) + 1
           /\ \A i \in 1 .. Len(toHost) : toHost'[i] = toHost[i]
           /\ toHost'[Len(toHost) + 1].type = t
<1>1. Line(t) \in Answers /\ Line(t).type = t  BY DEF Line, Answers
<1>2. toHost \in Seq(Answers)  BY DEF WireInv
<1> HIDE DEF Line
<1> QED  BY <1>1, <1>2

\* Host: the frame it sends is in range.
LEMMA HostSendWire ==
    ASSUME WireInv, HostSend
    PROVE  /\ WireInv'
           /\ Len(toDev') = Len(toDev) + 1
           /\ \A i \in 1 .. Len(toDev) : toDev'[i] = toDev[i]
           /\ toDev'[Len(toDev) + 1].type =
                 IF host.phase \in Framed THEN Message(host.phase) ELSE host.phase
           /\ host'.phase = host.phase /\ host'.cmd = host.cmd /\ host'.offset = host.offset
           /\ toHost' = toHost
<1> DEFINE f == IF host.phase \in Framed THEN RequestFrame(host) ELSE TextFrame(host.phase)
<1>1. host \in Hosts /\ toDev \in Seq(Requests) /\ host.phase \in Framed \cup Text
  BY DEF WireInv, HostSend, Hosts
<1>2. f \in Requests /\ InRange(f)
      /\ f.type = (IF host.phase \in Framed THEN Message(host.phase) ELSE host.phase)
  <2>1. CASE host.phase \in Framed /\ host.phase = "data"
    <3>1. host.offset \in Nat /\ host.offset < Size[Pkg] /\ host.seq \in Nat
      BY <1>1, <2>1 DEF WireInv, Hosts
    <3>2. ChunkLength(host.offset) \in 1 .. MaxLen  BY <3>1, PackageFacts DEF ChunkLength
    <3> QED  BY <2>1, <3>1, <3>2, PackageFacts DEF RequestFrame, Requests, InRange, Message
  <2>2. CASE host.phase \in Framed /\ host.phase # "data"
    BY <1>1, <2>2 DEF RequestFrame, Requests, InRange, Message, Hosts, Framed
  <2>3. CASE host.phase \notin Framed
    BY <1>1, <2>3 DEF TextFrame, Requests, InRange, Text
  <2> QED  BY <2>1, <2>2, <2>3
<1>3. toDev' = Append(toDev, f)  BY DEF HostSend
<1> HIDE DEF f
<1>4. /\ toDev' \in Seq(Requests) /\ Len(toDev') = Len(toDev) + 1
      /\ \A i \in 1 .. Len(toDev) : toDev'[i] = toDev[i]
      /\ toDev'[Len(toDev) + 1] = f
  BY <1>1, <1>2, <1>3
<1>5. \A i \in 1 .. Len(toDev') : InRange(toDev'[i])
  <2> TAKE i \in 1 .. Len(toDev')
  <2>0. Len(toDev) \in Nat  BY <1>1
  <2>1. CASE i = Len(toDev) + 1  BY <1>2, <1>4, <2>1
  <2>2. CASE i \in 1 .. Len(toDev)  BY <1>4, <2>2 DEF WireInv
  <2> QED  BY <1>4, <2>0, <2>1, <2>2
<1>6. host' \in Hosts /\ host'.phase = host.phase /\ host'.cmd = host.cmd /\ host'.offset = host.offset
  BY <1>1 DEF HostSend, Hosts
<1>7. toHost' = toHost /\ current' = current  BY DEF HostSend
<1>8. WireInv'  BY <1>4, <1>5, <1>6, <1>7 DEF WireInv, InRange
<1> QED  BY <1>2, <1>4, <1>6, <1>7, <1>8

\* The host stays in its phase, goes on connecting, or gives up.
Repeats ==
    /\ host' \in Hosts /\ host'.cmd = host.cmd /\ host'.offset = host.offset
    /\ \/ host'.phase \in {host.phase, "absent", "failed"}
       \/ host.phase \in Connecting /\ host'.phase \in Connecting

\* The host acts on the reply r.
Advances(r) ==
    /\ host' \in Hosts /\ host'.cmd = host.cmd
    /\ \/ /\ host.phase \in {"hello", "rehello"} /\ host'.offset = 0
          /\ host'.phase = IF host.cmd = "flash" THEN "begin" ELSE "setRole"
       \/ host.phase = "begin" /\ host'.phase \in {"data", "failed"} /\ host'.offset = 0
       \/ /\ host.phase = "data" /\ host'.phase = "failed"
          /\ r.type \in {"ACK", "NACK"}
       \/ /\ host.phase = "data" /\ host'.offset = r.at
          /\ r.type \in {"ACK", "NACK"}
          /\ host'.phase = IF r.at < Size[Pkg] THEN "data" ELSE "end"
       \/ /\ host.phase \in {"end", "setRole"} /\ host'.phase = "done"
          /\ r.type = "COMPLETE"

\* Host: an attempt that fails.
LEMMA AttemptRepeats ==
    ASSUME host \in Hosts, host' = AttemptFails(host)
    PROVE  Repeats
BY AttemptFacts DEF Repeats, Connecting

\* Host: a reply is skipped, ends an attempt, or is acted on.
LEMMA HostReceiveWire ==
    ASSUME WireInv, HostReceive
    PROVE  /\ UNCHANGED <<toDev, current>> /\ toHost # <<>> /\ toHost' = Tail(toHost)
           /\ toHost' \in Seq(Answers) /\ Embeds(toHost', toHost)
           /\ Repeats \/ Advances(toHost[1])
           /\ toHost[1] \in Answers
<1> DEFINE r == Head(toHost)
<1>1. host \in Hosts /\ toHost \in Seq(Answers) /\ toHost # <<>> /\ host.phase \in Framed
  BY DEF WireInv, HostReceive
<1>2. r = toHost[1] /\ r \in Answers  BY <1>1
<1>3. toHost' = Tail(toHost) /\ UNCHANGED <<toDev, current>>  BY DEF HostReceive
<1>4. toHost' \in Seq(Answers) /\ Embeds(toHost', toHost)  BY <1>1, <1>3, EmbedsTail
<1> HIDE DEF r
<1>5. CASE r.type \in CliText \/ host.dirty
  <2>1. host' = [host EXCEPT !.dirty = (r.type \in CliText)]  BY <1>5 DEF HostReceive, r
  <2>2. (r.type \in CliText) \in BOOLEAN  OBVIOUS
  <2> QED  BY <1>1, <1>2, <1>3, <1>4, <2>1, <2>2 DEF Repeats, Hosts
<1>6. CASE ~(r.type \in CliText \/ host.dirty) /\ r.seq = host.seq /\ r.type \in Expected(host.phase)
  <2>1. host' = Accept(host, r)  BY <1>6 DEF HostReceive, r
  <2>2. host.phase \in Connecting \cup {"begin"} => host.offset = 0  BY DEF WireInv
  <2>3. Advances(r)  BY <1>1, <1>2, <1>6, <2>1, <2>2, AcceptFacts DEF Advances
  <2> QED  BY <1>1, <1>2, <1>3, <1>4, <2>3
<1>7. CASE ~(r.type \in CliText \/ host.dirty) /\ ~(r.seq = host.seq /\ r.type \in Expected(host.phase))
  <2>1. host' = AttemptFails(host)  BY <1>7 DEF HostReceive, r
  <2> QED  BY <1>1, <1>2, <1>3, <1>4, <2>1, AttemptRepeats
<1> QED  BY <1>5, <1>6, <1>7

\* Host: time is up.
LEMMA HostTimeoutWire ==
    ASSUME WireInv, HostTimeout
    PROVE  Repeats /\ UNCHANGED <<toDev, toHost, current>>
BY AttemptRepeats DEF WireInv, HostTimeout, wire

\* Host: the dialogue with the application's CLI is over.
LEMMA HostCliDoneWire ==
    ASSUME WireInv, HostCliDone
    PROVE  Repeats /\ UNCHANGED <<toDev, current>> /\ toHost' = <<>>
<1> DEFINE heard(type) == \E i \in DOMAIN toHost : toHost[i].type = type
           p == CASE host.phase = "version" /\ heard("version")      -> "bootloader"
                  [] host.phase = "bootloader" /\ heard("rebooting") -> "rehello"
                  [] OTHER                                           -> "absent"
<1>1. host' = Enter(host, p) /\ host.phase \in Text /\ UNCHANGED <<toDev, current>> /\ toHost' = <<>>
  BY DEF HostCliDone
<1>2. p \in {"bootloader", "rehello", "absent"}  OBVIOUS
<1> HIDE DEF p
<1>3. p \in Framed \cup Text \cup Ended  BY <1>2 DEF Framed, Text, Ended
<1>4. host \in Hosts  BY DEF WireInv
<1>5. host' \in Hosts /\ host'.phase = p /\ host'.cmd = host.cmd /\ host'.offset = host.offset
  BY <1>1, <1>3, <1>4, EnterFacts
<1> QED  BY <1>1, <1>2, <1>5 DEF Repeats, Text, Connecting

\* The wire after a step of the host.
LEMMA RepeatsWire ==
    ASSUME WireInv, Repeats, UNCHANGED <<toDev, current>>, toHost' \in Seq(Answers)
    PROVE  WireInv'
<1>1. host'.phase \in Connecting \cup {"begin"} => host'.offset = 0
  BY DEF WireInv, Repeats, Connecting
<1>2. host'.phase = "data" => host'.offset < Size[Pkg]
  BY DEF WireInv, Repeats, Connecting
<1> QED  BY <1>1, <1>2 DEF WireInv, Repeats, InRange

\* The same after a reply that was acted on.
LEMMA AdvancesWire ==
    ASSUME WireInv, NEW r \in Answers, Advances(r), UNCHANGED <<toDev, current>>,
           toHost' \in Seq(Answers)
    PROVE  WireInv'
<1>1. host'.phase \in Connecting \cup {"begin"} => host'.offset = 0
  BY DEF Advances, Connecting
<1>2. host'.phase = "data" => host'.offset < Size[Pkg]
  BY PackageFacts DEF Advances
<1> QED  BY <1>1, <1>2 DEF WireInv, Advances, InRange

\* Host: the tool starts anew.
LEMMA FreshWire ==
    ASSUME NEW cmd \in Commands
    PROVE  /\ Fresh(cmd) \in Hosts
           /\ Fresh(cmd).offset = 0 /\ Fresh(cmd).phase = "hello" /\ Fresh(cmd).cmd = cmd
<1> cmd \in {"flash", "setRole"}  BY SessionAssumption
<1> 1 % SeqMod \in Nat  BY PackageFacts
<1> QED  BY DEF Fresh, Hosts, Framed

\* Host: the tool is run again.
LEMMA HostRerunWire ==
    ASSUME WireInv, HostRerun
    PROVE  WireInv'
<1>1. PICK cmd \in Commands : host' = Fresh(cmd)  BY DEF HostRerun
<1>2. UNCHANGED <<toDev, current>> /\ toHost' = <<>>  BY DEF HostRerun
<1>3. toHost' \in Seq(Answers)  BY <1>2, EmbedsEmpty
<1> QED  BY <1>1, <1>2, <1>3, FreshWire DEF WireInv, InRange

\* Nothing is on the wire at first.
LEMMA InitWire == SessionInit => WireInv
<1> SUFFICES ASSUME SessionInit PROVE WireInv  OBVIOUS
<1>1. PICK cmd \in Commands : host = Fresh(cmd)  BY DEF SessionInit
<1>2. toDev \in Seq(Requests) /\ toHost \in Seq(Answers) /\ Len(toDev) = 0  BY DEF SessionInit
<1> QED  BY <1>1, <1>2, FreshWire DEF SessionInit, WireInv

\* Device: the frame at the front, and the wire without it.
LEMMA HeadFacts ==
    ASSUME WireInv, toDev # <<>>
    PROVE  /\ 1 \in 1 .. Len(toDev) /\ Head(toDev) = toDev[1] /\ toDev[1] \in Requests
           /\ InRange(toDev[1])
           /\ Tail(toDev) \in Seq(Requests) /\ Embeds(Tail(toDev), toDev)
<1>1. toDev \in Seq(Requests)  BY DEF WireInv
<1>2. 1 \in 1 .. Len(toDev) /\ Head(toDev) = toDev[1] /\ toDev[1] \in Requests  BY <1>1
<1>3. InRange(toDev[1])  BY <1>2 DEF WireInv
<1> QED  BY <1>1, <1>2, <1>3, EmbedsTail

\* Device: what it does with a frame of the tool is something that module
\* Bootloader lets it do with a frame from anywhere.
LEMMA ReadFrameIsHandleFrame ==
    ASSUME WireInv, ReadFrame
    PROVE  HandleFrame
<1>0. toDev # <<>>  BY DEF ReadFrame
<1> DEFINE f == toDev[1]
<1>1. HandleNext(f)  BY <1>0, HeadFacts DEF ReadFrame
<1>2. f \in Requests /\ InRange(f)  BY <1>0, HeadFacts
<1> HIDE DEF f
<1>3. CASE f.type = "HELLO" /\ HandleHello  BY <1>3 DEF HandleFrame
<1>4. CASE f.type = "BEGIN" /\ HandleBegin([img |-> Pkg, good |-> TRUE], Role)
  BY <1>4, PackageFacts DEF HandleFrame
<1>5. CASE f.type = "DATA" /\ sess.active /\ HandleData(f.off, f.len, Pkg)
  <2>1. f.off \in Offsets /\ f.len \in 1 .. MaxLen
    BY <1>2, <1>5, PackageFacts, BootAssumption DEF InRange, Requests, Offsets
  <2> QED  BY <1>5, <2>1, PackageFacts DEF HandleFrame
<1>6. CASE f.type = "DATA" /\ ~sess.active /\ HandleOther  BY <1>6 DEF HandleFrame
<1>7. CASE f.type = "END" /\ HandleEnd  BY <1>7 DEF HandleFrame
<1>8. CASE f.type = "SET_ROLE" /\ HandleSetRole(Role)  BY <1>8, PackageFacts DEF HandleFrame
<1> QED  BY <1>1, <1>3, <1>4, <1>5, <1>6, <1>7, <1>8 DEF HandleNext

\* Every step of the session is a step of Bootloader, or one it does not see.
LEMMA SessionStepIsBootStep ==
    ASSUME WireInv, [SessionNext]_sessionVars
    PROVE  [Next]_vars
<1>1. CASE HostNext
  BY <1>1 DEF HostNext, HostSend, HostReceive, HostTimeout, HostCliDone
<1>2. CASE ReadFrame  BY <1>2, ReadFrameIsHandleFrame DEF Next
<1>3. CASE ReadJunk  BY <1>3 DEF ReadJunk
<1>4. CASE FlashCompletes \/ Commits
  BY <1>4 DEF FlashCompletes, Commits, Next, UpdaterFlash
<1>5. CASE Boots \/ HandsOver  BY <1>5 DEF Boots, HandsOver, Next
<1>6. CASE AppConfirms  BY <1>6 DEF AppConfirms, Next, Application
<1>7. CASE AppReads
  <2>1. Head(toDev).type = "version" \/ Head(toDev).type # "bootloader" => UNCHANGED vars
    BY <1>7 DEF AppReads
  <2>2. Head(toDev).type = "bootloader" => AppRequestUpdate  BY <1>7 DEF AppReads
  <2> QED  BY <2>1, <2>2 DEF Next, Application
<1>8. CASE AppReboots \/ AppRefuses
  BY <1>8 DEF AppReboots, AppRefuses, Next, Application
<1>9. CASE LoseFrame \/ HostRerun  BY <1>9 DEF LoseFrame, HostRerun
<1>10. CASE FlashFails  BY <1>10 DEF FlashFails, Next, UpdaterFlash
<1>11. CASE StaysInUpdater  BY <1>11 DEF StaysInUpdater, Next
<1>12. CASE LosesPower  BY <1>12 DEF LosesPower, Next
<1>13. CASE Over \/ UNCHANGED sessionVars  BY <1>13 DEF Over, sessionVars
<1> QED
  BY <1>1, <1>2, <1>3, <1>4, <1>5, <1>6, <1>7, <1>8, <1>9, <1>10, <1>11, <1>12, <1>13
     DEF SessionNext, DeviceNext, Trouble

\* The wire after a step of the device, or a fault.
LEMMA DeviceStepWire ==
    ASSUME WireInv, TypeOK', DeviceNext \/ Trouble
    PROVE  WireInv'
<1>0. /\ toDev \in Seq(Requests) /\ toHost \in Seq(Answers) /\ current \in Nat
      /\ Embeds(toDev, toDev) /\ reply' \in Replies
  BY EmbedsSelf DEF WireInv, TypeOK
<1>s. \A q \in Suffixes(toDev) : q \in Seq(Requests) /\ Embeds(q, toDev)
  BY <1>0, EmbedsSuffix
<1>1. CASE ReadFrame
  <2>1. toDev # <<>> /\ toDev' = Tail(toDev) /\ UNCHANGED host /\ current' = Head(toDev).seq
    BY <1>1 DEF ReadFrame
  <2>2. current' \in Nat  BY <2>1, HeadFacts DEF Requests
  <2>3. toHost' \in Seq(Answers)
    <3>1. Respond(current') \/ toHost' = toHost  BY <1>1, <2>1 DEF ReadFrame
    <3> QED  BY <1>0, <2>2, <3>1, RespondFacts
  <2> QED  BY <2>1, <2>2, <2>3, HeadFacts, WireDeviceStep
<1>2. CASE ReadJunk
  <2>1. toDev # <<>> /\ toDev' = Tail(toDev) /\ UNCHANGED <<host, toHost, current>>
    BY <1>2 DEF ReadJunk
  <2> QED  BY <1>0, <2>1, HeadFacts, WireDeviceStep
<1>3. CASE FlashCompletes
  <2>1. /\ Respond(current) \/ toHost' = toHost
        /\ UNCHANGED <<host, toDev, current>>
    BY <1>3 DEF FlashCompletes
  <2> QED  BY <1>0, <2>1, RespondFacts, WireDeviceStep
<1>4. CASE Commits
  <2>1. Respond(current) /\ toDev' \in Suffixes(toDev) /\ UNCHANGED <<host, current>>
    BY <1>4 DEF Commits
  <2> QED  BY <1>0, <1>s, <2>1, RespondFacts, WireDeviceStep
<1>5. CASE Boots \/ StaysInUpdater \/ AppConfirms
  <2>1. UNCHANGED <<host, toDev, toHost, current>>
    BY <1>5 DEF Boots, StaysInUpdater, AppConfirms, wire
  <2> QED  BY <1>0, <2>1, WireDeviceStep
<1>6. CASE HandsOver
  <2>1. /\ toHost' = Append(toHost, Line("version")) /\ toDev' \in Suffixes(toDev)
        /\ UNCHANGED <<host, current>>
    BY <1>6 DEF HandsOver
  <2>2. toHost' \in Seq(Answers)  BY <2>1, LineFacts DEF CliText
  <2> QED  BY <1>0, <1>s, <2>1, <2>2, WireDeviceStep
<1>7. CASE AppReads
  <2>1. /\ toDev # <<>> /\ toDev' = Tail(toDev) /\ UNCHANGED <<host, current>>
        /\ toHost' = Append(toHost, Line("version")) \/ toHost' = toHost
    <3>1. toDev # <<>> /\ toDev' = Tail(toDev) /\ UNCHANGED <<host, current>>
      BY <1>7 DEF AppReads
    <3>2. CASE Head(toDev).type = "version"  BY <1>7, <3>1, <3>2 DEF AppReads
    <3>3. CASE Head(toDev).type = "bootloader"  BY <1>7, <3>1, <3>3 DEF AppReads
    <3>4. CASE Head(toDev).type # "version" /\ Head(toDev).type # "bootloader"
      BY <1>7, <3>1, <3>4 DEF AppReads
    <3> QED  BY <3>2, <3>3, <3>4
  <2>2. toHost' \in Seq(Answers)  BY <1>0, <2>1, LineFacts DEF CliText
  <2> QED  BY <2>1, <1>0, <2>2, HeadFacts, WireDeviceStep
<1>8. CASE AppReboots
  <2>1. /\ toHost' = Append(toHost, Line("rebooting")) /\ toDev' \in Suffixes(toDev)
        /\ UNCHANGED <<host, current>>
    BY <1>8 DEF AppReboots
  <2>2. toHost' \in Seq(Answers)  BY <2>1, LineFacts DEF CliText
  <2> QED  BY <1>0, <1>s, <2>1, <2>2, WireDeviceStep
<1>9. CASE AppRefuses
  <2>1. toHost' = Append(toHost, Line("ERR")) /\ UNCHANGED <<host, toDev, current>>
    BY <1>9 DEF AppRefuses
  <2>2. toHost' \in Seq(Answers)  BY <2>1, LineFacts DEF CliText
  <2> QED  BY <1>0, <2>1, <2>2, WireDeviceStep
<1>10. CASE LoseFrame
  <2>1. CASE \E i \in DOMAIN toDev : toDev' = Without(toDev, i) /\ UNCHANGED toHost
    <3> toDev' \in Seq(Requests) /\ Embeds(toDev', toDev)  BY <1>0, <2>1, EmbedsWithout
    <3> QED  BY <1>0, <1>10, <2>1, WireDeviceStep DEF LoseFrame
  <2>2. CASE \E i \in DOMAIN toHost : toHost' = Without(toHost, i) /\ UNCHANGED toDev
    <3> toHost' \in Seq(Answers)  BY <1>0, <2>2, EmbedsWithout
    <3> QED  BY <1>0, <1>10, <2>2, WireDeviceStep DEF LoseFrame
  <2> QED  BY <1>10, <2>1, <2>2 DEF LoseFrame
<1>11. CASE FlashFails
  <2>1. Respond(current) /\ UNCHANGED <<host, toDev, current>>  BY <1>11 DEF FlashFails
  <2> QED  BY <1>0, <2>1, RespondFacts, WireDeviceStep
<1>12. CASE LosesPower
  <2>1. /\ toDev' \in Suffixes(toDev) /\ UNCHANGED <<host, current>>
        /\ toHost' \in {toHost, Without(toHost, Len(toHost))}
    BY <1>12 DEF LosesPower
  <2>2. toHost' \in Seq(Answers)  BY <1>0, <2>1, WithoutLast
  <2> QED  BY <1>0, <1>s, <2>1, <2>2, WireDeviceStep
<1>13. CASE HostRerun  BY <1>13, HostRerunWire
<1> QED
  BY <1>1, <1>2, <1>3, <1>4, <1>5, <1>6, <1>7, <1>8, <1>9, <1>10, <1>11, <1>12, <1>13
     DEF DeviceNext, Trouble

\* The wire after a step of the host.
LEMMA HostStepWire ==
    ASSUME WireInv, HostNext
    PROVE  WireInv'
<1>0. toHost \in Seq(Answers)  BY DEF WireInv
<1>1. CASE HostSend  BY <1>1, HostSendWire
<1>2. CASE HostReceive  BY <1>2, HostReceiveWire, RepeatsWire, AdvancesWire
<1>3. CASE HostTimeout  BY <1>0, <1>3, HostTimeoutWire, RepeatsWire
<1>4. CASE HostCliDone
  <2> toHost' \in Seq(Answers)  BY <1>4, HostCliDoneWire, EmbedsEmpty
  <2> QED  BY <1>4, HostCliDoneWire, RepeatsWire
<1> QED  BY <1>1, <1>2, <1>3, <1>4 DEF HostNext

\* The device's invariant and the wire's hold together.
LEMMA WireStep == Inv /\ WireInv /\ [SessionNext]_sessionVars => Inv' /\ WireInv'
<1> SUFFICES ASSUME Inv, WireInv, [SessionNext]_sessionVars PROVE Inv' /\ WireInv'  OBVIOUS
<1>1. Inv'  BY SessionStepIsBootStep, NextInv
<1>2. TypeOK'  BY <1>1 DEF Inv
<1>3. CASE Over \/ UNCHANGED sessionVars
  <2> UNCHANGED <<host, toDev, toHost, current>>  BY <1>3 DEF Over, sessionVars, wire
  <2> QED  BY <1>1 DEF WireInv, InRange
<1> QED  BY <1>1, <1>2, <1>3, HostStepWire, DeviceStepWire DEF SessionNext

\* It begins so.
LEMMA SessionInitInv == SessionInit => Init /\ Inv /\ WireInv
BY InitWire, InitInv DEF SessionInit

\* They hold always.
LEMMA WireInvHolds == SessionSpec => [](Inv /\ WireInv)
<1>1. SessionInit => Inv /\ WireInv  BY SessionInitInv
<1> QED  BY <1>1, WireStep, PTL DEF SessionSpec

\* The device that talks to the tool over the UART, whatever is lost, late,
\* repeated or left over from an earlier run, is the device of Bootloader: what
\* is proved of that one for any host holds of it.
THEOREM SessionImplementsBootloader == SessionSpec => Spec
<1>1. SessionInit => Init  BY SessionInitInv
<1>2. Inv /\ WireInv /\ [SessionNext]_sessionVars => [Next]_vars
  BY SessionStepIsBootStep
<1> QED  BY <1>1, <1>2, WireInvHolds, PTL DEF SessionSpec, Spec

-----------------------------------------------------------------------------
(* One run: the steps of the device *)

\* What is lost was there.
LEMMA HoldsLess ==
    ASSUME NEW p, NEW q, Embeds(p, q), NEW T, Holds(p, T)
    PROVE  Holds(q, T)
BY DEF Embeds, Holds

\* More types hold more.
LEMMA HoldsMore ==
    ASSUME NEW q, NEW T, NEW U, T \subseteq U, Holds(q, T)
    PROVE  Holds(q, U)
BY DEF Holds

\* A request behind BEGIN is never before one that is still to come.
Started == host.phase \notin Connecting \cup {"begin"}

\* A reply that is new, and what it says.
NewAnswer(r) ==
    /\ Started /\ ~BeginPending'
    /\ r.type \in {"ACK", "NACK"} /\ sess'.active => r.at <= sess'.written
    /\ r.type = "COMPLETE" => Installed' /\ ~sess'.active

\* What a step of the device must not do to the run.
LEMMA DeviceStepRun ==
    ASSUME WireInv, RunInv, UNCHANGED host, Embeds(toDev', toDev), sess' \in Sessions,
           sess \in Sessions,
           BeginPending' => BeginPending,
           pc' \in Busy => Started /\ ~BeginPending',
           \A k \in 1 .. Len(toHost') :
              toHost'[k].type \in Results =>
                 (\E j \in 1 .. Len(toHost) : toHost'[k] = toHost[j]) \/ NewAnswer(toHost'[k]),
           sess'.active => BeginPending \/ (sess.active /\ sess.written <= sess'.written),
           host.cmd = "flash" => pc' # "setRole",
           host.cmd = "setRole" => pc' \notin {"begin", "erase", "program", "end"} /\ ~sess'.active,
           PackageInv',
           Completed => Installed' /\ ~sess'.active,
           toHost' \in Seq(Answers)
    PROVE  RunInv'
<1>0. CommandInv /\ StartInv /\ OrderInv /\ AckInv /\ PackageInv /\ DoneInv  BY DEF RunInv
<1>h. host' = host /\ Started' = Started  BY DEF Started
<1>e. \A T : Holds(toDev', T) => Holds(toDev, T)  BY HoldsLess
<1>t. /\ toHost \in Seq(Answers) /\ sess.written \in Nat /\ sess'.written \in Nat
      /\ host.offset \in Nat
  BY DEF WireInv, Sessions, Hosts
<1>1. CommandInv'
  <2>1. ~Holds(toDev, {"SET_ROLE"}) => ~Holds(toDev', {"SET_ROLE"})  BY <1>e
  <2>2. ~Holds(toDev, {"BEGIN"}) => ~Holds(toDev', {"BEGIN"})  BY <1>e
  <2> QED  BY <1>0, <1>h, <2>1, <2>2 DEF CommandInv, Holds
<1>2. StartInv'
  <2> SUFFICES ASSUME ~Started
               PROVE  pc' \notin Busy /\ ~Holds(toDev', Later) /\ ~Holds(toHost', Results)
    BY <1>h DEF StartInv, Started, Holds
  <2>1. ~Holds(toDev, Later) /\ ~Holds(toHost, Results)  BY <1>0 DEF StartInv, Started
  <2>2. ~Holds(toDev', Later)  BY <1>e, <2>1
  <2>3. ~Holds(toHost', Results)  BY <2>1 DEF NewAnswer, Holds
  <2> QED  BY <2>2, <2>3
<1>3. OrderInv'
  <2>1. ASSUME BeginPending'
        PROVE  host.offset = 0 /\ pc' \notin Busy /\ ~Holds(toHost', Results)
    <3>1. BeginPending  BY <2>1
    <3>2. host.offset = 0 /\ ~Holds(toHost, Results)  BY <1>0, <3>1 DEF OrderInv
    <3> QED  BY <2>1, <3>2 DEF Holds, NewAnswer
  <2>2. \A i, j \in 1 .. Len(toDev') :
           i < j /\ toDev'[j].type = "BEGIN" => toDev'[i].type \notin Later
    <3> PICK f \in [1 .. Len(toDev') -> 1 .. Len(toDev)] :
            /\ \A i \in 1 .. Len(toDev') : toDev'[i] = toDev[f[i]]
            /\ \A i, j \in 1 .. Len(toDev') : i < j => f[i] < f[j]
      BY DEF Embeds
    <3> QED  BY <1>0 DEF OrderInv
  <2> QED  BY <1>h, <2>1, <2>2 DEF OrderInv, Holds
<1>4. AckInv'
  <2>1. ASSUME sess'.active, NEW k \in 1 .. Len(toHost'), toHost'[k].type \in {"ACK", "NACK"}
        PROVE  toHost'[k].at <= sess'.written
    <3>0. toHost'[k].type \in Results  BY <2>1 DEF Results
    <3>1. CASE NewAnswer(toHost'[k])  BY <2>1, <3>1 DEF NewAnswer
    <3>2. ASSUME NEW j \in 1 .. Len(toHost), toHost'[k] = toHost[j]
          PROVE  toHost'[k].at <= sess'.written
      <4>1. CASE BeginPending
        <5> Holds(toHost, Results)  BY <3>0, <3>2 DEF Holds
        <5> QED  BY <1>0, <4>1 DEF OrderInv
      <4>2. CASE sess.active /\ sess.written <= sess'.written
        <5>1. toHost[j].at <= sess.written  BY <1>0, <2>1, <3>2, <4>2 DEF AckInv
        <5>2. toHost[j] \in Answers  BY <1>t, <3>2
        <5>3. toHost[j].at \in Nat  BY <5>2 DEF Answers
        <5> QED  BY <1>t, <3>2, <4>2, <5>1, <5>3
      <4> QED  BY <2>1, <4>1, <4>2
    <3> QED  BY <3>0, <3>1, <3>2
  <2>2. ASSUME host.phase \in {"data", "end"}, sess'.active
        PROVE  host.offset <= sess'.written
    <3>1. CASE BeginPending  BY <1>0, <1>t, <3>1 DEF OrderInv
    <3>2. CASE sess.active /\ sess.written <= sess'.written
      BY <1>0, <1>t, <2>2, <3>2 DEF AckInv, HostNotAhead
    <3> QED  BY <2>2, <3>1, <3>2
  <2> QED  BY <1>h, <2>1, <2>2 DEF AckInv, HostNotAhead
<1>5. DoneInv'
  <2> SUFFICES ASSUME Completed' PROVE Installed' /\ ~BeginPending' /\ ~sess'.active
    BY DEF DoneInv
  <2>1. CASE Completed  BY <1>0, <2>1 DEF DoneInv
  <2>2. CASE ~Completed
    <3>1. PICK k \in 1 .. Len(toHost') : toHost'[k].type = "COMPLETE"
      BY <1>h, <2>2 DEF Completed, Holds
    <3>2. \A j \in 1 .. Len(toHost) : toHost'[k] # toHost[j]
      BY <2>2, <3>1 DEF Completed, Holds
    <3>3. toHost'[k].type \in Results  BY <3>1 DEF Results
    <3>4. NewAnswer(toHost'[k])  BY <3>2, <3>3
    <3> QED  BY <3>1, <3>4 DEF NewAnswer
  <2> QED  BY <2>1, <2>2
<1> QED  BY <1>1, <1>2, <1>3, <1>4, <1>5 DEF RunInv

\* Every result on its way to the host was on its way before, or is new and true.
AnswersSound ==
    \A k \in 1 .. Len(toHost') :
        toHost'[k].type \in Results =>
           (\E j \in 1 .. Len(toHost) : toHost'[k] = toHost[j]) \/ NewAnswer(toHost'[k])

\* Nothing new is on its way.
LEMMA OldAnswers ==
    ASSUME Embeds(toHost', toHost)
    PROVE  AnswersSound
BY DEF Embeds, AnswersSound

\* A line of the CLI is no result.
LEMMA LineAnswers ==
    ASSUME WireInv, NEW t \in CliText, toHost' = Append(toHost, Line(t))
    PROVE  toHost' \in Seq(Answers) /\ AnswersSound
<1>1. /\ toHost' \in Seq(Answers) /\ Len(toHost') = Len(toHost) + 1
      /\ \A i \in 1 .. Len(toHost) : toHost'[i] = toHost[i]
      /\ toHost'[Len(toHost) + 1].type = t
  BY LineFacts
<1>2. Len(toHost) \in Nat  BY DEF WireInv
<1>3. t \notin Results  BY DEF CliText, Results
<1> QED  BY <1>1, <1>2, <1>3 DEF AnswersSound

\* A reply that is no result, or a true one.
LEMMA RespondAnswers ==
    ASSUME WireInv, reply' \in Replies, NEW s \in Nat, Respond(s),
           reply'.type \in Results => Started /\ ~BeginPending',
           reply'.type \in {"ACK", "NACK"} /\ sess'.active => reply'.at <= sess'.written,
           reply'.type = "COMPLETE" => Installed' /\ ~sess'.active
    PROVE  toHost' \in Seq(Answers) /\ AnswersSound
<1>1. /\ toHost' \in Seq(Answers) /\ Len(toHost') = Len(toHost) + 1
      /\ \A i \in 1 .. Len(toHost) : toHost'[i] = toHost[i]
      /\ toHost'[Len(toHost) + 1].type = reply'.type
      /\ toHost'[Len(toHost) + 1].at = reply'.at
  BY RespondFacts
<1>2. Len(toHost) \in Nat  BY DEF WireInv
<1>3. ASSUME NEW k \in 1 .. Len(toHost'), toHost'[k].type \in Results
      PROVE  (\E j \in 1 .. Len(toHost) : toHost'[k] = toHost[j]) \/ NewAnswer(toHost'[k])
  <2>1. CASE k \in 1 .. Len(toHost)  BY <1>1, <2>1
  <2>2. CASE k = Len(toHost) + 1
    <3>1. toHost'[k].type = reply'.type /\ toHost'[k].at = reply'.at  BY <1>1, <2>2
    <3>2. Started /\ ~BeginPending'  BY <1>3, <3>1
    <3> QED  BY <3>1, <3>2 DEF NewAnswer
  <2> QED  BY <1>1, <1>2, <2>1, <2>2
<1> QED  BY <1>1, <1>3 DEF AnswersSound

\* What the updater has on record stays installed, whatever record is appended.
LEMMA InstalledStays ==
    ASSUME Inv, RunInv, UNCHANGED host, Completed,
           meta' = meta \/ (pc \in Appending /\ meta' = ram)
    PROVE  Installed'
<1>0. Installed /\ ~BeginPending /\ ~sess.active  BY DEF RunInv, DoneInv
<1>1. CASE meta' = meta  BY <1>0, <1>1 DEF Installed
<1>2. CASE pc \in Appending /\ meta' = ram
  <2>0. meta \in Metadata /\ ram \in Metadata /\ ram # NoMeta
    BY <1>0, MetaAssumption DEF Inv, TypeOK, Installed
  <2>1. CASE pc = "track"
    BY <1>0, <1>2, <2>0, <2>1 DEF RunInv, PackageInv, Installed
  <2>2. CASE pc = "begin" \/ pc = "end"
    BY <1>0, <2>2 DEF RunInv, PackageInv, BeginPending
  <2>3. CASE pc = "setRole"
    BY <1>0, <1>2, <2>0, <2>3 DEF RunInv, PackageInv, CommandInv, Installed
  <2>4. CASE pc = "confirm"
    <3>1. ram.img = meta.img /\ ram.role = meta.role
      BY <2>0, <2>4, ConfirmedFacts DEF Inv, AppendIsSound
    <3> QED  BY <1>0, <1>2, <2>0, <3>1 DEF Installed
  <2>5. CASE pc = "request"
    <3>1. ram.img = meta.img /\ ram.role = meta.role
      BY <2>0, <2>5 DEF Inv, AppendIsSound, Metadata
    <3> QED  BY <1>0, <1>2, <2>0, <3>1 DEF Installed
  <2> QED  BY <1>2, <2>1, <2>2, <2>3, <2>4, <2>5 DEF Appending
<1> QED  BY <1>1, <1>2

\* A step that begins and ends nothing.
LEMMA QuietStepRun ==
    ASSUME Inv, WireInv, RunInv, Inv', UNCHANGED host, Embeds(toDev', toDev),
           toHost' \in Seq(Answers), AnswersSound,
           meta' = meta \/ (pc \in Appending /\ meta' = ram),
           sess' = sess \/ sess' = NoSession,
           pc' \in {"boot", "updater", "app", "confirm", "request", "track"},
           pc' = "track" => meta' # NoMeta /\ ram'.img = meta'.img /\ ram'.role = meta'.role
    PROVE  RunInv'
<1>1. sess \in Sessions /\ sess' \in Sessions  BY DEF Inv, TypeOK
<1>a. sess'.active => sess' = sess  BY DEF NoSession
<1>2. BeginPending' => BeginPending
  <2>1. Holds(toDev', {"BEGIN"}) => Holds(toDev, {"BEGIN"})  BY HoldsLess
  <2> QED  BY <2>1 DEF BeginPending
<1>3. pc' \notin Busy  BY DEF Busy
<1>4. sess'.active => BeginPending \/ (sess.active /\ sess.written <= sess'.written)
  BY <1>1, <1>a DEF Sessions
<1>5. CommandInv /\ PackageInv /\ DoneInv  BY DEF RunInv
<1>6. /\ host.cmd = "flash" => pc' # "setRole"
      /\ host.cmd = "setRole" => pc' \notin {"begin", "erase", "program", "end"} /\ ~sess'.active
  BY <1>5, <1>a DEF CommandInv
<1>7. PackageInv'  BY <1>5, <1>a DEF PackageInv
<1>8. Completed => Installed' /\ ~sess'.active
  BY <1>5, <1>a, InstalledStays DEF DoneInv
<1> QED  BY <1>1, <1>2, <1>3, <1>4, <1>6, <1>7, <1>8, DeviceStepRun DEF AnswersSound

\* A request that comes after BEGIN is read: the host has started, and no BEGIN
\* is behind it.
LEMMA LaterIsRead ==
    ASSUME WireInv, RunInv, toDev # <<>>, toDev[1].type \in Later, toDev' = Tail(toDev),
           pc' \notin {"begin", "erase"}
    PROVE  Started /\ ~BeginPending'
<1>1. toDev \in Seq(Requests) /\ 1 \in 1 .. Len(toDev)  BY HeadFacts DEF WireInv
<1>2. Holds(toDev, Later)  BY <1>1 DEF Holds
<1>3. Started  BY <1>2 DEF RunInv, StartInv, Started
<1>4. \A i \in 1 .. Len(toDev') : i + 1 \in 1 .. Len(toDev) /\ 1 < i + 1 /\ toDev'[i] = toDev[i + 1]
  BY <1>1
<1>5. \A j \in 1 .. Len(toDev) : 1 < j => toDev[j].type # "BEGIN"
  BY <1>1 DEF RunInv, OrderInv
<1>6. ~Holds(toDev', {"BEGIN"})  BY <1>4, <1>5 DEF Holds
<1> QED  BY <1>3, <1>6 DEF BeginPending, Holds

\* A flash operation behind BEGIN is under way.
LEMMA BusyFacts ==
    ASSUME RunInv, pc \in Busy
    PROVE  Started /\ ~BeginPending
BY DEF RunInv, StartInv, OrderInv, Started

\* The step after it leaves it so.
LEMMA BusyEnds ==
    ASSUME RunInv, pc \in Busy, Embeds(toDev', toDev), pc' \notin {"begin", "erase"}
    PROVE  Started /\ ~BeginPending'
<1>1. Started /\ ~Holds(toDev, {"BEGIN"})  BY BusyFacts DEF BeginPending
<1>2. ~Holds(toDev', {"BEGIN"})  BY <1>1, HoldsLess
<1> QED  BY <1>1, <1>2 DEF BeginPending, Holds

\* Device: a frame is handled without anything begun or ended, and answered.
LEMMA AnsweredRun ==
    ASSUME Inv, WireInv, RunInv, Inv', ReadFrame, pc' = "updater", sess' = sess, meta' = meta,
           reply'.type \in Results =>
              toDev[1].type \in Later /\ reply'.type # "COMPLETE" /\ reply'.at = sess.written
    PROVE  RunInv'
<1>1. /\ toDev # <<>> /\ toDev' = Tail(toDev) /\ UNCHANGED host
      /\ Respond(Head(toDev).seq)
  BY DEF ReadFrame
<1>2. /\ toDev[1] \in Requests /\ Head(toDev) = toDev[1] /\ Embeds(toDev', toDev)
  BY <1>1, HeadFacts
<1>3. Head(toDev).seq \in Nat /\ reply' \in Replies /\ sess.written \in Nat
  BY <1>2 DEF Requests, Inv, TypeOK, Sessions
<1>4. reply'.type \in Results => Started /\ ~BeginPending'
  BY <1>1, LaterIsRead
<1>5. /\ reply'.type \in {"ACK", "NACK"} /\ sess'.active => reply'.at <= sess'.written
      /\ reply'.type = "COMPLETE" => Installed' /\ ~sess'.active
  BY <1>3 DEF Results
<1>6. toHost' \in Seq(Answers) /\ AnswersSound
  BY <1>1, <1>3, <1>4, <1>5, RespondAnswers
<1> QED  BY <1>1, <1>2, <1>6, QuietStepRun

\* Device: BEGIN.
LEMMA ReadBeginRun ==
    ASSUME Inv, WireInv, RunInv, Inv', ReadFrame, toDev[1].type = "BEGIN",
           HandleBegin([img |-> Pkg, good |-> TRUE], Role)
    PROVE  RunInv'
<1> DEFINE h == [img |-> Pkg, good |-> TRUE]
<1>0. h.img = Pkg /\ isValidPackageHeader(h)  BY PackageFacts, SessionAssumption, BootAssumption DEF isValidPackageHeader, SizeOf
<1>1. /\ toDev # <<>> /\ toDev' = Tail(toDev) /\ UNCHANGED host
      /\ pc' = "begin" => toHost' = toHost
  BY DEF ReadFrame
<1>2. pc' = "begin" /\ sess' = [sess EXCEPT !.hdr = h, !.role = Role] /\ meta' = meta
  BY <1>0, PackageFacts DEF HandleBegin
<1> HIDE DEF h
<1>3. 1 \in 1 .. Len(toDev) /\ Embeds(toDev', toDev)  BY <1>1, HeadFacts
<1>4. sess \in Sessions /\ sess' \in Sessions  BY DEF Inv, TypeOK
<1>5. sess'.hdr.img = Pkg /\ sess'.role = Role /\ sess'.active = sess.active
  BY <1>0, <1>2, <1>4 DEF Sessions
<1>6. Holds(toDev, {"BEGIN"}) /\ BeginPending  BY <1>3 DEF Holds, BeginPending
<1>7. host.cmd # "setRole" /\ ~Completed  BY <1>6 DEF RunInv, CommandInv, DoneInv
<1>8. PackageInv'  BY <1>2, <1>5 DEF PackageInv
<1>9. toHost' \in Seq(Answers) /\ AnswersSound
  <2> toHost' = toHost /\ toHost \in Seq(Answers)  BY <1>1, <1>2 DEF WireInv
  <2> QED  BY EmbedsSelf, OldAnswers
<1> QED
  BY <1>1, <1>2, <1>3, <1>4, <1>6, <1>7, <1>8, <1>9, DeviceStepRun DEF AnswersSound, Busy

\* Device: a request behind BEGIN starts a flash operation.
LEMMA StartsWorkRun ==
    ASSUME Inv, WireInv, RunInv, Inv', ReadFrame, toDev[1].type \in Later, pc' \in Busy,
           sess'.active <=> sess.active, sess'.written = sess.written,
           sess'.hdr = sess.hdr, sess'.role = sess.role, meta' = meta,
           pc' = "end" => sess.active /\ ram'.img = sess.hdr.img /\ ram'.role = sess.role,
           pc' = "program" => sess.active,
           pc' = "setRole" => toDev[1].type = "SET_ROLE" /\ ram'.role = Role
    PROVE  RunInv'
<1>1. toDev # <<>> /\ toDev' = Tail(toDev) /\ UNCHANGED host  BY DEF ReadFrame
<1>2. toHost' = toHost  BY DEF ReadFrame, Busy
<1>3. 1 \in 1 .. Len(toDev) /\ Embeds(toDev', toDev)  BY <1>1, HeadFacts
<1>4. sess \in Sessions /\ sess' \in Sessions /\ sess.written \in Nat
  BY DEF Inv, TypeOK, Sessions
<1>5. Started /\ ~BeginPending'  BY <1>1, LaterIsRead DEF Busy
<1>6. CommandInv /\ PackageInv /\ DoneInv  BY DEF RunInv
<1>7. host.cmd = "flash" => pc' # "setRole"
  <2>1. toDev[1].type = "SET_ROLE" => Holds(toDev, {"SET_ROLE"})  BY <1>3 DEF Holds
  <2> QED  BY <1>6, <2>1 DEF CommandInv
<1>8. host.cmd = "setRole" => pc' \notin {"begin", "erase", "program", "end"} /\ ~sess'.active
  BY <1>6 DEF CommandInv, Busy
<1>9. PackageInv'  BY <1>6 DEF PackageInv, Busy
<1>10. Completed => Installed' /\ ~sess'.active
  BY <1>1, <1>6, InstalledStays DEF DoneInv
<1>11. toHost' \in Seq(Answers) /\ AnswersSound
  <2> toHost \in Seq(Answers)  BY DEF WireInv
  <2> QED  BY <1>2, EmbedsSelf, OldAnswers
<1>12. sess'.active => BeginPending \/ (sess.active /\ sess.written <= sess'.written)
  BY <1>4
<1> QED
  BY <1>1, <1>3, <1>4, <1>5, <1>7, <1>8, <1>9, <1>10, <1>11, <1>12, DeviceStepRun
     DEF AnswersSound

\* Device: the next frame.
LEMMA ReadFrameRun ==
    ASSUME Inv, WireInv, RunInv, Inv', ReadFrame
    PROVE  RunInv'
<1> DEFINE f == toDev[1]
<1>0. toDev # <<>> /\ HandleNext(f)
  BY HeadFacts DEF ReadFrame
<1>1. pc = "updater" /\ sess \in Sessions /\ ram \in Metadata  BY DEF ReadFrame, Inv, TypeOK
<1>2. CASE f.type = "HELLO" /\ HandleHello
  BY <1>1, <1>2, AnsweredRun DEF HandleHello, Answer, Frame, Results
<1>3. CASE f.type = "BEGIN" /\ HandleBegin([img |-> Pkg, good |-> TRUE], Role)
  BY <1>3, ReadBeginRun
<1>r. ASSUME Refuse, sess' = sess PROVE RunInv'
  BY <1>1, <1>r, AnsweredRun DEF Refuse, Answer, Frame, Results
<1>4. CASE f.type = "DATA" /\ sess.active /\ HandleData(f.off, f.len, Pkg)
  <2>1. CASE EndOffset(f.off, f.len) > SizeOf(sess.hdr.img)
    BY <1>4, <1>r, <2>1 DEF HandleData
  <2>2. CASE ~(EndOffset(f.off, f.len) > SizeOf(sess.hdr.img)) /\ f.off = sess.written
    <3>1. sess' = [sess EXCEPT !.data = Pkg, !.len = f.len] /\ pc' = "program" /\ meta' = meta
      BY <1>4, <2>2 DEF HandleData
    <3>2. /\ sess'.active = sess.active /\ sess'.written = sess.written
          /\ sess'.hdr = sess.hdr /\ sess'.role = sess.role
      BY <1>1, <3>1 DEF Sessions
    <3> QED  BY <1>4, <3>1, <3>2, StartsWorkRun DEF Busy, Later
  <2>3. CASE ~(EndOffset(f.off, f.len) > SizeOf(sess.hdr.img)) /\ f.off # sess.written
    <3>1. /\ pc' = "updater" /\ sess' = sess /\ meta' = meta
          /\ reply' = Frame(IF f.off <= sess.written THEN "ACK" ELSE "NACK", sess.written)
      BY <1>1, <1>4, <2>3 DEF HandleData, Answer
    <3>2. reply'.at = sess.written /\ reply'.type # "COMPLETE"  BY <3>1 DEF Frame
    <3> QED  BY <1>4, <3>1, <3>2, AnsweredRun DEF Later
  <2> QED  BY <2>1, <2>2, <2>3
<1>5. CASE f.type = "DATA" /\ ~sess.active /\ HandleOther
  BY <1>5, <1>r DEF HandleOther
<1>6. CASE f.type = "END" /\ HandleEnd
  <2>1. CASE MayCommit
    <3>1. /\ pc' = "end" /\ sess' = sess /\ meta' = meta /\ sess.active
          /\ ram'.img = sess.hdr.img /\ ram'.role = sess.role
      BY <1>6, <2>1 DEF HandleEnd, MayCommit
    <3> QED  BY <1>6, <3>1, StartsWorkRun DEF Busy, Later
  <2>2. CASE ~MayCommit  BY <1>6, <1>r, <2>2 DEF HandleEnd
  <2> QED  BY <2>1, <2>2
<1>7. CASE f.type = "SET_ROLE" /\ HandleSetRole(Role)
  <2>1. CASE Role \in Roles /\ isApplicationImageValid(ram, app)
    <3>1. /\ pc' = "setRole" /\ sess' = sess /\ meta' = meta
          /\ ram' = [ram EXCEPT !.state = "valid", !.role = Role]
      BY <1>7, <2>1 DEF HandleSetRole
    <3>2. ram'.role = Role  BY <1>1, <3>1 DEF Metadata
    <3> QED  BY <1>7, <3>1, <3>2, StartsWorkRun DEF Busy, Later
  <2>2. CASE ~(Role \in Roles /\ isApplicationImageValid(ram, app))
    BY <1>7, <1>r, <2>2 DEF HandleSetRole
  <2> QED  BY <2>1, <2>2
<1> QED  BY <1>0, <1>2, <1>3, <1>4, <1>5, <1>6, <1>7 DEF HandleNext

\* Device: an answer to a frame that is no result.
LEMMA PlainAnswer ==
    ASSUME Inv', WireInv, Respond(current), reply'.type \notin Results
    PROVE  toHost' \in Seq(Answers) /\ AnswersSound
<1>1. reply' \in Replies /\ current \in Nat  BY DEF Inv, TypeOK, WireInv
<1> QED  BY <1>1, RespondAnswers DEF Results

\* Device: BEGIN is on record, or the slot is erased.
LEMMA BeginsRun ==
    ASSUME Inv, WireInv, RunInv, Inv', FlashCompletes, BeginRecorded \/ EraseCompletes
    PROVE  RunInv'
<1>1. UNCHANGED <<host, toDev>>  BY DEF FlashCompletes
<1>2. pc \in {"begin", "erase"}  BY DEF BeginRecorded, EraseCompletes
<1>3. Embeds(toDev', toDev)  BY <1>1, EmbedsSelf DEF WireInv
<1>4. sess \in Sessions /\ sess' \in Sessions  BY DEF Inv, TypeOK
<1>5. BeginPending  BY <1>2 DEF BeginPending
<1>6. host.cmd # "setRole" /\ ~Completed  BY <1>2, <1>5 DEF RunInv, CommandInv, DoneInv
<1>7. pc' \in {"erase", "updater"}  BY DEF BeginRecorded, EraseCompletes
<1>8. sess'.hdr = sess.hdr /\ sess'.role = sess.role
  BY <1>4 DEF BeginRecorded, EraseCompletes, Sessions
<1>9. PackageInv'
  <2> sess.hdr.img = Pkg /\ sess.role = Role  BY <1>2 DEF RunInv, PackageInv
  <2> QED  BY <1>7, <1>8 DEF PackageInv
<1>10. toHost' \in Seq(Answers) /\ AnswersSound
  <2>1. CASE BeginRecorded
    <3> toHost' = toHost /\ toHost \in Seq(Answers)
      BY <2>1 DEF FlashCompletes, BeginRecorded, WireInv
    <3> QED  BY EmbedsSelf, OldAnswers
  <2>2. CASE EraseCompletes
    <3> Respond(current) /\ reply'.type \notin Results
      BY <2>2 DEF FlashCompletes, EraseCompletes, Answer, Frame, Results
    <3> QED  BY PlainAnswer
  <2> QED  BY <2>1, <2>2
<1> QED
  BY <1>1, <1>3, <1>4, <1>5, <1>6, <1>7, <1>9, <1>10, DeviceStepRun DEF AnswersSound, Busy

\* Device: a block is written, or was to be.
LEMMA ProgramsRun ==
    ASSUME Inv, WireInv, RunInv, Inv', UNCHANGED <<host, toDev>>, Respond(current),
           ProgramCompletes \/ ProgramFails
    PROVE  RunInv'
<1>1. pc = "program" /\ pc' = "updater" /\ meta' = meta  BY DEF ProgramCompletes, ProgramFails
<1>2. Embeds(toDev', toDev)  BY EmbedsSelf DEF WireInv
<1>3. sess \in Sessions /\ sess' \in Sessions /\ reply' \in Replies /\ current \in Nat
  BY DEF Inv, TypeOK, WireInv
<1>4. sess.active /\ sess.written \in Nat /\ sess.len \in Nat
  BY <1>1, <1>3, BootAssumption DEF Inv, SessionIsBehind, Sessions
<1>5. Started /\ ~BeginPending'  BY <1>1, <1>2, BusyEnds DEF Busy
<1>6. /\ sess'.active = sess.active /\ sess'.hdr = sess.hdr /\ sess'.role = sess.role
      /\ reply'.type = "ACK" /\ reply'.at = sess'.written
      /\ sess'.written \in {sess.written, sess.written + sess.len}
  <2>1. CASE ProgramCompletes
    <3>1. /\ sess' = [sess EXCEPT !.written = sess.written + sess.len, !.data = NoImage, !.len = 0]
          /\ reply' = Frame("ACK", sess.written + sess.len)
      BY <2>1 DEF ProgramCompletes, Answer
    <3> QED  BY <1>3, <3>1 DEF Sessions, Frame
  <2>2. CASE ProgramFails
    <3>1. /\ sess' = [sess EXCEPT !.data = NoImage, !.len = 0]
          /\ reply' = Frame("ACK", sess.written)
      BY <2>2 DEF ProgramFails, Answer
    <3> QED  BY <1>3, <3>1 DEF Sessions, Frame
  <2> QED  BY <2>1, <2>2
<1>7. sess.written <= sess'.written /\ reply'.at <= sess'.written  BY <1>4, <1>6
<1>8. toHost' \in Seq(Answers) /\ AnswersSound
  BY <1>3, <1>5, <1>6, <1>7, RespondAnswers
<1>9. host.cmd # "setRole" /\ ~Completed  BY <1>1, <1>4 DEF RunInv, CommandInv, DoneInv
<1>10. PackageInv'
  <2> sess.hdr.img = Pkg /\ sess.role = Role  BY <1>4 DEF RunInv, PackageInv
  <2> QED  BY <1>1, <1>6 DEF PackageInv
<1> QED
  BY <1>1, <1>2, <1>3, <1>4, <1>5, <1>7, <1>8, <1>9, <1>10, DeviceStepRun
     DEF AnswersSound, Busy

\* Device: a flash operation of the updater completes.
LEMMA FlashCompletesRun ==
    ASSUME Inv, WireInv, RunInv, Inv', FlashCompletes
    PROVE  RunInv'
<1>1. CASE ProgramCompletes
  <2> UNCHANGED <<host, toDev>> /\ Respond(current)
    BY <1>1 DEF FlashCompletes, ProgramCompletes
  <2> QED  BY <1>1, ProgramsRun
<1> QED  BY <1>1, BeginsRun DEF FlashCompletes

\* Device: a flash operation of the updater fails.
LEMMA FlashFailsRun ==
    ASSUME Inv, WireInv, RunInv, Inv', FlashFails
    PROVE  RunInv'
<1>1. UNCHANGED <<host, toDev>> /\ Respond(current)  BY DEF FlashFails
<1>2. CASE ProgramFails  BY <1>1, <1>2, ProgramsRun
<1>3. CASE BeginNotRecorded \/ EraseFails \/ CommitNotRecorded
  <2>1. /\ pc' = "updater" /\ sess' = sess /\ reply'.type \notin Results
        /\ meta' = meta \/ (pc \in Appending /\ meta' = ram)
    BY <1>3 DEF BeginNotRecorded, EraseFails, CommitNotRecorded, Answer, Frame, Results,
       AppendFails, Appending
  <2>2. Embeds(toDev', toDev)  BY <1>1, EmbedsSelf DEF WireInv
  <2>3. toHost' \in Seq(Answers) /\ AnswersSound  BY <1>1, <2>1, PlainAnswer
  <2> QED  BY <1>1, <2>1, <2>2, <2>3, QuietStepRun
<1> QED  BY <1>2, <1>3 DEF FlashFails

\* Device: COMPLETE tells what is on record.
LEMMA CommitsRun ==
    ASSUME Inv, WireInv, RunInv, Inv', Commits
    PROVE  RunInv'
<1>1. /\ UNCHANGED host /\ toDev' \in Suffixes(toDev) /\ Respond(current)
      /\ pc \in {"end", "setRole"} /\ pc' = "boot" /\ sess' = NoSession /\ meta' = ram
      /\ reply' = Frame("COMPLETE", 0)
  BY DEF Commits, CommitRecorded, AppendSucceeds, Answer
<1>2. Embeds(toDev', toDev)  BY <1>1, EmbedsSuffix DEF WireInv
<1>3. reply' \in Replies /\ current \in Nat /\ ram \in Metadata /\ ram # NoMeta
  BY MetaAssumption DEF Inv, TypeOK, WireInv
<1>4. Started /\ ~BeginPending'  BY <1>1, <1>2, BusyEnds DEF Busy
<1>5. Installed'
  <2> ram.role = Role /\ (host.cmd = "flash" => ram.img = Pkg)
    BY <1>1 DEF RunInv, CommandInv, PackageInv
  <2> QED  BY <1>1, <1>3 DEF Installed
<1>6. ~sess'.active /\ reply'.type = "COMPLETE"  BY <1>1 DEF NoSession, Frame
<1>7. toHost' \in Seq(Answers) /\ AnswersSound
  BY <1>1, <1>3, <1>4, <1>5, <1>6, RespondAnswers
<1>8. pc \in Appending  BY <1>1 DEF Appending
<1> QED  BY <1>1, <1>2, <1>7, <1>8, QuietStepRun

\* Device: the boot decision.
LEMMA BootsRun ==
    ASSUME Inv, WireInv, RunInv, Inv', Boots
    PROVE  RunInv'
<1> DEFINE m == IF meta = NoMeta THEN setDefaultMetadata ELSE meta
<1>1. UNCHANGED <<host, toDev, toHost, meta, sess>> /\ Boot  BY DEF Boots, Boot, wire
<1>2. Embeds(toDev', toDev) /\ Embeds(toHost', toHost) /\ toHost' \in Seq(Answers)
  BY <1>1, EmbedsSelf DEF WireInv
<1>3. pc' \in {"updater", "track"}  BY <1>1 DEF Boot
<1>4. ASSUME pc' = "track"
      PROVE  meta' # NoMeta /\ ram'.img = meta'.img /\ ram'.role = meta'.role
  <2>1. MayStart(m) /\ ram' = [m EXCEPT !.count = @ + 1, !.attempt = NextAttempt(@)]
    BY <1>1, <1>4 DEF Boot
  <2>2. m = meta /\ meta # NoMeta /\ meta \in Metadata
    BY <2>1, DefaultFacts DEF MayStart, isApplicationImageValid, Inv, TypeOK
  <2> QED  BY <1>1, <2>1, <2>2, CountedFacts
<1>5. AnswersSound  BY <1>2, OldAnswers
<1> QED  BY <1>1, <1>2, <1>3, <1>4, <1>5, QuietStepRun

\* Device: the application is started, or is not.
LEMMA HandsOverRun ==
    ASSUME Inv, WireInv, RunInv, Inv', HandsOver \/ StaysInUpdater
    PROVE  RunInv'
<1>1. /\ UNCHANGED <<host, sess>> /\ pc \in Appending /\ meta' \in {meta, ram}
      /\ pc' \in {"app", "updater"}
  BY DEF HandsOver, StaysInUpdater, Handoff, NoHandoffWithoutRecord, AppendSucceeds,
     AppendFails, Appending
<1>2. Embeds(toDev', toDev) /\ toHost' \in Seq(Answers) /\ AnswersSound
  <2>1. CASE HandsOver
    <3>1. toDev' \in Suffixes(toDev) /\ toHost' = Append(toHost, Line("version"))
      BY <2>1 DEF HandsOver
    <3>2. "version" \in CliText  BY DEF CliText
    <3> QED  BY <3>1, <3>2, EmbedsSuffix, LineAnswers DEF WireInv
  <2>2. CASE StaysInUpdater
    <3> toDev' = toDev /\ toHost' = toHost  BY <2>2 DEF StaysInUpdater, wire
    <3> QED  BY EmbedsSelf, OldAnswers DEF WireInv
  <2> QED  BY <2>1, <2>2
<1> QED  BY <1>1, <1>2, QuietStepRun

\* Device: the confirmation.
LEMMA AppConfirmsRun ==
    ASSUME Inv, WireInv, RunInv, Inv', AppConfirms
    PROVE  RunInv'
<1>1. /\ UNCHANGED <<host, toDev, toHost, sess>>
      /\ meta' = meta \/ (pc \in Appending /\ meta' = ram)
      /\ pc' \in {"app", "confirm"}
  BY DEF AppConfirms, AppConfirm, ConfirmRecorded, ConfirmNotRecorded, AppendSucceeds,
     AppendFails, Appending, wire
<1>2. Embeds(toDev', toDev) /\ Embeds(toHost', toHost) /\ toHost' \in Seq(Answers)
  BY <1>1, EmbedsSelf DEF WireInv
<1>3. AnswersSound  BY <1>2, OldAnswers
<1> QED  BY <1>1, <1>2, <1>3, QuietStepRun

\* Device: the application reads a line.
LEMMA AppReadsRun ==
    ASSUME Inv, WireInv, RunInv, Inv', AppReads
    PROVE  RunInv'
<1>1. toDev # <<>> /\ toDev' = Tail(toDev) /\ UNCHANGED host /\ pc = "app"  BY DEF AppReads
<1>2. Embeds(toDev', toDev)  BY <1>1, HeadFacts
<1>3. /\ UNCHANGED <<meta, sess>> /\ pc' \in {"app", "request"}
      /\ toHost' = Append(toHost, Line("version")) \/ toHost' = toHost
  <2>2. CASE Head(toDev).type = "version"
    BY <1>1, <2>2 DEF AppReads, vars, deviceVars
  <2>3. CASE Head(toDev).type = "bootloader"
    BY <1>1, <2>3 DEF AppReads, AppRequestUpdate
  <2>4. CASE Head(toDev).type # "version" /\ Head(toDev).type # "bootloader"
    BY <1>1, <2>4 DEF AppReads, vars, deviceVars
  <2> QED  BY <2>2, <2>3, <2>4
<1>4. toHost' \in Seq(Answers) /\ AnswersSound
  <2>1. "version" \in CliText /\ Embeds(toHost, toHost) /\ toHost \in Seq(Answers)
    BY EmbedsSelf DEF CliText, WireInv
  <2> QED  BY <1>3, <2>1, OldAnswers, LineAnswers
<1> QED  BY <1>1, <1>2, <1>3, <1>4, QuietStepRun

\* Device: the request for an update is on record, or is not.
LEMMA AppRequestsRun ==
    ASSUME Inv, WireInv, RunInv, Inv', AppReboots \/ AppRefuses
    PROVE  RunInv'
<1>1. /\ UNCHANGED <<host, sess>> /\ pc \in Appending /\ meta' \in {meta, ram}
      /\ pc' \in {"app", "boot"}
  BY DEF AppReboots, AppRefuses, RequestRecorded, RequestNotRecorded, AppendSucceeds,
     AppendFails, Appending
<1>2. Embeds(toDev', toDev)
  <2> toDev' \in Suffixes(toDev) \/ toDev' = toDev  BY DEF AppReboots, AppRefuses
  <2> QED  BY EmbedsSelf, EmbedsSuffix DEF WireInv
<1>3. toHost' \in Seq(Answers) /\ AnswersSound
  <2>1. /\ toHost' = Append(toHost, Line("rebooting")) \/ toHost' = Append(toHost, Line("ERR"))
        /\ "rebooting" \in CliText /\ "ERR" \in CliText
    BY DEF AppReboots, AppRefuses, CliText
  <2> QED  BY <2>1, LineAnswers
<1> QED  BY <1>1, <1>2, <1>3, QuietStepRun

\* A step of the wire alone.
LEMMA UnchangedRun ==
    ASSUME Inv, WireInv, RunInv, UNCHANGED <<host, meta, sess, pc, ram>>,
           Embeds(toDev', toDev), Embeds(toHost', toHost), toHost' \in Seq(Answers)
    PROVE  RunInv'
<1>1. \A T : Holds(toDev', T) => Holds(toDev, T)  BY HoldsLess
<1>2. sess \in Sessions /\ sess.written \in Nat  BY DEF Inv, TypeOK, Sessions
<1>3. CommandInv /\ StartInv /\ OrderInv /\ PackageInv /\ DoneInv  BY DEF RunInv
<1>4. BeginPending' => BeginPending
  <2> Holds(toDev', {"BEGIN"}) => Holds(toDev, {"BEGIN"})  BY <1>1
  <2> QED  BY DEF BeginPending
<1>5. pc \in Busy => Started /\ ~BeginPending  BY BusyFacts
<1>6. PackageInv'  BY <1>3 DEF PackageInv
<1>7. Completed => Installed' /\ ~sess'.active  BY <1>3 DEF DoneInv, Installed
<1>8. AnswersSound  BY OldAnswers
<1> QED  BY <1>2, <1>3, <1>4, <1>5, <1>6, <1>7, <1>8, DeviceStepRun DEF AnswersSound, CommandInv

\* A frame is spoilt by text, or lost; power is lost.
LEMMA LossRun ==
    ASSUME Inv, WireInv, RunInv, Inv', ReadJunk \/ LoseFrame \/ LosesPower
    PROVE  RunInv'
<1>0. toDev \in Seq(Requests) /\ toHost \in Seq(Answers) /\ Embeds(toDev, toDev) /\ Embeds(toHost, toHost)
  BY EmbedsSelf DEF WireInv
<1>1. CASE ReadJunk
  <2>1. toDev # <<>> /\ toDev' = Tail(toDev) /\ toHost' = toHost /\ UNCHANGED <<host, vars>> /\ pc = "updater"
    BY <1>1 DEF ReadJunk
  <2>2. UNCHANGED <<meta, sess, pc>>  BY <2>1 DEF vars, deviceVars
  <2>3. Embeds(toDev', toDev) /\ AnswersSound  BY <1>0, <2>1, HeadFacts, OldAnswers
  <2> QED  BY <1>0, <2>1, <2>2, <2>3, QuietStepRun
<1>2. CASE LoseFrame
  <2>1. /\ Embeds(toDev', toDev) /\ Embeds(toHost', toHost) /\ toHost' \in Seq(Answers)
        /\ UNCHANGED host
    BY <1>0, <1>2, EmbedsWithout DEF LoseFrame
  <2>2. UNCHANGED <<meta, sess, pc, ram>>  BY <1>2 DEF LoseFrame, vars, deviceVars
  <2> QED  BY <2>1, <2>2, UnchangedRun
<1>3. CASE LosesPower
  <2>1. /\ toDev' \in Suffixes(toDev) /\ UNCHANGED host
        /\ toHost' \in {toHost, Without(toHost, Len(toHost))}
        /\ pc' = "boot" /\ sess' = NoSession
        /\ meta' = meta \/ (pc \in Appending /\ meta' = ram)
    BY <1>3 DEF LosesPower, PowerLoss
  <2>2. Embeds(toDev', toDev) /\ Embeds(toHost', toHost) /\ toHost' \in Seq(Answers)
    BY <1>0, <2>1, EmbedsSuffix, WithoutLast
  <2>3. AnswersSound  BY <2>2, OldAnswers
  <2> QED  BY <2>1, <2>2, <2>3, QuietStepRun
<1> QED  BY <1>1, <1>2, <1>3

-----------------------------------------------------------------------------
(* One run: the steps of the host *)

\* Nothing of the device and what it reads changes.
DeviceIdle == UNCHANGED <<meta, ram, sess, pc, toDev>>

\* Host: it sends the request of its phase.
LEMMA HostSendRun ==
    ASSUME WireInv, RunInv, HostSend
    PROVE  RunInv'
<1>0. CommandInv /\ StartInv /\ OrderInv /\ AckInv /\ PackageInv /\ DoneInv  BY DEF RunInv
<1>1. /\ Len(toDev') = Len(toDev) + 1
      /\ \A i \in 1 .. Len(toDev) : toDev'[i] = toDev[i]
      /\ toDev'[Len(toDev) + 1].type =
            IF host.phase \in Framed THEN Message(host.phase) ELSE host.phase
      /\ host'.phase = host.phase /\ host'.cmd = host.cmd /\ host'.offset = host.offset
      /\ toHost' = toHost
  BY HostSendWire
<1>2. UNCHANGED <<meta, ram, sess, pc>>  BY DEF HostSend, vars, deviceVars
<1>3. Len(toDev) \in Nat  BY DEF WireInv
<1> DEFINE t == toDev'[Len(toDev) + 1].type
<1>4. host.phase \in Framed \cup Text  BY DEF WireInv, HostSend, Hosts
<1>5. /\ t = "BEGIN" <=> host.phase = "begin"
      /\ t = "SET_ROLE" <=> host.phase = "setRole"
      /\ t \in Later => host.phase \in {"data", "end", "setRole"}
  BY <1>1, <1>4 DEF Message, Framed, Text, Later
<1> HIDE DEF t
<1>6. ASSUME NEW T, Holds(toDev', T) PROVE Holds(toDev, T) \/ t \in T
  BY <1>1, <1>3, <1>6 DEF Holds, t
<1>b. BeginPending' => BeginPending \/ host.phase = "begin"
  <2> Holds(toDev', {"BEGIN"}) => Holds(toDev, {"BEGIN"}) \/ t = "BEGIN"  BY <1>6
  <2> QED  BY <1>2, <1>5 DEF BeginPending
<1>7. CommandInv'
  <2>1. Holds(toDev', {"BEGIN"}) => Holds(toDev, {"BEGIN"}) \/ t = "BEGIN"  BY <1>6
  <2>2. Holds(toDev', {"SET_ROLE"}) => Holds(toDev, {"SET_ROLE"}) \/ t = "SET_ROLE"  BY <1>6
  <2> QED  BY <1>0, <1>1, <1>2, <1>5, <2>1, <2>2 DEF CommandInv, Holds
<1>8. StartInv'
  <2>1. Holds(toDev', Later) => Holds(toDev, Later) \/ t \in Later  BY <1>6
  <2> QED  BY <1>0, <1>1, <1>2, <1>5, <2>1 DEF StartInv, Connecting, Holds
<1>9. OrderInv'
  <2>1. ASSUME BeginPending'
        PROVE  host.offset = 0 /\ pc \notin Busy /\ ~Holds(toHost, Results)
    <3>1. CASE BeginPending  BY <1>0, <3>1 DEF OrderInv
    <3>2. CASE host.phase = "begin"
      BY <1>0, <3>2 DEF StartInv, WireInv
    <3> QED  BY <1>b, <2>1, <3>1, <3>2
  <2>2. ASSUME NEW i \in 1 .. Len(toDev'), NEW j \in 1 .. Len(toDev'), i < j,
               toDev'[j].type = "BEGIN"
        PROVE  toDev'[i].type \notin Later
    <3>1. i \in 1 .. Len(toDev) /\ toDev'[i] = toDev[i]  BY <1>1, <1>3, <2>2
    <3>2. CASE j \in 1 .. Len(toDev)
      <4> toDev'[j] = toDev[j]  BY <1>1, <3>2
      <4> QED  BY <1>0, <2>2, <3>1, <3>2 DEF OrderInv
    <3>3. CASE j = Len(toDev) + 1
      <4>1. host.phase = "begin"  BY <1>5, <2>2, <3>3 DEF t
      <4>2. ~Holds(toDev, Later)  BY <1>0, <4>1 DEF StartInv
      <4> QED  BY <3>1, <4>2 DEF Holds
    <3> QED  BY <1>1, <1>3, <3>2, <3>3
  <2> QED  BY <1>1, <1>2, <2>1, <2>2 DEF OrderInv, Holds
<1>10. AckInv'  BY <1>0, <1>1, <1>2 DEF AckInv, HostNotAhead
<1>11. PackageInv'  BY <1>0, <1>2 DEF PackageInv
<1>12. DoneInv'
  <2> SUFFICES ASSUME Completed' PROVE Installed' /\ ~BeginPending' /\ ~sess'.active
    BY DEF DoneInv
  <2>1. Completed  BY <1>1 DEF Completed, Holds
  <2>2. host.phase # "begin"
    <3> "COMPLETE" \in Results  BY DEF Results
    <3>1. Holds(toHost, {"COMPLETE"}) => Holds(toHost, Results)  BY HoldsMore
    <3> QED  BY <1>0, <2>1, <3>1 DEF Completed, StartInv
  <2> QED  BY <1>0, <1>1, <1>2, <1>b, <2>1, <2>2 DEF DoneInv, Installed
<1> QED  BY <1>7, <1>8, <1>9, <1>10, <1>11, <1>12 DEF RunInv

\* Host: what it reads is gone from the wire, and its state changes.
LEMMA HostStepRun ==
    ASSUME WireInv, RunInv, DeviceIdle, Embeds(toHost', toHost),
           host'.cmd = host.cmd,
           host'.phase \in {"begin", "data", "end"} =>
              host.cmd = "flash" \/ host'.phase = host.phase,
           host'.phase = "setRole" => host.cmd = "setRole" \/ host'.phase = host.phase,
           host'.phase \in Connecting \cup {"begin"} => ~Started,
           BeginPending => host'.offset = 0,
           host'.phase \in {"data", "end"} /\ sess.active => host'.offset <= sess.written,
           host'.phase = "done" => Completed
    PROVE  RunInv'
<1>0. CommandInv /\ StartInv /\ OrderInv /\ AckInv /\ PackageInv /\ DoneInv  BY DEF RunInv
<1>1. UNCHANGED <<meta, ram, sess, pc, toDev>>  BY DEF DeviceIdle
<1>2. \A T : Holds(toHost', T) => Holds(toHost, T)  BY HoldsLess
<1>b. BeginPending' = BeginPending  BY <1>1 DEF BeginPending, Holds
<1>3. CommandInv'  BY <1>0, <1>1 DEF CommandInv, Holds
<1>4. StartInv'
  <2> Holds(toHost', Results) => Holds(toHost, Results)  BY <1>2
  <2> QED  BY <1>0, <1>1 DEF StartInv, Started, Holds
<1>5. OrderInv'
  <2> Holds(toHost', Results) => Holds(toHost, Results)  BY <1>2
  <2> QED  BY <1>0, <1>1, <1>b DEF OrderInv, Holds
<1>6. AckInv'
  <2>1. ASSUME sess.active, NEW k \in 1 .. Len(toHost'), toHost'[k].type \in {"ACK", "NACK"}
        PROVE  toHost'[k].at <= sess.written
    <3> PICK j \in 1 .. Len(toHost) : toHost'[k] = toHost[j]  BY DEF Embeds
    <3> QED  BY <1>0, <2>1 DEF AckInv
  <2> QED  BY <1>1, <2>1 DEF AckInv, HostNotAhead
<1>7. PackageInv'  BY <1>0, <1>1 DEF PackageInv
<1>8. DoneInv'
  <2>1. Holds(toHost', {"COMPLETE"}) => Holds(toHost, {"COMPLETE"})  BY <1>2
  <2>2. Completed' => Completed  BY <2>1 DEF Completed
  <2> QED  BY <1>0, <1>1, <1>b, <2>2 DEF DoneInv, Installed
<1> QED  BY <1>3, <1>4, <1>5, <1>6, <1>7, <1>8 DEF RunInv

\* Host: it repeats itself or gives up.
LEMMA RepeatsRun ==
    ASSUME WireInv, RunInv, Repeats, DeviceIdle, Embeds(toHost', toHost)
    PROVE  RunInv'
<1>1. CommandInv /\ OrderInv /\ AckInv  BY DEF RunInv
<1>2. host'.cmd = host.cmd /\ host'.offset = host.offset  BY DEF Repeats
<1>3. /\ host'.phase \in {"begin", "data", "end", "setRole", "done"} => host'.phase = host.phase
      /\ host'.phase \in Connecting \cup {"begin"} => ~Started
  BY DEF Repeats, Connecting, Started
<1>4. BeginPending => host'.offset = 0  BY <1>1, <1>2 DEF OrderInv
<1>5. host'.phase \in {"data", "end"} /\ sess.active => host'.offset <= sess.written
  BY <1>1, <1>2, <1>3 DEF AckInv, HostNotAhead
<1>6. host'.phase = "done" => Completed  BY <1>3 DEF Completed
<1> QED  BY <1>2, <1>3, <1>4, <1>5, <1>6, HostStepRun

\* Host: it acts on a reply.
LEMMA AdvancesRun ==
    ASSUME Inv, WireInv, RunInv, toHost # <<>>, Advances(toHost[1]), DeviceIdle,
           Embeds(toHost', toHost), toHost[1] \in Answers
    PROVE  RunInv'
<1> DEFINE r == toHost[1]
<1>1. CommandInv /\ OrderInv /\ AckInv /\ StartInv  BY DEF RunInv
<1>2. 1 \in 1 .. Len(toHost)  BY DEF WireInv
<1>3. r.type \in Results => Holds(toHost, Results)  BY <1>2 DEF Holds
<1>4. r.type = "COMPLETE" => Completed  BY <1>2 DEF Holds, Completed
<1>5. sess.active /\ r.type \in {"ACK", "NACK"} => r.at <= sess.written
  BY <1>1, <1>2 DEF AckInv
<1>6. host.cmd \in {"flash", "setRole"} /\ sess.written \in Nat
  BY DEF WireInv, Hosts, Inv, TypeOK, Sessions
<1>a. Advances(r)  OBVIOUS
<1> HIDE DEF r
<1>7. host'.cmd = host.cmd  BY <1>a DEF Advances
<1>8. host'.phase \in {"begin", "data", "end"} => host.cmd = "flash" \/ host'.phase = host.phase
  BY <1>1, <1>6, <1>a DEF Advances, CommandInv
<1>9. host'.phase = "setRole" => host.cmd = "setRole" \/ host'.phase = host.phase
  BY <1>6, <1>a DEF Advances
<1>10. host'.phase \in Connecting \cup {"begin"} => ~Started
  BY <1>a DEF Advances, Connecting, Started
<1>11. ASSUME BeginPending PROVE host'.offset = 0
  <2>1. host.offset = 0 /\ r.type \notin Results  BY <1>1, <1>3, <1>11 DEF OrderInv
  <2> QED  BY <1>a, <2>1 DEF Advances, Results
<1>12. ASSUME host'.phase \in {"data", "end"}, sess.active PROVE host'.offset <= sess.written
  BY <1>5, <1>6, <1>a, <1>12 DEF Advances
<1>13. host'.phase = "done" => Completed  BY <1>4, <1>a DEF Advances
<1> QED  BY <1>7, <1>8, <1>9, <1>10, <1>11, <1>12, <1>13, HostStepRun

\* Host: one step of the tool.
LEMMA HostNextRun ==
    ASSUME Inv, WireInv, RunInv, HostNext
    PROVE  RunInv'
<1>1. CASE HostSend  BY <1>1, HostSendRun
<1>2. CASE HostReceive
  <2>1. DeviceIdle  BY <1>2 DEF HostReceive, vars, deviceVars, DeviceIdle
  <2> QED  BY <1>2, <2>1, HostReceiveWire, RepeatsRun, AdvancesRun
<1>3. CASE HostTimeout
  <2>1. DeviceIdle  BY <1>3 DEF HostTimeout, vars, deviceVars, DeviceIdle, wire
  <2>2. Embeds(toHost', toHost)  BY <1>3, HostTimeoutWire, EmbedsSelf DEF WireInv
  <2> QED  BY <1>3, <2>1, <2>2, HostTimeoutWire, RepeatsRun
<1>4. CASE HostCliDone
  <2>1. DeviceIdle  BY <1>4 DEF HostCliDone, vars, deviceVars, DeviceIdle
  <2>2. Embeds(toHost', toHost)  BY <1>4, HostCliDoneWire, EmbedsEmpty DEF WireInv
  <2> QED  BY <1>4, <2>1, <2>2, HostCliDoneWire, RepeatsRun
<1> QED  BY <1>1, <1>2, <1>3, <1>4 DEF HostNext

-----------------------------------------------------------------------------
(* One run: the theorems *)

\* The faults are counted.
FaultsCounted == faults \in [Faults -> Nat]

\* A fault is one more of its kind.
LEMMA FaultCounted ==
    ASSUME FaultsCounted, NEW k \in Faults, Fault(k)
    PROVE  FaultsCounted'
<1> faults[k] + 1 \in Nat  BY DEF FaultsCounted
<1> QED  BY DEF FaultsCounted, Fault

\* Every step counts at most one.
LEMMA FaultsStep ==
    ASSUME FaultsCounted, [SessionNext]_sessionVars
    PROVE  FaultsCounted'
<1>1. UNCHANGED faults \/ \E k \in Faults : Fault(k)
  BY DEF SessionNext, HostNext, DeviceNext, Trouble, Over, sessionVars, HostSend, HostReceive,
     HostTimeout, HostCliDone, HostRerun, ReadFrame, ReadJunk, FlashCompletes, FlashFails,
     Commits, Boots, HandsOver, StaysInUpdater, AppConfirms, AppReads, AppReboots, AppRefuses,
     LosesPower, LoseFrame, Faults
<1> QED  BY <1>1, FaultCounted DEF FaultsCounted

\* The tool is run once.
LEMMA NoRerun ==
    ASSUME FaultsCounted, Budget["rerun"] = 0
    PROVE  ~HostRerun
<1> faults["rerun"] \in Nat  BY DEF FaultsCounted, Faults
<1> QED  BY DEF HostRerun, Fault

\* At first nothing is begun.
LEMMA InitRun == SessionInit => RunInv /\ FaultsCounted
<1> SUFFICES ASSUME SessionInit PROVE RunInv /\ FaultsCounted  OBVIOUS
<1>1. PICK cmd \in Commands : host = Fresh(cmd)  BY DEF SessionInit
<1>2. host.phase = "hello" /\ host.offset = 0  BY <1>1, FreshWire
<1>3. Len(toDev) = 0 /\ Len(toHost) = 0  BY DEF SessionInit
<1>4. ~sess.active /\ pc = "boot"  BY DEF SessionInit, Init, NoSession
<1>5. \A T : ~Holds(toDev, T) /\ ~Holds(toHost, T)  BY <1>3 DEF Holds
<1>6. CommandInv /\ StartInv  BY <1>2, <1>4, <1>5 DEF CommandInv, StartInv, Busy
<1>7. OrderInv /\ AckInv
  BY <1>2, <1>3, <1>4, <1>5 DEF OrderInv, AckInv, HostNotAhead, BeginPending
<1>8. PackageInv /\ DoneInv  BY <1>2, <1>4, <1>5 DEF PackageInv, DoneInv, Completed
<1>9. FaultsCounted  BY DEF SessionInit, FaultsCounted
<1> QED  BY <1>6, <1>7, <1>8, <1>9 DEF RunInv

\* One step of the session, in one run of the tool.
LEMMA RunStep ==
    ASSUME Budget["rerun"] = 0, Inv, WireInv, RunInv, FaultsCounted, [SessionNext]_sessionVars,
           Inv'
    PROVE  RunInv'
<1>1. CASE HostNext  BY <1>1, HostNextRun
<1>2. CASE DeviceNext
  BY <1>2, ReadFrameRun, LossRun, FlashCompletesRun, CommitsRun, BootsRun, HandsOverRun,
     AppConfirmsRun, AppReadsRun, AppRequestsRun DEF DeviceNext
<1>3. CASE Trouble
  BY <1>3, LossRun, FlashFailsRun, HandsOverRun, AppRequestsRun, NoRerun DEF Trouble
<1>4. CASE Over \/ UNCHANGED sessionVars
  <2>1. UNCHANGED <<host, meta, sess, pc, ram, toDev, toHost>>
    BY <1>4 DEF Over, sessionVars, vars, deviceVars, wire
  <2>2. Embeds(toDev', toDev) /\ Embeds(toHost', toHost) /\ toHost' \in Seq(Answers)
    BY <2>1, EmbedsSelf DEF WireInv
  <2> QED  BY <2>1, <2>2, UnchangedRun
<1> QED  BY <1>1, <1>2, <1>3, <1>4 DEF SessionNext

\* In one run of the tool the invariants hold always.
LEMMA RunInvHolds ==
    ASSUME Budget["rerun"] = 0
    PROVE  SessionSpec => []RunInv
<1>1. SessionInit => RunInv /\ FaultsCounted  BY InitRun
<1>2. /\ RunInv /\ FaultsCounted /\ (Inv /\ WireInv) /\ (Inv /\ WireInv)'
      /\ [SessionNext]_sessionVars
      => (RunInv /\ FaultsCounted)'
  BY RunStep, FaultsStep
<1> QED  BY <1>1, <1>2, WireInvHolds, PTL DEF SessionSpec

\* In one run of the tool, however many frames are lost or late, flash
\* operations fail and resets happen: the host (transfer, src/tools/fw_update.py)
\* never believes more written than the session of runFirmwareUpdate has.
THEOREM HostIsNotAhead ==
    ASSUME Budget["rerun"] = 0
    PROVE  SessionSpec => []HostNotAhead
<1>1. RunInv => HostNotAhead  BY DEF RunInv, AckInv
<1> QED  BY <1>1, RunInvHolds, PTL

\* In one run of the tool, whatever goes wrong on the way: when it reports
\* COMPLETE, the package, or the role, is on record.
THEOREM CompleteIsInstalled ==
    ASSUME Budget["rerun"] = 0
    PROVE  SessionSpec => []CompleteMeansInstalled
<1>1. RunInv => CompleteMeansInstalled
  BY DEF RunInv, DoneInv, Completed, Installed, CompleteMeansInstalled
<1> QED  BY <1>1, RunInvHolds, PTL

\* Whatever the tool and the UART do, and however often it is run: the image on
\* record is in flash, the running application is the tracked one, and the
\* failures are bounded.
THEOREM SessionKeepsDeviceSafe ==
    SessionSpec => [](NamedImageIsIntact /\ RunningIsTracked /\ FailureLimit)
BY SessionImplementsBootloader, ImageIntact, ApplicationTracked, BoundedFailures, PTL
====
