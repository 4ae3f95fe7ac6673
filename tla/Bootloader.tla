----------------------------- MODULE Bootloader -----------------------------
(***************************************************************************)
(* The bootloader of src/bootloader/bootloader.c and the application's     *)
(* calls into it (src/firmware/boot_api.c, firmware_startup.c,             *)
(* cli_bootloader.c): the boot decision, the handoff, the confirmation,    *)
(* the update request, and every message of the UART updater.              *)
(*                                                                         *)
(*   - The metadata journal is the atomic register that MetadataJournal is *)
(*     proved to be: an append that returns 0 is durable, one that returns *)
(*     -1 or loses power took effect completely or not at all.             *)
(*   - An image is a name.  A flash block that holds image A is the block  *)
(*     of A at that place, so the CRC32 over A's size matches A's header   *)
(*     iff every block of it holds A (no CRC collisions).                  *)
(*   - A block is one erase page and one DATA unit.  The block behind the  *)
(*     application slot is the CCFG page.                                  *)
(*   - Messages come from any host, in any order.  UpdateSession has the   *)
(*     host of tools/fw_update.py and the wire.                            *)
(*                                                                         *)
(* pc is "boot" (reset handler up to the boot decision), "updater" (waiting*)
(* for a frame), "app", or the flash operation in progress.                *)
(***************************************************************************)
EXTENDS Naturals, FiniteSets

CONSTANTS
    Images,         \* names of the images a package may carry
    Size,           \* blocks of each image; Slot + 1 stands for "too large"
    Bootable,       \* images whose vector table passes the boot check
    Slot,           \* blocks of the application slot
    MaxLen,         \* blocks one DATA frame may carry
    OffMod,         \* size of the offset arithmetic (2^32)
    AttemptMod,     \* size of bootAttemptId (2^32)
    Limit,          \* BOOT_FAILURE_LIMIT
    Roles,          \* the role words isValidAppRole accepts, "unset" among them
    BadRoles,       \* role words it rejects
    NoImage,        \* imageSize = 0
    NoMeta,         \* the journal holds no valid record
    Erased, Garbage,\* block contents
    Ccfg            \* what the CCFG page holds

Blocks   == 0 .. Slot               \* block Slot is the CCFG page
AppSlot  == 0 .. Slot - 1
Contents == Images \cup {Erased, Garbage, Ccfg}
Attempts == 0 .. AttemptMod - 1
Offsets  == 0 .. OffMod - 1
States   == {"valid", "requested", "inProgress"}
AnyRole  == Roles \cup BadRoles

ASSUME BootAssumption ==
    /\ Size \in [Images -> 1 .. Slot + 1]
    /\ Bootable \subseteq Images
    /\ Slot \in Nat \ {0} /\ MaxLen \in Nat \ {0}
    /\ OffMod \in Nat /\ OffMod > Slot + 1 + MaxLen
    /\ Limit \in Nat \ {0}
    /\ AttemptMod \in Nat /\ AttemptMod > Limit
    /\ "unset" \in Roles /\ Roles \cap BadRoles = {}
    /\ NoImage \notin Images
    /\ {Erased, Garbage, Ccfg} \cap Images = {}
    /\ Erased # Garbage /\ Erased # Ccfg /\ Garbage # Ccfg

\* A package header: its image, and whether magic, version, target, address
\* and header CRC are right.  With imageSize = 0 it is refused in any case.
EmptyHeader == [img |-> NoImage, good |-> FALSE]
Headers == [img : Images, good : BOOLEAN] \cup {EmptyHeader}

Metadata == [state : States, img : Images \cup {NoImage}, role : AnyRole,
             count : Nat, attempt : Attempts, confirmed : Attempts]

ASSUME MetaAssumption == NoMeta \notin Metadata

Sessions == [active : BOOLEAN, hdr : Headers,
             role : AnyRole, written : Nat, data : Images \cup {NoImage},
             len : 0 .. MaxLen]

Handoffs == [magic : BOOLEAN, attempt : Attempts, role : AnyRole]

Replies == [type : {"none", "INFO", "READY", "ACK", "NACK", "COMPLETE", "ERROR"},
            at : Nat]

VARIABLES
    meta,       \* the durable metadata
    app,        \* application flash and the CCFG page
    pc,
    ram,        \* the metadata structure in RAM
    sess,       \* runFirmwareUpdate's locals
    handoff,    \* the boot handoff words in SRAM
    asked,      \* bootConfirmationAttempted of the running application
    reply,      \* the last response frame
    unconfirmed,\* history: handoffs not confirmed since the last BEGIN,
                \* counted up to Limit + 1
    accepted    \* history: images whose header passed validation

deviceVars == <<meta, app, pc, ram, sess, handoff, asked, reply>>
vars == <<deviceVars, unconfirmed, accepted>>

-----------------------------------------------------------------------------
(* Helpers *)

setDefaultMetadata ==
    [state |-> "inProgress", img |-> NoImage, role |-> "unset",
     count |-> 0, attempt |-> 0, confirmed |-> 0]

NoSession == [active |-> FALSE, hdr |-> EmptyHeader,
              role |-> "unset", written |-> 0, data |-> NoImage, len |-> 0]

NoHandoff == [magic |-> FALSE, attempt |-> 0, role |-> "unset"]

Frame(type, at) == [type |-> type, at |-> at]
NoFrame == Frame("none", 0)

\* uint32_t additions.
NextAttempt_Wide(n) == n + 1    \* mutant: no wraparound
NextAttempt(n) == IF n = AttemptMod - 1 THEN 0 ELSE n + 1
EndOffset(off, len) == IF off + len < OffMod THEN off + len ELSE (off + len) - OffMod

SizeOf(img) == IF img = NoImage THEN 0 ELSE Size[img]

\* calculateCrc32 over img's size of flash = img's imageCrc32.
CrcMatches(fl, img) == \A b \in 0 .. SizeOf(img) - 1 : fl[b] = img

isApplicationImageValid(m, fl) ==
    /\ m.img # NoImage
    /\ Size[m.img] <= Slot
    /\ fl[0] \in Bootable
    /\ CrcMatches(fl, m.img)

isValidPackageHeader(h) == h.good /\ SizeOf(h.img) \in 1 .. Slot

\* What programming a block with data leaves there: FlashProgram only clears
\* bits, so over a half-programmed block the result may or may not be right.
Programmed(old, new) ==
    IF old = Erased \/ old = new THEN {new}
    ELSE IF old = Garbage THEN {Garbage, new}
    ELSE {Garbage}

\* eraseApplicationFlash that stops at page k: those before it are erased.
ErasedUpTo(fl, k) ==
    {[b \in Blocks |-> IF b < k THEN Erased ELSE IF b = k THEN c ELSE fl[b]] :
        c \in {fl[k], Erased, Garbage}}

TornErase(fl) == UNION {ErasedUpTo(fl, k) : k \in AppSlot}

\* The blocks the DATA frame in progress is for.
DataBlocks == sess.written .. sess.written + sess.len - 1

ProgramOutcomes(fl) ==
    {f \in [Blocks -> Contents] :
        \A b \in Blocks : f[b] \in IF b \in DataBlocks
                                    THEN Programmed(fl[b], sess.data) ELSE {fl[b]}}

TornProgram(fl) ==
    {f \in [Blocks -> Contents] :
        \A b \in Blocks : f[b] \in IF b \in DataBlocks
                                    THEN Programmed(fl[b], sess.data) \cup {fl[b], Garbage}
                                    ELSE {fl[b]}}

Appending == {"track", "begin", "end", "setRole", "confirm", "request"}

\* appendMetadataRecord(&ram) returns 0, or -1.
AppendSucceeds == meta' = ram
AppendFails    == meta' \in {meta, ram}

\* A new installation starts from a record that counts no boot attempts.
CountAnew ==
    unconfirmed' = IF meta' # meta /\ meta'.img = NoImage THEN 0 ELSE unconfirmed

-----------------------------------------------------------------------------
(* Factory state: nothing but the bootloader, an application image without *)
(* metadata, or the full J-Link flash with a valid record.                 *)

FlashHolding(img) ==
    [b \in Blocks |-> IF b = Slot THEN Ccfg
                      ELSE IF img # NoImage /\ b < Size[img] THEN img ELSE Erased]

FactoryMetadata(img, role) ==
    [setDefaultMetadata EXCEPT !.state = "valid", !.img = img, !.role = role]

Init ==
    /\ \/ /\ meta = NoMeta
          /\ \E img \in {NoImage} \cup {i \in Images : Size[i] <= Slot} :
                 app = FlashHolding(img)
          /\ accepted = {}
       \/ \E img \in {i \in Images : Size[i] <= Slot}, role \in Roles \ {"unset"} :
             /\ meta = FactoryMetadata(img, role)
             /\ app = FlashHolding(img)
             /\ accepted = {img}
    /\ pc = "boot"
    /\ ram = setDefaultMetadata
    /\ sess = NoSession
    /\ handoff = NoHandoff
    /\ asked = FALSE
    /\ reply = NoFrame
    /\ unconfirmed = 0

-----------------------------------------------------------------------------
(* mainThread *)

\* Mutant: the failure limit is not looked at.
MayStart_NoLimit(m) ==
    /\ m.state = "valid"
    /\ isApplicationImageValid(m, app)

MayStart(m) ==
    /\ m.state = "valid"
    /\ m.count < Limit
    /\ isApplicationImageValid(m, app)

\* Mutant: the attempt is numbered but not counted.
Boot_Uncounted ==
    /\ pc = "boot"
    /\ LET m == IF meta = NoMeta THEN setDefaultMetadata ELSE meta
       IN  IF MayStart(m)
           THEN /\ pc' = "track"
                /\ ram' = [m EXCEPT !.attempt = NextAttempt(@)]
           ELSE /\ pc' = "updater"
                /\ ram' = m
    /\ UNCHANGED <<meta, app, sess, handoff, asked, reply, unconfirmed, accepted>>

Boot ==
    /\ pc = "boot"
    /\ LET m == IF meta = NoMeta THEN setDefaultMetadata ELSE meta
       IN  IF MayStart(m)
           THEN /\ pc' = "track"
                /\ ram' = [m EXCEPT !.count = @ + 1,
                                    !.attempt = NextAttempt(@)]
           ELSE /\ pc' = "updater"
                /\ ram' = m
    /\ UNCHANGED <<meta, app, sess, handoff, asked, reply, unconfirmed, accepted>>

\* Mutant: the role word of the handoff is not written.
Handoff_NoRole ==
    /\ pc = "track"
    /\ AppendSucceeds
    /\ handoff' = [handoff EXCEPT !.magic = TRUE, !.attempt = ram.attempt]
    /\ asked' = FALSE
    /\ pc' = "app"
    /\ ram' = setDefaultMetadata
    /\ unconfirmed' = IF unconfirmed > Limit THEN unconfirmed ELSE unconfirmed + 1
    /\ UNCHANGED <<app, sess, reply, accepted>>

\* The attempt is on record: hand over to the application.
Handoff ==
    /\ pc = "track"
    /\ AppendSucceeds
    /\ handoff' = [magic |-> TRUE, attempt |-> ram.attempt, role |-> ram.role]
    /\ asked' = FALSE
    /\ pc' = "app"
    /\ ram' = setDefaultMetadata
    /\ unconfirmed' = IF unconfirmed > Limit THEN unconfirmed ELSE unconfirmed + 1
    /\ UNCHANGED <<app, sess, reply, accepted>>

\* It is not: stay in the updater.
NoHandoffWithoutRecord ==
    /\ pc = "track"
    /\ AppendFails
    /\ pc' = "updater"
    /\ UNCHANGED <<app, ram, sess, handoff, asked, reply, unconfirmed, accepted>>

-----------------------------------------------------------------------------
(* runFirmwareUpdate: one action per frame, up to its first flash          *)
(* operation, and one per outcome of each flash operation.                 *)

Answer(type, at) == reply' = Frame(type, at)

Refuse ==
    /\ Answer("ERROR", 0)
    /\ UNCHANGED <<meta, app, pc, ram, handoff, asked, unconfirmed, accepted>>

HandleHello ==
    /\ pc = "updater"
    /\ Answer("INFO", 0)
    /\ UNCHANGED <<meta, app, pc, ram, sess, handoff, asked, unconfirmed, accepted>>

\* Mutant: the slot is erased before the update is on record.
HandleBegin_EraseFirst(h, role) ==
    /\ pc = "updater"
    /\ sess' = [sess EXCEPT !.hdr = h, !.role = role]
    /\ IF isValidPackageHeader(h) /\ role \in Roles
       THEN /\ ram' = setDefaultMetadata
            /\ pc' = "begin"
            /\ app' = [c \in Blocks |-> IF c \in AppSlot THEN Erased ELSE app[c]]
            /\ accepted' = accepted \cup {h.img}
            /\ UNCHANGED <<meta, handoff, asked, reply, unconfirmed>>
       ELSE Refuse

\* Header and role are copied into the session before they are looked at.
HandleBegin(h, role) ==
    /\ pc = "updater"
    /\ sess' = [sess EXCEPT !.hdr = h, !.role = role]
    /\ IF isValidPackageHeader(h) /\ role \in Roles
       THEN /\ ram' = setDefaultMetadata
            /\ pc' = "begin"
            /\ accepted' = accepted \cup {h.img}
            /\ UNCHANGED <<meta, app, handoff, asked, reply, unconfirmed>>
       ELSE Refuse

BeginRecorded ==
    /\ pc = "begin"
    /\ AppendSucceeds
    /\ CountAnew
    /\ pc' = "erase"
    /\ UNCHANGED <<app, ram, sess, handoff, asked, reply, accepted>>

BeginNotRecorded ==
    /\ pc = "begin"
    /\ AppendFails
    /\ CountAnew
    /\ Answer("ERROR", 0)
    /\ pc' = "updater"
    /\ UNCHANGED <<app, ram, sess, handoff, asked, accepted>>

EraseCompletes ==
    /\ pc = "erase"
    /\ app' = [b \in Blocks |-> IF b \in AppSlot THEN Erased ELSE app[b]]
    /\ sess' = [sess EXCEPT !.written = 0, !.active = TRUE]
    /\ Answer("READY", 0)
    /\ pc' = "updater"
    /\ UNCHANGED <<meta, ram, handoff, asked, unconfirmed, accepted>>

EraseFails ==
    /\ pc = "erase"
    /\ app' \in TornErase(app)
    /\ Answer("ERROR", 0)
    /\ pc' = "updater"
    /\ UNCHANGED <<meta, ram, sess, handoff, asked, unconfirmed, accepted>>

\* Mutant: a retransmission of a block that is written already is refused.
HandleData_NoDuplicate(off, len, img) ==
    /\ pc = "updater"
    /\ sess.active
    /\ IF EndOffset(off, len) > SizeOf(sess.hdr.img) \/ off # sess.written
       THEN Refuse /\ UNCHANGED sess
       ELSE /\ sess' = [sess EXCEPT !.data = img, !.len = len]
            /\ pc' = "program"
            /\ UNCHANGED <<meta, app, ram, handoff, asked, reply, unconfirmed, accepted>>

\* len blocks of image img for offset off; uint32_t arithmetic.
HandleData(off, len, img) ==
    /\ pc = "updater"
    /\ sess.active
    /\ IF EndOffset(off, len) > SizeOf(sess.hdr.img)
       THEN Refuse /\ UNCHANGED sess
       ELSE IF off = sess.written
       THEN /\ sess' = [sess EXCEPT !.data = img, !.len = len]
            /\ pc' = "program"
            /\ UNCHANGED <<meta, app, ram, handoff, asked, reply, unconfirmed, accepted>>
       ELSE /\ Answer(IF off <= sess.written THEN "ACK" ELSE "NACK", sess.written)
            /\ UNCHANGED <<meta, app, pc, ram, sess, handoff, asked, unconfirmed, accepted>>

ProgramCompletes ==
    /\ pc = "program"
    /\ app' \in ProgramOutcomes(app)
    /\ sess' = [sess EXCEPT !.written = @ + sess.len, !.data = NoImage, !.len = 0]
    /\ Answer("ACK", sess.written + sess.len)
    /\ pc' = "updater"
    /\ UNCHANGED <<meta, ram, handoff, asked, unconfirmed, accepted>>

\* Mutant: the answer counts the block although it was not written.
ProgramFails_Counted ==
    /\ pc = "program"
    /\ app' \in TornProgram(app)
    /\ sess' = [sess EXCEPT !.data = NoImage, !.len = 0]
    /\ Answer("ACK", sess.written + sess.len)
    /\ pc' = "updater"
    /\ UNCHANGED <<meta, ram, handoff, asked, unconfirmed, accepted>>

\* bytesWritten stays, and so offset <= bytesWritten still selects the ACK.
ProgramFails ==
    /\ pc = "program"
    /\ app' \in TornProgram(app)
    /\ sess' = [sess EXCEPT !.data = NoImage, !.len = 0]
    /\ Answer("ACK", sess.written)
    /\ pc' = "updater"
    /\ UNCHANGED <<meta, ram, handoff, asked, unconfirmed, accepted>>

MayCommit ==
    /\ sess.active
    /\ sess.written = SizeOf(sess.hdr.img)
    /\ CrcMatches(app, sess.hdr.img)

HandleEnd ==
    /\ pc = "updater"
    /\ UNCHANGED sess
    /\ IF MayCommit
       THEN /\ ram' = [state |-> "valid", img |-> sess.hdr.img, role |-> sess.role,
                       count |-> 0, attempt |-> 0, confirmed |-> 0]
            /\ pc' = "end"
            /\ UNCHANGED <<meta, app, handoff, asked, reply, unconfirmed, accepted>>
       ELSE Refuse

HandleSetRole(role) ==
    /\ pc = "updater"
    /\ UNCHANGED sess
    /\ IF role \in Roles /\ isApplicationImageValid(ram, app)
       THEN /\ ram' = [ram EXCEPT !.state = "valid", !.role = role]
            /\ pc' = "setRole"
            /\ UNCHANGED <<meta, app, handoff, asked, reply, unconfirmed, accepted>>
       ELSE Refuse

\* COMPLETE, then SysCtrlSystemReset: the RAM contents are gone.
CommitRecorded ==
    /\ pc \in {"end", "setRole"}
    /\ AppendSucceeds
    /\ Answer("COMPLETE", 0)
    /\ pc' = "boot"
    /\ ram' = setDefaultMetadata
    /\ sess' = NoSession
    /\ UNCHANGED <<app, handoff, asked, unconfirmed, accepted>>

\* Mutant: success is claimed although the record was not written.
CommitNotRecorded_Claimed ==
    /\ pc \in {"end", "setRole"}
    /\ AppendFails
    /\ Answer("COMPLETE", 0)
    /\ pc' = "updater"
    /\ UNCHANGED <<app, ram, sess, handoff, asked, unconfirmed, accepted>>

CommitNotRecorded ==
    /\ pc \in {"end", "setRole"}
    /\ AppendFails
    /\ Answer("ERROR", 0)
    /\ pc' = "updater"
    /\ UNCHANGED <<app, ram, sess, handoff, asked, unconfirmed, accepted>>

\* DATA without a session or of a bad length, a bad payload length, an
\* unknown message type.
HandleOther ==
    /\ pc = "updater"
    /\ Refuse
    /\ UNCHANGED sess

-----------------------------------------------------------------------------
(* The application's calls through the boot API *)

\* updateReadiness: both subsystems are up, so confirm, once per boot.
AppConfirm ==
    /\ pc = "app"
    /\ ~asked
    /\ asked' = TRUE
    /\ IF /\ handoff.magic
          /\ meta # NoMeta
          /\ meta.attempt = handoff.attempt
          /\ meta.confirmed # handoff.attempt
       THEN /\ ram' = [meta EXCEPT !.confirmed = handoff.attempt,
                                   !.count = IF @ > 0 THEN @ - 1 ELSE 0]
            /\ pc' = "confirm"
       ELSE UNCHANGED <<ram, pc>>
    /\ UNCHANGED <<meta, app, sess, handoff, reply, unconfirmed, accepted>>

ConfirmRecorded ==
    /\ pc = "confirm"
    /\ AppendSucceeds
    /\ handoff' = [handoff EXCEPT !.magic = FALSE]
    /\ pc' = "app"
    /\ ram' = setDefaultMetadata
    /\ unconfirmed' = unconfirmed - 1
    /\ UNCHANGED <<app, sess, asked, reply, accepted>>

\* The boot counts as unconfirmed unless the record landed all the same.
ConfirmNotRecorded ==
    /\ pc = "confirm"
    /\ AppendFails
    /\ unconfirmed' = IF meta' = ram THEN unconfirmed - 1 ELSE unconfirmed
    /\ pc' = "app"
    /\ ram' = setDefaultMetadata
    /\ UNCHANGED <<app, sess, handoff, asked, reply, accepted>>

\* The CLI command "bootloader".
AppRequestUpdate ==
    /\ pc = "app"
    /\ ram' = [IF meta = NoMeta THEN setDefaultMetadata ELSE meta
                  EXCEPT !.state = "requested"]
    /\ pc' = "request"
    /\ UNCHANGED <<meta, app, sess, handoff, asked, reply, unconfirmed, accepted>>

\* "OK rebooting_to_bootloader", then SysCtrlSystemReset.
RequestRecorded ==
    /\ pc = "request"
    /\ AppendSucceeds
    /\ pc' = "boot"
    /\ ram' = setDefaultMetadata
    /\ handoff' = NoHandoff
    /\ asked' = FALSE
    /\ UNCHANGED <<app, sess, reply, unconfirmed, accepted>>

\* "ERR BOOT metadata_write_failed": the application goes on.
RequestNotRecorded ==
    /\ pc = "request"
    /\ AppendFails
    /\ pc' = "app"
    /\ ram' = setDefaultMetadata
    /\ UNCHANGED <<app, sess, handoff, asked, reply, unconfirmed, accepted>>

-----------------------------------------------------------------------------
(* A reset or a power loss, in the middle of whatever goes on.             *)

PowerLoss ==
    /\ meta' \in IF pc \in Appending THEN {meta, ram} ELSE {meta}
    /\ app' \in CASE pc = "erase"   -> TornErase(app)
                  [] pc = "program" -> TornProgram(app)
                  [] OTHER          -> {app}
    /\ pc' = "boot"
    /\ ram' = setDefaultMetadata
    /\ sess' = NoSession
    /\ handoff' = NoHandoff
    /\ asked' = FALSE
    /\ reply' = NoFrame
    /\ unconfirmed' =
          CASE pc = "begin" /\ meta' # meta   -> 0
            [] pc = "confirm" /\ meta' # meta -> unconfirmed - 1
            [] OTHER                          -> unconfirmed
    /\ UNCHANGED accepted

HandleFrame ==
    \/ HandleHello
    \/ \E h \in Headers, role \in AnyRole : HandleBegin(h, role)
    \/ \E off \in Offsets, len \in 1 .. MaxLen, img \in Images : HandleData(off, len, img)
    \/ HandleEnd
    \/ \E role \in AnyRole : HandleSetRole(role)
    \/ HandleOther

UpdaterFlash ==
    \/ BeginRecorded \/ BeginNotRecorded
    \/ EraseCompletes \/ EraseFails
    \/ ProgramCompletes \/ ProgramFails
    \/ CommitRecorded \/ CommitNotRecorded

Application ==
    \/ AppConfirm \/ ConfirmRecorded \/ ConfirmNotRecorded
    \/ AppRequestUpdate \/ RequestRecorded \/ RequestNotRecorded

Next ==
    \/ Boot \/ Handoff \/ NoHandoffWithoutRecord
    \/ HandleFrame
    \/ UpdaterFlash
    \/ Application
    \/ PowerLoss

Spec == Init /\ [][Next]_vars

(***************************************************************************)
(* The reset handler runs, and the record of a boot attempt is not cut     *)
(* short by a power loss every single time.                                *)
(***************************************************************************)
FairSpec == Spec /\ WF_vars(Boot) /\ SF_vars(Handoff)

-----------------------------------------------------------------------------
(* Properties *)

Running == pc \in {"app", "confirm", "request"}

TypeOK ==
    /\ meta \in Metadata \cup {NoMeta}
    /\ app \in [Blocks -> Contents]
    /\ pc \in {"boot", "updater", "app", "erase", "program"} \cup Appending
    /\ ram \in Metadata
    /\ sess \in Sessions
    /\ handoff \in Handoffs
    /\ asked \in BOOLEAN
    /\ reply \in Replies
    /\ unconfirmed \in Nat
    /\ accepted \in SUBSET Images

(***************************************************************************)
(* As long as the durable metadata names an image, every block of it is in *)
(* flash: the update is on record before the first page is erased, the     *)
(* image is complete before it is called valid, and no DATA of a later     *)
(* session, with whatever header, reaches into it.  This holds at every    *)
(* instant, so also after a power loss or a failed flash operation.        *)
(***************************************************************************)
NamedImageIsIntact ==
    meta # NoMeta /\ meta.img # NoImage => CrcMatches(app, meta.img)

(***************************************************************************)
(* A running application is complete, has a usable vector table, was told  *)
(* the durable role, and its boot attempt is on record: counted, and open  *)
(* to confirmation until the application asked for it, or confirmed.  The  *)
(* wraparound of bootAttemptId never makes a new attempt look confirmed.   *)
(***************************************************************************)
RunningIsTracked ==
    Running =>
        /\ meta # NoMeta
        /\ isApplicationImageValid(meta, app)
        /\ handoff.attempt = meta.attempt
        /\ handoff.role = meta.role
        /\ meta.count > 0 \/ meta.confirmed = meta.attempt
        /\ ~asked => meta.confirmed # meta.attempt

(***************************************************************************)
(* The durable counter never falls below the number of handoffs of this    *)
(* installation that were not confirmed, whichever records were cut short; *)
(* so an application that does not confirm is started at most Limit times. *)
(***************************************************************************)
FailureLimit ==
    /\ unconfirmed <= Limit
    /\ meta # NoMeta => unconfirmed <= meta.count /\ meta.count <= Limit

(***************************************************************************)
(* A device that keeps being reset while its application never confirms    *)
(* ends up in the updater.                                                 *)
(***************************************************************************)
CrashLoopEnds ==
    []<>(pc = "boot") /\ [](pc # "confirm") => <>(pc = "updater")

(***************************************************************************)
(* The image the metadata names is one whose header and role were accepted.*)
(***************************************************************************)
InstalledWasAccepted ==
    meta # NoMeta /\ meta.img # NoImage => meta.img \in accepted

=============================================================================
