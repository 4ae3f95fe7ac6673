------------------------------- MODULE AppBoot -------------------------------
(***************************************************************************)
(* The application between BIOS_start and its first commands: the radio    *)
(* thread (priority 2) and the CLI thread (priority 1) report that they    *)
(* are ready, the second of them confirms the boot, and the CLI serves     *)
(* "bootloader" and "tx".  Sources: main_tirtos.c, firmware_startup.c,     *)
(* boot_api.c, cli_bootloader.c, the start of firmware.c, firmware_tx.c    *)
(* and cli_task_cc1310.c, and the two calls into bootloader.c.             *)
(*                                                                         *)
(*   - Both calls read the journal and append to it, without a lock.  The  *)
(*     radio thread preempts the CLI thread and is never preempted by it:  *)
(*     its call is one step.  The CLI thread's takes a step for each       *)
(*     record it looks at, each use of a pointer it has found and each     *)
(*     flash operation, and the radio thread's may fall between any two.   *)
(*   - A record is whether it names this boot's attempt as confirmed and   *)
(*     whether an update is requested.  Power losses are the subject of    *)
(*     MetadataJournal and are left out here.                              *)
(*   - RF_open does not block, RF_runCmd(CMD_FS) does.                     *)
(*                                                                         *)
(* confirms, alone, blind and told are history.                            *)
(***************************************************************************)
EXTENDS JournalFlash, Sequences

CONSTANT None        \* NULL, and the metadata a call has not read yet

VARIABLES
    flash,          \* the metadata pages
    rf,             \* the radio thread
    handle,         \* rfHandle is not NULL
    cli,            \* the CLI thread: its next step and the call it is in
    ready,          \* rfReady, cliReady
    attempted,      \* bootConfirmationAttempted
    confirms,       \* calls of confirmBoot and what they returned
    told,           \* the last answer of the "bootloader" command
    alone,          \* no two calls have overlapped
    blind           \* a rotation failed under the CLI thread's scan

vars == <<flash, rf, handle, cli, ready, attempted, confirms, told, alone, blind>>

Metadata == [state : {"valid", "requested"}, confirmed : BOOLEAN]

\* The journal starts with number 1 and counts one up per append; the flash
\* wears out after some 17 million of them, long before the 2^31 at which
\* the comparison of two numbers turns round.  A command of the CLI adds up
\* to two records, the radio thread's one included.
WithinWear(fl) ==
    \A p \in Pages, i \in Slots : isValidRecord(fl[p][i]) => fl[p][i].seq <= SeqHalf - 4

ASSUME AppAssumption ==
    /\ Values = Metadata
    /\ 2 * N <= SeqHalf - 4
    /\ None \notin Records
    /\ None \notin Pages \X Slots

Booted == [state |-> "valid", confirmed |-> FALSE]

\* A journal with k records, the boot attempt last.
Journal(k) ==
    [p \in Pages |-> [i \in Slots |->
        LET n == p * N + i + 1
        IN  IF n > k THEN Erased
            ELSE [seq |-> n, val |-> [Booted EXCEPT !.confirmed = n < k]]]]

\* The locals of a call: at is the page and the index of the loop that runs,
\* and then of the slot that is written; found and newest are pointers into
\* the pages; own is whether the slot holds the body this call programmed.
Idle == [step |-> "idle", call |-> "none", at |-> <<Primary, 0>>,
         found |-> [p \in Pages |-> None], newest |-> None, record |-> None,
         own |-> FALSE]

Init ==
    /\ \E k \in 1 .. 2 * N : flash = Journal(k)
    /\ rf = "start" /\ handle = FALSE
    /\ cli = [Idle EXCEPT !.step = "start"]
    /\ ready = {} /\ attempted = FALSE
    /\ confirms = <<>>
    /\ told = "none"
    /\ alone = TRUE /\ blind = FALSE

-----------------------------------------------------------------------------
(* Flash.                                                                  *)

At(fl, t) == fl[t[1]][t[2]]

\* What a read of the number through a pointer can yield: a slot erased in
\* the meantime reads as all ones, a damaged one as anything.  0 stands for
\* the number before the first.
NumbersAt(fl, t) ==
    IF t = None THEN {0}
    ELSE IF isValidRecord(At(fl, t)) THEN {At(fl, t).seq}
    ELSE IF At(fl, t) = Erased THEN {SeqMod - 1}
    ELSE Seqs

ValuesAt(fl, t) == IF isValidRecord(At(fl, t)) THEN {At(fl, t).val} ELSE Metadata

\* Programming clears bits: over other contents it leaves no valid record.
Programmed(fl, t, c) ==
    Written(fl, t[1], t[2], IF At(fl, t) \in {Erased, c} THEN c ELSE Garbage)

\* Mutant: the rotation erases both pages.
ErasedPage_Both(fl, p) == Blank

ErasedPage(fl, p) == [fl EXCEPT ![p] = [i \in Slots |-> Erased]]

Target(fl) ==
    IF NoFreeSlot(fl) THEN <<RotationPage(fl), 0>>
    ELSE <<AppendPage(fl), findFirstErasedRecord(fl, AppendPage(fl))>>

Cleared(fl) == IF NoFreeSlot(fl) THEN ErasedPage(fl, RotationPage(fl)) ELSE fl

\* A whole append: completed, or ended by a FlashProgram that fails.
Appended(fl, v)     == Programmed(Cleared(fl), Target(fl), NextRecord(fl, v))
AppendFailed(fl, v) ==
    {Cleared(fl), Programmed(Cleared(fl), Target(fl), Garbage), Appended(fl, v)}

Newest == findNewestMetadataRecord(flash).val

\* confirmApplicationBoot's test; the attempt's number is this boot's.
MayConfirm == HasRecord(flash) /\ ~Newest.confirmed

Confirmed(v) == [v EXCEPT !.confirmed = TRUE]
Requested(v) == [v EXCEPT !.state = "requested"]

-----------------------------------------------------------------------------
(* The radio thread.                                                       *)

RfOpen ==
    /\ rf = "start"
    /\ \/ rf' = "tuning" /\ handle' = TRUE
       \/ rf' = "dead" /\ UNCHANGED handle
    /\ UNCHANGED <<flash, cli, ready, attempted, confirms, told, alone, blind>>

RfTuneFails ==
    /\ rf = "tuning"
    /\ rf' = "dead"
    /\ UNCHANGED <<flash, handle, cli, ready, attempted, confirms, told, alone, blind>>

\* Mutant: the confirmation waits for the radio only.
BecomesReady_RfOnly(who) ==
    who = "rf" /\ ~attempted

\* updateReadiness: is this call the one that confirms?
BecomesReady(who) ==
    ready \cup {who} = {"rf", "cli"} /\ ~attempted

\* RF_runCmd(CMD_FS) returns; firmwareStartupMarkRfReady.
RfReports ==
    /\ rf = "tuning"
    /\ rf' = "ready"
    /\ ready' = ready \cup {"rf"}
    /\ attempted' = (attempted \/ BecomesReady("rf"))
    /\ UNCHANGED <<handle, told>>

\* The CLI is not ready yet, or the record is not this boot's to confirm.
RfReady ==
    /\ RfReports
    /\ \/ ~BecomesReady("rf") /\ UNCHANGED confirms
       \/ BecomesReady("rf") /\ ~MayConfirm /\ confirms' = Append(confirms, "error")
    /\ UNCHANGED <<flash, cli, alone, blind>>

\* bl_confirm_boot by the radio thread, from first to last line.
RfConfirms(result) ==
    /\ RfReports
    /\ BecomesReady("rf") /\ MayConfirm
    /\ confirms' = Append(confirms, result)
    /\ alone' = (alone /\ cli.call = "none")

\* The radio thread erases the page of the slot the CLI thread is writing.
TakesBody == NoFreeSlot(flash) /\ RotationPage(flash) = cli.at[1]

RfAppends ==
    /\ RfConfirms("ok")
    /\ flash' = Appended(flash, Confirmed(Newest))
    /\ cli' = [cli EXCEPT !.own = @ /\ ~TakesBody]
    /\ UNCHANGED blind

\* A rotation that failed while the CLI thread goes through the records.
Blinds == NoFreeSlot(flash) /\ cli.step \in {"scan", "choose"}

RfEraseFails ==
    /\ RfConfirms("error")
    /\ NoFreeSlot(flash)
    /\ flash' \in PartlyErased(flash, RotationPage(flash))
    /\ \E kept \in BOOLEAN :
          cli' = [cli EXCEPT !.own = @ /\ (TakesBody => kept /\ At(flash', cli.at) = Garbage)]
    /\ blind' = (blind \/ Blinds)

RfProgramFails ==
    /\ RfConfirms("error")
    /\ flash' \in AppendFailed(flash, Confirmed(Newest))
    /\ cli' = [cli EXCEPT !.own = @ /\ ~TakesBody]
    /\ blind' = (blind \/ Blinds)

-----------------------------------------------------------------------------
(* The CLI thread: its start, and the command that begins a call.          *)

\* Mutant: equal priorities.
CliRuns_Equal == rf # "dead"

\* The radio thread is blocked, so the CLI thread may run.
CliRuns == rf \in {"tuning", "ready"}

CliStep(from) ==
    /\ CliRuns
    /\ cli.step = from
    /\ UNCHANGED <<rf, handle>>

Call(call) == [Idle EXCEPT !.step = "scan", !.call = call]

\* The UART opens, the command table is installed, firmwareStartupMarkCliReady.
CliReady ==
    /\ CliStep("start")
    /\ ready' = ready \cup {"cli"}
    /\ attempted' = (attempted \/ BecomesReady("cli"))
    /\ cli' = IF BecomesReady("cli") THEN Call("confirm") ELSE Idle
    /\ UNCHANGED <<flash, confirms, told, alone, blind>>

CliOpenFails ==
    /\ CliStep("start")
    /\ cli' = [Idle EXCEPT !.step = "dead"]
    /\ UNCHANGED <<flash, ready, attempted, confirms, told, alone, blind>>

\* "bootloader".
CliRequest ==
    /\ CliStep("idle")
    /\ WithinWear(flash)
    /\ cli' = Call("request")
    /\ UNCHANGED <<flash, ready, attempted, confirms, told, alone, blind>>

\* The call returns: bl_confirm_boot, or the command's answer and the reset.
Return(result) ==
    /\ cli' = IF cli.call = "request" /\ result = "ok" THEN [Idle EXCEPT !.step = "reset"]
              ELSE Idle
    /\ confirms' = IF cli.call = "confirm" THEN Append(confirms, result) ELSE confirms
    /\ told' = IF cli.call = "request" THEN result ELSE told

-----------------------------------------------------------------------------
(* findNewestMetadataRecord, once for the metadata and once for the append *)

\* Steps of the call that leave everything but its locals alone.
CliLocal(from) ==
    /\ CliStep(from)
    /\ UNCHANGED <<flash, ready, attempted, confirms, told, alone, blind>>

Following(t) == <<t[1], t[2] + 1>>

AtRecord == cli.at[2] < N /\ At(flash, cli.at) # Erased

\* One record in the loop of findNewestRecordInPage.
CliScan ==
    /\ CliLocal("scan")
    /\ AtRecord
    /\ LET c == At(flash, cli.at)
           best == cli.found[cli.at[1]]
       IN  \E s \in NumbersAt(flash, best) :
             cli' = [cli EXCEPT
                !.at = Following(@),
                !.found[cli.at[1]] =
                    IF /\ isValidRecord(c)
                       /\ best = None \/ isSequenceNewer(c.seq, s) \/ c.seq = s
                    THEN cli.at ELSE best]

\* The loop ends: the other page, or the comparison.
CliScanned ==
    /\ CliLocal("scan")
    /\ ~AtRecord
    /\ cli' = IF cli.at[1] = Primary THEN [cli EXCEPT !.at = <<Secondary, 0>>]
              ELSE [cli EXCEPT !.step = "choose"]

\* Both numbers are read again, through the pointers.
Chosen(fl, primary, secondary) ==
    IF primary = None THEN {secondary}
    ELSE IF secondary = None THEN {primary}
    ELSE {IF isSequenceNewer(s, f) THEN secondary ELSE primary :
             s \in NumbersAt(fl, secondary), f \in NumbersAt(fl, primary)}

CliChoose ==
    /\ CliLocal("choose")
    /\ \E t \in Chosen(flash, cli.found[Primary], cli.found[Secondary]) :
          cli' = [cli EXCEPT !.newest = t,
                             !.step = IF cli.record = None THEN "copy" ELSE "number"]

-----------------------------------------------------------------------------
(* The metadata, and the append.                                           *)

\* *metadata = *storedMetadata, or the defaults, and the caller's change.
Changed ==
    IF cli.newest = None THEN {Requested(Booted)}
    ELSE {IF cli.call = "confirm" THEN Confirmed(v) ELSE Requested(v) :
             v \in ValuesAt(flash, cli.newest)}

\* The test of confirmApplicationBoot refuses what was read.
Refused ==
    /\ cli.call = "confirm"
    /\ cli.newest = None \/ \E v \in ValuesAt(flash, cli.newest) : v.confirmed

CliCopy ==
    /\ CliStep("copy")
    /\ \/ /\ ~Refused
          /\ \E v \in Changed :
                cli' = [Call(cli.call) EXCEPT !.record = [seq |-> 0, val |-> v]]
          /\ UNCHANGED <<confirms, told>>
       \/ Refused /\ Return("error")
    /\ UNCHANGED <<flash, ready, attempted, alone, blind>>

CliNumber ==
    /\ CliLocal("number")
    /\ \E s \in NumbersAt(flash, cli.newest) :
          cli' = [cli EXCEPT !.record.seq = NextSeq(s),
                             !.at = <<Primary, 0>>,
                             !.step = "slot"]

\* One record in the loop of findFirstErasedRecord; behind the last record of
\* the second page the rotation, kept off the page newest points into.
CliSlot ==
    /\ CliLocal("slot")
    /\ cli' = IF cli.at[2] < N
              THEN IF At(flash, cli.at) = Erased THEN [cli EXCEPT !.step = "body"]
                   ELSE [cli EXCEPT !.at = Following(@)]
              ELSE IF cli.at[1] = Primary THEN [cli EXCEPT !.at = <<Secondary, 0>>]
              ELSE [cli EXCEPT !.step = "erase",
                               !.at = <<IF cli.newest # None /\ cli.newest[1] = Secondary
                                        THEN Primary ELSE Secondary, 0>>]

CliErase ==
    /\ CliStep("erase")
    /\ flash' = ErasedPage(flash, cli.at[1])
    /\ cli' = [cli EXCEPT !.step = "body"]
    /\ UNCHANGED <<ready, attempted, confirms, told, alone, blind>>

CliBody ==
    /\ CliStep("body")
    /\ flash' = Programmed(flash, cli.at, Garbage)
    /\ cli' = [cli EXCEPT !.step = "crc", !.own = At(flash, cli.at) = Erased]
    /\ UNCHANGED <<ready, attempted, confirms, told, alone, blind>>

\* Only over its own body the CRC word makes a valid record.
AfterCrc ==
    Written(flash, cli.at[1], cli.at[2], IF cli.own THEN cli.record ELSE Garbage)

CliCrc ==
    /\ CliStep("crc")
    /\ flash' = AfterCrc
    /\ Return("ok")
    /\ UNCHANGED <<ready, attempted, alone, blind>>

\* Mutant: the result of the flash driver is ignored.
CliFlashFails_Ignored ==
    /\ \E step \in {"erase", "body", "crc"} : CliStep(step)
    /\ Return("ok")
    /\ UNCHANGED <<flash, ready, attempted, alone, blind>>

CliFlashFails ==
    /\ \E step \in {"erase", "body", "crc"} : CliStep(step)
    /\ flash' \in CASE cli.step = "erase" -> PartlyErased(flash, cli.at[1])
                    [] cli.step = "body"  -> {flash, Programmed(flash, cli.at, Garbage)}
                    [] cli.step = "crc"   -> {flash, AfterCrc}
    /\ Return("error")
    /\ UNCHANGED <<ready, attempted, alone, blind>>

\* "tx": RF_runCmd with rfHandle.
CliTx ==
    /\ CliLocal("idle")
    /\ cli' = [Idle EXCEPT !.step = "tx"]

CliTxDone ==
    /\ CliLocal("tx")
    /\ cli' = Idle

Next ==
    \/ RfOpen \/ RfTuneFails \/ RfReady
    \/ RfAppends \/ RfEraseFails \/ RfProgramFails
    \/ CliReady \/ CliOpenFails \/ CliRequest
    \/ CliScan \/ CliScanned \/ CliChoose \/ CliCopy \/ CliNumber \/ CliSlot
    \/ CliErase \/ CliBody \/ CliCrc \/ CliFlashFails
    \/ CliTx \/ CliTxDone

Spec == Init /\ [][Next]_vars

-----------------------------------------------------------------------------
(* Properties.                                                             *)

\* The boot is confirmed once, and only after the radio is tuned and the CLI
\* is installed, whichever of the two threads comes second and wherever the
\* radio thread preempts the other.
ConfirmedOnceWhenReady ==
    /\ confirms # <<>> => ready = {"rf", "cli"}
    /\ ready = {"rf", "cli"} => Len(confirms) + (IF cli.call = "confirm" THEN 1 ELSE 0) = 1

\* The journal still yields a record, wherever the radio thread's append falls
\* in the CLI thread's reads and writes and whichever flash operation fails
\* ("Keep one valid journal page while rotating the other page"): a device
\* never loses its image and its role to the race.  Except for one double
\* fault: when a rotation of the radio thread fails under the CLI thread's
\* scan, that thread goes on with a pointer into the damaged page.
JournalSurvives == ~blind => HasRecord(flash)

\* Calls that did not overlap are durable: after a confirmation that returned
\* 0 the boot is confirmed, and after "OK rebooting_to_bootloader" the update
\* is requested, in one record.
AloneIsDurable ==
    alone => /\ (\E i \in 1 .. Len(confirms) : confirms[i] = "ok") => Newest.confirmed
             /\ told = "ok" => Newest.state = "requested"

\* A tx command finds the radio open.
TxHasRadio == cli.step = "tx" => handle
=============================================================================
