---------------------------- MODULE UpdateSession ---------------------------
(***************************************************************************)
(* The update tool (src/tools/fw_update.py: flash and set-role), the UART, *)
(* and the device of module Bootloader.                                    *)
(*                                                                         *)
(* Host   A request is one frame, sent again with the same sequence number *)
(*        until a reply with that number and an expected type is read.     *)
(*        Every reply read and every timeout uses up one attempt.          *)
(* UART   A byte stream each way: frames are lost (a damaged frame fails   *)
(*        its CRC16 and is dropped) or late, never reordered or invented.  *)
(*        What has arrived at the device is lost when it resets.           *)
(* Device Reads a frame, handles it, replies; junk is text of the CLI      *)
(*        dialogue in front of the next delimiter, which spoils one frame. *)
(*                                                                         *)
(* Budget bounds how often each fault happens in a behaviour.              *)
(***************************************************************************)
EXTENDS Bootloader, Sequences

CONSTANTS
    Pkg,            \* the package's image
    Role,           \* --role
    Commands,       \* the subcommands run, out of {"flash", "setRole"}
    Retries,        \* FRAME_RETRIES
    ProbeRetries,   \* PROBE_RETRIES
    RebootRetries,  \* REBOOT_RETRIES
    SeqMod,         \* size of the frame sequence number (2^16)
    Budget          \* how often each fault happens

Faults == {"lost", "late", "flash", "power", "rerun"}

ASSUME SessionAssumption ==
    /\ Pkg \in Images /\ Size[Pkg] <= Slot
    /\ Role \in Roles
    /\ Commands \subseteq {"flash", "setRole"}
    /\ {Retries, ProbeRetries, RebootRetries} \subseteq Nat \ {0}
    /\ SeqMod \in Nat \ {0}
    /\ Budget \in [Faults -> Nat]

VARIABLES
    host,       \* phase, cmd, seq, tries, wait, dirty, offset
    toDev, toHost,
    current,    \* sequenceNumber of the frame being handled
    junk,
    faults      \* the faults so far

wire == <<toDev, toHost>>
sessionVars == <<vars, host, wire, current, junk, faults>>

Framed == {"hello", "rehello", "begin", "data", "end", "setRole"}
Ended  == {"done", "failed", "absent"}

\* The phases of connect and enter_bootloader, which end in "absent" when they give up.
Connecting == {"hello", "version", "bootloader", "rehello"}

-----------------------------------------------------------------------------
(* The wire *)

Text    == {"version", "bootloader"}          \* lines to the application's CLI
CliText == {"version", "rebooting", "ERR"}    \* and from it

Line(type) == [type |-> type, seq |-> 0, at |-> 0]

Fault(kind) ==
    /\ faults[kind] < Budget[kind]
    /\ faults' = [faults EXCEPT ![kind] = @ + 1]

Without(q, i) == SubSeq(q, 1, i - 1) \o SubSeq(q, i + 1, Len(q))

\* The rest of q once its first frames are gone.
Suffixes(q) == {SubSeq(q, k, Len(q)) : k \in 1 .. Len(q) + 1}

LoseFrame ==
    /\ Fault("lost")
    /\ \/ \E i \in DOMAIN toDev : toDev' = Without(toDev, i) /\ UNCHANGED toHost
       \/ \E i \in DOMAIN toHost : toHost' = Without(toHost, i) /\ UNCHANGED toDev
    /\ UNCHANGED <<vars, host, current, junk>>

\* Nothing is on its way to the host.
Silent == toDev = <<>> /\ toHost = <<>> /\ pc \in {"updater", "app"}

-----------------------------------------------------------------------------
(* The host *)

RetryLimit(phase) ==
    CASE phase = "hello"   -> ProbeRetries
      [] phase = "rehello" -> RebootRetries
      [] OTHER             -> Retries

Expected(phase) ==
    CASE phase \in {"hello", "rehello"} -> {"INFO"}
      [] phase = "begin"                -> {"READY"}
      [] phase = "data"                 -> {"ACK", "NACK"}
      [] OTHER                          -> {"COMPLETE"}

Message(phase) ==
    CASE phase \in {"hello", "rehello"} -> "HELLO"
      [] phase = "begin"                -> "BEGIN"
      [] phase = "data"                 -> "DATA"
      [] phase = "end"                  -> "END"
      [] OTHER                          -> "SET_ROLE"

ChunkLength(offset) ==
    IF Size[Pkg] - offset < MaxLen THEN Size[Pkg] - offset ELSE MaxLen

RequestFrame(h) ==
    [type |-> Message(h.phase), seq |-> h.seq, off |-> h.offset,
     len |-> IF h.phase = "data" THEN ChunkLength(h.offset) ELSE 0]

TextFrame(type) == [type |-> type, seq |-> 0, off |-> 0, len |-> 0]

\* The host with a new request (or dialogue) of the given phase.
Enter(h, phase) ==
    [h EXCEPT !.phase = phase, !.tries = 0, !.wait = FALSE, !.dirty = FALSE,
              !.seq = IF phase \in Framed THEN (@ + 1) % SeqMod ELSE @]

Fresh(cmd) ==
    [phase |-> "hello", cmd |-> cmd, seq |-> 1 % SeqMod, tries |-> 0, wait |-> FALSE,
     dirty |-> FALSE, offset |-> 0]

Connected(h) == Enter([h EXCEPT !.offset = 0], IF h.cmd = "flash" THEN "begin" ELSE "setRole")

\* Mutant: a request is repeated without a limit.
AttemptFails_Unlimited(h) == [h EXCEPT !.wait = FALSE, !.dirty = FALSE]

\* One attempt of a request brought nothing.
AttemptFails(h) ==
    IF h.tries + 1 < RetryLimit(h.phase)
    THEN [h EXCEPT !.tries = @ + 1, !.wait = FALSE, !.dirty = FALSE]
    ELSE Enter(h, CASE h.phase = "hello"   -> "version"
                    [] h.phase = "rehello" -> "absent"
                    [] OTHER               -> "failed")

HostSend ==
    /\ host.phase \notin Ended
    /\ ~host.wait
    /\ toDev' = Append(toDev, IF host.phase \in Framed THEN RequestFrame(host)
                                                       ELSE TextFrame(host.phase))
    /\ host' = [host EXCEPT !.wait = TRUE]
    /\ UNCHANGED <<vars, toHost, current, junk, faults>>

\* What an accepted reply means for the command.
Accept(h, r) ==
    CASE h.phase \in {"hello", "rehello"} -> Connected(h)
      [] h.phase = "begin" ->
            IF r.at = 0 THEN Enter(h, "data") ELSE Enter(h, "failed")
      [] h.phase = "data" ->
            IF r.type = "NACK" /\ r.at > h.offset THEN Enter(h, "failed")
            ELSE Enter([h EXCEPT !.offset = r.at],
                       IF r.at < Size[Pkg] THEN "data" ELSE "end")
      [] OTHER -> Enter(h, "done")

\* Text in front of a frame spoils it: _read_frame drops both and reads on.
HostReceive ==
    /\ host.phase \in Framed
    /\ host.wait
    /\ toHost # <<>>
    /\ LET r == Head(toHost)
       IN  host' = IF r.type \in CliText \/ host.dirty
                   THEN [host EXCEPT !.dirty = (r.type \in CliText)]
                   ELSE IF r.seq = host.seq /\ r.type \in Expected(host.phase)
                   THEN Accept(host, r) ELSE AttemptFails(host)
    /\ toHost' = Tail(toHost)
    /\ UNCHANGED <<vars, toDev, current, junk, faults>>

\* FRAME_TIMEOUT passes: nothing comes, or it comes too late.
HostTimeout ==
    /\ host.phase \in Framed
    /\ host.wait
    /\ toHost = <<>>
    /\ \/ Silent /\ UNCHANGED faults
       \/ ~Silent /\ Fault("late")
    /\ host' = AttemptFails(host)
    /\ UNCHANGED <<vars, wire, current, junk>>

\* The time for a CLI dialogue is over; everything received is consumed.
HostCliDone ==
    /\ host.phase \in Text
    /\ host.wait
    /\ \/ /\ toDev = <<>>
          /\ pc # "request"
          /\ UNCHANGED faults
       \/ /\ toDev # <<>> \/ pc = "request"
          /\ Fault("late")
    /\ LET heard(type) == \E i \in DOMAIN toHost : toHost[i].type = type
       IN  host' = Enter(host,
                     CASE host.phase = "version" /\ heard("version")        -> "bootloader"
                       [] host.phase = "bootloader" /\ heard("rebooting")   -> "rehello"
                       [] OTHER                                             -> "absent")
    /\ toHost' = <<>>
    /\ UNCHANGED <<vars, toDev, current, junk>>

\* The tool is run again; opening the port discards what was received.
HostRerun ==
    /\ host.phase \in Ended \ {"done"}
    /\ Fault("rerun")
    /\ \E cmd \in Commands : host' = Fresh(cmd)
    /\ toHost' = <<>>
    /\ UNCHANGED <<vars, toDev, current, junk>>

-----------------------------------------------------------------------------
(* The device *)

\* The reply that the step has put into reply', with the frame's number.
Respond(seq) ==
    toHost' = Append(toHost, [type |-> reply'.type, seq |-> seq, at |-> reply'.at])

HandleNext(f) ==
    \/ f.type = "HELLO" /\ HandleHello
    \/ f.type = "BEGIN" /\ HandleBegin([img |-> Pkg, good |-> TRUE], Role)
    \/ f.type = "DATA" /\ sess.active /\ HandleData(f.off, f.len, Pkg)
    \/ f.type = "DATA" /\ ~sess.active /\ HandleOther
    \/ f.type = "END" /\ HandleEnd
    \/ f.type = "SET_ROLE" /\ HandleSetRole(Role)

\* readProtocolFrame and the dispatch of runFirmwareUpdate.
ReadFrame ==
    /\ pc = "updater"
    /\ toDev # <<>>
    /\ LET f == Head(toDev)
       IN  /\ ~junk /\ f.type \notin Text
           /\ HandleNext(f)
           /\ current' = f.seq
           /\ IF pc' = "updater" THEN Respond(f.seq) ELSE UNCHANGED toHost
    /\ toDev' = Tail(toDev)
    /\ UNCHANGED <<host, junk, faults>>

\* Text has no delimiter; the frame behind it is dropped.
ReadJunk ==
    /\ pc = "updater"
    /\ toDev # <<>>
    /\ junk \/ Head(toDev).type \in Text
    /\ junk' = (Head(toDev).type \in Text)
    /\ toDev' = Tail(toDev)
    /\ UNCHANGED <<vars, host, toHost, current, faults>>

FlashCompletes ==
    /\ BeginRecorded \/ EraseCompletes \/ ProgramCompletes
    /\ IF pc' = "updater" THEN Respond(current) ELSE UNCHANGED toHost
    /\ UNCHANGED <<host, toDev, current, junk, faults>>

FlashFails ==
    /\ Fault("flash")
    /\ BeginNotRecorded \/ EraseFails \/ ProgramFails \/ CommitNotRecorded
    /\ Respond(current)
    /\ UNCHANGED <<host, toDev, current, junk>>

\* COMPLETE, then the reset.
Commits ==
    /\ CommitRecorded
    /\ Respond(current)
    /\ toDev' \in Suffixes(toDev)
    /\ junk' = FALSE
    /\ UNCHANGED <<host, current, faults>>

Boots ==
    /\ Boot
    /\ UNCHANGED <<host, wire, current, junk, faults>>

\* The application starts, up to its banner "OK version=...".
HandsOver ==
    /\ Handoff
    /\ toHost' = Append(toHost, Line("version"))
    /\ toDev' \in Suffixes(toDev)
    /\ junk' = FALSE
    /\ UNCHANGED <<host, current, faults>>

StaysInUpdater ==
    /\ Fault("flash")
    /\ NoHandoffWithoutRecord
    /\ UNCHANGED <<host, wire, current, junk>>

AppConfirms ==
    /\ \/ (AppConfirm \/ ConfirmRecorded) /\ UNCHANGED faults
       \/ Fault("flash") /\ ConfirmNotRecorded
    /\ UNCHANGED <<host, wire, current, junk>>

\* cliThread takes the next line; a frame is not a command.
AppReads ==
    /\ pc = "app"
    /\ toDev # <<>>
    /\ LET f == Head(toDev)
       IN  CASE f.type = "version" ->
                   /\ toHost' = Append(toHost, Line("version"))
                   /\ UNCHANGED vars
             [] f.type = "bootloader" ->
                   /\ AppRequestUpdate
                   /\ UNCHANGED toHost
             [] OTHER -> UNCHANGED <<vars, toHost>>
    /\ toDev' = Tail(toDev)
    /\ UNCHANGED <<host, current, junk, faults>>

AppReboots ==
    /\ RequestRecorded
    /\ toHost' = Append(toHost, Line("rebooting"))
    /\ toDev' \in Suffixes(toDev)
    /\ UNCHANGED <<host, current, junk, faults>>

AppRefuses ==
    /\ Fault("flash")
    /\ RequestNotRecorded
    /\ toHost' = Append(toHost, Line("ERR"))
    /\ UNCHANGED <<host, toDev, current, junk>>

\* What was being written to the host may be lost too.
LosesPower ==
    /\ Fault("power")
    /\ PowerLoss
    /\ toDev' \in Suffixes(toDev)
    /\ toHost' \in {toHost, Without(toHost, Len(toHost))}
    /\ junk' = FALSE
    /\ UNCHANGED <<host, current>>

-----------------------------------------------------------------------------

SessionInit ==
    /\ Init
    /\ \E cmd \in Commands : host = Fresh(cmd)
    /\ toDev = <<>> /\ toHost = <<>>
    /\ current = 0
    /\ junk = FALSE
    /\ faults = [k \in Faults |-> 0]

HostNext == HostSend \/ HostReceive \/ HostTimeout \/ HostCliDone

DeviceNext ==
    \/ ReadFrame \/ ReadJunk \/ FlashCompletes \/ Commits
    \/ Boots \/ HandsOver
    \/ AppConfirms \/ AppReads \/ AppReboots

Trouble == LoseFrame \/ FlashFails \/ StaysInUpdater \/ AppRefuses \/ LosesPower \/ HostRerun

\* The tool has ended and the device waits for input.
Over ==
    /\ host.phase \in Ended
    /\ toDev = <<>>
    /\ pc = "updater" \/ (pc = "app" /\ asked)
    /\ UNCHANGED sessionVars

SessionNext == HostNext \/ DeviceNext \/ Trouble \/ Over

SessionSpec == SessionInit /\ [][SessionNext]_sessionVars

(***************************************************************************)
(* The host's program runs; the device takes the next step of what it      *)
(* does.  Nothing is assumed of the faults.                                *)
(***************************************************************************)
FairSession == SessionSpec /\ WF_sessionVars(HostNext) /\ WF_sessionVars(DeviceNext)

-----------------------------------------------------------------------------
(* Properties *)

(***************************************************************************)
(* When the tool reports COMPLETE the device's durable metadata names the  *)
(* package with the requested role (flash), or has that role (set-role),   *)
(* whatever was lost, late or cut short before.  The tool may be run once  *)
(* more meanwhile; with two reruns and five late frames it can fail.       *)
(***************************************************************************)
CompleteMeansInstalled ==
    host.phase = "done" =>
        /\ meta # NoMeta
        /\ meta.role = Role
        /\ host.cmd = "flash" => meta.img = Pkg

(***************************************************************************)
(* The host never believes more to be written than the session it talks to *)
(* has written: it sends no DATA the device must refuse as a gap, and END  *)
(* only for a complete image.                                              *)
(***************************************************************************)
HostNotAhead ==
    host.phase \in {"data", "end"} /\ sess.active => host.offset <= sess.written

\* So far the UART has failed less often than a frame has attempts, and not at
\* all before the device was in its updater; nothing else has gone wrong.
Outlivable ==
    /\ faults.flash = 0 /\ faults.power = 0 /\ faults.rerun = 0
    /\ faults.lost + faults.late <= Retries - 1
    /\ host.phase \in Connecting \cup {"absent"} => faults.lost + faults.late = 0

(***************************************************************************)
(* A transfer outlives one UART fault less than a frame has attempts: the  *)
(* package is installed, whatever frames and replies were lost or late.    *)
(* The tool may still report a failure: END is not repeated successfully   *)
(* once the device has restarted.                                          *)
(***************************************************************************)
TransferSucceeds ==
    [](host.cmd = "flash" /\ Outlivable) =>
        <>[](meta # NoMeta /\ meta.img = Pkg /\ meta.role = Role)

(***************************************************************************)
(* The tool comes to an end, and so does the device: it runs an            *)
(* application or waits for the next update.                               *)
(***************************************************************************)
SessionEnds == <>[](host.phase \in Ended /\ pc \in {"app", "updater"})
=============================================================================
