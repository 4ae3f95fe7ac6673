-------------------------------- MODULE TxSync --------------------------------
(***************************************************************************)
(* The TX role's "tx sync_time <utc_hex>" and "tx sync_frame <exp_hex>"    *)
(* (firmware_tx.c): the words are joined again in a buffer of              *)
(* TX_CLI_LINE_LENGTH, split, the argument is parsed, a packet is built,   *)
(* numbered and sent, and the number is reported.                          *)
(*                                                                         *)
(*   - The commands run one at a time in the CLI thread, which waits in    *)
(*     RF_runCmd for the radio.                                            *)
(*   - Sizes are scaled.                                                   *)
(*   - A packet is its type, its number and its value: magic, padding and  *)
(*     CRC are the same for all or follow from the rest.                   *)
(*                                                                         *)
(* asked, failed and last are history: the words of the command, the       *)
(* failed transmissions since the last good one, and that one's number.    *)
(***************************************************************************)
EXTENDS Naturals, Sequences

CONSTANTS
    Chars,          \* characters of an argument
    TimeDigits,     \* digits of a uint64_t (16)
    FrameDigits,    \* digits of a uint32_t (8)
    Room,           \* what TX_CLI_LINE_LENGTH leaves for the argument (53)
    Numbers,        \* values of a uint8_t (256)
    MaxChars,       \* bound on the characters of an argument
    MaxFailed       \* failed transmissions are counted up to here

\* The buffer holds a prefix and one digit more than any argument may have.
ASSUME TxAssumption ==
    /\ FrameDigits \in Nat \ {0} /\ TimeDigits \in Nat /\ FrameDigits <= TimeDigits
    /\ Room \in Nat /\ Room > TimeDigits + 2
    /\ Numbers \in Nat \ {0} /\ MaxChars \in Nat /\ MaxFailed \in Nat

VARIABLES
    sequence,       \* syncSequence
    packet,
    sending,        \* the CLI thread is in RF_runCmd
    answer,         \* what the command is answered with
    asked, failed, last

vars == <<sequence, packet, sending, answer, asked, failed, last>>

NoPacket == [type |-> "none", seq |-> 0, value |-> 0]

Init ==
    /\ sequence = 0 /\ packet = NoPacket /\ sending = FALSE
    /\ answer = "none" /\ asked = <<>> /\ failed = 0 /\ last = Numbers - 1

-----------------------------------------------------------------------------
(* parseHexUint64.                                                         *)

Hex == [c \in {"0", "1", "f"} |-> CASE c = "0" -> 0 [] c = "1" -> 1 [] c = "f" -> 15]

Power16[n \in 0 .. TimeDigits] == IF n = 0 THEN 1 ELSE 16 * Power16[n - 1]

Prefixed(text) == Len(text) >= 2 /\ text[1] = "0" /\ text[2] = "x"

Unprefixed(text) == IF Prefixed(text) THEN SubSeq(text, 3, Len(text)) ELSE text

\* One turn of the loop: the value, and the digits or a failure.
Digit(s, c, max) ==
    IF ~s.ok \/ c \notin DOMAIN Hex \/ s.digits = max THEN [s EXCEPT !.ok = FALSE]
    ELSE [ok |-> TRUE, digits |-> s.digits + 1,
          value |-> (s.value * 16 + Hex[c]) % Power16[TimeDigits]]

parseHexUint64(text, max) ==
    LET u == Unprefixed(text)
        loop[k \in 0 .. Len(u)] ==
            IF k = 0 THEN [ok |-> TRUE, digits |-> 0, value |-> 0]
            ELSE Digit(loop[k - 1], u[k], max)
        s == loop[Len(u)]
    IN  [s EXCEPT !.ok = s.ok /\ s.digits # 0]

-----------------------------------------------------------------------------
(* processSyncCommand.                                                     *)

MaximumDigits(type) == IF type = "sync_frame" THEN FrameDigits ELSE TimeDigits

\* Mutant: the buffer is as long as the longest good command.
Kept_Short(text) == SubSeq(text, 1, IF Len(text) < TimeDigits + 2 THEN Len(text) ELSE TimeDigits + 2)

\* The argument as the line buffer holds it: snprintf cuts it off.
Kept(text) == SubSeq(text, 1, IF Len(text) < Room THEN Len(text) ELSE Room)

\* writeUint32Be of a cast, or writeUint64Be.
Payload(type, value) == IF type = "sync_frame" THEN value % Power16[FrameDigits] ELSE value

\* Mutant: every command takes a number.
Refuse_Numbered(code) ==
    /\ answer' = code
    /\ sequence' = (sequence + 1) % Numbers
    /\ UNCHANGED <<packet, sending, failed, last>>

Refuse(code) ==
    /\ answer' = code
    /\ UNCHANGED <<sequence, packet, sending, failed, last>>

buildSyncPacket(type, value) ==
    /\ packet' = [type |-> type, seq |-> sequence, value |-> Payload(type, value)]
    /\ sequence' = (sequence + 1) % Numbers
    /\ sending' = TRUE
    /\ UNCHANGED <<answer, failed, last>>

\* tx with two words and an argument, or with an argument missing or too many.
tx_command(words) ==
    /\ ~sending /\ answer = "none"
    /\ asked' = words
    /\ \/ Len(words) # 2 /\ Refuse("ERR ARG")
       \/ /\ Len(words) = 2
          /\ words[1] \notin {"sync_time", "sync_frame"}
          /\ Refuse("ERR CMD")
       \/ /\ Len(words) = 2
          /\ words[1] \in {"sync_time", "sync_frame"}
          /\ LET parsed == parseHexUint64(Kept(words[2]), MaximumDigits(words[1]))
             IN  IF parsed.ok THEN buildSyncPacket(words[1], parsed.value)
                 ELSE Refuse("ERR ARG")

\* RF_runCmd returns: the packet went out, or not.
Sent ==
    /\ sending
    /\ sending' = FALSE
    /\ answer' = "OK"
    /\ last' = packet.seq
    /\ failed' = 0
    /\ UNCHANGED <<sequence, packet, asked>>

SendFailed ==
    /\ sending /\ failed < MaxFailed
    /\ sending' = FALSE
    /\ answer' = "ERR RF"
    /\ failed' = failed + 1
    /\ UNCHANGED <<sequence, packet, asked, last>>

\* writeCli; the CLI thread reads on, and the command is forgotten.
Answered ==
    /\ answer # "none"
    /\ answer' = "none"
    /\ asked' = <<>>
    /\ UNCHANGED <<sequence, packet, sending, failed, last>>

Arguments == UNION {[1 .. n -> Chars] : n \in 1 .. MaxChars}

Next ==
    \/ \E c \in {"sync_time", "sync_frame", "other"}, a \in Arguments : tx_command(<<c, a>>)
    \/ tx_command(<<>>)
    \/ \E c \in {"sync_time", "other"} : tx_command(<<c>>)
    \/ \E c \in {"sync_time", "other"}, a \in Chars : tx_command(<<c, <<a>>, <<a>>>>)
    \/ Sent
    \/ SendFailed
    \/ Answered

Spec == Init /\ [][Next]_vars

-----------------------------------------------------------------------------
(* Properties.                                                             *)

\* A hexadecimal literal for the type, and what it denotes: its digits, the
\* least significant one first, each with its place value.
Literal(text, type) ==
    /\ Len(Unprefixed(text)) \in 1 .. (IF type = "sync_time" THEN TimeDigits ELSE FrameDigits)
    /\ \A i \in 1 .. Len(Unprefixed(text)) : Unprefixed(text)[i] \in DOMAIN Hex

Denoted(text) ==
    LET s == Unprefixed(text)
        low[k \in 0 .. Len(s)] ==
            IF k = 0 THEN 0 ELSE low[k - 1] + Hex[s[Len(s) - (k - 1)]] * Power16[k - 1]
    IN  low[Len(s)]

\* A packet goes out exactly for an argument that is a literal of the type,
\* and carries what the user typed: no argument that was cut off in the line
\* buffer, that overflowed or that was cast is sent as another value
\* (firmware_tx.c: tx_command's snprintf, parseHexUint64, the cast).
SentIsAsked ==
    /\ sending => /\ asked[1] = packet.type
                  /\ Literal(asked[2], asked[1])
                  /\ packet.value = Denoted(asked[2])
    /\ ~sending /\ answer \in {"ERR ARG", "ERR CMD"} =>
          \/ Len(asked) # 2
          \/ asked[1] \notin {"sync_time", "sync_frame"}
          \/ ~Literal(asked[2], asked[1])

\* Sequence numbers count the transmissions: between two packets that went out
\* a number is missing for each transmission that failed and for nothing else.
GapsAreFailures ==
    (last + failed + 1 + (IF sending THEN 1 ELSE 0)) % Numbers = sequence
=============================================================================
