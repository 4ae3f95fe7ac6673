------------------------------ MODULE FrameCodec -----------------------------
(***************************************************************************)
(* The framing of the update protocol: COBS and the frame check of         *)
(* src/bootloader/bootloader.c and src/tools/fw_protocol.py, and the       *)
(* bootloader's frame reader, byte by byte.                                *)
(*                                                                         *)
(*   - Sizes are scaled: a byte is 0 .. Full, where Full stands for 0xFF;  *)
(*     a frame has one byte each for version, length and CRC, where the    *)
(*     code has six and two (Overhead stands for 8).                       *)
(*   - The CRC is a sum: what matters is that it is checked.               *)
(*                                                                         *)
(* The line carries up to MaxNoise arbitrary bytes, then one frame, and    *)
(* the same frame again, as the tool does that had no answer.              *)
(***************************************************************************)
EXTENDS Naturals, Sequences

CONSTANTS
    Full,           \* 0xFF: a block without a zero behind it
    Buffer,         \* MAX_ENCODED_FRAME_SIZE
    MaxPayload,     \* MAX_PROTOCOL_PAYLOAD
    MaxSent,        \* longest payload the sender uses
    MaxNoise        \* bound on the bytes before the frame

Version  == 1
Overhead == 3

\* The receive buffer is no longer than the largest payload with its overhead
\* (160, 152, 8), and the longest frame that is sent (132 bytes of payload, one
\* code byte, q = 0 full blocks) fits it when it is encoded.
ASSUME CodecAssumption ==
    /\ Full \in Nat /\ Full > 1
    /\ Buffer \in Nat /\ MaxPayload \in Nat /\ MaxSent \in Nat /\ MaxNoise \in Nat
    /\ MaxSent <= Full
    /\ Buffer <= MaxPayload + Overhead
    /\ \A q \in 0 .. MaxSent + Overhead :
           q * (Full - 1) <= MaxSent + Overhead => MaxSent + Overhead + 1 + q <= Buffer

Bytes    == 0 .. Full
Invalid  == <<Full + 1>>      \* no byte

VARIABLES
    encoded,        \* encodedFrame[0 .. encodedLength - 1]
    noise,          \* arbitrary bytes read so far
    payload,        \* what the sender sends
    wire,           \* bytes the sender has still to send
    sent,           \* how often it has sent the frame
    delivered       \* the payload readProtocolFrame returned, or Invalid

vars == <<encoded, noise, payload, wire, sent, delivered>>

-----------------------------------------------------------------------------
(* COBS.                                                                   *)

\* Mutant: the code byte of a full block is not followed by a new one.
EncodeByte_NoNewBlock(s, b) ==
    IF b = 0
    THEN [out |-> Append([s.out EXCEPT ![s.at] = s.code], 0), at |-> Len(s.out) + 1, code |-> 1]
    ELSE [out |-> Append(s.out, b), at |-> s.at,
          code |-> IF s.code + 1 = Full THEN 1 ELSE s.code + 1]

\* One turn of the loop of cobsEncode; at is codeIndex.
EncodeByte(s, b) ==
    LET longer == [out |-> Append(s.out, b), at |-> s.at, code |-> s.code + 1]
        Close(t) == [out |-> Append([t.out EXCEPT ![t.at] = t.code], 0),
                     at |-> Len(t.out) + 1, code |-> 1]
    IN  IF b = 0 THEN Close(s) ELSE IF longer.code = Full THEN Close(longer) ELSE longer

cobsEncode(data) ==
    LET state[k \in 0 .. Len(data)] ==
            IF k = 0 THEN [out |-> <<0>>, at |-> 1, code |-> 1]
            ELSE EncodeByte(state[k - 1], data[k])
        s == state[Len(data)]
    IN  [s.out EXCEPT ![s.at] = s.code]

\* A code byte that points behind the end of the frame.
Truncated(s, n) == s.read + s.buffer[s.read] > n + 1

\* The bytes of a block move one by one to where they belong, in place.
Moved(s) ==
    LET count == s.buffer[s.read] - 1
        buf[k \in 0 .. count] ==
            IF k = 0 THEN s.buffer
            ELSE [buf[k - 1] EXCEPT ![s.write + k - 1] = buf[k - 1][s.read + k]]
    IN  buf[count]

\* One turn of the outer loop of cobsDecode.
DecodeBlock(s, n) ==
    LET code == s.buffer[s.read]
        w == s.write + (code - 1)
        r == s.read + code
        zero == code # Full /\ r <= n
    IN  [buffer |-> IF zero THEN [Moved(s) EXCEPT ![w] = 0] ELSE Moved(s),
         read |-> r, write |-> IF zero THEN w + 1 ELSE w, valid |-> TRUE]

DecodeTurn(s, n) ==
    IF ~s.valid \/ s.read > n THEN s
    ELSE IF s.buffer[s.read] = 0 \/ Truncated(s, n) THEN [s EXCEPT !.valid = FALSE]
    ELSE DecodeBlock(s, n)

cobsDecode(data) ==
    LET n == Len(data)
        turn[k \in 0 .. n] ==
            IF k = 0 THEN [buffer |-> data, read |-> 1, write |-> 1, valid |-> TRUE]
            ELSE DecodeTurn(turn[k - 1], n)
    IN  IF turn[n].valid THEN SubSeq(turn[n].buffer, 1, turn[n].write - 1) ELSE Invalid

\* Mutant: the loose test that the tool once had.
Cut_Loose(s, data) == s.index + data[s.index] > Len(data) + 2

\* A code byte that points behind the end of the data.
Cut(s, data) == s.index + data[s.index] > Len(data) + 1

\* One turn of the tool's decoder, which builds a new string; a slice stops at
\* the end of the data.
ToolBlock(s, data) ==
    LET code == data[s.index]
        next == s.index + code
        slice == SubSeq(data, s.index + 1, IF next <= Len(data) THEN next - 1 ELSE Len(data))
        zero == IF code # Full /\ next <= Len(data) THEN <<0>> ELSE <<>>
    IN  [out |-> s.out \o slice \o zero, index |-> next, valid |-> TRUE]

ToolTurn(s, data) ==
    IF ~s.valid \/ s.index > Len(data) THEN s
    ELSE IF data[s.index] = 0 \/ Cut(s, data) THEN [s EXCEPT !.valid = FALSE]
    ELSE ToolBlock(s, data)

cobs_decode(data) ==
    LET n == Len(data)
        turn[k \in 0 .. n] ==
            IF k = 0 THEN [out |-> <<>>, index |-> 1, valid |-> TRUE]
            ELSE ToolTurn(turn[k - 1], data)
    IN  IF turn[n].valid THEN turn[n].out ELSE Invalid

-----------------------------------------------------------------------------
(* Frames.                                                                 *)

calculateCrc(data) ==
    LET crc[k \in 0 .. Len(data)] ==
            IF k = 0 THEN 0 ELSE (crc[k - 1] + data[k]) % (Full + 1)
    IN  crc[Len(data)]

\* writeProtocolFrame and encode, without the delimiter.
Frame(p) == LET head == <<Version, Len(p)>> \o p IN Append(head, calculateCrc(head))

\* The reader's tests on a decoded frame, and the payload it returns.
Accepted(f) ==
    /\ f # Invalid
    /\ Len(f) >= Overhead
    /\ Len(f) = Overhead + f[2]
    /\ f[1] = Version
    /\ f[Len(f)] = calculateCrc(SubSeq(f, 1, Len(f) - 1))

PayloadOf(f) == SubSeq(f, 3, Len(f) - 1)

\* decode of fw_protocol.py.
decode(data) ==
    LET f == cobs_decode(data) IN IF Accepted(f) THEN PayloadOf(f) ELSE Invalid

Init ==
    /\ encoded = <<>> /\ noise = 0
    /\ payload \in UNION {[1 .. n -> Bytes] : n \in 0 .. MaxSent}
    /\ wire = <<>> /\ sent = 0
    /\ delivered = Invalid

\* Mutant: a bad frame stays in the buffer.
AtDelimiter_Keep(f) ==
    IF Accepted(f) THEN encoded' = <<>> /\ delivered' = PayloadOf(f)
    ELSE UNCHANGED <<encoded, delivered>>

AtDelimiter(f) ==
    /\ encoded' = <<>>
    /\ delivered' = IF Accepted(f) THEN PayloadOf(f) ELSE delivered

\* Mutant: off by one.
HasRoom_OffByOne == Len(encoded) <= Buffer

HasRoom == Len(encoded) < Buffer

\* One turn of the loop of readProtocolFrame; a frame that is returned leaves
\* an empty buffer to the next call.
readByte(b) ==
    \/ /\ b # 0
       /\ encoded' = IF HasRoom THEN Append(encoded, b) ELSE <<>>
       /\ UNCHANGED delivered
    \/ /\ b = 0
       /\ AtDelimiter(cobsDecode(encoded))

Noise(b) ==
    /\ sent = 0 /\ noise < MaxNoise
    /\ noise' = noise + 1
    /\ readByte(b)
    /\ UNCHANGED <<payload, wire, sent>>

\* The bytes of encode.
Send ==
    /\ wire = <<>> /\ sent < 2
    /\ sent' = sent + 1
    /\ wire' = Append(cobsEncode(Frame(payload)), 0)
    /\ delivered' = Invalid
    /\ UNCHANGED <<encoded, noise, payload>>

Carry ==
    /\ wire # <<>>
    /\ readByte(Head(wire))
    /\ wire' = Tail(wire)
    /\ UNCHANGED <<noise, payload, sent>>

Next == (\E b \in Bytes : Noise(b)) \/ Send \/ Carry

Spec == Init /\ [][Next]_vars

-----------------------------------------------------------------------------
(* Properties.                                                             *)

\* The buffer never overflows, and what is copied to the caller's payload
\* buffer fits it, whatever was received.
TypeOK ==
    /\ encoded \in Seq(Bytes \ {0}) /\ Len(encoded) <= Buffer
    /\ delivered = Invalid \/ (delivered \in Seq(Bytes) /\ Len(delivered) <= MaxPayload)
    /\ sent \in 0 .. 2

\* On every string a line can carry, valid or not, the bootloader's decoder,
\* in place in the receive buffer, and the tool's decoder agree: the same
\* bytes, or both refuse.
DecodersAgree == cobsDecode(encoded) = cobs_decode(encoded)

\* Encoding leaves no delimiter in the frame, fits the buffer, and decoding
\* gives the frame back, on both sides.
RoundTrip ==
    LET f == Frame(payload)
        e == cobsEncode(f)
    IN  /\ \A i \in 1 .. Len(e) : e[i] # 0
        /\ Len(e) <= Buffer
        /\ cobsDecode(e) = f
        /\ decode(e) = payload

\* Whatever was read before, and whatever became of the first copy of a frame
\* that ran into it, the second copy is delivered.
Resync == sent = 2 /\ wire = <<>> => delivered = payload
=============================================================================
