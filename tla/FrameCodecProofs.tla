-------------------------- MODULE FrameCodecProofs ---------------------------
(***************************************************************************)
(* Proofs about FrameCodec: the two COBS decoders agree, decoding undoes   *)
(* encoding, nothing overruns a buffer, and a delimiter is enough to find  *)
(* the next frame, for any block length, buffer and payload.               *)
(***************************************************************************)
EXTENDS FrameCodec, TLAPS, SequenceTheorems, WellFoundedInduction

-----------------------------------------------------------------------------
(* Induction and loops *)

(* Every non-empty set of naturals has a least element.                    *)
LEMMA LeastNatural ==
    ASSUME NEW T \in SUBSET Nat, T # {}
    PROVE  \E x \in T : \A y \in T : x <= y
<1> DEFINE R == OpToRel(<, Nat)
<1>1. PICK x \in T : \A y \in T : ~(<<y, x>> \in R)
  BY WFMin, NatLessThanWellFounded, Zenon
<1>2. ASSUME NEW y \in T PROVE x <= y
  <2>1. ~(y < x)  BY <1>1, Zenon DEF OpToRel
  <2> QED  BY <2>1
<1> QED  BY <1>2, Zenon

(* Induction up to n, over a set.                                          *)
LEMMA Induction ==
    ASSUME NEW n \in Nat, NEW P, 0 \in P, \A k \in 1 .. n : k - 1 \in P => k \in P
    PROVE  \A k \in 0 .. n : k \in P
<1> DEFINE T == {k \in 0 .. n : k \notin P}
<1>1. SUFFICES ASSUME T # {} PROVE FALSE  OBVIOUS
<1>2. T \in SUBSET Nat  OBVIOUS
<1>3. PICK k \in T : \A j \in T : k <= j
  <2> HIDE DEF T
  <2> QED  BY <1>1, <1>2, LeastNatural
<1>4. k \in 0 .. n /\ k \notin P /\ k # 0  OBVIOUS
<1>5. k \in 1 .. n /\ k - 1 \in 0 .. n /\ ~(k <= k - 1)  BY <1>4
<1>6. k - 1 \in P  BY <1>3, <1>5
<1> QED  BY <1>4, <1>5, <1>6

\* The loop f of n turns F that starts in s0.
IsLoop(f, n, S, s0, F) ==
    f \in [0 .. n -> S] /\ f[0] = s0 /\ \A k \in 1 .. n : f[k] = F[k][f[k - 1]]

(* A loop of n turns that keeps its state in S has a run.                  *)
LEMMA LoopExists ==
    ASSUME NEW n \in Nat, NEW S, NEW s0 \in S, NEW F, F \in [1 .. n -> [S -> S]]
    PROVE  \E f : IsLoop(f, n, S, s0, F)
<1> DEFINE Run(f, m) == IsLoop(f, m, S, s0, F)
           P == {m \in 0 .. n : \E f : Run(f, m)}
<1>1. 0 \in P
  <2>1. Run([k \in 0 .. 0 |-> s0], 0)  BY DEF IsLoop
  <2> HIDE DEF Run
  <2> QED  BY <2>1
<1>2. ASSUME NEW k \in 1 .. n, k - 1 \in P PROVE k \in P
  <2>1. PICK f : Run(f, k - 1)  BY <1>2
  <2> DEFINE x == F[k][f[k - 1]]
             g == [j \in 0 .. k |-> IF j = k THEN x ELSE f[j]]
  <2>2. /\ f \in [0 .. k - 1 -> S] /\ f[0] = s0
        /\ \A j \in 1 .. k - 1 : f[j] = F[j][f[j - 1]]
    BY <2>1 DEF IsLoop
  <2>3. k - 1 \in 0 .. k - 1 /\ f[k - 1] \in S  BY <2>2
  <2>4. x \in S  BY <2>3
  <2>5. g \in [0 .. k -> S] /\ g[0] = s0 /\ g[k] = x  BY <2>2, <2>4
  <2>6. \A j \in 0 .. k - 1 : g[j] = f[j]  OBVIOUS
  <2>7. ASSUME NEW j \in 1 .. k PROVE g[j] = F[j][g[j - 1]]
    <3>1. CASE j = k  BY <2>3, <2>5, <2>6, <3>1
    <3>2. CASE j # k
      <4>1. j \in 1 .. k - 1 /\ j \in 0 .. k - 1 /\ j - 1 \in 0 .. k - 1  BY <3>2
      <4> HIDE DEF g, x
      <4> QED  BY <2>2, <2>6, <4>1
    <3> QED  BY <3>1, <3>2
  <2> HIDE DEF g, x
  <2>8. Run(g, k)  BY <2>5, <2>7 DEF IsLoop
  <2> HIDE DEF Run
  <2>9. k \in 0 .. n  OBVIOUS
  <2> QED  BY <2>8, <2>9
<1>3. n \in P
  <2>1. n \in 0 .. n  OBVIOUS
  <2> HIDE DEF P
  <2> QED  BY <1>1, <1>2, <2>1, Induction, Zenon
<1> QED  BY <1>3

(* Concatenation, part by part.                                            *)
LEMMA ConcatParts ==
    ASSUME NEW S, NEW s \in Seq(S), NEW t \in Seq(S)
    PROVE  /\ s \o t \in Seq(S) /\ Len(s \o t) = Len(s) + Len(t)
           /\ \A i \in 1 .. Len(s) : (s \o t)[i] = s[i]
           /\ \A j \in 1 .. Len(t) : (s \o t)[Len(s) + j] = t[j]
<1>1. Len(s) \in Nat /\ Len(t) \in Nat  BY LenProperties
<1> QED  BY <1>1, ConcatProperties

\* v is s, t and u in a row.
Joined(v, s, t, u) ==
    /\ Len(v) = Len(s) + Len(t) + Len(u)
    /\ \A i \in 1 .. Len(s) : v[i] = s[i]
    /\ \A j \in 1 .. Len(t) : v[Len(s) + j] = t[j]
    /\ \A j \in 1 .. Len(u) : v[Len(s) + Len(t) + j] = u[j]

(* The concatenation of three parts.                                       *)
LEMMA ThreeParts ==
    ASSUME NEW S, NEW s \in Seq(S), NEW t \in Seq(S), NEW u \in Seq(S)
    PROVE  s \o t \o u \in Seq(S) /\ Joined(s \o t \o u, s, t, u)
<1> DEFINE x == s \o t
           y == x \o u
<1>1. /\ x \in Seq(S) /\ Len(x) = Len(s) + Len(t)
      /\ \A i \in 1 .. Len(s) : x[i] = s[i]
      /\ \A j \in 1 .. Len(t) : x[Len(s) + j] = t[j]
  BY ConcatParts
<1> HIDE DEF x
<1>2. /\ y \in Seq(S) /\ Len(y) = Len(x) + Len(u)
      /\ \A i \in 1 .. Len(x) : y[i] = x[i]
      /\ \A j \in 1 .. Len(u) : y[Len(x) + j] = u[j]
  <2>1. x \in Seq(S)  BY <1>1
  <2> QED  BY <2>1, ConcatParts
<1>3. Len(s) \in Nat /\ Len(t) \in Nat  BY LenProperties
<1> HIDE DEF y
<1>4. /\ \A i \in 1 .. Len(s) : i \in 1 .. Len(x)
      /\ \A j \in 1 .. Len(t) : Len(s) + j \in 1 .. Len(x)
  BY <1>1, <1>3
<1>5. /\ y \in Seq(S) /\ Len(y) = Len(s) + Len(t) + Len(u)
      /\ \A i \in 1 .. Len(s) : y[i] = s[i]
      /\ \A j \in 1 .. Len(t) : y[Len(s) + j] = t[j]
      /\ \A j \in 1 .. Len(u) : y[Len(s) + Len(t) + j] = u[j]
  BY <1>1, <1>2, <1>4
<1> QED  BY <1>5 DEF x, y, Joined

(* The sizes, without the one that divides.                                *)
LEMMA Sizes ==
    /\ Full \in Nat /\ Full > 1 /\ Buffer \in Nat /\ MaxPayload \in Nat /\ MaxSent \in Nat
    /\ MaxNoise \in Nat /\ MaxSent <= Full /\ Buffer <= MaxPayload + 3
BY CodecAssumption DEF Overhead

-----------------------------------------------------------------------------
(* The bytes of a block move in place *)

(* The source of a move lies behind its destination, so that the bytes of  *)
(* a block arrive unharmed and nothing else changes.                       *)
LEMMA MovedFacts ==
    ASSUME NEW n \in Nat, NEW s, s.buffer \in [1 .. n -> Bytes],
           s.read \in 1 .. n, s.write \in 1 .. s.read,
           s.buffer[s.read] # 0, s.read + s.buffer[s.read] <= n + 1
    PROVE  LET count == s.buffer[s.read] - 1
           IN  Moved(s) = [i \in 1 .. n |->
                   IF s.write <= i /\ i < s.write + count
                   THEN s.buffer[s.read + 1 + (i - s.write)] ELSE s.buffer[i]]
<1> DEFINE b == s.buffer
           r == s.read
           w == s.write
           count == b[r] - 1
           After(k) == [i \in 1 .. n |-> IF w <= i /\ i < w + k THEN b[r + 1 + (i - w)] ELSE b[i]]
           G(h) == [k \in 0 .. count |->
                       IF k = 0 THEN b ELSE [h[k - 1] EXCEPT ![w + k - 1] = h[k - 1][r + k]]]
           f == CHOOSE h : h = G(h)
           g == [k \in 0 .. count |-> After(k)]
<1>1. /\ count \in Nat /\ r \in Nat /\ w \in Nat /\ r >= 1 /\ w >= 1 /\ w <= r
      /\ r + count <= n /\ b \in [1 .. n -> Bytes]
  <2>1. b[r] \in 0 .. Full  BY DEF Bytes
  <2> QED  BY <2>1, Sizes, SMTT(30)
<1>2. Moved(s) = f[count]  BY DEF Moved
<1> HIDE DEF b, r, w, count
<1>3. ASSUME NEW k \in 1 .. count
      PROVE  After(k) = [After(k - 1) EXCEPT ![w + k - 1] = After(k - 1)[r + k]]
  <2>1. /\ r + k \in 1 .. n /\ ~(r + k < w + (k - 1)) /\ w + k - 1 \in 1 .. n
        /\ r + 1 + ((w + k - 1) - w) = r + k
    BY <1>1
  <2>2. After(k - 1)[r + k] = b[r + k]  BY <2>1
  <2>3. ASSUME NEW i \in 1 .. n
        PROVE  After(k)[i] = IF i = w + k - 1 THEN b[r + k] ELSE After(k - 1)[i]
    <3>1. CASE i = w + k - 1  BY <1>1, <2>1, <3>1, SMTT(30)
    <3>2. CASE i # w + k - 1
      <4>1. i < w + k <=> i < w + (k - 1)  BY <1>1, <3>2
      <4> QED  BY <3>2, <4>1
    <3> QED  BY <3>1, <3>2
  <2> DEFINE x == After(k)
             y == After(k - 1)
  <2>4. x \in [1 .. n -> {x[i] : i \in 1 .. n}] /\ DOMAIN x = 1 .. n /\ DOMAIN y = 1 .. n
    OBVIOUS
  <2>5. x = [i \in 1 .. n |-> x[i]]  OBVIOUS
  <2>6. \A i \in 1 .. n : x[i] = IF i = w + k - 1 THEN b[r + k] ELSE y[i]  BY <2>3
  <2>7. y[r + k] = b[r + k]  BY <2>2
  <2> HIDE DEF x, y, After
  <2>8. x = [y EXCEPT ![w + k - 1] = y[r + k]]  BY <2>1, <2>4, <2>5, <2>6, <2>7
  <2> QED  BY <2>8 DEF x, y
<1>4. After(0) = b  BY <1>1
<1> HIDE DEF After
<1>5. g = G(g)
  <2>1. \A k \in 0 .. count : g[k] = After(k)  OBVIOUS
  <2>2. \A k \in 0 .. count : k # 0 => k - 1 \in 0 .. count /\ k \in 1 .. count  BY <1>1
  <2> HIDE DEF g
  <2>3. \A k \in 0 .. count : g[k] = IF k = 0 THEN b
                                     ELSE [g[k - 1] EXCEPT ![w + k - 1] = g[k - 1][r + k]]
    BY <1>3, <1>4, <2>1, <2>2
  <2>4. g = [k \in 0 .. count |-> g[k]]  BY DEF g
  <2> QED  BY <2>3, <2>4
<1>6. f = G(f)
  <2> HIDE DEF g
  <2> QED  BY <1>5
<1> DEFINE P == {k \in 0 .. count : f[k] = After(k)}
<1>7. 0 \in 0 .. count /\ f[0] = b /\ \A k \in 1 .. count :
         f[k] = [f[k - 1] EXCEPT ![w + k - 1] = f[k - 1][r + k]]
  <2>1. 0 \in 0 .. count /\ \A k \in 1 .. count : k \in 0 .. count /\ k # 0  BY <1>1
  <2> HIDE DEF f
  <2>2. \A h : h = G(h) => /\ h[0] = b
                           /\ \A k \in 1 .. count :
                                h[k] = [h[k - 1] EXCEPT ![w + k - 1] = h[k - 1][r + k]]
    BY <2>1
  <2> HIDE DEF G
  <2> QED  BY <1>6, <2>1, <2>2
<1> HIDE DEF f
<1>8. 0 \in P  BY <1>4, <1>7
<1>9. ASSUME NEW k \in 1 .. count, k - 1 \in P PROVE k \in P
  <2>1. f[k] = After(k)  BY <1>3, <1>7, <1>9
  <2> QED  BY <1>1, <2>1
<1>10. count \in P
  <2>1. count \in 0 .. count  BY <1>1
  <2> HIDE DEF P
  <2> QED  BY <1>1, <1>8, <1>9, <2>1, Induction
<1>11. Moved(s) = After(count)  BY <1>2, <1>10
<1> QED  BY <1>11 DEF After, b, r, w, count

-----------------------------------------------------------------------------
(* The bootloader's decoder *)

\* What has not been read is as it was received. The write position is never
\* past the read position, and behind it once everything has been read.
DecoderStates(data) ==
    {s \in [buffer : [1 .. Len(data) -> Bytes], read : 1 .. Len(data) + 1,
            write : 1 .. Len(data) + 1, valid : BOOLEAN] :
        /\ s.write <= s.read
        /\ s.read > Len(data) /\ s.read > 1 => s.write < s.read
        /\ \A i \in s.read .. Len(data) : s.buffer[i] = data[i]}

DecoderStart(data) == [buffer |-> data, read |-> 1, write |-> 1, valid |-> TRUE]

(* A good block is appended to what has been decoded.                      *)
LEMMA BlockFacts ==
    ASSUME NEW data \in Seq(Bytes), NEW s \in DecoderStates(data),
           s.valid, s.read <= Len(data), data[s.read] # 0,
           s.read + data[s.read] <= Len(data) + 1
    PROVE  LET t == DecodeTurn(s, Len(data))
               code == data[s.read]
               zero == code # Full /\ s.read + code <= Len(data)
           IN  /\ t \in DecoderStates(data) /\ t.valid
               /\ t.read = s.read + code
               /\ t.write = s.write + (code - 1) + (IF zero THEN 1 ELSE 0)
               /\ \A i \in 1 .. s.write - 1 : t.buffer[i] = s.buffer[i]
               /\ \A j \in 1 .. code - 1 : t.buffer[s.write + j - 1] = data[s.read + j]
               /\ zero => t.buffer[s.write + code - 1] = 0
<1> DEFINE n == Len(data)
           b == s.buffer
           r == s.read
           w == s.write
           code == data[r]
           zero == code # Full /\ r + code <= n
           m == [i \in 1 .. n |-> IF w <= i /\ i < w + (code - 1) THEN b[r + 1 + (i - w)] ELSE b[i]]
           t == DecodeTurn(s, n)
           c == IF zero THEN [m EXCEPT ![w + (code - 1)] = 0] ELSE m
<1>1. /\ n \in Nat /\ b \in [1 .. n -> Bytes] /\ r \in 1 .. n /\ w \in 1 .. r
      /\ \A i \in r .. n : b[i] = data[i]
  BY LenProperties DEF DecoderStates
<1>2. /\ b[r] = code /\ code \in Bytes /\ code \in 1 .. Full /\ r + code <= n + 1
  <2>1. b[r] = code /\ b[r] \in Bytes  BY <1>1
  <2> QED  BY <2>1, Sizes DEF Bytes
<1>3. Moved(s) = m
  <2>1. /\ s.buffer[s.read] # 0 /\ s.read + s.buffer[s.read] <= n + 1
        /\ s.buffer \in [1 .. n -> Bytes] /\ s.read \in 1 .. n /\ s.write \in 1 .. s.read
    BY <1>1, <1>2, Sizes
  <2>2. code - 1 = s.buffer[s.read] - 1  BY <1>2
  <2> HIDE DEF n, code
  <2>3. Moved(s) = [i \in 1 .. n |->
            IF s.write <= i /\ i < s.write + (s.buffer[s.read] - 1)
            THEN s.buffer[s.read + 1 + (i - s.write)] ELSE s.buffer[i]]
    BY <1>1, <2>1, MovedFacts
  <2> QED  BY <2>2, <2>3
<1>4. ~Truncated(s, n)  BY <1>1, <1>2, Sizes DEF Truncated
<1>5. t = [buffer |-> c, read |-> r + code,
           write |-> IF zero THEN w + (code - 1) + 1 ELSE w + (code - 1), valid |-> TRUE]
  <2>1. ~(s.read > n)  BY <1>1
  <2>2. t = DecodeBlock(s, n)  BY <1>2, <1>4, <2>1 DEF DecodeTurn
  <2> HIDE DEF m
  <2> QED  BY <1>2, <1>3, <2>2 DEF DecodeBlock
<1>6. m \in [1 .. n -> Bytes]
  <2> HIDE DEF b, r, w, code, n
  <2>1. ASSUME NEW i \in 1 .. n, w <= i, i < w + (code - 1) PROVE r + 1 + (i - w) \in 1 .. n
    BY <1>1, <1>2, <2>1, Sizes
  <2>2. ASSUME NEW i \in 1 .. n PROVE m[i] \in Bytes  BY <1>1, <2>1
  <2> QED  BY <2>2
<1>7. zero => w + (code - 1) \in 1 .. n /\ w + (code - 1) < r + code  BY <1>1, <1>2, Sizes
<1>8. 0 \in Bytes  BY Sizes DEF Bytes
<1>9. /\ c \in [1 .. n -> Bytes]
      /\ \A i \in 1 .. n : c[i] = IF zero /\ i = w + (code - 1) THEN 0 ELSE m[i]
  <2> HIDE DEF m, zero, code
  <2> QED  BY <1>6, <1>7, <1>8
<1>10. \A i \in 1 .. w - 1 : c[i] = b[i]
  <2> HIDE DEF b, r, w, code, n
  <2> TAKE i \in 1 .. w - 1
  <2>1. i \in 1 .. n /\ ~(w <= i) /\ i # w + (code - 1)  BY <1>1, <1>2, Sizes
  <2>2. m[i] = b[i]  BY <2>1
  <2> HIDE DEF c, m
  <2> QED  BY <1>9, <2>1, <2>2
<1>11. \A j \in 1 .. code - 1 : c[w + j - 1] = data[r + j]
  <2> HIDE DEF b, r, w, code, n
  <2> TAKE j \in 1 .. code - 1
  <2> DEFINE i == w + j - 1
  <2>1. /\ i \in 1 .. n /\ w <= i /\ i < w + (code - 1) /\ i # w + (code - 1)
        /\ r + 1 + (i - w) = r + j /\ r + j \in r .. n
    BY <1>1, <1>2, Sizes
  <2>2. m[i] = b[r + j]  BY <2>1
  <2> HIDE DEF c, m
  <2>3. c[i] = m[i]
    <3> HIDE DEF i
    <3> QED  BY <1>9, <2>1
  <2> QED  BY <1>1, <2>1, <2>2, <2>3
<1>12. \A i \in r + code .. n : c[i] = data[i]
  <2> HIDE DEF b, r, w, code, n
  <2> TAKE i \in r + code .. n
  <2>1. i \in 1 .. n /\ ~(i < w + (code - 1)) /\ i # w + (code - 1) /\ i \in r .. n
    BY <1>1, <1>2, Sizes
  <2>2. m[i] = b[i]  BY <2>1
  <2> HIDE DEF c, m
  <2> QED  BY <1>1, <1>9, <2>1, <2>2
<1>13. zero => c[w + code - 1] = 0
  <2>1. w + code - 1 = w + (code - 1)  BY <1>1, <1>2, Sizes
  <2> HIDE DEF c, m
  <2> QED  BY <1>7, <1>9, <2>1
<1> HIDE DEF c, m
<1>14. /\ t.buffer = c /\ t.read = r + code /\ t.valid = TRUE
       /\ t.write = w + (code - 1) + (IF zero THEN 1 ELSE 0)
  <2> HIDE DEF code, w, r, t
  <2>1. /\ t.buffer = c /\ t.read = r + code /\ t.valid = TRUE
        /\ t.write = IF zero THEN w + (code - 1) + 1 ELSE w + (code - 1)
    BY <1>5
  <2>2. w + (code - 1) \in Int  BY <1>1, <1>2
  <2> QED  BY <2>1, <2>2
<1>15. t \in [buffer : [1 .. n -> Bytes], read : 1 .. n + 1, write : 1 .. n + 1, valid : BOOLEAN]
  <2> HIDE DEF code, w, r, n, t
  <2>1. /\ r + code \in 1 .. n + 1
        /\ (IF zero THEN w + (code - 1) + 1 ELSE w + (code - 1)) \in 1 .. n + 1
    BY <1>1, <1>2, Sizes
  <2> HIDE DEF code, w, r, n, zero, t
  <2> QED  BY <1>5, <1>9, <2>1
<1>16. (t.read > n => t.write < t.read) /\ t.write <= t.read
  <2> HIDE DEF t, code, w, r, n
  <2> QED  BY <1>1, <1>2, <1>14, Sizes
<1>17. t \in DecoderStates(data)
  <2> HIDE DEF t
  <2> QED  BY <1>12, <1>14, <1>15, <1>16 DEF DecoderStates
<1> HIDE DEF t
<1> QED  BY <1>10, <1>11, <1>13, <1>14, <1>17 DEF t

(* Other turns change nothing but the verdict.                             *)
LEMMA OtherTurn ==
    ASSUME NEW data \in Seq(Bytes), NEW s \in DecoderStates(data)
    PROVE  /\ ~s.valid \/ s.read > Len(data) => DecodeTurn(s, Len(data)) = s
           /\ (/\ s.valid /\ s.read <= Len(data)
               /\ data[s.read] = 0 \/ s.read + data[s.read] > Len(data) + 1) =>
                  DecodeTurn(s, Len(data)) = [s EXCEPT !.valid = FALSE]
<1> DEFINE n == Len(data)
<1>1. /\ n \in Nat /\ s.read \in 1 .. n + 1
      /\ \A i \in s.read .. n : s.buffer[i] = data[i]
  BY LenProperties DEF DecoderStates
<1>2. ~s.valid \/ s.read > n => DecodeTurn(s, n) = s  BY DEF DecodeTurn
<1>3. ASSUME s.valid, s.read <= n, data[s.read] = 0 \/ s.read + data[s.read] > n + 1
      PROVE  DecodeTurn(s, n) = [s EXCEPT !.valid = FALSE]
  <2>1. s.buffer[s.read] = data[s.read] /\ ~(s.read > n)  BY <1>1, <1>3
  <2> QED  BY <1>3, <2>1 DEF DecodeTurn, Truncated
<1> QED  BY <1>2, <1>3

(* A turn keeps the shape of the state.                                    *)
LEMMA DecodeTurnType ==
    ASSUME NEW data \in Seq(Bytes), NEW s \in DecoderStates(data)
    PROVE  DecodeTurn(s, Len(data)) \in DecoderStates(data)
<1>1. CASE ~s.valid \/ s.read > Len(data)  BY <1>1, OtherTurn
<1>2. CASE /\ s.valid /\ s.read <= Len(data)
           /\ data[s.read] = 0 \/ s.read + data[s.read] > Len(data) + 1
  <2>1. DecodeTurn(s, Len(data)) = [s EXCEPT !.valid = FALSE]  BY <1>2, OtherTurn
  <2> QED  BY <2>1 DEF DecoderStates
<1>3. CASE /\ s.valid /\ s.read <= Len(data)
           /\ data[s.read] # 0 /\ ~(s.read + data[s.read] > Len(data) + 1)
  <2>1. Len(data) \in Nat /\ s.read \in 1 .. Len(data)  BY <1>3, LenProperties DEF DecoderStates
  <2>2. data[s.read] \in 0 .. Full  BY <2>1, ElementOfSeq DEF Bytes
  <2>3. s.read + data[s.read] <= Len(data) + 1  BY <1>3, <2>1, <2>2, Sizes
  <2> QED  BY <1>3, <2>3, BlockFacts
<1>4. Len(data) \in Nat /\ s.read \in Int /\ s.valid \in BOOLEAN
  BY LenProperties DEF DecoderStates
<1> QED  BY <1>1, <1>2, <1>3, <1>4

(* The turns of cobsDecode.                                                *)
LEMMA CobsDecodeRun ==
    ASSUME NEW data \in Seq(Bytes)
    PROVE  \E f \in [0 .. Len(data) -> DecoderStates(data)] :
               /\ f[0] = DecoderStart(data)
               /\ \A k \in 1 .. Len(data) : f[k] = DecodeTurn(f[k - 1], Len(data))
               /\ cobsDecode(data) =
                      IF f[Len(data)].valid
                      THEN SubSeq(f[Len(data)].buffer, 1, f[Len(data)].write - 1)
                      ELSE Invalid
<1> DEFINE n == Len(data)
           S == DecoderStates(data)
           s0 == [buffer |-> data, read |-> 1, write |-> 1, valid |-> TRUE]
           Turn(s) == DecodeTurn(s, n)
           G(h) == [k \in 0 .. n |-> IF k = 0 THEN s0 ELSE Turn(h[k - 1])]
           F == [k \in 1 .. n |-> [s \in S |-> Turn(s)]]
           f == CHOOSE h : h = G(h)
<1>1. n \in Nat /\ data \in [1 .. n -> Bytes]  BY LenProperties
<1>2. s0 \in S  BY <1>1 DEF DecoderStates
<1>3. cobsDecode(data) = IF f[n].valid THEN SubSeq(f[n].buffer, 1, f[n].write - 1) ELSE Invalid
  BY DEF cobsDecode
<1>4. \A s \in S : Turn(s) \in S  BY DecodeTurnType
<1>5. s0 = DecoderStart(data)  BY DEF DecoderStart
<1> HIDE DEF n, S, s0, Turn
<1>6. F \in [1 .. n -> [S -> S]]  BY <1>4
<1>7. \E h : h = G(h)
  <2>1. PICK h : IsLoop(h, n, S, s0, F)
    <3> HIDE DEF F
    <3>1. n \in Nat  BY <1>1
    <3> QED  BY <1>2, <1>6, <3>1, LoopExists, Zenon
  <2>2. h \in [0 .. n -> S] /\ h[0] = s0 /\ \A k \in 1 .. n : h[k] = F[k][h[k - 1]]
    BY <2>1 DEF IsLoop
  <2>3. ASSUME NEW k \in 1 .. n PROVE h[k] = Turn(h[k - 1])
    <3>1. k - 1 \in 0 .. n  BY <1>1
    <3> QED  BY <2>2, <3>1
  <2>4. h = G(h)
    <3>1. \A k \in 0 .. n : k # 0 => k \in 1 .. n  BY <1>1
    <3> HIDE DEF F
    <3> QED  BY <2>2, <2>3, <3>1
  <2> QED  BY <2>4
<1>8. f = G(f)  BY <1>7
<1> HIDE DEF f
<1>9. f[0] = s0 /\ \A k \in 1 .. n : f[k] = Turn(f[k - 1])  BY <1>1, <1>8
<1> DEFINE P == {k \in 0 .. n : f[k] \in S}
<1>10. 0 \in P /\ \A k \in 1 .. n : k - 1 \in P => k \in P  BY <1>1, <1>2, <1>4, <1>9
<1>11. \A k \in 0 .. n : k \in P
  <2> HIDE DEF P
  <2> QED  BY <1>1, <1>10, Induction
<1>12. f \in [0 .. n -> S]  BY <1>8, <1>11
<1> QED  BY <1>3, <1>5, <1>9, <1>12 DEF n, S, Turn

-----------------------------------------------------------------------------
(* The tool's decoder *)

ToolStates(data) == [out : Seq(Bytes), index : 1 .. Len(data) + 1, valid : BOOLEAN]

ToolStart == [out |-> <<>>, index |-> 1, valid |-> TRUE]

(* A good block is appended to what has been decoded.                      *)
LEMMA ToolBlockFacts ==
    ASSUME NEW data \in Seq(Bytes), NEW s \in ToolStates(data),
           s.valid, s.index <= Len(data), data[s.index] # 0,
           s.index + data[s.index] <= Len(data) + 1
    PROVE  LET t == ToolTurn(s, data)
               code == data[s.index]
               zero == code # Full /\ s.index + code <= Len(data)
           IN  /\ t \in ToolStates(data) /\ t.valid
               /\ t.index = s.index + code
               /\ Len(t.out) = Len(s.out) + (code - 1) + (IF zero THEN 1 ELSE 0)
               /\ \A i \in 1 .. Len(s.out) : t.out[i] = s.out[i]
               /\ \A j \in 1 .. code - 1 : t.out[Len(s.out) + j] = data[s.index + j]
               /\ zero => t.out[Len(s.out) + code] = 0
<1> DEFINE n == Len(data)
           r == s.index
           code == data[r]
           zero == code # Full /\ r + code <= n
           t == ToolTurn(s, data)
           slice == SubSeq(data, r + 1, IF r + code <= n THEN (r + code) - 1 ELSE n)
           z == IF zero THEN <<0>> ELSE <<>>
           o == s.out
<1>1. n \in Nat /\ r \in 1 .. n /\ o \in Seq(Bytes) /\ Len(o) \in Nat
  BY LenProperties DEF ToolStates
<1>2. code \in Bytes /\ code \in 1 .. Full /\ r + code <= n + 1
  <2>1. code \in Bytes  BY <1>1, ElementOfSeq
  <2> QED  BY <2>1, Sizes DEF Bytes
<1>3. t = [out |-> o \o slice \o z, index |-> r + code, valid |-> TRUE]
  <2>1. ~(s.index > n) /\ ~Cut(s, data) /\ code # 0  BY <1>1, <1>2, Sizes DEF Cut
  <2>2. t = ToolBlock(s, data)  BY <2>1 DEF ToolTurn
  <2>3. ToolBlock(s, data) = [out |-> o \o slice \o z, index |-> r + code, valid |-> TRUE]
    BY DEF ToolBlock
  <2> QED  BY <2>2, <2>3
<1>4. slice = SubSeq(data, r + 1, r + code - 1)
  <2> HIDE DEF r, code, n
  <2>1. (IF r + code <= n THEN (r + code) - 1 ELSE n) = r + code - 1  BY <1>1, <1>2, Sizes
  <2> QED  BY <2>1
<1>5. slice \in Seq(Bytes) /\ Len(slice) = code - 1 /\ \A j \in 1 .. code - 1 : slice[j] = data[r + j]
  <2> HIDE DEF slice, r, code, n
  <2>1. \A i \in r + 1 .. r + code - 1 : i \in 1 .. n  BY <1>1, <1>2, Sizes
  <2>2. r + 1 \in 1 .. n + 1 /\ r + code - 1 \in r .. n  BY <1>1, <1>2, Sizes
  <2>3. \A i \in r + 1 .. r + code - 1 : data[i] \in Bytes  BY <2>1, ElementOfSeq DEF n
  <2>4. r + 1 \in Int /\ r + code - 1 \in Int  BY <2>2
  <2>5. /\ slice \in Seq(Bytes)
        /\ Len(slice) = IF r + 1 <= r + code - 1 THEN (r + code - 1) - (r + 1) + 1 ELSE 0
        /\ \A j \in 1 .. (r + code - 1) - (r + 1) + 1 : slice[j] = data[r + 1 + j - 1]
    BY <1>4, <2>3, <2>4, SubSeqProperties
  <2> QED  BY <1>1, <1>2, <2>5, Sizes
<1>6. z \in Seq(Bytes) /\ Len(z) = (IF zero THEN 1 ELSE 0) /\ (zero => z[1] = 0)
  <2>1. 0 \in Bytes  BY Sizes DEF Bytes
  <2> HIDE DEF zero
  <2> QED  BY <2>1
<1> DEFINE y == o \o slice \o z
<1> HIDE DEF o, slice, z, r, code, n
<1>7. /\ y \in Seq(Bytes) /\ Len(y) = Len(o) + Len(slice) + Len(z)
      /\ \A i \in 1 .. Len(o) : y[i] = o[i]
      /\ \A j \in 1 .. Len(slice) : y[Len(o) + j] = slice[j]
      /\ \A j \in 1 .. Len(z) : y[Len(o) + Len(slice) + j] = z[j]
  <2>1. o \in Seq(Bytes) /\ slice \in Seq(Bytes) /\ z \in Seq(Bytes)  BY <1>1, <1>5, <1>6
  <2>2. y \in Seq(Bytes) /\ Joined(y, o, slice, z)  BY <2>1, ThreeParts, Zenon
  <2> QED  BY <2>2 DEF Joined
<1> HIDE DEF y
<1>8. /\ \A i \in 1 .. Len(o) : y[i] = o[i]
      /\ \A j \in 1 .. code - 1 : y[Len(o) + j] = data[r + j]
  BY <1>5, <1>7
<1>9. zero => y[Len(o) + code] = 0
  <2>1. Len(o) + Len(slice) + 1 = Len(o) + code  BY <1>1, <1>2, <1>5, Sizes
  <2>2. zero => 1 \in 1 .. Len(z)  BY <1>6
  <2> QED  BY <1>6, <1>7, <2>1, <2>2
<1>11. /\ t = [out |-> y, index |-> r + code, valid |-> TRUE]
       /\ r + code \in 1 .. n + 1
       /\ Len(y) = Len(o) + (code - 1) + (IF zero THEN 1 ELSE 0)
  <2>1. r + code \in 1 .. n + 1  BY <1>1, <1>2, Sizes
  <2>2. t = [out |-> y, index |-> r + code, valid |-> TRUE]  BY <1>3 DEF y
  <2> HIDE DEF zero, t
  <2> QED  BY <1>5, <1>6, <1>7, <2>1, <2>2
<1>12. t \in ToolStates(data) /\ t.valid /\ t.index = r + code /\ t.out = y
  <2> HIDE DEF t, zero
  <2> QED  BY <1>7, <1>11 DEF ToolStates, n
<1> QED  BY <1>8, <1>9, <1>11, <1>12 DEF n, o, r, code

(* Other turns change nothing but the verdict.                             *)
LEMMA ToolOtherTurn ==
    ASSUME NEW data \in Seq(Bytes), NEW s \in ToolStates(data)
    PROVE  /\ ~s.valid \/ s.index > Len(data) => ToolTurn(s, data) = s
           /\ (/\ s.valid /\ s.index <= Len(data)
               /\ data[s.index] = 0 \/ s.index + data[s.index] > Len(data) + 1) =>
                  ToolTurn(s, data) = [s EXCEPT !.valid = FALSE]
<1>1. ~s.valid \/ s.index > Len(data) => ToolTurn(s, data) = s  BY DEF ToolTurn
<1>2. ASSUME s.valid, s.index <= Len(data),
             data[s.index] = 0 \/ s.index + data[s.index] > Len(data) + 1
      PROVE  ToolTurn(s, data) = [s EXCEPT !.valid = FALSE]
  <2>1. ~(s.index > Len(data))  BY <1>2, LenProperties DEF ToolStates
  <2> QED  BY <1>2, <2>1 DEF ToolTurn, Cut
<1> QED  BY <1>1, <1>2

(* A turn keeps the shape of the state.                                    *)
LEMMA ToolTurnType ==
    ASSUME NEW data \in Seq(Bytes), NEW s \in ToolStates(data)
    PROVE  ToolTurn(s, data) \in ToolStates(data)
<1>1. CASE ~s.valid \/ s.index > Len(data)  BY <1>1, ToolOtherTurn
<1>2. CASE /\ s.valid /\ s.index <= Len(data)
           /\ data[s.index] = 0 \/ s.index + data[s.index] > Len(data) + 1
  <2>1. ToolTurn(s, data) = [s EXCEPT !.valid = FALSE]  BY <1>2, ToolOtherTurn
  <2> QED  BY <2>1 DEF ToolStates
<1>3. CASE /\ s.valid /\ s.index <= Len(data)
           /\ data[s.index] # 0 /\ ~(s.index + data[s.index] > Len(data) + 1)
  <2>1. Len(data) \in Nat /\ s.index \in 1 .. Len(data)  BY <1>3, LenProperties DEF ToolStates
  <2>2. data[s.index] \in 0 .. Full  BY <2>1, ElementOfSeq DEF Bytes
  <2>3. s.index + data[s.index] <= Len(data) + 1  BY <1>3, <2>1, <2>2, Sizes
  <2> QED  BY <1>3, <2>3, ToolBlockFacts
<1>4. Len(data) \in Nat /\ s.index \in Int /\ s.valid \in BOOLEAN
  BY LenProperties DEF ToolStates
<1> QED  BY <1>1, <1>2, <1>3, <1>4

(* The turns of cobs_decode.                                               *)
LEMMA ToolDecodeRun ==
    ASSUME NEW data \in Seq(Bytes)
    PROVE  \E f \in [0 .. Len(data) -> ToolStates(data)] :
               /\ f[0] = ToolStart
               /\ \A k \in 1 .. Len(data) : f[k] = ToolTurn(f[k - 1], data)
               /\ cobs_decode(data) = IF f[Len(data)].valid THEN f[Len(data)].out ELSE Invalid
<1> DEFINE n == Len(data)
           S == ToolStates(data)
           s0 == [out |-> <<>>, index |-> 1, valid |-> TRUE]
           Turn(s) == ToolTurn(s, data)
           G(h) == [k \in 0 .. n |-> IF k = 0 THEN s0 ELSE Turn(h[k - 1])]
           F == [k \in 1 .. n |-> [s \in S |-> Turn(s)]]
           f == CHOOSE h : h = G(h)
<1>1. n \in Nat  BY LenProperties
<1>2. s0 \in S  BY <1>1 DEF ToolStates
<1>3. cobs_decode(data) = IF f[n].valid THEN f[n].out ELSE Invalid
  BY DEF cobs_decode
<1>4. \A s \in S : Turn(s) \in S  BY ToolTurnType
<1>5. s0 = ToolStart  BY DEF ToolStart
<1> HIDE DEF n, S, s0, Turn
<1>6. F \in [1 .. n -> [S -> S]]  BY <1>4
<1>7. \E h : h = G(h)
  <2>1. PICK h : IsLoop(h, n, S, s0, F)
    <3> HIDE DEF F
    <3> QED  BY <1>1, <1>2, <1>6, LoopExists, Zenon
  <2>2. h \in [0 .. n -> S] /\ h[0] = s0 /\ \A k \in 1 .. n : h[k] = F[k][h[k - 1]]
    BY <2>1 DEF IsLoop
  <2>3. ASSUME NEW k \in 1 .. n PROVE h[k] = Turn(h[k - 1])
    <3>1. k - 1 \in 0 .. n  BY <1>1
    <3> QED  BY <2>2, <3>1
  <2>4. h = G(h)
    <3>1. \A k \in 0 .. n : k # 0 => k \in 1 .. n  BY <1>1
    <3> HIDE DEF F
    <3> QED  BY <2>2, <2>3, <3>1
  <2> QED  BY <2>4
<1>8. f = G(f)  BY <1>7
<1> HIDE DEF f
<1>9. f[0] = s0 /\ \A k \in 1 .. n : f[k] = Turn(f[k - 1])  BY <1>1, <1>8
<1> DEFINE P == {k \in 0 .. n : f[k] \in S}
<1>10. 0 \in P /\ \A k \in 1 .. n : k - 1 \in P => k \in P  BY <1>1, <1>2, <1>4, <1>9
<1>11. \A k \in 0 .. n : k \in P
  <2> HIDE DEF P
  <2> QED  BY <1>1, <1>10, Induction
<1>12. f \in [0 .. n -> S]  BY <1>8, <1>11
<1> QED  BY <1>3, <1>5, <1>9, <1>12 DEF n, S, Turn

-----------------------------------------------------------------------------
(* The two decoders in lockstep *)

\* The tool's string is the part of the buffer that has been written.
Same(s, t) ==
    /\ s.valid <=> t.valid
    /\ s.read = t.index
    /\ Len(t.out) = s.write - 1
    /\ \A i \in 1 .. Len(t.out) : t.out[i] = s.buffer[i]

(* A turn of both keeps them the same.                                     *)
LEMMA SameTurn ==
    ASSUME NEW data \in Seq(Bytes), NEW s \in DecoderStates(data), NEW t \in ToolStates(data),
           Same(s, t)
    PROVE  Same(DecodeTurn(s, Len(data)), ToolTurn(t, data))
<1> DEFINE n == Len(data)
           u == DecodeTurn(s, n)
           v == ToolTurn(t, data)
<1>1. /\ n \in Nat /\ s.read \in 1 .. n + 1 /\ s.write \in 1 .. n + 1 /\ s.read = t.index
      /\ Len(t.out) = s.write - 1 /\ Len(t.out) \in Nat
      /\ \A i \in 1 .. Len(t.out) : t.out[i] = s.buffer[i]
  BY LenProperties DEF DecoderStates, ToolStates, Same
<1>2. s.valid \in BOOLEAN /\ t.valid \in BOOLEAN /\ (s.valid <=> t.valid)
  BY DEF DecoderStates, ToolStates, Same
<1>3. CASE ~s.valid \/ s.read > n
  <2>1. u = s  BY <1>3, OtherTurn
  <2>2. ~t.valid \/ t.index > n  BY <1>1, <1>2, <1>3
  <2>3. v = t  BY <2>2, ToolOtherTurn
  <2> QED  BY <2>1, <2>3
<1>4. CASE /\ s.valid /\ s.read <= n
           /\ data[s.read] = 0 \/ s.read + data[s.read] > n + 1
  <2>1. u = [s EXCEPT !.valid = FALSE]  BY <1>4, OtherTurn
  <2>2. /\ t.valid /\ t.index <= n
        /\ data[t.index] = 0 \/ t.index + data[t.index] > n + 1
    BY <1>1, <1>2, <1>4
  <2>3. v = [t EXCEPT !.valid = FALSE]  BY <2>2, ToolOtherTurn
  <2>4. /\ ~u.valid /\ u.read = s.read /\ u.write = s.write /\ u.buffer = s.buffer
    BY <2>1 DEF DecoderStates
  <2>5. ~v.valid /\ v.index = t.index /\ v.out = t.out
    BY <2>3 DEF ToolStates
  <2> HIDE DEF u, v
  <2>6. Same(u, v)  BY <1>1, <2>4, <2>5 DEF Same
  <2> QED  BY <2>6 DEF u, v
<1>5. CASE /\ s.valid /\ s.read <= n
           /\ data[s.read] # 0 /\ ~(s.read + data[s.read] > n + 1)
  <2> DEFINE code == data[s.read]
             zero == code # Full /\ s.read + code <= n
  <2>1. s.read \in 1 .. n  BY <1>1, <1>5
  <2>2. code \in 0 .. Full  BY <2>1, ElementOfSeq DEF Bytes
  <2>3. code \in 1 .. Full /\ s.read + code <= n + 1  BY <1>1, <1>5, <2>2, Sizes
  <2>4. /\ u.valid /\ u.read = s.read + code
        /\ u.write = s.write + (code - 1) + (IF zero THEN 1 ELSE 0)
        /\ \A i \in 1 .. s.write - 1 : u.buffer[i] = s.buffer[i]
        /\ \A j \in 1 .. code - 1 : u.buffer[s.write + j - 1] = data[s.read + j]
        /\ zero => u.buffer[s.write + code - 1] = 0
    BY <1>5, <2>3, BlockFacts
  <2>5. t.valid /\ t.index <= n /\ data[t.index] # 0 /\ t.index + data[t.index] <= n + 1
    BY <1>1, <1>2, <1>5, <2>3
  <2>6. /\ v.valid /\ v.index = s.read + code
        /\ Len(v.out) = Len(t.out) + (code - 1) + (IF zero THEN 1 ELSE 0)
        /\ \A i \in 1 .. Len(t.out) : v.out[i] = t.out[i]
        /\ \A j \in 1 .. code - 1 : v.out[Len(t.out) + j] = data[s.read + j]
        /\ zero => v.out[Len(t.out) + code] = 0
    <3> DEFINE c == data[t.index]
               z == c # Full /\ t.index + c <= n
    <3>1. /\ v.valid /\ v.index = t.index + c
          /\ Len(v.out) = Len(t.out) + (c - 1) + (IF z THEN 1 ELSE 0)
          /\ \A i \in 1 .. Len(t.out) : v.out[i] = t.out[i]
          /\ \A j \in 1 .. c - 1 : v.out[Len(t.out) + j] = data[t.index + j]
          /\ z => v.out[Len(t.out) + c] = 0
      BY <2>5, ToolBlockFacts
    <3>2. t.index = s.read /\ c = code /\ (z <=> zero)  BY <1>1
    <3> HIDE DEF v, c, z, code, zero
    <3> QED  BY <3>1, <3>2
  <2> HIDE DEF u, v, code, n
  <2>7. Len(v.out) = u.write - 1  BY <1>1, <2>3, <2>4, <2>6, Sizes
  <2>8. ASSUME NEW i \in 1 .. Len(v.out) PROVE v.out[i] = u.buffer[i]
    <3>1. CASE i <= Len(t.out)
      <4>1. i \in 1 .. Len(t.out) /\ i \in 1 .. s.write - 1  BY <1>1, <3>1
      <4> QED  BY <1>1, <2>4, <2>6, <4>1
    <3>2. CASE i > Len(t.out) /\ i <= Len(t.out) + (code - 1)
      <4> DEFINE j == i - Len(t.out)
      <4>1. j \in 1 .. code - 1 /\ i = Len(t.out) + j /\ i = s.write + j - 1
        <5> DEFINE L == Len(t.out)
                   w == s.write
        <5>1. i \in Int /\ L \in Int /\ w = L + 1 /\ code \in Int  BY <1>1, <2>3
        <5>2. i > L /\ i <= L + (code - 1)  BY <3>2
        <5>3. j = i - L  OBVIOUS
        <5> HIDE DEF L, w, j
        <5>4. j \in 1 .. code - 1  BY <5>1, <5>2, <5>3
        <5>5. i = L + j /\ i = w + j - 1  BY <5>1, <5>3
        <5> QED  BY <5>4, <5>5 DEF L, w
      <4> HIDE DEF j
      <4> QED  BY <2>4, <2>6, <4>1
    <3>3. CASE i > Len(t.out) + (code - 1)
      <4>1. zero /\ i = Len(t.out) + code /\ i = s.write + code - 1
        BY <1>1, <2>3, <2>6, <3>3, Sizes
      <4> QED  BY <2>4, <2>6, <4>1
    <3> QED  BY <1>1, <2>3, <3>1, <3>2, <3>3, Sizes, SMTT(30)
  <2>9. Same(u, v)  BY <2>4, <2>6, <2>7, <2>8 DEF Same
  <2> QED  BY <2>9 DEF u, v, n
<1> QED  BY <1>1, <1>2, <1>3, <1>4, <1>5

(* The two decoders agree on every string of bytes.                        *)
LEMMA SameDecoders ==
    ASSUME NEW data \in Seq(Bytes)
    PROVE  cobsDecode(data) = cobs_decode(data)
<1> DEFINE n == Len(data)
<1>1. n \in Nat /\ n \in 0 .. n /\ 0 \in 0 .. n /\ data \in [1 .. n -> Bytes]  BY LenProperties
<1>2. PICK f \in [0 .. n -> DecoderStates(data)] :
          /\ f[0] = DecoderStart(data)
          /\ \A k \in 1 .. n : f[k] = DecodeTurn(f[k - 1], n)
          /\ cobsDecode(data) = IF f[n].valid THEN SubSeq(f[n].buffer, 1, f[n].write - 1)
                                ELSE Invalid
  BY CobsDecodeRun
<1>3. PICK g \in [0 .. n -> ToolStates(data)] :
          /\ g[0] = ToolStart
          /\ \A k \in 1 .. n : g[k] = ToolTurn(g[k - 1], data)
          /\ cobs_decode(data) = IF g[n].valid THEN g[n].out ELSE Invalid
  BY ToolDecodeRun
<1> DEFINE P == {k \in 0 .. n : Same(f[k], g[k])}
<1>4. Same(f[0], g[0])  BY <1>2, <1>3 DEF Same, DecoderStart, ToolStart
<1>5. ASSUME NEW k \in 1 .. n, Same(f[k - 1], g[k - 1]) PROVE Same(f[k], g[k])
  <2>1. k - 1 \in 0 .. n  BY <1>1
  <2>2. f[k - 1] \in DecoderStates(data) /\ g[k - 1] \in ToolStates(data)  BY <2>1
  <2>3. Same(DecodeTurn(f[k - 1], n), ToolTurn(g[k - 1], data))  BY <1>5, <2>2, SameTurn
  <2>4. f[k] = DecodeTurn(f[k - 1], n) /\ g[k] = ToolTurn(g[k - 1], data)  BY <1>2, <1>3
  <2> QED  BY <2>3, <2>4
<1>6. 0 \in P /\ \A k \in 1 .. n : k - 1 \in P => k \in P
  <2>1. \A k \in 1 .. n : k \in 0 .. n  OBVIOUS
  <2> HIDE DEF n
  <2> QED  BY <1>1, <1>4, <1>5, <2>1
<1>7. Same(f[n], g[n])
  <2>1. n \in P
    <3> HIDE DEF P
    <3> QED  BY <1>1, <1>6, Induction
  <2> QED  BY <2>1
<1> DEFINE s == f[n]
           t == g[n]
<1>8. s \in DecoderStates(data) /\ t \in ToolStates(data)  BY <1>1
<1> HIDE DEF s, t
<1>9. SubSeq(s.buffer, 1, s.write - 1) = t.out
  <2> DEFINE w == s.write - 1
             x == SubSeq(s.buffer, 1, w)
  <2>1. /\ w \in 0 .. n /\ s.buffer \in [1 .. n -> Bytes] /\ t.out \in Seq(Bytes) /\ Len(t.out) = w
        /\ \A i \in 1 .. w : t.out[i] = s.buffer[i]
    BY <1>1, <1>7, <1>8 DEF DecoderStates, ToolStates, Same, s, t
  <2>2. \A i \in 1 .. w : s.buffer[i] \in Bytes  BY <1>1, <2>1
  <2>3. 1 \in Int /\ w \in Int  BY <2>1
  <2> HIDE DEF w
  <2>4. /\ x \in Seq(Bytes) /\ Len(x) = (IF 1 <= w THEN w - 1 + 1 ELSE 0)
        /\ \A i \in 1 .. w - 1 + 1 : x[i] = s.buffer[1 + i - 1]
    BY <2>2, <2>3, SubSeqProperties
  <2> HIDE DEF x
  <2>5. Len(x) = Len(t.out) /\ \A i \in 1 .. Len(x) : x[i] = t.out[i]  BY <1>1, <2>1, <2>4
  <2>6. x = t.out  BY <2>1, <2>4, <2>5, SeqEqual
  <2> QED  BY <2>6 DEF x, w
<1>10. s.valid <=> t.valid  BY <1>7 DEF Same, s, t
<1> QED  BY <1>2, <1>3, <1>9, <1>10 DEF s, t

(* What a decoder returns is no longer than what was received.             *)
LEMMA DecodedBytes ==
    ASSUME NEW data \in Seq(Bytes), cobsDecode(data) # Invalid
    PROVE  cobsDecode(data) \in Seq(Bytes) /\ Len(cobsDecode(data)) <= Len(data)
<1> DEFINE n == Len(data)
           d == cobsDecode(data)
<1>1. PICK f \in [0 .. n -> DecoderStates(data)] :
          d = IF f[n].valid THEN SubSeq(f[n].buffer, 1, f[n].write - 1) ELSE Invalid
  BY CobsDecodeRun
<1>2. n \in Nat /\ n \in 0 .. n  BY LenProperties
<1> DEFINE s == f[n]
           w == s.write - 1
<1>3. w \in 0 .. n /\ s.buffer \in [1 .. n -> Bytes]  BY <1>2 DEF DecoderStates
<1>4. d = SubSeq(s.buffer, 1, w)  BY <1>1
<1> HIDE DEF d, s, w, n
<1>5. \A i \in 1 .. w : s.buffer[i] \in Bytes  BY <1>2, <1>3
<1>6. 1 \in Int /\ w \in Int  BY <1>3
<1>7. d \in Seq(Bytes) /\ Len(d) = (IF 1 <= w THEN w - 1 + 1 ELSE 0)
  BY <1>4, <1>5, <1>6, SubSeqProperties
<1>8. Len(d) <= n  BY <1>2, <1>3, <1>7
<1> QED  BY <1>7, <1>8 DEF d, n

-----------------------------------------------------------------------------
(* The encoder *)

\* The block that is open begins at at, and only its code byte may be zero.
EncoderStates ==
    {s \in [out : Seq(Bytes), at : Nat, code : 1 .. Full - 1] :
        /\ s.at \in 1 .. Len(s.out)
        /\ Len(s.out) = s.at + s.code - 1
        /\ \A i \in 1 .. Len(s.out) : i # s.at => s.out[i] # 0}

\* The block at a is closed with the code c, and the next one opened.
Closed(o, a, c) == Append([o EXCEPT ![a] = c], 0)

Replaced(e, o, a, c) ==
    Len(e) = Len(o) /\ \A i \in 1 .. Len(o) : e[i] = IF i = a THEN c ELSE o[i]

(* A byte is replaced.                                                     *)
LEMMA ReplacedFacts ==
    ASSUME NEW o \in Seq(Bytes), NEW a \in 1 .. Len(o), NEW c \in Bytes
    PROVE  [o EXCEPT ![a] = c] \in Seq(Bytes) /\ Replaced([o EXCEPT ![a] = c], o, a, c)
BY ExceptSeq DEF Replaced

(* Closing a block changes its code byte and adds a byte.                  *)
LEMMA ClosedFacts ==
    ASSUME NEW o \in Seq(Bytes), NEW a \in 1 .. Len(o), NEW c \in Bytes
    PROVE  /\ Closed(o, a, c) \in Seq(Bytes) /\ Len(Closed(o, a, c)) = Len(o) + 1
           /\ \A i \in 1 .. Len(o) : Closed(o, a, c)[i] = IF i = a THEN c ELSE o[i]
<1> DEFINE x == [o EXCEPT ![a] = c]
           y == Append(x, 0)
<1>1. x \in Seq(Bytes) /\ Len(x) = Len(o) /\ \A i \in 1 .. Len(o) : x[i] = IF i = a THEN c ELSE o[i]
  BY ExceptSeq
<1>2. 0 \in Bytes  BY Sizes DEF Bytes
<1> HIDE DEF x
<1>3. x \in Seq(Bytes)  BY <1>1
<1>4. y \in Seq(Bytes) /\ Len(y) = Len(x) + 1 /\ \A i \in 1 .. Len(x) : y[i] = x[i]
  BY <1>2, <1>3, AppendProperties
<1> HIDE DEF y
<1>5. /\ y \in Seq(Bytes) /\ Len(y) = Len(o) + 1
      /\ \A i \in 1 .. Len(o) : y[i] = IF i = a THEN c ELSE o[i]
  BY <1>1, <1>4
<1> QED  BY <1>5 DEF y, x, Closed

\* What a turn of the encoder does: it extends the block, closes it because of
\* a zero, or closes it because it is full.
Extends(s, t, b) ==
    /\ b # 0 /\ t.at = s.at /\ t.code = s.code + 1
    /\ Len(t.out) = Len(s.out) + 1 /\ t.out[Len(s.out) + 1] = b

EndsAtZero(s, t, b) ==
    /\ b = 0 /\ t.at = Len(s.out) + 1 /\ t.code = 1
    /\ Len(t.out) = Len(s.out) + 1 /\ t.out[s.at] = s.code

EndsFull(s, t, b) ==
    /\ b # 0 /\ s.code + 1 = Full /\ t.at = Len(s.out) + 2 /\ t.code = 1
    /\ Len(t.out) = Len(s.out) + 2 /\ t.out[s.at] = Full /\ t.out[Len(s.out) + 1] = b

\* What has been written, the open code byte apart, is final.
Keeps(s, t) == \A i \in 1 .. Len(s.out) : i # s.at => t.out[i] = s.out[i]

(* A turn of the encoder.                                                  *)
LEMMA EncodeStep ==
    ASSUME NEW s \in EncoderStates, NEW b \in Bytes
    PROVE  LET t == EncodeByte(s, b)
           IN  /\ t \in EncoderStates /\ Keeps(s, t)
               /\ Extends(s, t, b) \/ EndsAtZero(s, t, b) \/ EndsFull(s, t, b)
<1> DEFINE o == s.out
           a == s.at
           c == s.code
           t == EncodeByte(s, b)
<1>1. /\ o \in Seq(Bytes) /\ Len(o) \in Nat /\ a \in 1 .. Len(o) /\ c \in 1 .. Full - 1
      /\ Len(o) = a + c - 1 /\ \A i \in 1 .. Len(o) : i # a => o[i] # 0
  BY LenProperties DEF EncoderStates
<1>2. c \in Bytes /\ Full \in Bytes /\ c # 0 /\ Full # 0 /\ 1 \in 1 .. Full - 1 /\ c \in Nat
  BY <1>1, Sizes DEF Bytes
<1>3. CASE b = 0
  <2> DEFINE x == Closed(o, a, c)
  <2>1. t = [out |-> x, at |-> Len(o) + 1, code |-> 1]  BY <1>3 DEF EncodeByte, Closed
  <2>2. /\ x \in Seq(Bytes) /\ Len(x) = Len(o) + 1
        /\ \A i \in 1 .. Len(o) : x[i] = IF i = a THEN c ELSE o[i]
    <3>1. o \in Seq(Bytes) /\ a \in 1 .. Len(o) /\ c \in Bytes  BY <1>1, <1>2
    <3> HIDE DEF o, a, c
    <3> QED  BY <3>1, ClosedFacts
  <2> HIDE DEF x, t, o, a, c
  <2>3. t.out = x /\ t.at = Len(o) + 1 /\ t.code = 1  BY <2>1
  <2>4. Keeps(s, t)  BY <2>2, <2>3 DEF Keeps, o, a
  <2>5. x[a] = c  BY <1>1, <2>2
  <2>6. EndsAtZero(s, t, b)  BY <1>3, <2>2, <2>3, <2>5 DEF EndsAtZero, o, a, c
  <2>7. \A i \in 1 .. Len(x) : i # Len(o) + 1 => x[i] # 0
    <3>1. \A i \in 1 .. Len(x) : i # Len(o) + 1 => i \in 1 .. Len(o)  BY <1>1, <2>2
    <3> QED  BY <1>1, <1>2, <2>2, <3>1
  <2>8. Len(o) + 1 \in Nat /\ Len(o) + 1 \in 1 .. Len(x) /\ Len(x) = (Len(o) + 1) + 1 - 1
    BY <1>1, <2>2
  <2>9. t \in EncoderStates  BY <1>2, <2>1, <2>2, <2>7, <2>8 DEF EncoderStates
  <2> QED  BY <2>4, <2>6, <2>9 DEF t
<1>4. ASSUME b # 0
      PROVE  LET x == Append(o, b)
             IN  /\ x \in Seq(Bytes) /\ Len(x) = Len(o) + 1
                 /\ \A i \in 1 .. Len(o) : x[i] = o[i]
                 /\ x[Len(o) + 1] = b
                 /\ \A i \in 1 .. Len(x) : i # a => x[i] # 0
  <2> DEFINE x == Append(o, b)
  <2>1. o \in Seq(Bytes)  BY <1>1
  <2> HIDE DEF o
  <2>2. /\ x \in Seq(Bytes) /\ Len(x) = Len(o) + 1
        /\ \A i \in 1 .. Len(o) : x[i] = o[i]
        /\ x[Len(o) + 1] = b
    BY <2>1, AppendProperties
  <2> HIDE DEF x
  <2>3. \A i \in 1 .. Len(x) : i = Len(o) + 1 \/ i \in 1 .. Len(o)  BY <1>1, <2>2
  <2>4. \A i \in 1 .. Len(x) : i # a => x[i] # 0  BY <1>1, <1>4, <2>2, <2>3
  <2> QED  BY <2>2, <2>4 DEF x
<1>5. CASE b # 0 /\ c + 1 # Full
  <2> DEFINE x == Append(o, b)
  <2>1. t = [out |-> x, at |-> a, code |-> c + 1]  BY <1>5 DEF EncodeByte
  <2>2. /\ x \in Seq(Bytes) /\ Len(x) = Len(o) + 1
        /\ \A i \in 1 .. Len(o) : x[i] = o[i]
        /\ x[Len(o) + 1] = b
        /\ \A i \in 1 .. Len(x) : i # a => x[i] # 0
    BY <1>4, <1>5
  <2> HIDE DEF x, t, o, a, c
  <2>3. t.out = x /\ t.at = a /\ t.code = c + 1  BY <2>1
  <2>4. Keeps(s, t)  BY <2>2, <2>3 DEF Keeps, o, a
  <2>5. Extends(s, t, b)  BY <1>5, <2>2, <2>3 DEF Extends, o, a, c
  <2>6. a \in Nat /\ a \in 1 .. Len(x) /\ c + 1 \in 1 .. Full - 1 /\ Len(x) = a + (c + 1) - 1
    BY <1>1, <1>5, <2>2, Sizes
  <2>7. t \in EncoderStates  BY <2>1, <2>2, <2>6 DEF EncoderStates
  <2> QED  BY <2>4, <2>5, <2>7 DEF t
<1>6. CASE b # 0 /\ c + 1 = Full
  <2> DEFINE x == Append(o, b)
             y == Closed(x, a, Full)
  <2>1. t = [out |-> y, at |-> Len(x) + 1, code |-> 1]  BY <1>6 DEF EncodeByte, Closed
  <2>2. /\ x \in Seq(Bytes) /\ Len(x) = Len(o) + 1
        /\ \A i \in 1 .. Len(o) : x[i] = o[i]
        /\ x[Len(o) + 1] = b
        /\ \A i \in 1 .. Len(x) : i # a => x[i] # 0
    BY <1>4, <1>6
  <2> HIDE DEF x, y, t, o, a, c
  <2>3. a \in 1 .. Len(x) /\ a # Len(o) + 1 /\ Len(o) + 1 \in 1 .. Len(x)  BY <1>1, <2>2
  <2>4. /\ y \in Seq(Bytes) /\ Len(y) = Len(x) + 1
        /\ \A i \in 1 .. Len(x) : y[i] = IF i = a THEN Full ELSE x[i]
    BY <1>2, <2>2, <2>3, ClosedFacts DEF y
  <2>5. t.out = y /\ t.at = Len(o) + 2 /\ t.code = 1  BY <1>1, <2>1, <2>2
  <2>6. \A i \in 1 .. Len(o) : i \in 1 .. Len(x)  BY <1>1, <2>2
  <2>7. Keeps(s, t)  BY <2>2, <2>4, <2>5, <2>6 DEF Keeps, o, a
  <2>8. y[a] = Full /\ y[Len(o) + 1] = b /\ Len(y) = Len(o) + 2  BY <1>1, <2>2, <2>3, <2>4
  <2>9. EndsFull(s, t, b)  BY <1>6, <2>5, <2>8 DEF EndsFull, o, a, c
  <2>10. \A i \in 1 .. Len(y) : i # Len(x) + 1 => y[i] # 0
    <3>1. \A i \in 1 .. Len(y) : i # Len(x) + 1 => i \in 1 .. Len(x)  BY <1>1, <2>2, <2>4
    <3> QED  BY <1>2, <2>2, <2>4, <3>1
  <2>11. Len(x) + 1 \in Nat /\ Len(x) + 1 \in 1 .. Len(y) /\ Len(y) = (Len(x) + 1) + 1 - 1
    BY <1>1, <2>2, <2>4
  <2>12. t \in EncoderStates  BY <1>2, <2>1, <2>4, <2>10, <2>11 DEF EncoderStates
  <2> QED  BY <2>7, <2>9, <2>12 DEF t
<1> QED  BY <1>3, <1>5, <1>6

EncoderStart == [out |-> <<0>>, at |-> 1, code |-> 1]

\* f is the run of the encoder on data.
Encodes(f, data) ==
    /\ f \in [0 .. Len(data) -> EncoderStates]
    /\ f[0] = EncoderStart
    /\ \A k \in 1 .. Len(data) : f[k] = EncodeByte(f[k - 1], data[k])

\* What the encoder returns.
Yields(f, n, e) == e = [f[n].out EXCEPT ![f[n].at] = f[n].code]

(* The turns of cobsEncode.                                                *)
LEMMA EncodeRun ==
    ASSUME NEW data \in Seq(Bytes)
    PROVE  \E f : Encodes(f, data) /\ Yields(f, Len(data), cobsEncode(data))
<1> DEFINE n == Len(data)
           S == EncoderStates
           s0 == [out |-> <<0>>, at |-> 1, code |-> 1]
           Turn(s, k) == EncodeByte(s, data[k])
           G(h) == [k \in 0 .. n |-> IF k = 0 THEN s0 ELSE Turn(h[k - 1], k)]
           F == [k \in 1 .. n |-> [s \in S |-> Turn(s, k)]]
           f == CHOOSE h : h = G(h)
<1>1. n \in Nat /\ \A k \in 1 .. n : data[k] \in Bytes  BY LenProperties
<1>2. s0 \in S
  <2> DEFINE z == <<0>>
  <2>1. z \in Seq(Bytes) /\ 1 \in 1 .. Full - 1 /\ Len(z) = 1  BY Sizes DEF Bytes
  <2> HIDE DEF z
  <2>2. /\ 1 \in 1 .. Len(z) /\ Len(z) = 1 + 1 - 1
        /\ \A i \in 1 .. Len(z) : i # 1 => z[i] # 0
    BY <2>1
  <2>3. [out |-> z, at |-> 1, code |-> 1] \in EncoderStates  BY <2>1, <2>2 DEF EncoderStates
  <2> QED  BY <2>3 DEF z
<1>3. cobsEncode(data) = [f[n].out EXCEPT ![f[n].at] = f[n].code]
  BY DEF cobsEncode
<1>4. \A s \in S : \A k \in 1 .. n : Turn(s, k) \in S  BY <1>1, EncodeStep
<1>5. s0 = EncoderStart  BY DEF EncoderStart
<1> HIDE DEF n, S, s0, Turn
<1>6. F \in [1 .. n -> [S -> S]]  BY <1>4
<1>7. \E h : h = G(h)
  <2>1. PICK h : IsLoop(h, n, S, s0, F)
    <3>1. n \in Nat  BY <1>1
    <3> HIDE DEF F
    <3> QED  BY <3>1, <1>2, <1>6, LoopExists, Zenon
  <2>2. h \in [0 .. n -> S] /\ h[0] = s0 /\ \A k \in 1 .. n : h[k] = F[k][h[k - 1]]
    BY <2>1 DEF IsLoop
  <2>3. ASSUME NEW k \in 1 .. n PROVE h[k] = Turn(h[k - 1], k)
    <3>1. k - 1 \in 0 .. n  BY <1>1
    <3> QED  BY <2>2, <3>1
  <2>4. h = G(h)
    <3>1. \A k \in 0 .. n : k # 0 => k \in 1 .. n  BY <1>1
    <3> HIDE DEF F
    <3> QED  BY <2>2, <2>3, <3>1
  <2> QED  BY <2>4
<1>8. f = G(f)  BY <1>7
<1> HIDE DEF f
<1>9. f[0] = s0 /\ \A k \in 1 .. n : f[k] = Turn(f[k - 1], k)  BY <1>1, <1>8
<1> DEFINE P == {k \in 0 .. n : f[k] \in S}
<1>10. 0 \in P /\ \A k \in 1 .. n : k - 1 \in P => k \in P  BY <1>1, <1>2, <1>4, <1>9
<1>11. \A k \in 0 .. n : k \in P
  <2>1. n \in Nat  BY <1>1
  <2> HIDE DEF P
  <2> QED  BY <2>1, <1>10, Induction
<1>12. f \in [0 .. n -> S]  BY <1>8, <1>11
<1>13. Encodes(f, data)  BY <1>5, <1>9, <1>12 DEF n, S, Turn, Encodes
<1> QED  BY <1>3, <1>13 DEF n, Yields

\* Every state of the run shows what is in the result, the code byte of the
\* open block apart.
Shows(f, n, e) ==
    \A k \in 0 .. n : /\ Len(f[k].out) <= Len(e)
                      /\ \A i \in 1 .. Len(f[k].out) : i # f[k].at => e[i] = f[k].out[i]

(* What has been encoded holds no zero, and every state of the run shows   *)
(* its part of it.                                                         *)
LEMMA EncodedFrozen ==
    ASSUME NEW data \in Seq(Bytes), NEW f, Encodes(f, data), NEW e, Yields(f, Len(data), e)
    PROVE  /\ e \in Seq(Bytes) /\ Len(e) = Len(f[Len(data)].out)
           /\ e[f[Len(data)].at] = f[Len(data)].code
           /\ \A i \in 1 .. Len(e) : e[i] # 0
           /\ Shows(f, Len(data), e)
<1> DEFINE n == Len(data)
           s == f[n]
           Frozen(k) == /\ Len(f[k].out) <= Len(e)
                        /\ \A i \in 1 .. Len(f[k].out) : i # f[k].at => e[i] = f[k].out[i]
<1>1. n \in Nat /\ n \in 0 .. n /\ (\A k \in 1 .. n : data[k] \in Bytes)  BY LenProperties
<1>2. /\ f \in [0 .. n -> EncoderStates]
      /\ \A k \in 1 .. n : f[k] = EncodeByte(f[k - 1], data[k])
  BY DEF Encodes
<1>3. /\ s.out \in Seq(Bytes) /\ s.at \in 1 .. Len(s.out) /\ s.code \in 1 .. Full - 1
      /\ \A i \in 1 .. Len(s.out) : i # s.at => s.out[i] # 0
  BY <1>1, <1>2 DEF EncoderStates
<1>4. s.code \in Bytes /\ s.code # 0  BY <1>3, Sizes DEF Bytes
<1>5. /\ e \in Seq(Bytes) /\ Len(e) = Len(s.out)
      /\ \A i \in 1 .. Len(s.out) : e[i] = IF i = s.at THEN s.code ELSE s.out[i]
  <2> DEFINE o == s.out
             a == s.at
             c == s.code
  <2>1. o \in Seq(Bytes) /\ a \in 1 .. Len(o) /\ c \in Bytes /\ e = [o EXCEPT ![a] = c]
    BY <1>3, <1>4 DEF Yields
  <2> HIDE DEF o, a, c
  <2>2. /\ e \in Seq(Bytes) /\ Len(e) = Len(o)
        /\ \A i \in 1 .. Len(o) : e[i] = IF i = a THEN c ELSE o[i]
    <3> DEFINE x == [o EXCEPT ![a] = c]
    <3>1. o \in Seq(Bytes) /\ a \in 1 .. Len(o) /\ c \in Bytes  BY <2>1
    <3>2. x \in Seq(Bytes) /\ Replaced(x, o, a, c)  BY <3>1, ReplacedFacts, Zenon
    <3>3. e = x  BY <2>1
    <3> HIDE DEF x
    <3> QED  BY <3>2, <3>3 DEF Replaced
  <2> QED  BY <2>2 DEF o, a, c
<1> HIDE DEF s
<1>6. e[s.at] = s.code  BY <1>3, <1>5
<1>7. \A i \in 1 .. Len(e) : e[i] # 0  BY <1>3, <1>4, <1>5
<1>8. Frozen(n)
  <2>1. Len(e) \in Nat  BY <1>5, LenProperties
  <2> QED  BY <1>5, <2>1 DEF s
<1>9. ASSUME NEW k \in 1 .. n, Frozen(k) PROVE Frozen(k - 1)
  <2> DEFINE x == f[k - 1]
             y == f[k]
  <2>1. k - 1 \in 0 .. n /\ k \in 0 .. n /\ data[k] \in Bytes  BY <1>1
  <2>2. x \in EncoderStates /\ y = EncodeByte(x, data[k])  BY <1>2, <2>1
  <2>3. /\ y \in EncoderStates /\ Keeps(x, y)
        /\ Extends(x, y, data[k]) \/ EndsAtZero(x, y, data[k]) \/ EndsFull(x, y, data[k])
    BY <2>1, <2>2, EncodeStep
  <2>4. Len(x.out) \in Nat /\ Len(y.out) \in Nat  BY <2>2, <2>3, LenProperties DEF EncoderStates
  <2> HIDE DEF x, y
  <2>5. Len(x.out) <= Len(y.out) /\ (y.at = x.at \/ y.at > Len(x.out))
    BY <2>3, <2>4 DEF Extends, EndsAtZero, EndsFull
  <2>6. Len(e) \in Nat /\ Len(y.out) <= Len(e)  BY <1>5, <1>9, LenProperties DEF y
  <2>7. ASSUME NEW i \in 1 .. Len(x.out), i # x.at PROVE e[i] = x.out[i]
    <3>1. i \in 1 .. Len(y.out) /\ i # y.at  BY <2>4, <2>5, <2>7
    <3>2. e[i] = y.out[i]  BY <1>9, <3>1 DEF y
    <3> QED  BY <2>3, <2>7, <3>2 DEF Keeps
  <2>8. Len(x.out) <= Len(e)  BY <2>4, <2>5, <2>6
  <2> QED  BY <2>7, <2>8 DEF x
<1> DEFINE P == {j \in 0 .. n : Frozen(n - j)}
<1> HIDE DEF Frozen
<1>10. 0 \in P
  <2>1. n - 0 = n /\ 0 \in 0 .. n  BY <1>1
  <2> QED  BY <1>8, <2>1
<1>11. ASSUME NEW j \in 1 .. n, j - 1 \in P PROVE j \in P
  <2>1. n - (j - 1) \in 1 .. n /\ (n - (j - 1)) - 1 = n - j /\ j \in 0 .. n  BY <1>1
  <2> QED  BY <1>9, <1>11, <2>1
<1>12. \A j \in 0 .. n : j \in P
  <2>1. n \in Nat  BY <1>1
  <2> HIDE DEF P, n
  <2> QED  BY <2>1, <1>10, <1>11, Induction
<1>13. \A k \in 0 .. n : Frozen(k)
  <2> TAKE k \in 0 .. n
  <2>1. n - k \in 0 .. n /\ n - (n - k) = k  BY <1>1
  <2> QED  BY <1>12, <2>1
<1> QED  BY <1>5, <1>6, <1>7, <1>13 DEF Frozen, s, Shows

(* Encoding adds one byte, and one more for every full block.              *)
LEMMA EncodedLength ==
    ASSUME NEW data \in Seq(Bytes), NEW f, Encodes(f, data)
    PROVE  \E q \in 0 .. Len(data) : /\ Len(f[Len(data)].out) = Len(data) + 1 + q
                                     /\ q * (Full - 1) <= Len(data)
<1> DEFINE n == Len(data)
           Long(k, q) == /\ q \in Nat /\ q <= k /\ Len(f[k].out) = k + 1 + q
                         /\ q * (Full - 1) + (f[k].code - 1) <= k
           P == {k \in 0 .. n : \E q : Long(k, q)}
<1>1. n \in Nat /\ 0 \in 0 .. n /\ n \in 0 .. n /\ (\A k \in 1 .. n : data[k] \in Bytes)
  BY LenProperties
<1>2. /\ f \in [0 .. n -> EncoderStates] /\ f[0] = EncoderStart
      /\ \A k \in 1 .. n : f[k] = EncodeByte(f[k - 1], data[k])
  BY DEF Encodes
<1>3. 0 \in P
  <2>1. Len(f[0].out) = 1 /\ f[0].code = 1  BY <1>2 DEF EncoderStart
  <2>2. 0 * (Full - 1) = 0  BY Sizes
  <2>3. Long(0, 0)  BY <2>1, <2>2
  <2> HIDE DEF Long
  <2> QED  BY <1>1, <2>3
<1>4. ASSUME NEW k \in 1 .. n, k - 1 \in P PROVE k \in P
  <2> DEFINE x == f[k - 1]
             y == f[k]
             b == data[k]
  <2>1. k - 1 \in 0 .. n /\ k \in 0 .. n /\ b \in Bytes  BY <1>1
  <2>2. x \in EncoderStates /\ y = EncodeByte(x, b)  BY <1>2, <2>1
  <2>3. Extends(x, y, b) \/ EndsAtZero(x, y, b) \/ EndsFull(x, y, b)  BY <2>1, <2>2, EncodeStep
  <2>4. PICK q : Long(k - 1, q)  BY <1>4
  <2> DEFINE d == q * (Full - 1)
  <2>5. /\ q \in Nat /\ q <= k - 1 /\ Len(x.out) = (k - 1) + 1 + q
        /\ d + (x.code - 1) <= k - 1 /\ x.code \in Nat /\ x.code >= 1
    BY <2>2, <2>4, Sizes DEF EncoderStates
  <2>6. d \in Nat /\ (q + 1) * (Full - 1) = d + (Full - 1)
    <3>1. q \in Int /\ Full - 1 \in Int /\ q >= 0 /\ Full - 1 >= 0  BY <2>5, Sizes
    <3> DEFINE u == Full - 1
    <3> HIDE DEF u
    <3>2. q * u \in Int /\ q * u >= 0 /\ (q + 1) * u = q * u + u  BY <3>1 DEF u
    <3> QED  BY <3>2 DEF u
  <2> HIDE DEF x, y, b, d
  <2>7. CASE Extends(x, y, b)
    <3>1. Len(y.out) = k + 1 + q /\ d + (y.code - 1) <= k /\ q <= k
      BY <2>5, <2>6, <2>7 DEF Extends
    <3>2. Long(k, q)  BY <2>5, <3>1 DEF y, d
    <3> HIDE DEF Long
    <3> QED  BY <2>1, <3>2
  <2>8. CASE EndsAtZero(x, y, b)
    <3>1. Len(y.out) = k + 1 + q /\ d + (y.code - 1) <= k /\ q <= k
      BY <2>5, <2>6, <2>8 DEF EndsAtZero
    <3>2. Long(k, q)  BY <2>5, <3>1 DEF y, d
    <3> HIDE DEF Long
    <3> QED  BY <2>1, <3>2
  <2>9. CASE EndsFull(x, y, b)
    <3>1. /\ Len(y.out) = k + 1 + (q + 1) /\ d + (Full - 1) + (y.code - 1) <= k
          /\ q + 1 <= k /\ q + 1 \in Nat
      BY <2>5, <2>6, <2>9, Sizes, SMTT(30) DEF EndsFull
    <3>2. Long(k, q + 1)  BY <2>6, <3>1 DEF y
    <3> HIDE DEF Long
    <3> QED  BY <2>1, <3>2
  <2> QED  BY <2>3, <2>7, <2>8, <2>9
<1>5. n \in P
  <2>1. n \in Nat  BY <1>1
  <2> HIDE DEF P
  <2> QED  BY <1>1, <1>3, <1>4, <2>1, Induction
<1>6. PICK q : Long(n, q)  BY <1>5
<1>7. f[n].code \in Nat /\ f[n].code >= 1  BY <1>1, <1>2, Sizes DEF EncoderStates
<1>8. q * (Full - 1) \in Int
  <2>1. q \in Int /\ Full - 1 \in Int  BY <1>6, Sizes
  <2> QED  BY <2>1
<1>9. q \in 0 .. n /\ Len(f[n].out) = n + 1 + q /\ q * (Full - 1) <= n
  <2> DEFINE d == q * (Full - 1)
             c == f[n].code
  <2>1. q \in Nat /\ q <= n /\ Len(f[n].out) = n + 1 + q /\ d + (c - 1) <= n  BY <1>6
  <2>2. d \in Int /\ c \in Nat /\ c >= 1  BY <1>7, <1>8
  <2> HIDE DEF d, c
  <2>3. d <= n  BY <1>1, <2>1, <2>2
  <2> QED  BY <1>1, <2>1, <2>3 DEF d
<1> QED  BY <1>9

\* After turn t the tool has decoded the first m bytes of data, and the block
\* that begins at a is next.
Decoded(s, a, m, data) ==
    /\ s.valid /\ s.index = a /\ Len(s.out) = m
    /\ \A i \in 1 .. m : s.out[i] = data[i]

(* A turn of the tool over a block that holds the bytes m + 1 .. m + c - 1 *)
(* of data, and with them a zero unless the block is full or the last.     *)
LEMMA DecodedBlock ==
    ASSUME NEW data \in Seq(Bytes), NEW e \in Seq(Bytes), NEW s \in ToolStates(e),
           NEW a \in 1 .. Len(e), NEW m \in Nat, NEW c \in 1 .. Full, Decoded(s, a, m, data),
           e[a] = c, a + c <= Len(e) + 1, \A i \in 1 .. c - 1 : e[a + i] = data[m + i],
           c # Full /\ a + c <= Len(e) => data[m + c] = 0
    PROVE  Decoded(ToolTurn(s, e), a + c,
                   m + (c - 1) + (IF c # Full /\ a + c <= Len(e) THEN 1 ELSE 0), data)
<1> DEFINE t == ToolTurn(s, e)
           zero == c # Full /\ a + c <= Len(e)
           z == IF zero THEN 1 ELSE 0
           code == e[s.index]
           zz == code # Full /\ s.index + code <= Len(e)
<1>1. /\ s.valid /\ s.index = a /\ Len(s.out) = m /\ \A i \in 1 .. m : s.out[i] = data[i]
  BY DEF Decoded
<1>2. code = c /\ (zz <=> zero) /\ Full \in Nat /\ c \in Nat /\ c # 0  BY <1>1, Sizes
<1>3. s.valid /\ s.index <= Len(e) /\ code # 0 /\ s.index + code <= Len(e) + 1
  <2>1. Len(e) \in Nat  BY LenProperties
  <2> QED  BY <1>1, <1>2, <2>1
<1>4. /\ t.valid /\ t.index = s.index + code
      /\ Len(t.out) = Len(s.out) + (code - 1) + (IF zz THEN 1 ELSE 0)
      /\ \A i \in 1 .. Len(s.out) : t.out[i] = s.out[i]
      /\ \A j \in 1 .. code - 1 : t.out[Len(s.out) + j] = e[s.index + j]
      /\ zz => t.out[Len(s.out) + code] = 0
  BY <1>3, ToolBlockFacts
<1> HIDE DEF t, code, zz
<1>5. /\ t.valid /\ t.index = a + c /\ Len(t.out) = m + (c - 1) + z
      /\ \A i \in 1 .. m : t.out[i] = s.out[i]
      /\ \A j \in 1 .. c - 1 : t.out[m + j] = e[a + j]
      /\ zero => t.out[m + c] = 0
  <2> HIDE DEF zero
  <2> QED  BY <1>1, <1>2, <1>4
<1>6. z \in 0 .. 1 /\ (z = 1 => zero)  OBVIOUS
<1> HIDE DEF zero, z
<1>7. ASSUME NEW i \in 1 .. m + (c - 1) + z PROVE t.out[i] = data[i]
  <2>1. CASE i \in 1 .. m  BY <1>1, <1>5, <2>1
  <2>2. CASE i \in m + 1 .. m + (c - 1)
    <3> DEFINE j == i - m
    <3>1. j \in 1 .. c - 1 /\ i = m + j  BY <1>2, <2>2
    <3> HIDE DEF j
    <3> QED  BY <1>5, <3>1
  <2>3. CASE zero /\ i = m + c  BY <1>5, <2>3 DEF zero
  <2> QED  BY <1>2, <1>6, <2>1, <2>2, <2>3
<1>8. Decoded(t, a + c, m + (c - 1) + z, data)  BY <1>5, <1>7 DEF Decoded
<1> QED  BY <1>8 DEF t, z, zero

(* Decoding gives back what was encoded.                                   *)
LEMMA DecodeUndoesEncode ==
    ASSUME NEW data \in Seq(Bytes), NEW f, Encodes(f, data), NEW e, Yields(f, Len(data), e)
    PROVE  cobs_decode(e) = data
<1> DEFINE n == Len(data)
           N == Len(e)
<1>1. /\ e \in Seq(Bytes) /\ N = Len(f[n].out) /\ e[f[n].at] = f[n].code
      /\ \A k \in 0 .. n : /\ Len(f[k].out) <= N
                           /\ \A i \in 1 .. Len(f[k].out) : i # f[k].at => e[i] = f[k].out[i]
  <2>1. /\ e \in Seq(Bytes) /\ N = Len(f[n].out) /\ e[f[n].at] = f[n].code /\ Shows(f, n, e)
    BY EncodedFrozen, Zenon
  <2> QED  BY <2>1 DEF Shows
<1>2. n \in Nat /\ 0 \in 0 .. n /\ n \in 0 .. n /\ (\A k \in 1 .. n : data[k] \in Bytes)
  BY LenProperties
<1>3. N \in Nat  BY <1>1, LenProperties
<1>4. /\ f \in [0 .. n -> EncoderStates] /\ f[0] = EncoderStart
      /\ \A k \in 1 .. n : f[k] = EncodeByte(f[k - 1], data[k])
  BY DEF Encodes
<1>5. e \in Seq(Bytes)  BY <1>1
<1>6. PICK g \in [0 .. N -> ToolStates(e)] :
          /\ g[0] = ToolStart
          /\ \A k \in 1 .. N : g[k] = ToolTurn(g[k - 1], e)
          /\ cobs_decode(e) = IF g[N].valid THEN g[N].out ELSE Invalid
  <2> HIDE DEF N
  <2> QED  BY <1>5, ToolDecodeRun DEF N
<1> DEFINE Behind(k, t) ==
               /\ t \in 0 .. f[k].at - 1
               /\ Decoded(g[t], f[k].at, k - (f[k].code - 1), data)
               /\ \A i \in 1 .. f[k].code - 1 :
                      f[k].out[f[k].at + i] = data[k - (f[k].code - 1) + i]
           P == {k \in 0 .. n : \E t : Behind(k, t)}
<1> HIDE DEF n, N
<1>7. 0 \in P
  <2>1. f[0].at = 1 /\ f[0].code = 1  BY <1>4 DEF EncoderStart
  <2>2. Decoded(g[0], 1, 0, data)  BY <1>6 DEF Decoded, ToolStart
  <2>3. Behind(0, 0)  BY <2>1, <2>2
  <2> HIDE DEF Behind
  <2> QED  BY <1>2, <2>3
<1>8. ASSUME NEW k \in 1 .. n, k - 1 \in P PROVE k \in P
  <2> DEFINE x == f[k - 1]
             y == f[k]
             b == data[k]
             a == x.at
             c == x.code
             m == (k - 1) - (c - 1)
  <2>1. k - 1 \in 0 .. n /\ k \in 0 .. n /\ b \in Bytes  BY <1>2
  <2>2. x \in EncoderStates /\ y = EncodeByte(x, b)  BY <1>4, <2>1
  <2>3. /\ y \in EncoderStates /\ Keeps(x, y)
        /\ Extends(x, y, b) \/ EndsAtZero(x, y, b) \/ EndsFull(x, y, b)
    BY <2>1, <2>2, EncodeStep
  <2>4. PICK t : Behind(k - 1, t)  BY <1>8
  <2>5. /\ t \in 0 .. a - 1 /\ Decoded(g[t], a, m, data)
        /\ \A i \in 1 .. c - 1 : x.out[a + i] = data[m + i]
    BY <2>4
  <2>6. /\ Len(x.out) \in Nat /\ a \in 1 .. Len(x.out) /\ c \in 1 .. Full - 1
        /\ Len(x.out) = a + c - 1
    BY <2>2, LenProperties DEF EncoderStates
  <2>7. /\ Len(x.out) <= N /\ Len(y.out) <= N
        /\ \A i \in 1 .. Len(x.out) : i # a => e[i] = x.out[i]
        /\ \A i \in 1 .. Len(y.out) : i # y.at => e[i] = y.out[i]
    BY <1>1, <2>1
  <2>8. Len(y.out) \in Nat /\ y.at \in 1 .. Len(y.out)  BY <2>3, LenProperties DEF EncoderStates
  <2> HIDE DEF Behind, x, y, b, a, c
  <2>9. c \in Nat /\ m \in Int /\ Full \in Nat /\ c >= 1 /\ c < Full /\ k \in Nat  BY <2>6, Sizes
  <2>10. m \in Nat
    <3>1. m = Len(g[t].out) /\ t \in 0 .. N  BY <1>3, <2>5, <2>6, <2>7 DEF Decoded
    <3>2. g[t].out \in Seq(Bytes)  BY <3>1 DEF ToolStates
    <3> HIDE DEF m
    <3> QED  BY <3>1, <3>2, LenProperties
  <2>11. /\ t + 1 \in 1 .. N /\ t \in 0 .. N /\ a \in 1 .. N /\ (t + 1) - 1 = t
    BY <1>3, <2>5, <2>6, <2>7
  <2>12. g[t] \in ToolStates(e) /\ g[t + 1] = ToolTurn(g[t], e)  BY <1>6, <2>11
  <2>13. \A i \in 1 .. c - 1 : e[a + i] = data[m + i]
    <3> TAKE i \in 1 .. c - 1
    <3>1. a + i \in 1 .. Len(x.out) /\ a + i # a  BY <2>6, <2>9
    <3> QED  BY <2>5, <2>7, <3>1
  <2>14. CASE Extends(x, y, b)
    <3>1. y.at = a /\ y.code = c + 1 /\ y.out[Len(x.out) + 1] = b /\ k - (y.code - 1) = m
      BY <2>9, <2>14 DEF Extends, a, c
    <3>2. ASSUME NEW i \in 1 .. c PROVE y.out[a + i] = data[m + i]
      <4>1. CASE i \in 1 .. c - 1
        <5>1. a + i \in 1 .. Len(x.out) /\ a + i # a  BY <2>6, <2>9, <4>1
        <5>2. y.out[a + i] = x.out[a + i]  BY <2>3, <5>1 DEF Keeps, a
        <5> QED  BY <2>5, <4>1, <5>2
      <4>2. CASE i = c
        <5>1. a + i = Len(x.out) + 1 /\ m + i = k  BY <2>6, <2>9, <4>2
        <5> QED  BY <3>1, <5>1 DEF b
      <4> QED  BY <2>9, <4>1, <4>2
    <3>3. y.code - 1 = c  BY <2>9, <3>1
    <3> HIDE DEF m
    <3>4. Behind(k, t)  BY <2>5, <3>1, <3>2, <3>3 DEF Behind, y
    <3> QED  BY <2>1, <3>4
  <2>15. CASE EndsAtZero(x, y, b)
    <3>1. y.at = a + c /\ y.code = 1 /\ y.out[a] = c /\ data[k] = 0 /\ Len(y.out) = a + c
      BY <2>6, <2>9, <2>15, SMTT(30) DEF EndsAtZero, a, c, b
    <3>2. a \in 1 .. Len(y.out) /\ a # y.at /\ a + c <= N /\ m + c = k /\ c # Full /\ c \in 1 .. Full
      BY <1>3, <2>6, <2>7, <2>9, <3>1
    <3>3. e[a] = c  BY <2>7, <3>1, <3>2
    <3>4. a + c <= N + 1  BY <1>3, <2>6, <2>9, <3>2
    <3> HIDE DEF m
    <3>5. Decoded(ToolTurn(g[t], e), a + c,
                  m + (c - 1) + (IF c # Full /\ a + c <= N THEN 1 ELSE 0), data)
      BY <1>5, <2>5, <2>10, <2>11, <2>12, <2>13, <3>1, <3>2, <3>3, <3>4, DecodedBlock DEF N
    <3>6. m + (c - 1) + (IF c # Full /\ a + c <= N THEN 1 ELSE 0) = k - (y.code - 1)
      BY <2>9, <2>10, <3>1, <3>2
    <3>7. t + 1 \in 0 .. y.at - 1  BY <2>5, <2>6, <2>9, <3>1
    <3>8. Behind(k, t + 1)
      <4>1. Decoded(g[t + 1], y.at, k - (y.code - 1), data)  BY <2>12, <3>1, <3>5, <3>6
      <4>2. \A i \in 1 .. y.code - 1 : FALSE  BY <3>1
      <4> QED  BY <3>7, <4>1, <4>2 DEF Behind, y
    <3> QED  BY <2>1, <3>8
  <2>16. CASE EndsFull(x, y, b)
    <3>1. /\ y.at = a + c + 1 /\ y.code = 1 /\ y.out[a] = Full /\ c + 1 = Full
          /\ Len(y.out) = a + c + 1 /\ y.out[a + c] = data[k]
      <4>1. /\ y.at = Len(x.out) + 2 /\ y.code = 1 /\ y.out[a] = Full /\ c + 1 = Full
            /\ Len(y.out) = Len(x.out) + 2 /\ y.out[Len(x.out) + 1] = data[k]
        BY <2>16 DEF EndsFull, a, c, b
      <4>2. Len(x.out) + 2 = a + c + 1 /\ Len(x.out) + 1 = a + c  BY <2>6, <2>9
      <4> QED  BY <4>1, <4>2
    <3>2. /\ a \in 1 .. Len(y.out) /\ a # y.at /\ a + Full <= N + 1 /\ m + c = k
          /\ Full \in 1 .. Full /\ a + c \in 1 .. Len(y.out) /\ a + c # y.at
      BY <1>3, <2>6, <2>7, <2>9, <3>1
    <3>3. e[a] = Full /\ e[a + c] = data[m + c]  BY <2>7, <3>1, <3>2
    <3>4. \A i \in 1 .. Full - 1 : e[a + i] = data[m + i]
      <4>1. \A i \in 1 .. Full - 1 : i \in 1 .. c - 1 \/ i = c  BY <2>9, <3>1
      <4> QED  BY <2>13, <3>3, <4>1
    <3> HIDE DEF m
    <3>5. Decoded(ToolTurn(g[t], e), a + Full,
                  m + (Full - 1) + (IF Full # Full /\ a + Full <= N THEN 1 ELSE 0), data)
      BY <1>5, <2>5, <2>10, <2>11, <2>12, <3>2, <3>3, <3>4, DecodedBlock DEF N
    <3>6. /\ m + (Full - 1) + (IF Full # Full /\ a + Full <= N THEN 1 ELSE 0) = k - (y.code - 1)
          /\ a + Full = y.at
      <4>1. m + (Full - 1) = k /\ a + Full = y.at /\ k - (y.code - 1) = k
        BY <2>6, <2>9, <2>10, <3>1, <3>2
      <4>2. (IF Full # Full /\ a + Full <= N THEN 1 ELSE 0) = 0  OBVIOUS
      <4> QED  BY <2>9, <4>1, <4>2
    <3>7. t + 1 \in 0 .. y.at - 1  BY <2>5, <2>6, <2>9, <3>1, SMTT(30)
    <3>8. Behind(k, t + 1)
      <4>1. Decoded(g[t + 1], y.at, k - (y.code - 1), data)  BY <2>12, <3>5, <3>6
      <4>2. \A i \in 1 .. y.code - 1 : FALSE  BY <3>1
      <4> QED  BY <3>7, <4>1, <4>2 DEF Behind, y
    <3> QED  BY <2>1, <3>8
  <2> QED  BY <2>3, <2>14, <2>15, <2>16
<1>9. n \in P
  <2>1. n \in Nat  BY <1>2
  <2> HIDE DEF P
  <2> QED  BY <1>2, <1>7, <1>8, <2>1, Induction
<1>10. PICK t : Behind(n, t)  BY <1>9
<1> DEFINE x == f[n]
           a == x.at
           c == x.code
           m == n - (c - 1)
<1>11. /\ t \in 0 .. a - 1 /\ Decoded(g[t], a, m, data)
       /\ \A i \in 1 .. c - 1 : x.out[a + i] = data[m + i]
  BY <1>10
<1>12. /\ Len(x.out) = N /\ a \in 1 .. N /\ c \in 1 .. Full - 1 /\ N = a + c - 1
       /\ e[a] = c /\ \A i \in 1 .. N : i # a => e[i] = x.out[i]
  BY <1>1, <1>2, <1>4 DEF EncoderStates
<1> HIDE DEF Behind, x, a, c
<1>13. /\ c \in Nat /\ Full \in Nat /\ c >= 1 /\ c < Full /\ c \in 1 .. Full /\ ~(a + c <= N)
       /\ a + c <= N + 1
  BY <1>3, <1>12, Sizes
<1>14. /\ t + 1 \in 1 .. N /\ t \in 0 .. N /\ t \in Nat /\ (t + 1) - 1 = t  BY <1>3, <1>11, <1>12
<1>15. g[t] \in ToolStates(e) /\ g[t + 1] = ToolTurn(g[t], e)  BY <1>6, <1>14
<1>16. m \in Nat
  <2>1. m = Len(g[t].out)  BY <1>11 DEF Decoded
  <2>2. g[t].out \in Seq(Bytes)  BY <1>15 DEF ToolStates
  <2> HIDE DEF m
  <2> QED  BY <2>1, <2>2, LenProperties
<1>17. \A i \in 1 .. c - 1 : e[a + i] = data[m + i]
  <2> TAKE i \in 1 .. c - 1
  <2>1. a + i \in 1 .. N /\ a + i # a  BY <1>3, <1>12, <1>13
  <2> QED  BY <1>11, <1>12, <2>1
<1>18. Decoded(g[t + 1], N + 1, n, data)
  <2>1. m + (c - 1) = n /\ a + c = N + 1  BY <1>2, <1>3, <1>12, <1>13
  <2> HIDE DEF m
  <2>2. Decoded(ToolTurn(g[t], e), a + c,
                m + (c - 1) + (IF c # Full /\ a + c <= N THEN 1 ELSE 0), data)
    BY <1>5, <1>11, <1>12, <1>13, <1>15, <1>16, <1>17, DecodedBlock DEF N
  <2>3. m + (c - 1) + (IF c # Full /\ a + c <= N THEN 1 ELSE 0) = n
    BY <1>2, <1>13, <2>1
  <2> QED  BY <1>15, <2>1, <2>2, <2>3
<1> DEFINE Q == {k \in 0 .. N : k >= t + 1 => Decoded(g[k], N + 1, n, data)}
<1>19. 0 \in Q  BY <1>3, <1>14
<1>20. ASSUME NEW k \in 1 .. N, k - 1 \in Q PROVE k \in Q
  <2>1. k - 1 \in 0 .. N /\ k \in 0 .. N  BY <1>3
  <2>2. CASE ~(k >= t + 1)  BY <2>1, <2>2
  <2>3. CASE k = t + 1  BY <1>18, <2>1, <2>3
  <2>4. CASE k > t + 1
    <3>1. Decoded(g[k - 1], N + 1, n, data)
      <4>1. k - 1 >= t + 1  BY <1>14, <2>4
      <4> QED  BY <1>20, <4>1
    <3>2. g[k - 1] \in ToolStates(e) /\ g[k - 1].index > N
      BY <1>3, <2>1, <3>1 DEF Decoded
    <3>3. ToolTurn(g[k - 1], e) = g[k - 1]  BY <1>5, <3>2, ToolOtherTurn DEF N
    <3> QED  BY <1>6, <2>1, <3>1, <3>3
  <2> QED  BY <1>14, <2>2, <2>3, <2>4
<1>21. N \in Q
  <2>1. N \in 0 .. N  BY <1>3
  <2> HIDE DEF Q
  <2> QED  BY <1>3, <1>19, <1>20, <2>1, Induction
<1>22. Decoded(g[N], N + 1, n, data)
  <2>1. N >= t + 1  BY <1>3, <1>14
  <2> QED  BY <1>21, <2>1
<1> DEFINE o == g[N].out
<1>23. g[N].valid /\ Len(o) = n /\ \A i \in 1 .. n : o[i] = data[i]  BY <1>22 DEF Decoded
<1>24. o \in Seq(Bytes)
  <2>1. N \in 0 .. N  BY <1>3
  <2> QED  BY <1>6, <2>1 DEF ToolStates
<1> HIDE DEF o
<1>25. o = data  BY <1>23, <1>24, SeqEqual DEF n
<1> QED  BY <1>6, <1>23, <1>25 DEF o

-----------------------------------------------------------------------------
(* Frames *)

(* The check is a byte.                                                    *)
LEMMA CrcIsByte ==
    ASSUME NEW data \in Seq(Bytes)
    PROVE  calculateCrc(data) \in Bytes
<1> DEFINE n == Len(data)
           S == Bytes
           s0 == 0
           Turn(s, k) == (s + data[k]) % (Full + 1)
           G(h) == [k \in 0 .. n |-> IF k = 0 THEN s0 ELSE Turn(h[k - 1], k)]
           F == [k \in 1 .. n |-> [s \in S |-> Turn(s, k)]]
           f == CHOOSE h : h = G(h)
<1>1. n \in Nat /\ \A k \in 1 .. n : data[k] \in Bytes  BY LenProperties
<1>2. s0 \in S  BY Sizes DEF Bytes
<1>3. calculateCrc(data) = f[n]  BY DEF calculateCrc
<1>4. ASSUME NEW s \in S, NEW k \in 1 .. n PROVE Turn(s, k) \in S
  <2>1. s + data[k] \in Nat  BY <1>1, Sizes DEF Bytes
  <2> DEFINE x == s + data[k]
  <2> HIDE DEF x
  <2>2. x % (Full + 1) \in 0 .. Full  BY <2>1, Sizes DEF x
  <2> QED  BY <2>2 DEF Bytes, x
<1> HIDE DEF n, S, s0, Turn
<1>6. F \in [1 .. n -> [S -> S]]  BY <1>4
<1>7. \E h : h = G(h)
  <2>1. PICK h : IsLoop(h, n, S, s0, F)
    <3>1. n \in Nat  BY <1>1
    <3> HIDE DEF F
    <3> QED  BY <3>1, <1>2, <1>6, LoopExists, Zenon
  <2>2. h \in [0 .. n -> S] /\ h[0] = s0 /\ \A k \in 1 .. n : h[k] = F[k][h[k - 1]]
    BY <2>1 DEF IsLoop
  <2>3. ASSUME NEW k \in 1 .. n PROVE h[k] = Turn(h[k - 1], k)
    <3>1. k - 1 \in 0 .. n  BY <1>1
    <3> QED  BY <2>2, <3>1
  <2>4. h = G(h)
    <3>1. \A k \in 0 .. n : k # 0 => k \in 1 .. n  BY <1>1
    <3> HIDE DEF F
    <3> QED  BY <2>2, <2>3, <3>1
  <2> QED  BY <2>4
<1>8. f = G(f)  BY <1>7
<1> HIDE DEF f
<1>9. f[0] = s0 /\ \A k \in 1 .. n : f[k] = Turn(f[k - 1], k)  BY <1>1, <1>8
<1> DEFINE P == {k \in 0 .. n : f[k] \in S}
<1>10. 0 \in P /\ \A k \in 1 .. n : k - 1 \in P => k \in P  BY <1>1, <1>2, <1>4, <1>9
<1>11. \A k \in 0 .. n : k \in P
  <2>1. n \in Nat  BY <1>1
  <2> HIDE DEF P
  <2> QED  BY <2>1, <1>10, Induction
<1> QED  BY <1>1, <1>3, <1>11 DEF S

\* What a sender may send.
Payloads == UNION {[1 .. n -> Bytes] : n \in 0 .. MaxSent}

(* A frame is a string of bytes that the reader accepts, and gives the     *)
(* payload back.                                                           *)
LEMMA FrameFacts ==
    ASSUME NEW p \in Payloads
    PROVE  /\ p \in Seq(Bytes) /\ Len(p) <= MaxSent
           /\ Frame(p) \in Seq(Bytes) /\ Len(Frame(p)) = Len(p) + 3
           /\ Accepted(Frame(p)) /\ PayloadOf(Frame(p)) = p
<1> DEFINE L == Len(p)
           h == <<Version, Len(p)>>
           head == h \o p
           x == calculateCrc(head)
           f == Frame(p)
<1>1. p \in Seq(Bytes) /\ L \in Nat /\ L <= MaxSent
  <2>1. PICK n \in 0 .. MaxSent : p \in [1 .. n -> Bytes]  BY DEF Payloads
  <2>2. n \in Nat  BY Sizes
  <2>3. p \in Seq(Bytes) /\ Len(p) = n  BY <2>1, <2>2
  <2> QED  BY <2>2, <2>3, Sizes
<1>2. L \in Bytes /\ 1 \in Bytes  BY <1>1, Sizes DEF Bytes
<1>3. h \in Seq(Bytes) /\ Len(h) = 2 /\ h[1] = 1 /\ h[2] = L  BY <1>2 DEF Version
<1> HIDE DEF h
<1>4. /\ head \in Seq(Bytes) /\ Len(head) = Len(h) + L
      /\ \A i \in 1 .. Len(h) : head[i] = h[i]
      /\ \A j \in 1 .. L : head[Len(h) + j] = p[j]
  <2>1. h \in Seq(Bytes) /\ p \in Seq(Bytes)  BY <1>1, <1>3
  <2> QED  BY <2>1, ConcatParts
<1>5. f = Append(head, x)  BY DEF Frame, h
<1> HIDE DEF head, f
<1>6. head \in Seq(Bytes) /\ x \in Bytes  BY <1>4, CrcIsByte
<1> HIDE DEF x
<1>7. /\ f \in Seq(Bytes) /\ Len(f) = Len(head) + 1 /\ f[Len(head) + 1] = x
      /\ \A i \in 1 .. Len(head) : f[i] = head[i]
  BY <1>5, <1>6, AppendProperties
<1>8. Len(head) = L + 2 /\ Len(f) = L + 3 /\ head[1] = 1 /\ head[2] = L  BY <1>1, <1>3, <1>4, <1>7
<1> HIDE DEF L
<1>9. f[1] = 1 /\ f[2] = L /\ f[Len(f)] = x
  <2>1. 1 \in 1 .. Len(head) /\ 2 \in 1 .. Len(head) /\ Len(f) = Len(head) + 1  BY <1>1, <1>8
  <2> QED  BY <1>7, <1>8, <2>1
<1>10. SubSeq(f, 1, Len(f) - 1) = head
  <2> DEFINE w == Len(f) - 1
             y == SubSeq(f, 1, w)
  <2>1. w = Len(head) /\ w \in Nat /\ 1 \in Int /\ w \in Int  BY <1>1, <1>8
  <2>2. \A i \in 1 .. w : f[i] \in Bytes  BY <1>7, <1>8, <1>1, ElementOfSeq
  <2> HIDE DEF w
  <2>3. /\ y \in Seq(Bytes) /\ Len(y) = (IF 1 <= w THEN w - 1 + 1 ELSE 0)
        /\ \A i \in 1 .. w - 1 + 1 : y[i] = f[1 + i - 1]
    BY <2>1, <2>2, SubSeqProperties
  <2> HIDE DEF y
  <2>4. Len(y) = Len(head) /\ \A i \in 1 .. Len(y) : y[i] = head[i]  BY <1>7, <2>1, <2>3
  <2>5. y \in Seq(Bytes)  BY <2>3
  <2>6. y = head  BY <1>6, <2>4, <2>5, SeqEqual
  <2> QED  BY <2>6 DEF y, w
<1>11. SubSeq(f, 3, Len(f) - 1) = p
  <2> DEFINE w == Len(f) - 1
             y == SubSeq(f, 3, w)
  <2>1. w = L + 2 /\ w \in Nat /\ 3 \in Int /\ w \in Int  BY <1>1, <1>8
  <2>2. \A i \in 3 .. w : f[i] \in Bytes
    <3>1. \A i \in 3 .. w : i \in 1 .. Len(f)  BY <1>1, <1>8
    <3> QED  BY <1>7, <3>1, ElementOfSeq
  <2> HIDE DEF w
  <2>3. /\ y \in Seq(Bytes) /\ Len(y) = (IF 3 <= w THEN w - 3 + 1 ELSE 0)
        /\ \A i \in 1 .. w - 3 + 1 : y[i] = f[3 + i - 1]
    BY <2>1, <2>2, SubSeqProperties
  <2> HIDE DEF y
  <2>4. Len(y) = L  BY <1>1, <2>1, <2>3
  <2>5. ASSUME NEW i \in 1 .. L PROVE y[i] = p[i]
    <3>1. i \in 1 .. w - 3 + 1 /\ 3 + i - 1 = Len(h) + i /\ Len(h) + i \in 1 .. Len(head)
      BY <1>1, <1>3, <1>8, <2>1
    <3> QED  BY <1>4, <1>7, <2>3, <3>1 DEF L
  <2>6. y \in Seq(Bytes) /\ p \in Seq(Bytes)  BY <1>1, <2>3
  <2>7. y = p  BY <2>4, <2>5, <2>6, SeqEqual DEF L
  <2> QED  BY <2>7 DEF y, w
<1>12. f # Invalid
  <2>1. Invalid[1] = Full + 1  BY DEF Invalid
  <2> QED  BY <1>9, <2>1, Sizes
<1>13. Accepted(f)
  <2>1. Len(f) >= 3 /\ Len(f) = 3 + f[2]  BY <1>1, <1>8, <1>9
  <2> QED  BY <1>9, <1>10, <1>12, <2>1 DEF Accepted, Overhead, Version, x
<1>14. PayloadOf(f) = p  BY <1>11 DEF PayloadOf
<1> QED  BY <1>1, <1>7, <1>8, <1>13, <1>14 DEF f, L

(* A frame, encoded: no zero, not too long, and both decoders give it      *)
(* back.                                                                   *)
LEMMA EncodedFrame ==
    ASSUME NEW p \in Payloads
    PROVE  LET e == cobsEncode(Frame(p))
           IN  /\ e \in Seq(Bytes) /\ Len(e) <= Buffer
               /\ \A i \in 1 .. Len(e) : e[i] # 0
               /\ cobsDecode(e) = Frame(p) /\ decode(e) = p
<1> DEFINE d == Frame(p)
           e == cobsEncode(d)
           n == Len(d)
<1>1. /\ p \in Seq(Bytes) /\ Len(p) <= MaxSent /\ d \in Seq(Bytes) /\ n = Len(p) + 3
      /\ Accepted(d) /\ PayloadOf(d) = p
  BY FrameFacts
<1>2. n \in Nat /\ Len(p) \in Nat  BY <1>1, LenProperties
<1>3. d \in Seq(Bytes)  BY <1>1
<1> HIDE DEF d
<1>4. PICK f : Encodes(f, d) /\ Yields(f, n, e)  BY <1>3, EncodeRun
<1> HIDE DEF e, n
<1>5. /\ e \in Seq(Bytes) /\ Len(e) = Len(f[n].out) /\ \A i \in 1 .. Len(e) : e[i] # 0
  BY <1>3, <1>4, EncodedFrozen DEF n
<1>6. cobs_decode(e) = d  BY <1>3, <1>4, DecodeUndoesEncode DEF n
<1>7. cobsDecode(e) = d
  <2>1. e \in Seq(Bytes)  BY <1>5
  <2> QED  BY <1>6, <2>1, SameDecoders
<1>8. decode(e) = p  BY <1>1, <1>6 DEF decode
<1>9. PICK q \in 0 .. n : Len(e) = n + 1 + q /\ q * (Full - 1) <= n
  BY <1>3, <1>4, <1>5, EncodedLength DEF n
<1>10. Len(e) <= Buffer
  <2> DEFINE M == MaxSent + 3
             u == q * (Full - 1)
  <2>1. M \in Nat /\ n <= M  BY <1>1, <1>2, Sizes
  <2>2. q \in 0 .. M /\ q \in Nat  BY <1>2, <2>1
  <2>3. u \in Int
    <3>1. q \in Int /\ Full - 1 \in Int  BY <2>2, Sizes
    <3> QED  BY <3>1
  <2>4. u <= M
    <3> HIDE DEF u, M
    <3> QED  BY <1>2, <1>9, <2>1, <2>3 DEF u
  <2>5. M + 1 + q <= Buffer  BY <2>2, <2>4, CodecAssumption DEF Overhead
  <2> HIDE DEF M, u
  <2> QED  BY <1>2, <1>9, <2>1, <2>2, <2>5, Sizes
<1> QED  BY <1>5, <1>7, <1>8, <1>10 DEF e, d

-----------------------------------------------------------------------------
(* The reader *)

\* What the sender puts on the line, of which everything before j has been
\* read.  The reader holds what has been read of the second copy, since it held
\* nothing at the end of the first.
Line(e) == Append(e, 0)

Reading(e, j) ==
    /\ j \in 1 .. Len(e) + 2
    /\ Len(wire) = Len(e) + 2 - j
    /\ \A i \in 1 .. Len(wire) : wire[i] = Line(e)[(j - 1) + i]
    /\ sent = 2 /\ j <= Len(e) + 1 => /\ Len(encoded) = j - 1
                                      /\ \A i \in 1 .. j - 1 : encoded[i] = e[i]
    /\ j = Len(e) + 2 => encoded = <<>> /\ (sent = 2 => delivered = payload)

\* The inductive invariant.
ReaderInv ==
    /\ TypeOK
    /\ payload \in Payloads
    /\ wire \in Seq(Bytes)
    /\ IF sent = 0 THEN wire = <<>>
       ELSE \E j : Reading(cobsEncode(Frame(payload)), j)

(* The bytes of the line.                                                  *)
LEMMA LineFacts ==
    ASSUME NEW e \in Seq(Bytes)
    PROVE  /\ Line(e) \in Seq(Bytes) /\ Len(Line(e)) = Len(e) + 1
           /\ Line(e)[Len(e) + 1] = 0
           /\ \A i \in 1 .. Len(e) : Line(e)[i] = e[i]
<1>1. 0 \in Bytes  BY Sizes DEF Bytes
<1> QED  BY <1>1, AppendProperties DEF Line

(* A payload that is returned fits the caller's buffer.                    *)
LEMMA PayloadFits ==
    ASSUME NEW d \in Seq(Bytes), Len(d) <= Buffer, Accepted(d)
    PROVE  PayloadOf(d) \in Seq(Bytes) /\ Len(PayloadOf(d)) <= MaxPayload
<1> DEFINE w == Len(d) - 1
           y == SubSeq(d, 3, w)
<1>1. Len(d) \in Nat /\ Len(d) >= 3  BY LenProperties DEF Accepted, Overhead
<1>2. \A i \in 3 .. w : d[i] \in Bytes
  <2>1. \A i \in 3 .. w : i \in 1 .. Len(d)  BY <1>1
  <2> QED  BY <2>1, ElementOfSeq
<1>3. 3 \in Int /\ w \in Int  BY <1>1
<1>4. w + 1 <= Buffer /\ w >= 2  BY <1>1
<1>5. y = PayloadOf(d)  BY DEF PayloadOf
<1> HIDE DEF w
<1>6. y \in Seq(Bytes) /\ Len(y) = (IF 3 <= w THEN w - 3 + 1 ELSE 0)
  BY <1>2, <1>3, SubSeqProperties
<1> HIDE DEF y
<1>7. Len(y) <= MaxPayload  BY <1>3, <1>4, <1>6, Sizes
<1> QED  BY <1>5, <1>6, <1>7

(* A turn of the reader, on any byte, keeps the types.                     *)
LEMMA ReadByteType ==
    ASSUME TypeOK, NEW b \in Bytes, readByte(b), sent' \in 0 .. 2
    PROVE  TypeOK'
<1> USE DEF TypeOK
<1>1. Len(encoded) \in Nat /\ encoded \in Seq(Bytes)
  <2>1. encoded \in Seq(Bytes \ {0}) /\ Bytes \ {0} \subseteq Bytes  OBVIOUS
  <2>2. encoded \in Seq(Bytes)  BY <2>1, SeqMonotonic
  <2> QED  BY <2>2, LenProperties
<1>2. <<>> \in Seq(Bytes \ {0}) /\ Len(<<>>) = 0 /\ 0 <= Buffer  BY Sizes
<1>3. CASE b # 0 /\ encoded' = (IF HasRoom THEN Append(encoded, b) ELSE <<>>) /\ UNCHANGED delivered
  <2>1. CASE HasRoom
    <3> DEFINE x == Append(encoded, b)
    <3>1. encoded \in Seq(Bytes \ {0}) /\ b \in Bytes \ {0}  BY <1>3
    <3>2. x \in Seq(Bytes \ {0}) /\ Len(x) = Len(encoded) + 1  BY <3>1, AppendProperties
    <3>3. encoded' = x  BY <1>3, <2>1
    <3> HIDE DEF x
    <3>4. Len(x) <= Buffer  BY <1>1, <2>1, <3>2, Sizes DEF HasRoom
    <3> QED  BY <1>3, <3>2, <3>3, <3>4
  <2>2. CASE ~HasRoom
    <3>1. encoded' = <<>>  BY <1>3, <2>2
    <3> QED  BY <1>2, <1>3, <3>1
  <2> QED  BY <2>1, <2>2
<1>4. CASE b = 0 /\ AtDelimiter(cobsDecode(encoded))
  <2> DEFINE d == cobsDecode(encoded)
  <2>1. encoded' = <<>> /\ delivered' = IF Accepted(d) THEN PayloadOf(d) ELSE delivered
    BY <1>4 DEF AtDelimiter
  <2>2. ASSUME Accepted(d) PROVE PayloadOf(d) \in Seq(Bytes) /\ Len(PayloadOf(d)) <= MaxPayload
    <3>1. d # Invalid  BY <2>2 DEF Accepted
    <3>2. d \in Seq(Bytes) /\ Len(d) <= Len(encoded)  BY <1>1, <3>1, DecodedBytes
    <3>3. Len(d) \in Nat  BY <3>2, LenProperties
    <3> HIDE DEF d
    <3>4. Len(d) <= Buffer  BY <1>1, <3>2, <3>3, Sizes
    <3> QED  BY <2>2, <3>2, <3>4, PayloadFits
  <2> HIDE DEF d
  <2>3. delivered' = Invalid \/ (delivered' \in Seq(Bytes) /\ Len(delivered') <= MaxPayload)
    BY <2>1, <2>2
  <2> QED  BY <1>2, <2>1, <2>3
<1> QED  BY <1>3, <1>4 DEF readByte

(* The reader begins with nothing.                                         *)
LEMMA ReaderInvInit == Init => ReaderInv
<1> SUFFICES ASSUME Init PROVE ReaderInv  OBVIOUS
<1> USE DEF Init
<1>1. <<>> \in Seq(Bytes \ {0}) /\ Len(<<>>) = 0 /\ <<>> \in Seq(Bytes)  OBVIOUS
<1>2. TypeOK  BY <1>1, Sizes DEF TypeOK
<1>3. payload \in Payloads  BY DEF Payloads
<1>4. wire \in Seq(Bytes) /\ wire = <<>> /\ sent = 0  BY <1>1
<1> QED  BY <1>2, <1>3, <1>4 DEF ReaderInv

(* Send puts a whole line on the wire.                                     *)
LEMMA ReaderInvSend ==
    ASSUME ReaderInv, Send
    PROVE  ReaderInv'
<1> DEFINE e == cobsEncode(Frame(payload))
<1>1. e \in Seq(Bytes)  BY EncodedFrame DEF ReaderInv
<1>2. /\ wire = <<>> /\ sent < 2 /\ sent \in 0 .. 2 /\ sent' = sent + 1
      /\ wire' = Line(e) /\ delivered' = Invalid
      /\ UNCHANGED <<encoded, noise, payload>>
  BY DEF Send, Line, ReaderInv, TypeOK
<1>3. e' = e  BY <1>2
<1>4. Line(e) \in Seq(Bytes) /\ Len(Line(e)) = Len(e) + 1 /\ Len(e) \in Nat
  BY <1>1, LineFacts, LenProperties
<1>5. TypeOK'
  <2>1. sent' \in 0 .. 2  BY <1>2
  <2> QED  BY <1>2, <2>1 DEF ReaderInv, TypeOK
<1>6. ASSUME sent' = 2 PROVE encoded = <<>>
  <2>1. sent # 0  BY <1>2, <1>6
  <2>2. PICK j : Reading(e, j)  BY <2>1 DEF ReaderInv
  <2> HIDE DEF e
  <2>3. /\ j \in 1 .. Len(e) + 2 /\ Len(wire) = Len(e) + 2 - j
        /\ j = Len(e) + 2 => encoded = <<>>
    BY <2>2 DEF Reading
  <2>4. Len(wire) = 0  BY <1>2
  <2>5. j = Len(e) + 2  BY <1>4, <2>3, <2>4
  <2> QED  BY <2>3, <2>5
<1>7. Reading(e, 1)'
  <2> HIDE DEF e
  <2>1. 1 \in 1 .. Len(e) + 2 /\ Len(e) + 1 = Len(e) + 2 - 1 /\ 1 # Len(e) + 2  BY <1>4
  <2>2. \A i \in 1 .. Len(Line(e)) : (1 - 1) + i = i  OBVIOUS
  <2>3. /\ 1 \in 1 .. Len(e) + 2 /\ Len(wire') = Len(e) + 2 - 1
        /\ \A i \in 1 .. Len(wire') : wire'[i] = Line(e)[(1 - 1) + i]
    BY <1>2, <1>4, <2>1, <2>2
  <2>4. sent' = 2 => Len(encoded') = 1 - 1 /\ \A i \in 1 .. 1 - 1 : FALSE  BY <1>2, <1>6
  <2> QED  BY <1>3, <2>1, <2>3, <2>4 DEF Reading, Line
<1>8. (\E j : Reading(e, j))'  BY <1>7
<1>9. payload' \in Payloads /\ wire' \in Seq(Bytes) /\ sent' # 0
  BY <1>2, <1>4 DEF ReaderInv
<1> QED  BY <1>5, <1>8, <1>9 DEF ReaderInv

(* The next byte of the line reaches the reader.                           *)
LEMMA ReaderInvCarry ==
    ASSUME ReaderInv, Carry
    PROVE  ReaderInv'
<1> DEFINE e == cobsEncode(Frame(payload))
           b == Head(wire)
           N == Len(e)
           v == Line(e)
<1>1. /\ wire # <<>> /\ readByte(b) /\ wire' = Tail(wire)
      /\ UNCHANGED <<noise, payload, sent>>
  BY DEF Carry
<1>2. TypeOK /\ payload \in Payloads /\ wire \in Seq(Bytes)  BY DEF ReaderInv
<1>3. /\ b \in Bytes /\ wire' \in Seq(Bytes) /\ Len(wire') = Len(wire) - 1
      /\ b = wire[1] /\ \A i \in 1 .. Len(wire') : wire'[i] = wire[i + 1]
  BY <1>1, <1>2, HeadTailProperties
<1>4. sent' \in 0 .. 2  BY <1>1, <1>2 DEF TypeOK
<1>5. TypeOK'  BY <1>1, <1>2, <1>3, <1>4, ReadByteType
<1>6. /\ e \in Seq(Bytes) /\ N <= Buffer /\ (\A i \in 1 .. N : e[i] # 0)
      /\ cobsDecode(e) = Frame(payload)
  BY <1>2, EncodedFrame
<1>7. N \in Nat /\ Len(wire) \in Nat /\ Len(wire) >= 1
  <2>1. Len(wire) \in Nat \ {0}  BY <1>1, <1>2, EmptySeq
  <2> QED  BY <1>6, <2>1, LenProperties
<1>8. v[N + 1] = 0 /\ \A i \in 1 .. N : v[i] = e[i]  BY <1>6, LineFacts
<1>0. sent # 0 /\ sent' # 0  BY <1>1 DEF ReaderInv
<1>9. PICK j : Reading(e, j)  BY <1>0 DEF ReaderInv
<1>10. /\ j \in 1 .. N + 2 /\ Len(wire) = N + 2 - j
       /\ \A i \in 1 .. Len(wire) : wire[i] = v[(j - 1) + i]
       /\ sent = 2 /\ j <= N + 1 => Len(encoded) = j - 1 /\ \A i \in 1 .. j - 1 : encoded[i] = e[i]
  BY <1>9 DEF Reading
<1>11. e' = e /\ v' = v /\ N' = N
  <2>1. payload' = payload  BY <1>1
  <2> QED  BY <2>1 DEF Line
<1>12. encoded \in Seq(Bytes) /\ Len(encoded) \in Nat
  <2>1. encoded \in Seq(Bytes \ {0}) /\ Bytes \ {0} \subseteq Bytes  BY <1>2 DEF TypeOK
  <2>2. encoded \in Seq(Bytes)  BY <2>1, SeqMonotonic
  <2> QED  BY <2>2, LenProperties
<1> HIDE DEF e, b, v
<1>13. /\ j \in 1 .. N + 1 /\ b = v[j] /\ j + 1 \in 1 .. N + 2 /\ Len(wire') = N + 2 - (j + 1)
  <2>1. 1 \in 1 .. Len(wire) /\ (j - 1) + 1 = j  BY <1>7, <1>10
  <2> HIDE DEF N
  <2> QED  BY <1>3, <1>7, <1>10, <2>1, SMTT(30)
<1>14. \A i \in 1 .. Len(wire') : wire'[i] = v[((j + 1) - 1) + i]
  <2> TAKE i \in 1 .. Len(wire')
  <2> HIDE DEF N
  <2>1. Len(wire') = Len(wire) - 1 /\ Len(wire) \in Nat /\ j \in Int  BY <1>3, <1>7, <1>10
  <2>2. i + 1 \in 1 .. Len(wire) /\ (j - 1) + (i + 1) = ((j + 1) - 1) + i  BY <2>1
  <2> QED  BY <1>3, <1>10, <2>2
<1>16. CASE j <= N
  <2> DEFINE x == Append(encoded, b)
  <2>1. j \in 1 .. N /\ ~(j + 1 = N + 2)  BY <1>7, <1>13, <1>16
  <2>2. b = e[j] /\ b # 0  BY <1>6, <1>8, <1>13, <2>1
  <2>3. ASSUME sent = 2
        PROVE  encoded' = x /\ Len(x) = (j + 1) - 1 /\ \A i \in 1 .. (j + 1) - 1 : x[i] = e[i]
    <3>1. Len(encoded) = j - 1 /\ \A i \in 1 .. j - 1 : encoded[i] = e[i]
      BY <1>7, <1>10, <2>1, <2>3
    <3>2. HasRoom  BY <1>6, <1>7, <2>1, <3>1, Sizes DEF HasRoom
    <3>3. encoded' = x  BY <1>1, <2>2, <3>2 DEF readByte
    <3>4. /\ Len(x) = Len(encoded) + 1 /\ x[Len(encoded) + 1] = b
          /\ \A i \in 1 .. Len(encoded) : x[i] = encoded[i]
      <4>1. encoded \in Seq(Bytes) /\ b \in Bytes  BY <1>3, <1>12
      <4> QED  BY <4>1, AppendProperties
    <3> HIDE DEF x
    <3>5. Len(x) = (j + 1) - 1  BY <2>1, <3>1, <3>4
    <3>6. ASSUME NEW i \in 1 .. (j + 1) - 1 PROVE x[i] = e[i]
      <4>1. CASE i \in 1 .. j - 1  BY <3>1, <3>4, <4>1
      <4>2. CASE i = j
        <5>1. Len(encoded) + 1 = j  BY <2>1, <3>1
        <5> QED  BY <2>2, <3>4, <4>2, <5>1
      <4> QED  BY <2>1, <4>1, <4>2
    <3> QED  BY <3>3, <3>5, <3>6
  <2> HIDE DEF x
  <2>4. sent' = 2 => Len(encoded') = (j + 1) - 1 /\ \A i \in 1 .. (j + 1) - 1 : encoded'[i] = e[i]
    BY <1>1, <2>3, Zenon
  <2>5. Reading(e, j + 1)'
    <3> HIDE DEF N
    <3> QED  BY <1>11, <1>13, <1>14, <2>1, <2>4 DEF Reading, N, v
  <2> QED  BY <1>0, <1>1, <1>2, <1>3, <1>5, <2>5 DEF ReaderInv, e
<1>17. CASE j = N + 1
  <2>1. b = 0  BY <1>8, <1>13, <1>17
  <2>2. AtDelimiter(cobsDecode(encoded))  BY <1>1, <2>1 DEF readByte
  <2>3. ASSUME sent = 2 PROVE delivered' = payload
    <3>1. Len(encoded) = N /\ \A i \in 1 .. N : encoded[i] = e[i]  BY <1>7, <1>10, <1>17, <2>3
    <3>2. encoded = e  BY <1>6, <1>12, <3>1, SeqEqual
    <3>3. Accepted(Frame(payload)) /\ PayloadOf(Frame(payload)) = payload  BY <1>2, FrameFacts
    <3> QED  BY <1>6, <2>2, <3>2, <3>3 DEF AtDelimiter
  <2>4. encoded' = <<>> /\ (sent' = 2 => delivered' = payload') /\ ~(j + 1 <= N + 1)
    BY <1>1, <1>7, <1>17, <2>2, <2>3 DEF AtDelimiter
  <2>5. Reading(e, j + 1)'
    <3> HIDE DEF N
    <3> QED  BY <1>11, <1>13, <1>14, <2>4 DEF Reading, N, v
  <2> QED  BY <1>0, <1>1, <1>2, <1>3, <1>5, <2>5 DEF ReaderInv, e
<1> QED  BY <1>7, <1>13, <1>16, <1>17

(* Every step keeps the invariant.                                         *)
LEMMA ReaderInvStep == ReaderInv /\ [Next]_vars => ReaderInv'
<1> SUFFICES ASSUME ReaderInv, [Next]_vars PROVE ReaderInv'  OBVIOUS
<1>1. ASSUME NEW b \in Bytes, Noise(b) PROVE ReaderInv'
  <2>1. sent = 0 /\ readByte(b) /\ UNCHANGED <<payload, wire, sent>>  BY <1>1 DEF Noise
  <2>2. sent' \in 0 .. 2 /\ sent' = 0  BY <2>1
  <2>3. TypeOK'  BY <2>1, <2>2, ReadByteType DEF ReaderInv
  <2> QED  BY <2>1, <2>2, <2>3 DEF ReaderInv
<1>2. CASE UNCHANGED vars
  <2> QED  BY <1>2 DEF ReaderInv, TypeOK, Reading, vars, Line
<1> QED  BY <1>1, <1>2, ReaderInvSend, ReaderInvCarry DEF Next

(* The invariant holds.                                                    *)
LEMMA ReaderInvHolds == Spec => []ReaderInv
BY ReaderInvInit, ReaderInvStep, PTL DEF Spec

(* Whatever is received, the receive buffer does not overflow, and what is *)
(* copied to the caller of readProtocolFrame fits its payload buffer.      *)
THEOREM FrameBuffersHold == Spec => []TypeOK
<1>1. ReaderInv => TypeOK  BY DEF ReaderInv
<1> QED  BY <1>1, ReaderInvHolds, PTL

(* The bootloader's decoder, in place in the receive buffer, and the       *)
(* tool's agree on every string that a line can carry.                     *)
THEOREM DecodersAgreeHolds == Spec => []DecodersAgree
<1>1. ReaderInv => DecodersAgree
  <2> SUFFICES ASSUME ReaderInv PROVE DecodersAgree  OBVIOUS
  <2>1. encoded \in Seq(Bytes \ {0}) /\ Bytes \ {0} \subseteq Bytes  BY DEF ReaderInv, TypeOK
  <2>2. encoded \in Seq(Bytes)  BY <2>1, SeqMonotonic
  <2> QED  BY <2>2, SameDecoders DEF DecodersAgree
<1> QED  BY <1>1, ReaderInvHolds, PTL

(* Encoding leaves no delimiter in the frame and fits the buffer, and both *)
(* decoders give the frame back.                                           *)
THEOREM RoundTripHolds == Spec => []RoundTrip
<1>1. ReaderInv => RoundTrip
  <2> SUFFICES ASSUME ReaderInv PROVE RoundTrip  OBVIOUS
  <2>1. payload \in Payloads  BY DEF ReaderInv
  <2> QED  BY <2>1, EncodedFrame DEF RoundTrip
<1> QED  BY <1>1, ReaderInvHolds, PTL

(* Whatever was read before, and whatever became of the first copy of a    *)
(* frame that ran into it, the second copy is delivered.                   *)
THEOREM ResyncHolds == Spec => []Resync
<1>1. ReaderInv => Resync
  <2> SUFFICES ASSUME ReaderInv, sent = 2, wire = <<>> PROVE delivered = payload
    BY DEF Resync
  <2> DEFINE e == cobsEncode(Frame(payload))
  <2>1. PICK j : Reading(e, j)  BY DEF ReaderInv
  <2>2. e \in Seq(Bytes)  BY EncodedFrame DEF ReaderInv
  <2> HIDE DEF e
  <2>3. Len(e) \in Nat /\ Len(wire) = 0  BY <2>2, LenProperties
  <2>4. /\ j \in 1 .. Len(e) + 2 /\ Len(wire) = Len(e) + 2 - j
        /\ j = Len(e) + 2 => delivered = payload
    BY <2>1 DEF Reading
  <2>5. j = Len(e) + 2  BY <2>3, <2>4
  <2> QED  BY <2>4, <2>5
<1> QED  BY <1>1, ReaderInvHolds, PTL
====
