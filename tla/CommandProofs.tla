---------------------------- MODULE CommandProofs ----------------------------
(***************************************************************************)
(* Proofs about the commands.                                              *)
(*                                                                         *)
(* TxSync: the sequence numbers of the sync packets count the              *)
(* transmissions, for any width of the counter and any number of failures, *)
(* and what is sent is what the user typed, for any length of an argument  *)
(* and any width of the value.                                             *)
(*                                                                         *)
(* CliTask: the line buffer is never overrun, and a line is answered by    *)
(* its own words, for any size of the buffer and any command table.        *)
(***************************************************************************)
EXTENDS TxSync, CliTask, TLAPS, SequenceTheorems, FiniteSetTheorems, WellFoundedInduction

-----------------------------------------------------------------------------
(* Arithmetic *)

(* A larger multiple is larger by n.                                       *)
LEMMA NextMultiple ==
    ASSUME NEW n \in Nat \ {0}, NEW q \in Int, NEW p \in Int, q < p
    PROVE  n * q + n <= n * p
OBVIOUS

(* What is left above a multiple of n is the remainder.                    *)
LEMMA LeftAbove ==
    ASSUME NEW n \in Nat \ {0}, NEW a \in Nat, NEW q \in Int, NEW r \in 0 .. n - 1,
           a = n * q + r
    PROVE  a % n = r
<1> DEFINE p == a \div n
           s == a % n
           x == n * q
           y == n * p
<1>1. p \in Int /\ s \in 0 .. n - 1  OBVIOUS
<1>2. y \in Int /\ a = y + s  BY <1>1
<1> HIDE DEF p, s
<1>3. x \in Int /\ a = x + r  OBVIOUS
<1>4. q < p => x + n <= y  BY <1>1, NextMultiple
<1>5. p < q => y + n <= x  BY <1>1, NextMultiple
<1>6. p = q => x = y  OBVIOUS
<1> HIDE DEF x, y
<1>7. s = r  BY <1>1, <1>2, <1>3, <1>4, <1>5, <1>6
<1> QED  BY <1>7 DEF s

(* The counter, without %.                                                 *)
LEMMA CounterStep ==
    ASSUME NEW s \in 0 .. Numbers - 1
    PROVE  /\ (s + 1) % Numbers = IF s + 1 = Numbers THEN 0 ELSE s + 1
           /\ (s + 1) % Numbers \in 0 .. Numbers - 1
<1> USE TxAssumption
<1>1. CASE s + 1 = Numbers
  <2>1. Numbers % Numbers = 0  OBVIOUS
  <2> QED  BY <1>1, <2>1
<1>2. CASE s + 1 # Numbers
  <2>1. s + 1 \in 0 .. Numbers - 1  BY <1>2
  <2>2. (s + 1) % Numbers = s + 1  BY <2>1
  <2> QED  BY <1>2, <2>1, <2>2
<1> QED  BY <1>1, <1>2

-----------------------------------------------------------------------------
(* The inductive invariant *)

\* The transmissions behind the number of the last good one, the one under way
\* included.
Taken == last + failed + 1 + (IF sending THEN 1 ELSE 0)

\* After some rounds of the counter, sequence is the next number.
Counted == \E rounds \in Nat : Taken = Numbers * rounds + sequence

Inv ==
    /\ sequence \in 0 .. Numbers - 1
    /\ packet.seq \in 0 .. Numbers - 1
    /\ sending \in BOOLEAN
    /\ failed \in Nat
    /\ last \in 0 .. Numbers - 1
    /\ sending => sequence = IF packet.seq + 1 = Numbers THEN 0 ELSE packet.seq + 1
    /\ Counted

(* No transmission yet: the counter is at the start of its second round.   *)
LEMMA InitInv == Init => Inv
<1> SUFFICES ASSUME Init PROVE Inv  OBVIOUS
<1> USE TxAssumption
<1>1. /\ sequence = 0 /\ packet.seq = 0 /\ sending = FALSE /\ failed = 0
      /\ last = Numbers - 1
  BY DEF Init, NoPacket
<1>2. Taken = Numbers * 1 + sequence  BY <1>1 DEF Taken
<1>3. Counted  BY <1>2 DEF Counted
<1>4. sequence \in 0 .. Numbers - 1 /\ last \in 0 .. Numbers - 1 /\ failed \in Nat
  BY <1>1
<1> QED  BY <1>1, <1>3, <1>4 DEF Inv

(* A packet takes the next number.                                         *)
LEMMA BuildInv ==
    ASSUME Inv, ~sending, NEW type, NEW value, buildSyncPacket(type, value)
    PROVE  Inv'
<1> USE TxAssumption
<1>1. /\ packet'.seq = sequence /\ sending' = TRUE
      /\ sequence' = (sequence + 1) % Numbers
      /\ failed' = failed /\ last' = last
  BY DEF buildSyncPacket
<1>2. /\ sequence' = IF sequence + 1 = Numbers THEN 0 ELSE sequence + 1
      /\ sequence' \in 0 .. Numbers - 1
  BY <1>1, CounterStep DEF Inv
<1>3. Counted'
  <2>1. PICK rounds \in Nat : Taken = Numbers * rounds + sequence  BY DEF Inv, Counted
  <2> DEFINE x == Numbers * rounds
  <2>2. x \in Nat /\ Numbers * (rounds + 1) = x + Numbers  OBVIOUS
  <2>3. Taken' = Taken + 1  BY <1>1 DEF Inv, Taken
  <2>4. Taken = x + sequence  BY <2>1
  <2> HIDE DEF x
  <2>5. Taken' = x + sequence + 1  BY <2>2, <2>3, <2>4 DEF Inv
  <2>6. CASE sequence + 1 = Numbers
    <3>1. Taken' = x + Numbers + sequence'  BY <1>2, <2>2, <2>5, <2>6 DEF Inv
    <3>2. Taken' = Numbers * (rounds + 1) + sequence' /\ rounds + 1 \in Nat
      BY <2>2, <3>1
    <3> QED  BY <3>2 DEF Counted
  <2>7. CASE sequence + 1 # Numbers
    <3>1. Taken' = x + sequence'  BY <1>2, <2>2, <2>5, <2>7 DEF Inv
    <3> QED  BY <3>1 DEF Counted, x
  <2> QED  BY <2>6, <2>7
<1> QED  BY <1>1, <1>2, <1>3 DEF Inv

(* Nothing that is counted changes.                                        *)
LEMMA UncountedInv ==
    ASSUME Inv, UNCHANGED <<sequence, packet, sending, failed, last>>
    PROVE  Inv'
BY DEF Inv, Counted, Taken

(* A packet that went out starts the count at its number.                  *)
LEMMA SentInv ==
    ASSUME Inv, Sent
    PROVE  Inv'
<1> USE TxAssumption
<1>1. /\ sending /\ sending' = FALSE /\ last' = packet.seq /\ failed' = 0
      /\ sequence' = sequence /\ packet' = packet
  BY DEF Sent
<1>2. sequence = IF packet.seq + 1 = Numbers THEN 0 ELSE packet.seq + 1
  BY <1>1 DEF Inv
<1>3. Taken' = packet.seq + 1  BY <1>1 DEF Inv, Taken
<1>4. Counted'
  <2>1. CASE packet.seq + 1 = Numbers
    <3>1. Taken' = Numbers * 1 + sequence'  BY <1>1, <1>2, <1>3, <2>1
    <3> QED  BY <3>1 DEF Counted
  <2>2. CASE packet.seq + 1 # Numbers
    <3>1. Taken' = Numbers * 0 + sequence'  BY <1>1, <1>2, <1>3, <2>2 DEF Inv
    <3> QED  BY <3>1 DEF Counted
  <2> QED  BY <2>1, <2>2
<1> QED  BY <1>1, <1>4 DEF Inv

(* A failed one becomes a gap.                                             *)
LEMMA SendFailedInv ==
    ASSUME Inv, SendFailed
    PROVE  Inv'
<1>1. /\ sending /\ sending' = FALSE /\ last' = last /\ failed' = failed + 1
      /\ sequence' = sequence /\ packet' = packet
  BY DEF SendFailed
<1>2. Taken' = Taken  BY <1>1, TxAssumption DEF Inv, Taken
<1>3. Counted'  BY <1>1, <1>2 DEF Inv, Counted
<1>4. failed' \in Nat /\ sending' \in BOOLEAN /\ ~sending'
  <2>1. failed \in Nat  BY DEF Inv
  <2>2. failed' = failed + 1  BY DEF SendFailed
  <2>3. failed' \in Nat  BY <2>1, <2>2
  <2>4. sending' \in BOOLEAN /\ ~sending'  BY <1>1, Zenon
  <2> QED  BY <2>3, <2>4
<1>5. sequence \in 0 .. Numbers - 1 /\ packet.seq \in 0 .. Numbers - 1
  BY DEF Inv
<1>6. last \in 0 .. Numbers - 1  BY DEF Inv
<1> QED  BY <1>1, <1>3, <1>4, <1>5, <1>6 DEF Inv

(* A command either builds a packet or leaves the counter alone.           *)
LEMMA CommandInv ==
    ASSUME Inv, NEW words, tx_command(words)
    PROVE  Inv'
<1>1. ~sending  BY DEF tx_command
<1>2. \/ \E code : Refuse(code)
      \/ \E type, value : buildSyncPacket(type, value)
  BY DEF tx_command
<1>3. ASSUME NEW code, Refuse(code) PROVE Inv'
  BY <1>3, UncountedInv DEF Refuse
<1>4. ASSUME NEW type, NEW value, buildSyncPacket(type, value) PROVE Inv'
  BY <1>1, <1>4, BuildInv
<1> QED  BY <1>2, <1>3, <1>4

(* Every step keeps the invariant.                                         *)
LEMMA NextInv == Inv /\ [Next]_vars => Inv'
<1> SUFFICES ASSUME Inv, [Next]_vars PROVE Inv'  OBVIOUS
<1>1. ASSUME NEW words, tx_command(words) PROVE Inv'  BY <1>1, CommandInv
<1>2. CASE Sent  BY <1>2, SentInv
<1>3. CASE SendFailed  BY <1>3, SendFailedInv
<1>4. CASE Answered  BY <1>4, UncountedInv DEF Answered
<1>5. CASE UNCHANGED vars  BY <1>5, UncountedInv DEF vars
<1> QED  BY <1>1, <1>2, <1>3, <1>4, <1>5 DEF Next

-----------------------------------------------------------------------------
(* The theorem *)

(* Between two sync packets that went out a number is missing for each     *)
(* transmission that failed and for no refused command, for any number of  *)
(* wraparounds of syncSequence.                                            *)
THEOREM NumbersCountTransmissions == Spec => []GapsAreFailures
<1>1. Spec => []Inv  BY InitInv, NextInv, PTL DEF Spec
<1>2. Inv => GapsAreFailures
  <2> SUFFICES ASSUME Inv PROVE GapsAreFailures  OBVIOUS
  <2>1. PICK rounds \in Nat : Taken = Numbers * rounds + sequence  BY DEF Inv, Counted
  <2>2. Taken \in Nat /\ rounds \in Int  BY TxAssumption DEF Inv, Taken
  <2>3. Taken % Numbers = sequence
    BY <2>1, <2>2, LeftAbove, TxAssumption DEF Inv
  <2> QED  BY <2>3 DEF GapsAreFailures, Taken
<1> QED  BY <1>1, <1>2, PTL

-----------------------------------------------------------------------------
(* Induction and loops *)

(* Every non-empty set of naturals has a least element.                    *)
LEMMA LeastNatural ==
    ASSUME NEW T \in SUBSET Nat, T # {}
    PROVE  \E x \in T : \A y \in T : x <= y
<1> DEFINE R == OpToRel(<, Nat)
<1>1. PICK x \in T : \A y \in T : ~(<<y, x>> \in R)
  BY WFMin, NatLessThanWellFounded, Zenon
<1>2. ASSUME NEW y \in T PROVE x <= y
  <2>1. ~(y < x)  BY <1>1, Zenon DEF OpToRel
  <2> QED  BY <2>1
<1> QED  BY <1>2, Zenon

(* Induction up to n, over a set.                                          *)
LEMMA Induction ==
    ASSUME NEW n \in Nat, NEW P, 0 \in P, \A k \in 1 .. n : k - 1 \in P => k \in P
    PROVE  \A k \in 0 .. n : k \in P
<1> DEFINE T == {k \in 0 .. n : k \notin P}
<1>1. SUFFICES ASSUME T # {} PROVE FALSE  OBVIOUS
<1>2. T \in SUBSET Nat  OBVIOUS
<1>3. PICK k \in T : \A j \in T : k <= j
  <2> HIDE DEF T
  <2> QED  BY <1>1, <1>2, LeastNatural
<1>4. k \in 0 .. n /\ k \notin P /\ k # 0  OBVIOUS
<1>5. k \in 1 .. n /\ k - 1 \in 0 .. n /\ ~(k <= k - 1)  BY <1>4
<1>6. k - 1 \in P  BY <1>3, <1>5
<1> QED  BY <1>4, <1>5, <1>6

\* The loop f of n turns F that starts in s0.
IsLoop(f, n, S, s0, F) ==
    f \in [0 .. n -> S] /\ f[0] = s0 /\ \A k \in 1 .. n : f[k] = F[k][f[k - 1]]

(* A loop of n turns that keeps its state in S has a run.                  *)
LEMMA LoopExists ==
    ASSUME NEW n \in Nat, NEW S, NEW s0 \in S, NEW F, F \in [1 .. n -> [S -> S]]
    PROVE  \E f : IsLoop(f, n, S, s0, F)
<1> DEFINE Run(f, m) == IsLoop(f, m, S, s0, F)
           P == {m \in 0 .. n : \E f : Run(f, m)}
<1>1. 0 \in P
  <2>1. Run([k \in 0 .. 0 |-> s0], 0)  BY DEF IsLoop
  <2> HIDE DEF Run
  <2> QED  BY <2>1
<1>2. ASSUME NEW k \in 1 .. n, k - 1 \in P PROVE k \in P
  <2>1. PICK f : Run(f, k - 1)  BY <1>2
  <2> DEFINE x == F[k][f[k - 1]]
             g == [j \in 0 .. k |-> IF j = k THEN x ELSE f[j]]
  <2>2. /\ f \in [0 .. k - 1 -> S] /\ f[0] = s0
        /\ \A j \in 1 .. k - 1 : f[j] = F[j][f[j - 1]]
    BY <2>1 DEF IsLoop
  <2>3. k - 1 \in 0 .. k - 1 /\ f[k - 1] \in S  BY <2>2
  <2>4. x \in S  BY <2>3
  <2>5. g \in [0 .. k -> S] /\ g[0] = s0 /\ g[k] = x  BY <2>2, <2>4
  <2>6. \A j \in 0 .. k - 1 : g[j] = f[j]  OBVIOUS
  <2>7. ASSUME NEW j \in 1 .. k PROVE g[j] = F[j][g[j - 1]]
    <3>1. CASE j = k  BY <2>3, <2>5, <2>6, <3>1
    <3>2. CASE j # k
      <4>1. j \in 1 .. k - 1 /\ j \in 0 .. k - 1 /\ j - 1 \in 0 .. k - 1  BY <3>2
      <4> HIDE DEF g, x
      <4> QED  BY <2>2, <2>6, <4>1
    <3> QED  BY <3>1, <3>2
  <2> HIDE DEF g, x
  <2>8. Run(g, k)  BY <2>5, <2>7 DEF IsLoop
  <2> HIDE DEF Run
  <2>9. k \in 0 .. n  OBVIOUS
  <2> QED  BY <2>8, <2>9
<1>3. n \in P
  <2>1. n \in 0 .. n  OBVIOUS
  <2> HIDE DEF P
  <2> QED  BY <1>1, <1>2, <2>1, Induction, Zenon
<1> QED  BY <1>3

-----------------------------------------------------------------------------
(* Powers of 16 *)

(* The place values.                                                       *)
LEMMA PowerFacts ==
    /\ Power16 \in [0 .. TimeDigits -> Nat \ {0}]
    /\ Power16[0] = 1
    /\ \A k \in 1 .. TimeDigits : Power16[k] = 16 * Power16[k - 1]
<1> DEFINE n == TimeDigits
           S == Nat \ {0}
           s0 == 1
           Turn(s) == 16 * s
           G(h) == [k \in 0 .. n |-> IF k = 0 THEN s0 ELSE Turn(h[k - 1])]
           F == [k \in 1 .. n |-> [s \in S |-> Turn(s)]]
           f == CHOOSE h : h = G(h)
<1>1. n \in Nat  BY TxAssumption
<1>2. s0 \in S  OBVIOUS
<1>3. Power16 = f  BY DEF Power16
<1>4. \A s \in S : Turn(s) \in S  OBVIOUS
<1> HIDE DEF n, S, s0, Turn
<1>6. F \in [1 .. n -> [S -> S]]  BY <1>4
<1>7. \E h : h = G(h)
  <2>1. PICK h : IsLoop(h, n, S, s0, F)
    <3> HIDE DEF F
    <3> QED  BY <1>1, <1>2, <1>6, LoopExists, Zenon
  <2>2. h \in [0 .. n -> S] /\ h[0] = s0 /\ \A k \in 1 .. n : h[k] = F[k][h[k - 1]]
    BY <2>1 DEF IsLoop
  <2>3. ASSUME NEW k \in 1 .. n PROVE h[k] = Turn(h[k - 1])
    <3>1. k - 1 \in 0 .. n  BY <1>1
    <3> QED  BY <2>2, <3>1
  <2>4. h = G(h)
    <3>1. \A k \in 0 .. n : k # 0 => k \in 1 .. n  BY <1>1
    <3> HIDE DEF F
    <3> QED  BY <2>2, <2>3, <3>1
  <2> QED  BY <2>4
<1>8. f = G(f)  BY <1>7
<1> HIDE DEF f
<1>9. f[0] = s0 /\ \A k \in 1 .. n : f[k] = Turn(f[k - 1])  BY <1>1, <1>8
<1> DEFINE P == {k \in 0 .. n : f[k] \in S}
<1>10. 0 \in P /\ \A k \in 1 .. n : k - 1 \in P => k \in P  BY <1>1, <1>2, <1>4, <1>9
<1>11. \A k \in 0 .. n : k \in P
  <2> HIDE DEF P
  <2> QED  BY <1>1, <1>10, Induction
<1>12. f \in [0 .. n -> S]  BY <1>8, <1>11
<1> QED  BY <1>3, <1>9, <1>12 DEF n, S, s0, Turn

(* They grow.                                                              *)
LEMMA PowersGrow ==
    ASSUME NEW j \in 0 .. TimeDigits
    PROVE  \A k \in 0 .. j : Power16[k] <= Power16[j]
<1> DEFINE P == {d \in 0 .. j : Power16[j - d] <= Power16[j]}
<1>1. j \in Nat /\ 0 \in 0 .. j /\ TimeDigits \in Nat  BY TxAssumption
<1>2. \A k \in 0 .. j : Power16[k] \in Nat  BY <1>1, PowerFacts
<1>3. 0 \in P
  <2>1. j - 0 = j /\ j \in 0 .. j  BY <1>1
  <2> QED  BY <1>1, <1>2, <2>1
<1>4. ASSUME NEW d \in 1 .. j, d - 1 \in P PROVE d \in P
  <2> DEFINE k == j - (d - 1)
  <2>1. k \in 1 .. TimeDigits /\ k - 1 = j - d /\ k \in 0 .. j /\ k - 1 \in 0 .. j /\ j \in 0 .. j
    BY <1>1
  <2>2. Power16[k] = 16 * Power16[k - 1] /\ Power16[k] <= Power16[j]  BY <1>4, <2>1, PowerFacts
  <2>3. Power16[k] \in Nat /\ Power16[k - 1] \in Nat /\ Power16[j] \in Nat  BY <1>2, <2>1
  <2> HIDE DEF k
  <2>4. Power16[k - 1] <= Power16[j]  BY <2>2, <2>3
  <2> QED  BY <2>1, <2>4
<1>5. \A d \in 0 .. j : d \in P
  <2> HIDE DEF P
  <2> QED  BY <1>1, <1>3, <1>4, Induction
<1>6. ASSUME NEW k \in 0 .. j PROVE Power16[k] <= Power16[j]
  <2>1. j - k \in 0 .. j /\ j - (j - k) = k  BY <1>1
  <2> QED  BY <1>5, <2>1
<1> QED  BY <1>6

-----------------------------------------------------------------------------
(* The digits of an argument *)

ParseStates == [ok : BOOLEAN, digits : Nat, value : Nat]

ParseStart == [ok |-> TRUE, digits |-> 0, value |-> 0]

IsHex(c) == c \in DOMAIN Hex

(* The value of a digit.                                                   *)
LEMMA HexFacts == \A c : IsHex(c) => Hex[c] \in 0 .. 15
BY DEF IsHex, Hex

\* A turn that takes a digit.
Takes(s, c, t) == t = [ok |-> TRUE, digits |-> s.digits + 1,
                       value |-> (s.value * 16 + Hex[c]) % Power16[TimeDigits]]

(* One turn of the loop of parseHexUint64.                                 *)
LEMMA DigitFacts ==
    ASSUME NEW s \in ParseStates, NEW c, NEW max
    PROVE  /\ Digit(s, c, max) \in ParseStates
           /\ s.ok /\ IsHex(c) /\ s.digits # max => Takes(s, c, Digit(s, c, max))
           /\ ~(s.ok /\ IsHex(c) /\ s.digits # max) => ~Digit(s, c, max).ok
<1> DEFINE t == Digit(s, c, max)
<1>1. s.ok \in BOOLEAN /\ s.digits \in Nat /\ s.value \in Nat  BY DEF ParseStates
<1>2. CASE ~(s.ok /\ IsHex(c) /\ s.digits # max)
  <2>1. t = [s EXCEPT !.ok = FALSE]  BY <1>2 DEF Digit, IsHex
  <2>2. t \in ParseStates /\ ~t.ok  BY <2>1 DEF ParseStates
  <2> QED  BY <1>2, <2>2
<1>3. CASE s.ok /\ IsHex(c) /\ s.digits # max
  <2>1. Takes(s, c, t)  BY <1>3 DEF Digit, IsHex, Takes
  <2> DEFINE x == s.value * 16 + Hex[c]
             m == Power16[TimeDigits]
  <2>2. x \in Nat
    <3>1. Hex[c] \in 0 .. 15  BY <1>3, HexFacts
    <3> QED  BY <1>1, <3>1
  <2>3. m \in Nat \ {0}
    <3>1. TimeDigits \in 0 .. TimeDigits  BY TxAssumption
    <3> QED  BY <3>1, PowerFacts
  <2> HIDE DEF x, m
  <2>4. x % m \in Nat  BY <2>2, <2>3
  <2>5. s.digits + 1 \in Nat  BY <1>1
  <2>6. t = [ok |-> TRUE, digits |-> s.digits + 1, value |-> x % m]  BY <2>1 DEF Takes, x, m
  <2> HIDE DEF t
  <2>7. t \in ParseStates  BY <2>4, <2>5, <2>6 DEF ParseStates
  <2> QED  BY <1>3, <2>1, <2>7 DEF t
<1> QED  BY <1>2, <1>3

\* f is the run of the loop over u.
Parses(f, u, max) ==
    /\ f \in [0 .. Len(u) -> ParseStates]
    /\ f[0] = ParseStart
    /\ \A k \in 1 .. Len(u) : f[k] = Digit(f[k - 1], u[k], max)

(* The turns of parseHexUint64.                                            *)
LEMMA ParseRun ==
    ASSUME NEW text, NEW max, Len(Unprefixed(text)) \in Nat
    PROVE  LET u == Unprefixed(text)
           IN  \E f : /\ Parses(f, u, max)
                      /\ parseHexUint64(text, max) =
                             [f[Len(u)] EXCEPT !.ok = f[Len(u)].ok /\ f[Len(u)].digits # 0]
<1> DEFINE u == Unprefixed(text)
           n == Len(u)
           S == ParseStates
           s0 == [ok |-> TRUE, digits |-> 0, value |-> 0]
           Turn(s, k) == Digit(s, u[k], max)
           G(h) == [k \in 0 .. n |-> IF k = 0 THEN s0 ELSE Turn(h[k - 1], k)]
           F == [k \in 1 .. n |-> [s \in S |-> Turn(s, k)]]
           f == CHOOSE h : h = G(h)
<1>1. n \in Nat  OBVIOUS
<1>2. s0 \in S  BY DEF ParseStates
<1>3. parseHexUint64(text, max) = [f[n] EXCEPT !.ok = f[n].ok /\ f[n].digits # 0]
  BY DEF parseHexUint64
<1>4. \A s \in S : \A k \in 1 .. n : Turn(s, k) \in S  BY DigitFacts
<1>5. s0 = ParseStart  BY DEF ParseStart
<1> HIDE DEF n, S, s0, Turn, u
<1>6. F \in [1 .. n -> [S -> S]]  BY <1>4
<1>7. \E h : h = G(h)
  <2>1. PICK h : IsLoop(h, n, S, s0, F)
    <3> HIDE DEF F
    <3> QED  BY <1>1, <1>2, <1>6, LoopExists, Zenon
  <2>2. h \in [0 .. n -> S] /\ h[0] = s0 /\ \A k \in 1 .. n : h[k] = F[k][h[k - 1]]
    BY <2>1 DEF IsLoop
  <2>3. ASSUME NEW k \in 1 .. n PROVE h[k] = Turn(h[k - 1], k)
    <3>1. k - 1 \in 0 .. n  BY <1>1
    <3> QED  BY <2>2, <3>1
  <2>4. h = G(h)
    <3>1. \A k \in 0 .. n : k # 0 => k \in 1 .. n  BY <1>1
    <3> HIDE DEF F
    <3> QED  BY <2>2, <2>3, <3>1
  <2> QED  BY <2>4
<1>8. f = G(f)  BY <1>7
<1> HIDE DEF f
<1>9. f[0] = s0 /\ \A k \in 1 .. n : f[k] = Turn(f[k - 1], k)  BY <1>1, <1>8
<1> DEFINE P == {k \in 0 .. n : f[k] \in S}
<1>10. 0 \in P /\ \A k \in 1 .. n : k - 1 \in P => k \in P  BY <1>1, <1>2, <1>4, <1>9
<1>11. \A k \in 0 .. n : k \in P
  <2> HIDE DEF P
  <2> QED  BY <1>1, <1>10, Induction
<1>12. f \in [0 .. n -> S]  BY <1>8, <1>11
<1>13. Parses(f, u, max)  BY <1>5, <1>9, <1>12 DEF n, S, Turn, Parses
<1> QED  BY <1>3, <1>13 DEF n, u

(* A digit more needs a place more.                                        *)
LEMMA NextDigit ==
    ASSUME NEW v \in Nat, NEW h \in 0 .. 15, NEW a \in Nat, NEW b \in Nat, v < a, b = 16 * a
    PROVE  v * 16 + h \in Nat /\ v * 16 + h < b
<1>1. v + 1 <= a  OBVIOUS
<1>2. 16 * (v + 1) <= 16 * a  BY <1>1
<1>3. 16 * (v + 1) = v * 16 + 16  OBVIOUS
<1> QED  BY <1>2, <1>3

\* The first k characters are digits, and not too many.
Good(u, k, max) == k <= max /\ \A i \in 1 .. k : IsHex(u[i])

(* The loop goes on as long as the characters are digits and not too many, *)
(* and never loses a bit of the value.                                     *)
LEMMA ParseLoop ==
    ASSUME NEW u, Len(u) \in Nat, NEW max \in 1 .. TimeDigits, NEW f, Parses(f, u, max)
    PROVE  \A k \in 0 .. Len(u) :
               /\ f[k].ok <=> Good(u, k, max)
               /\ f[k].ok => f[k].digits = k /\ f[k].value < Power16[k]
               /\ f[k].ok /\ k # 0 => f[k].value = f[k - 1].value * 16 + Hex[u[k]]
<1> DEFINE n == Len(u)
           Fine(k) == /\ f[k].ok <=> Good(u, k, max)
                      /\ f[k].ok => f[k].digits = k /\ f[k].value < Power16[k]
                      /\ f[k].ok /\ k # 0 => f[k].value = f[k - 1].value * 16 + Hex[u[k]]
           P == {k \in 0 .. n : Fine(k)}
<1>1. /\ n \in Nat /\ 0 \in 0 .. n /\ max \in Nat /\ max >= 1 /\ max <= TimeDigits
      /\ TimeDigits \in Nat
  BY TxAssumption
<1>2. /\ f \in [0 .. n -> ParseStates] /\ f[0] = ParseStart
      /\ \A k \in 1 .. n : f[k] = Digit(f[k - 1], u[k], max)
  BY DEF Parses
<1>3. 0 \in P
  <2>1. f[0].ok /\ f[0].digits = 0 /\ f[0].value = 0  BY <1>2 DEF ParseStart
  <2>2. Good(u, 0, max)  BY <1>1 DEF Good
  <2>3. 0 < Power16[0]  BY PowerFacts
  <2> QED  BY <1>1, <2>1, <2>2, <2>3
<1>4. ASSUME NEW k \in 1 .. n, k - 1 \in P PROVE k \in P
  <2> DEFINE s == f[k - 1]
             t == f[k]
             c == u[k]
  <2>1. k - 1 \in 0 .. n /\ k \in 0 .. n /\ k # 0  BY <1>1
  <2>2. s \in ParseStates /\ t = Digit(s, c, max)  BY <1>2, <2>1
  <2>3. /\ s.ok <=> Good(u, k - 1, max)
        /\ s.ok => s.digits = k - 1 /\ s.value < Power16[k - 1]
    BY <1>4
  <2>4. /\ t \in ParseStates
        /\ s.ok /\ IsHex(c) /\ s.digits # max => Takes(s, c, t)
        /\ ~(s.ok /\ IsHex(c) /\ s.digits # max) => ~t.ok
    BY <2>2, DigitFacts
  <2>5. s.value \in Nat /\ s.digits \in Nat  BY <2>2 DEF ParseStates
  <2> HIDE DEF s, t, c
  <2>6. CASE s.ok /\ IsHex(c) /\ s.digits # max
    <3>1. Takes(s, c, t) /\ s.digits = k - 1 /\ s.value < Power16[k - 1]  BY <2>3, <2>4, <2>6
    <3>2. k <= max /\ k \in 1 .. TimeDigits /\ k - 1 \in 0 .. TimeDigits /\ k \in 0 .. TimeDigits
          /\ TimeDigits \in 0 .. TimeDigits
      <4>1. Good(u, k - 1, max)  BY <2>3, <2>6
      <4>2. k - 1 <= max /\ k - 1 # max  BY <2>6, <3>1, <4>1 DEF Good
      <4> QED  BY <1>1, <2>1, <4>2
    <3>3. Good(u, k, max)
      <4>1. Good(u, k - 1, max)  BY <2>3, <2>6
      <4>2. \A i \in 1 .. k : i = k \/ i \in 1 .. k - 1  OBVIOUS
      <4> QED  BY <2>6, <3>2, <4>1, <4>2 DEF Good, c
    <3> DEFINE x == s.value * 16 + Hex[c]
               a == Power16[k - 1]
               b == Power16[k]
               m == Power16[TimeDigits]
    <3>4. Hex[c] \in 0 .. 15  BY <2>6, HexFacts
    <3>5. a \in Nat /\ b \in Nat /\ m \in Nat \ {0} /\ b = 16 * a  BY <3>2, PowerFacts
    <3>6. b <= m  BY <3>2, PowersGrow
    <3>7. t = [ok |-> TRUE, digits |-> s.digits + 1, value |-> x % m]  BY <3>1 DEF Takes
    <3>8. s.value < a  BY <3>1
    <3>9. x \in Nat /\ x < b
      <4> HIDE DEF a, b
      <4> QED  BY <2>5, <3>4, <3>5, <3>8, NextDigit, Zenon
    <3>10. x = s.value * 16 + Hex[c]  OBVIOUS
    <3> HIDE DEF x, a, b, m
    <3>11. x % m = x  BY <3>5, <3>6, <3>9
    <3>12. t.ok /\ t.digits = k /\ t.value = x  BY <1>1, <3>1, <3>7, <3>11
    <3>13. Fine(k)  BY <3>3, <3>9, <3>10, <3>12 DEF s, t, c, b
    <3> HIDE DEF Fine
    <3> QED  BY <2>1, <3>13
  <2>7. CASE ~(s.ok /\ IsHex(c) /\ s.digits # max)
    <3>1. ~t.ok  BY <2>4, <2>7
    <3>2. ~Good(u, k, max)
      <4>1. SUFFICES ASSUME Good(u, k, max) PROVE FALSE  OBVIOUS
      <4>2. k <= max /\ \A i \in 1 .. k : IsHex(u[i])  BY <4>1 DEF Good
      <4>3. k - 1 <= max /\ k - 1 # max /\ k \in 1 .. k /\ \A i \in 1 .. k - 1 : i \in 1 .. k
        BY <1>1, <4>2
      <4>4. Good(u, k - 1, max) /\ IsHex(c)  BY <4>2, <4>3 DEF Good, c
      <4> QED  BY <2>3, <2>7, <4>3, <4>4
    <3>3. Fine(k)  BY <3>1, <3>2 DEF t
    <3> HIDE DEF Fine
    <3> QED  BY <2>1, <3>3
  <2> QED  BY <2>6, <2>7
<1>5. \A k \in 0 .. n : k \in P
  <2> HIDE DEF P
  <2> QED  BY <1>1, <1>3, <1>4, Induction
<1> QED  BY <1>5

-----------------------------------------------------------------------------
(* What the digits denote *)

\* low sums the digits of u with their place values, the last digit first.
Sums(low, u) ==
    /\ low \in [0 .. Len(u) -> Nat]
    /\ low[0] = 0
    /\ \A k \in 1 .. Len(u) :
           low[k] = low[k - 1] + Hex[u[Len(u) - (k - 1)]] * Power16[k - 1]

(* The sum that Denoted is.                                                *)
LEMMA DenotedRun ==
    ASSUME NEW text, NEW max \in 1 .. TimeDigits, Len(Unprefixed(text)) \in Nat,
           Good(Unprefixed(text), Len(Unprefixed(text)), max)
    PROVE  LET u == Unprefixed(text)
           IN  \E low : Sums(low, u) /\ Denoted(text) = low[Len(u)]
<1> DEFINE u == Unprefixed(text)
           n == Len(u)
           S == Nat
           s0 == 0
           Turn(s, k) == s + Hex[u[n - (k - 1)]] * Power16[k - 1]
           G(h) == [k \in 0 .. n |-> IF k = 0 THEN s0 ELSE Turn(h[k - 1], k)]
           F == [k \in 1 .. n |-> [s \in S |-> Turn(s, k)]]
           f == CHOOSE h : h = G(h)
<1>1. n \in Nat  OBVIOUS
<1>2. s0 \in S  OBVIOUS
<1>3. Denoted(text) = f[n]  BY DEF Denoted
<1>4. ASSUME NEW s \in S, NEW k \in 1 .. n PROVE Turn(s, k) \in S
  <2>1. n <= max /\ \A i \in 1 .. n : IsHex(u[i])  BY DEF Good
  <2>2. n - (k - 1) \in 1 .. n  BY <1>1
  <2>3. k - 1 \in 0 .. TimeDigits  BY <1>1, <2>1, TxAssumption
  <2> DEFINE h == Hex[u[n - (k - 1)]]
             p == Power16[k - 1]
  <2>4. h \in Nat
    <3>1. IsHex(u[n - (k - 1)])  BY <2>1, <2>2
    <3>2. h \in 0 .. 15  BY <3>1, HexFacts
    <3> HIDE DEF h
    <3> QED  BY <3>2
  <2>5. p \in Nat  BY <2>3, PowerFacts
  <2> HIDE DEF h, p
  <2>6. s + h * p \in Nat  BY <2>4, <2>5
  <2> QED  BY <2>6 DEF h, p
<1> HIDE DEF n, S, s0, Turn, u
<1>6. F \in [1 .. n -> [S -> S]]  BY <1>4
<1>7. \E h : h = G(h)
  <2>1. PICK h : IsLoop(h, n, S, s0, F)
    <3> HIDE DEF F
    <3> QED  BY <1>1, <1>2, <1>6, LoopExists, Zenon
  <2>2. h \in [0 .. n -> S] /\ h[0] = s0 /\ \A k \in 1 .. n : h[k] = F[k][h[k - 1]]
    BY <2>1 DEF IsLoop
  <2>3. ASSUME NEW k \in 1 .. n PROVE h[k] = Turn(h[k - 1], k)
    <3>1. k - 1 \in 0 .. n  BY <1>1
    <3> QED  BY <2>2, <3>1
  <2>4. h = G(h)
    <3>1. \A k \in 0 .. n : k # 0 => k \in 1 .. n  BY <1>1
    <3> HIDE DEF F
    <3> QED  BY <2>2, <2>3, <3>1
  <2> QED  BY <2>4
<1>8. f = G(f)  BY <1>7
<1> HIDE DEF f
<1>9. f[0] = s0 /\ \A k \in 1 .. n : f[k] = Turn(f[k - 1], k)  BY <1>1, <1>8
<1> DEFINE P == {k \in 0 .. n : f[k] \in S}
<1>10. 0 \in P /\ \A k \in 1 .. n : k - 1 \in P => k \in P  BY <1>1, <1>2, <1>4, <1>9
<1>11. \A k \in 0 .. n : k \in P
  <2> HIDE DEF P
  <2> QED  BY <1>1, <1>10, Induction
<1>12. f \in [0 .. n -> S]  BY <1>8, <1>11
<1>13. Sums(f, u)  BY <1>9, <1>12 DEF n, S, s0, Turn, Sums
<1> QED  BY <1>3, <1>13 DEF n, u

(* A digit moves from the value read so far to the sum of the rest.        *)
LEMMA MoveDigit ==
    ASSUME NEW v \in Nat, NEW h \in Nat, NEW p \in Nat, NEW l \in Nat
    PROVE  (v * 16 + h) * p + l = v * (16 * p) + (l + h * p)
OBVIOUS

(* The loop of parseHexUint64 computes the sum of the digits.              *)
LEMMA ParsedIsDenoted ==
    ASSUME NEW u, Len(u) \in Nat, NEW max \in 1 .. TimeDigits, Good(u, Len(u), max),
           NEW f, Parses(f, u, max), NEW low, Sums(low, u)
    PROVE  f[Len(u)].value = low[Len(u)]
<1> DEFINE n == Len(u)
           v(k) == f[k].value
           P == {j \in 0 .. n : v(n) = v(n - j) * Power16[j] + low[j]}
<1>1. /\ n \in Nat /\ 0 \in 0 .. n /\ n \in 0 .. n /\ n <= max /\ TimeDigits \in Nat
      /\ n <= TimeDigits /\ \A i \in 1 .. n : IsHex(u[i])
  BY TxAssumption DEF Good
<1>2. /\ low \in [0 .. n -> Nat] /\ low[0] = 0
      /\ \A k \in 1 .. n : low[k] = low[k - 1] + Hex[u[n - (k - 1)]] * Power16[k - 1]
  BY DEF Sums
<1>3. \A k \in 0 .. n : v(k) \in Nat  BY DEF Parses, ParseStates
<1>4. \A k \in 1 .. n : v(k) = v(k - 1) * 16 + Hex[u[k]]
  <2> SUFFICES ASSUME NEW k \in 1 .. n PROVE v(k) = v(k - 1) * 16 + Hex[u[k]]  OBVIOUS
  <2>1. k \in 0 .. n /\ k # 0 /\ k <= max /\ \A i \in 1 .. k : i \in 1 .. n  BY <1>1
  <2>2. Good(u, k, max)  BY <1>1, <2>1 DEF Good
  <2> QED  BY <2>1, <2>2, ParseLoop
<1>5. v(0) = 0  BY DEF Parses, ParseStart
<1> HIDE DEF v, n
<1>6. 0 \in P
  <2>1. n - 0 = n /\ v(n) \in Nat  BY <1>1, <1>3
  <2>2. v(n) = v(n - 0) * Power16[0] + low[0]  BY <1>2, <2>1, PowerFacts
  <2> QED  BY <1>1, <2>2
<1>7. ASSUME NEW j \in 1 .. n, j - 1 \in P PROVE j \in P
  <2> DEFINE k == n - (j - 1)
             h == Hex[u[k]]
             p == Power16[j - 1]
             l == low[j - 1]
             w == v(n - j)
  <2>1. /\ k \in 1 .. n /\ k - 1 = n - j /\ n - j \in 0 .. n /\ j \in 1 .. TimeDigits
        /\ j - 1 \in 0 .. TimeDigits /\ j - 1 \in 0 .. n /\ j \in 0 .. n
    BY <1>1
  <2>2. w \in Nat /\ l \in Nat /\ p \in Nat  BY <1>2, <1>3, <2>1, PowerFacts
  <2>3. h \in Nat
    <3>1. IsHex(u[k])  BY <1>1, <2>1
    <3>2. h \in 0 .. 15  BY <3>1, HexFacts
    <3> HIDE DEF h
    <3> QED  BY <3>2
  <2>4. v(k) = w * 16 + h  BY <1>4, <2>1
  <2>5. v(n) = v(k) * p + l  BY <1>7
  <2>6. Power16[j] = 16 * p  BY <2>1, PowerFacts
  <2>7. low[j] = l + h * p  BY <1>2
  <2> HIDE DEF h, p, l, w, k
  <2>8. v(n) = w * (16 * p) + (l + h * p)  BY <2>2, <2>3, <2>4, <2>5, MoveDigit
  <2>9. v(n) = v(n - j) * Power16[j] + low[j]  BY <2>6, <2>7, <2>8 DEF w
  <2> QED  BY <2>1, <2>9
<1>8. \A j \in 0 .. n : j \in P
  <2> HIDE DEF P
  <2> QED  BY <1>1, <1>6, <1>7, Induction
<1>9. v(n) = v(n - n) * Power16[n] + low[n]  BY <1>1, <1>8
<1>10. n - n = 0 /\ Power16[n] \in Nat /\ low[n] \in Nat  BY <1>1, <1>2, PowerFacts
<1>11. v(n) = low[n]  BY <1>5, <1>9, <1>10
<1> QED  BY <1>11 DEF v, n

(* An argument is accepted exactly when it is a number of at most max      *)
(* digits, and its value is then what it denotes.                          *)
LEMMA ParseFacts ==
    ASSUME NEW text, NEW max \in 1 .. TimeDigits, Len(Unprefixed(text)) \in Nat
    PROVE  LET u == Unprefixed(text)
               r == parseHexUint64(text, max)
           IN  /\ r.ok <=> Len(u) # 0 /\ Good(u, Len(u), max)
               /\ r.ok => r.value = Denoted(text) /\ r.value \in Nat /\ r.value < Power16[Len(u)]
<1> DEFINE u == Unprefixed(text)
           n == Len(u)
           r == parseHexUint64(text, max)
<1>1. PICK f : /\ Parses(f, u, max)
               /\ r = [f[n] EXCEPT !.ok = f[n].ok /\ f[n].digits # 0]
  BY ParseRun
<1>2. n \in Nat /\ n \in 0 .. n  OBVIOUS
<1>3. f[n] \in ParseStates  BY <1>1, <1>2 DEF Parses
<1>4. /\ f[n].ok <=> Good(u, n, max)
      /\ f[n].ok => f[n].digits = n /\ f[n].value < Power16[n]
  BY <1>1, <1>2, ParseLoop
<1>5. r.ok = (f[n].ok /\ f[n].digits # 0) /\ r.value = f[n].value
  BY <1>1, <1>3 DEF ParseStates
<1>6. f[n].ok \in BOOLEAN /\ f[n].value \in Nat  BY <1>3 DEF ParseStates
<1>7. ASSUME f[n].ok PROVE f[n].value = Denoted(text)
  <2>1. Good(u, n, max)  BY <1>4, <1>7
  <2>2. PICK low : Sums(low, u) /\ Denoted(text) = low[n]  BY <2>1, DenotedRun
  <2>3. f[n].value = low[n]  BY <1>1, <2>1, <2>2, ParsedIsDenoted
  <2> QED  BY <2>2, <2>3
<1> HIDE DEF r, u
<1> QED  BY <1>4, <1>5, <1>6, <1>7 DEF r, u

-----------------------------------------------------------------------------
(* The argument in the line buffer *)

(* An argument is a sequence of characters.                                *)
LEMMA ArgumentText ==
    ASSUME NEW a \in Arguments
    PROVE  a \in Seq(Chars)
<1>1. PICK n \in 1 .. MaxChars : a \in [1 .. n -> Chars]  BY DEF Arguments
<1>2. n \in Nat  BY <1>1, TxAssumption
<1> QED  BY <1>1, <1>2

(* What is left of a text without its prefix.                              *)
LEMMA UnprefixedLength ==
    ASSUME NEW text \in Seq(Chars)
    PROVE  /\ Len(Unprefixed(text)) \in Nat
           /\ Len(Unprefixed(text)) + 2 >= Len(text)
<1>1. Len(text) \in Nat  BY LenProperties
<1>2. CASE Prefixed(text)
  <2>1. Len(text) >= 2  BY <1>2 DEF Prefixed
  <2>2. Unprefixed(text) = SubSeq(text, 3, Len(text))  BY <1>2 DEF Unprefixed
  <2>3. Len(SubSeq(text, 3, Len(text))) = IF 3 <= Len(text) THEN Len(text) - 3 + 1 ELSE 0
    BY <1>1, SubSeqProperties
  <2> HIDE DEF Prefixed
  <2> QED  BY <1>1, <2>1, <2>2, <2>3
<1>3. CASE ~Prefixed(text)
  <2>1. Unprefixed(text) = text  BY <1>3 DEF Unprefixed
  <2> QED  BY <1>1, <2>1
<1> QED  BY <1>2, <1>3

(* The buffer cuts off an argument that does not fit.                      *)
LEMMA KeptFacts ==
    ASSUME NEW text \in Seq(Chars)
    PROVE  /\ Len(text) <= Room => Kept(text) = text
           /\ Len(text) > Room => Kept(text) \in Seq(Chars) /\ Len(Kept(text)) = Room
<1>1. Len(text) \in Nat /\ Room \in Nat /\ Room >= 1  BY LenProperties, TxAssumption
<1>2. CASE Len(text) <= Room
  <2>1. Kept(text) = SubSeq(text, 1, Len(text))
    <3>1. (IF Len(text) < Room THEN Len(text) ELSE Room) = Len(text)  BY <1>1, <1>2
    <3> QED  BY <3>1 DEF Kept
  <2>2. SubSeq(text, 1, Len(text)) = text  BY SubSeqFull
  <2>3. Kept(text) = text  BY <2>1, <2>2, Zenon
  <2>4. ~(Len(text) > Room)  BY <1>1, <1>2
  <2> QED  BY <2>3, <2>4, Zenon
<1>3. CASE Len(text) > Room
  <2>1. Kept(text) = SubSeq(text, 1, Room)
    <3>1. (IF Len(text) < Room THEN Len(text) ELSE Room) = Room  BY <1>1, <1>3
    <3> QED  BY <3>1 DEF Kept
  <2>2. \A i \in 1 .. Room : i \in 1 .. Len(text)  BY <1>1, <1>3
  <2>3. SubSeq(text, 1, Room) \in Seq(Chars)
        /\ Len(SubSeq(text, 1, Room)) = IF 1 <= Room THEN Room - 1 + 1 ELSE 0
    <3>1. \A i \in 1 .. Room : text[i] \in Chars  BY <2>2, ElementOfSeq
    <3> QED  BY <1>1, <2>2, <3>1, SubSeqProperties
  <2> QED  BY <1>1, <1>3, <2>1, <2>3
<1> QED  BY <1>1, <1>2, <1>3

(* A literal of a type.                                                    *)
LEMMA LiteralIsGood ==
    ASSUME NEW type \in {"sync_time", "sync_frame"}, NEW text,
           Len(Unprefixed(text)) \in Nat
    PROVE  /\ MaximumDigits(type) \in 1 .. TimeDigits
           /\ Literal(text, type) <=>
                  /\ Len(Unprefixed(text)) # 0
                  /\ Good(Unprefixed(text), Len(Unprefixed(text)), MaximumDigits(type))
<1> DEFINE m == IF type = "sync_time" THEN TimeDigits ELSE FrameDigits
           n == Len(Unprefixed(text))
<1>1. m = MaximumDigits(type)  BY DEF MaximumDigits
<1>2. m \in 1 .. TimeDigits  BY TxAssumption
<1>3. m \in Nat /\ n \in Nat  BY TxAssumption
<1>4. Literal(text, type) <=> n \in 1 .. m /\ \A i \in 1 .. n : IsHex(Unprefixed(text)[i])
  BY DEF Literal, IsHex
<1> HIDE DEF m, n
<1>5. n \in 1 .. m <=> n # 0 /\ n <= m  BY <1>3
<1> QED  BY <1>1, <1>2, <1>4, <1>5 DEF Good, n

(* A command is accepted exactly when its argument, as it was typed, is a  *)
(* literal of its type, and the packet carries what the argument denotes.  *)
LEMMA CommandFacts ==
    ASSUME NEW type \in {"sync_time", "sync_frame"}, NEW text \in Seq(Chars)
    PROVE  LET r == parseHexUint64(Kept(text), MaximumDigits(type))
           IN  /\ r.ok <=> Literal(text, type)
               /\ r.ok => Payload(type, r.value) = Denoted(text)
<1> DEFINE max == MaximumDigits(type)
           kept == Kept(text)
           n == Len(Unprefixed(text))
           r == parseHexUint64(kept, max)
<1>1. n \in Nat /\ n + 2 >= Len(text) /\ Len(text) \in Nat
  BY UnprefixedLength, LenProperties
<1>2. /\ max \in 1 .. TimeDigits
      /\ Literal(text, type) <=> n # 0 /\ Good(Unprefixed(text), n, max)
  BY <1>1, LiteralIsGood
<1>3. max \in Nat /\ max <= TimeDigits /\ Room \in Nat /\ Room > TimeDigits + 2 /\ TimeDigits \in Nat
  BY <1>2, TxAssumption
<1>4. CASE Len(text) > Room
  <2>1. kept \in Seq(Chars) /\ Len(kept) = Room  BY <1>4, KeptFacts
  <2>2. Len(Unprefixed(kept)) \in Nat /\ Len(Unprefixed(kept)) + 2 >= Room
    BY <2>1, UnprefixedLength
  <2>3. ~(Len(Unprefixed(kept)) <= max)  BY <1>3, <2>2
  <2>4. ~r.ok
    <3>1. r.ok <=> Len(Unprefixed(kept)) # 0 /\ Good(Unprefixed(kept), Len(Unprefixed(kept)), max)
      BY <1>2, <2>2, ParseFacts
    <3> QED  BY <2>3, <3>1 DEF Good
  <2>5. ~(n <= max)  BY <1>1, <1>3, <1>4
  <2>6. ~Literal(text, type)  BY <1>2, <2>5 DEF Good
  <2> QED  BY <2>4, <2>6
<1>5. CASE ~(Len(text) > Room)
  <2>1. kept = text
    <3>1. Len(text) <= Room  BY <1>1, <1>3, <1>5
    <3> QED  BY <3>1, KeptFacts
  <2>2. /\ r.ok <=> n # 0 /\ Good(Unprefixed(text), n, max)
        /\ r.ok => r.value = Denoted(text) /\ r.value \in Nat /\ r.value < Power16[n]
    BY <1>1, <1>2, <2>1, ParseFacts
  <2>3. ASSUME r.ok PROVE Payload(type, r.value) = Denoted(text)
    <3> DEFINE v == r.value
    <3>1. v = Denoted(text) /\ v \in Nat /\ v < Power16[n] /\ n <= max  BY <2>2, <2>3 DEF Good
    <3> HIDE DEF v
    <3>2. CASE type = "sync_frame"
      <4> DEFINE p == Power16[FrameDigits]
      <4>1. max = FrameDigits  BY <3>2 DEF MaximumDigits
      <4>2. FrameDigits \in 0 .. TimeDigits /\ n \in 0 .. FrameDigits /\ n \in 0 .. TimeDigits
        BY <1>1, <1>3, <3>1, <4>1, TxAssumption
      <4>3. Power16[n] <= p /\ p \in Nat \ {0} /\ Power16[n] \in Nat
        BY <4>2, PowersGrow, PowerFacts
      <4> HIDE DEF p
      <4>4. v % p = v  BY <3>1, <4>3
      <4>5. Payload(type, v) = v % p  BY <3>2 DEF Payload, p
      <4> QED  BY <3>1, <4>4, <4>5 DEF v
    <3>3. CASE type # "sync_frame"
      <4>1. Payload(type, v) = v  BY <3>3 DEF Payload
      <4> QED  BY <3>1, <4>1 DEF v
    <3> QED  BY <3>2, <3>3
  <2> HIDE DEF r
  <2> QED  BY <1>2, <2>2, <2>3 DEF r
<1> QED  BY <1>4, <1>5

-----------------------------------------------------------------------------
(* What is sent *)

\* While the radio sends, nothing is answered yet.
SentInvariant == SentIsAsked /\ sending \in BOOLEAN /\ (sending => answer = "none")

Kinds == {"sync_time", "sync_frame"}

(* Two words with an argument: the packet, or the refusal, fits them.      *)
LEMMA ArgumentStep ==
    ASSUME SentInvariant, NEW c, NEW a \in Arguments, tx_command(<<c, a>>)
    PROVE  SentInvariant'
<1> DEFINE words == <<c, a>>
           r == parseHexUint64(Kept(a), MaximumDigits(c))
<1>1. words[1] = c /\ words[2] = a /\ Len(words) = 2  OBVIOUS
<1>2. ~sending /\ answer = "none" /\ asked' = words  BY DEF tx_command
<1>3. \/ c \notin Kinds /\ Refuse("ERR CMD")
      \/ c \in Kinds /\ r.ok /\ buildSyncPacket(c, r.value)
      \/ c \in Kinds /\ ~r.ok /\ Refuse("ERR ARG")
  BY <1>1 DEF tx_command, Kinds
<1>4. a \in Seq(Chars)  BY ArgumentText
<1>5. asked'[1] = c /\ asked'[2] = a  BY <1>1, <1>2
<1> HIDE DEF words
<1>6. CASE c \notin Kinds /\ Refuse("ERR CMD")
  <2>1. sending' = sending /\ answer' = "ERR CMD"  BY <1>6 DEF Refuse
  <2> QED  BY <1>2, <1>5, <1>6, <2>1 DEF SentInvariant, SentIsAsked, Kinds
<1>7. CASE c \in Kinds /\ r.ok /\ buildSyncPacket(c, r.value)
  <2>1. /\ packet' = [type |-> c, seq |-> sequence, value |-> Payload(c, r.value)]
        /\ sending' = TRUE /\ answer' = answer
    BY <1>7 DEF buildSyncPacket
  <2>2. Literal(a, c) /\ Payload(c, r.value) = Denoted(a)  BY <1>4, <1>7, CommandFacts DEF Kinds
  <2> HIDE DEF r
  <2>3. packet'.type = c /\ packet'.value = Denoted(a)  BY <2>1, <2>2
  <2>4. sending' /\ sending' \in BOOLEAN /\ answer' = "none"  BY <1>2, <2>1, Zenon
  <2>5. SentIsAsked'
    <3>1. Literal(asked'[2], asked'[1]) /\ packet'.value = Denoted(asked'[2])
      BY <1>5, <2>2, <2>3, Zenon
    <3> QED  BY <1>5, <2>3, <2>4, <3>1 DEF SentIsAsked
  <2> QED  BY <2>4, <2>5 DEF SentInvariant
<1>8. CASE c \in Kinds /\ ~r.ok /\ Refuse("ERR ARG")
  <2>1. sending' = sending /\ answer' = "ERR ARG"  BY <1>8 DEF Refuse
  <2>2. ~Literal(a, c)  BY <1>4, <1>8, CommandFacts DEF Kinds
  <2>3. ~Literal(asked'[2], asked'[1])  BY <1>5, <2>2, Zenon
  <2> QED  BY <1>2, <2>1, <2>3 DEF SentInvariant, SentIsAsked
<1> QED  BY <1>3, <1>6, <1>7, <1>8

(* Any other number of words is refused.                                   *)
LEMMA OtherWordsStep ==
    ASSUME SentInvariant, NEW words, Len(words) # 2, tx_command(words)
    PROVE  SentInvariant'
<1>1. ~sending /\ asked' = words /\ sending' = sending  BY DEF tx_command, Refuse
<1>2. Len(asked') # 2  BY <1>1
<1> QED  BY <1>1, <1>2 DEF SentInvariant, SentIsAsked

(* The radio and the answer change neither the packet nor the words while  *)
(* they matter.                                                            *)
LEMMA SentStep == SentInvariant /\ [Next]_vars => SentInvariant'
<1> SUFFICES ASSUME SentInvariant, [Next]_vars PROVE SentInvariant'  OBVIOUS
<1>1. ASSUME NEW c, NEW a \in Arguments, tx_command(<<c, a>>) PROVE SentInvariant'
  BY <1>1, ArgumentStep
<1>2. CASE tx_command(<<>>)
  <2>1. Len(<<>>) # 2  OBVIOUS
  <2> QED  BY <1>2, <2>1, OtherWordsStep
<1>3. ASSUME NEW c, tx_command(<<c>>) PROVE SentInvariant'
  <2>1. Len(<<c>>) # 2  OBVIOUS
  <2> QED  BY <1>3, <2>1, OtherWordsStep
<1>8. ASSUME NEW c, NEW a, tx_command(<<c, <<a>>, <<a>>>>) PROVE SentInvariant'
  <2> DEFINE words == <<c, <<a>>, <<a>>>>
  <2>1. Len(words) # 2  OBVIOUS
  <2> QED  BY <1>8, <2>1, OtherWordsStep
<1>4. CASE Sent
  <2>1. sending' = FALSE /\ answer' = "OK"  BY <1>4 DEF Sent
  <2> QED  BY <2>1 DEF SentInvariant, SentIsAsked
<1>5. CASE SendFailed
  <2>1. sending' = FALSE /\ answer' = "ERR RF"  BY <1>5 DEF SendFailed
  <2> QED  BY <2>1 DEF SentInvariant, SentIsAsked
<1>6. CASE Answered
  <2>1. ~sending /\ sending' = sending /\ answer' = "none"  BY <1>6 DEF Answered, SentInvariant
  <2> QED  BY <2>1 DEF SentInvariant, SentIsAsked
<1>7. CASE UNCHANGED vars
  <2>1. UNCHANGED <<packet, sending, answer, asked>>  BY <1>7 DEF vars
  <2> QED  BY <2>1 DEF SentInvariant, SentIsAsked, Literal, Denoted
<1> QED  BY <1>1, <1>2, <1>3, <1>4, <1>5, <1>6, <1>7, <1>8 DEF Next

(* A sync packet goes out exactly for an argument that is a hexadecimal    *)
(* literal of its type, and carries the number the user typed, for any     *)
(* length of the argument and any width of the value: the line buffer that *)
(* cuts an argument off, the shifts of parseHexUint64 and the cast to      *)
(* uint32_t never make another value of it.                                *)
THEOREM SentIsWhatWasTyped == Spec => []SentIsAsked
<1>1. Init => SentInvariant  BY DEF Init, SentInvariant, SentIsAsked
<1>2. SentInvariant => SentIsAsked  BY DEF SentInvariant
<1> QED  BY <1>1, <1>2, SentStep, PTL DEF Spec

-----------------------------------------------------------------------------
(* The reader loop of the CLI *)

Text == Seq(Letters \cup {Blank})

Replies == {"OK", "OK USAGE", "ERR ARG", "ERR CMD", "ERR LINE"}

(* The command table.                                                      *)
LEMMA TableFacts ==
    /\ LineMax \in Nat \ {0} /\ MaxArgs \in Nat \ {0} /\ Help \notin Commands
    /\ Cardinality(Commands) \in Nat
<1>1. IsFiniteSet(Commands)  BY CliAssumption
<1>2. Cardinality(Commands) \in Nat  BY <1>1, FS_CardinalityType
<1> QED  BY <1>2, CliAssumption

(* The number of words of a line.                                          *)
LEMMA WordCount ==
    ASSUME NEW s \in Text
    PROVE  /\ WordStarts(s) \in SUBSET (1 .. Len(s))
           /\ IsFiniteSet(WordStarts(s)) /\ Cardinality(WordStarts(s)) \in Nat
<1>1. Len(s) \in Nat  BY LenProperties DEF Text
<1>2. WordStarts(s) \in SUBSET (1 .. Len(s))  BY DEF WordStarts
<1>3. IsFiniteSet(1 .. Len(s))  BY <1>1, FS_Interval
<1>4. IsFiniteSet(WordStarts(s))  BY <1>2, <1>3, FS_Subset
<1> QED  BY <1>2, <1>4, FS_CardinalityType

(* Sequences of one and of two.                                            *)
LEMMA ShortSequences ==
    ASSUME NEW S, NEW x \in S
    PROVE  <<x>> \in Seq(S) /\ <<x, x>> \in Seq(S) /\ Len(<<x, x>>) = 2
OBVIOUS

(* A single line.                                                          *)
LEMMA OneLine ==
    ASSUME NEW x \in Replies, x # "ERR LINE"
    PROVE  <<x>> \in Seq(Replies) /\ <<x>> # <<>> /\ <<x>> # <<"ERR LINE">>
<1>1. <<x>> \in Seq(Replies)  BY ShortSequences, Zenon
<1>2. <<x>>[1] = x /\ <<"ERR LINE">>[1] = "ERR LINE" /\ Len(<<x>>) = 1  OBVIOUS
<1>3. <<x>> # <<>>  OBVIOUS
<1> QED  BY <1>1, <1>2, <1>3

\* A good answer of at least one line.
Speaks(r) == r \in Seq(Replies) /\ r # <<>> /\ r # <<"ERR LINE">>

(* The answers of one line.                                                *)
LEMMA ShortAnswers ==
    /\ Speaks(<<"OK">>) /\ Speaks(<<"OK USAGE">>)
    /\ Speaks(<<"ERR ARG">>) /\ Speaks(<<"ERR CMD">>)
<1>1. \A x \in Replies : x # "ERR LINE" => Speaks(<<x>>)  BY OneLine DEF Speaks
<1>2. \A x \in {"OK", "OK USAGE", "ERR ARG", "ERR CMD"} : x \in Replies /\ x # "ERR LINE"
  BY DEF Replies
<1> QED  BY <1>1, <1>2

(* n equal lines.                                                          *)
LEMMA EqualLines ==
    ASSUME NEW n \in Nat, NEW S, NEW c \in S
    PROVE  [i \in 1 .. n |-> c] \in Seq(S) /\ Len([i \in 1 .. n |-> c]) = n
OBVIOUS

(* The answer of "help" alone: two lines, and one for every command.       *)
LEMMA HelpAnswer ==
    ASSUME NEW s
    PROVE  LET r == cli_help(s, 1)
           IN  Speaks(r) /\ Len(r) = 2 + Cardinality(Commands)
<1> DEFINE n == Cardinality(Commands)
           a == <<"OK", "OK">>
           b == [i \in 1 .. n |-> "OK USAGE"]
           r == cli_help(s, 1)
<1>1. n \in Nat  BY TableFacts
<1>2. "OK" \in Replies /\ "OK USAGE" \in Replies  BY DEF Replies
<1>3. a \in Seq(Replies) /\ Len(a) = 2  BY <1>2, ShortSequences, Zenon
<1>4. r = a \o b
  <2>1. ~(1 > 2) /\ 1 # 2 /\ 1 < 2  OBVIOUS
  <2>2. Cardinality(Commands) = n  OBVIOUS
  <2> HIDE DEF n
  <2> QED  BY <2>1, <2>2 DEF cli_help
<1>5. b \in Seq(Replies) /\ Len(b) = n
  <2> HIDE DEF n
  <2> QED  BY <1>1, <1>2, EqualLines, Zenon
<1> HIDE DEF a, b, n, r
<1>6. r \in Seq(Replies) /\ Len(r) = 2 + n
  <2>1. a \o b \in Seq(Replies) /\ Len(a \o b) = Len(a) + Len(b)
    BY <1>3, <1>5, ConcatProperties, Zenon
  <2> QED  BY <1>1, <1>3, <1>4, <1>5, <2>1
<1>7. r # <<>> /\ r # <<"ERR LINE">>
  <2>1. Len(<<>>) = 0 /\ Len(<<"ERR LINE">>) = 1  OBVIOUS
  <2>2. Len(r) # 0 /\ Len(r) # 1  BY <1>1, <1>6
  <2> QED  BY <2>1, <2>2, Zenon
<1> QED  BY <1>6, <1>7 DEF Speaks, n, r

(* What help answers.                                                      *)
LEMMA HelpSpeaks ==
    ASSUME NEW s, NEW n \in Nat, n # 0
    PROVE  /\ Speaks(cli_help(s, n))
           /\ n = 1 => Len(cli_help(s, n)) = 2 + Cardinality(Commands)
<1>1. CASE n = 1  BY <1>1, HelpAnswer
<1>2. CASE n = 2
  <2>1. ~(2 > 2)  OBVIOUS
  <2>2. cli_help(s, n) = help_topic(Word(s, 2))  BY <1>2, <2>1 DEF cli_help
  <2>3. \A w : help_topic(w) \in {<<"OK">>, <<"OK USAGE">>, <<"ERR CMD">>}
    BY DEF help_topic
  <2>4. Speaks(help_topic(Word(s, 2)))  BY <2>3, ShortAnswers
  <2> QED  BY <1>2, <2>2, <2>4
<1>3. CASE n > 2
  <2>1. n # 1 /\ n # 2 /\ ~(n < 2)  BY <1>3
  <2>2. cli_help(s, n) = <<"ERR ARG">>  BY <1>3, <2>1, Zenon DEF cli_help
  <2> QED  BY <2>1, <2>2, ShortAnswers, Zenon
<1> QED  BY <1>1, <1>2, <1>3

(* What cli_process_line writes, by the number and the first of the words. *)
LEMMA ProcessLine ==
    ASSUME NEW s \in Text
    PROVE  LET n == Cardinality(WordStarts(s))
               w == Word(s, 1)
               r == cli_process_line(s)
           IN  /\ r \in Seq(Replies) /\ r # <<"ERR LINE">>
               /\ n = 0 <=> r = <<>>
               /\ n > MaxArgs => r = <<"ERR ARG">>
               /\ n # 0 /\ n <= MaxArgs =>
                     /\ w \notin Commands \cup {Help} => r = <<"ERR CMD">>
                     /\ n = 1 /\ w \in Commands => r = <<"OK">>
                     /\ n = 1 /\ w = Help => Len(r) = 2 + Cardinality(Commands)
<1> DEFINE n == Cardinality(WordStarts(s))
           w == Word(s, 1)
           h == cli_help(s, n)
           r == cli_process_line(s)
<1>1. n \in Nat /\ MaxArgs \in Nat /\ MaxArgs > 0 /\ Help \notin Commands
  BY WordCount, TableFacts
<1>2. r = CASE n > MaxArgs -> <<"ERR ARG">>
            [] n = 0 -> <<>>
            [] OTHER -> dispatch(s, n)
  BY DEF cli_process_line, TooMany
<1>3. n # 0 => Speaks(h) /\ (n = 1 => Len(h) = 2 + Cardinality(Commands))
  <2> HIDE DEF n
  <2> QED  BY <1>1, HelpSpeaks
<1>4. version_command(n) = IF n = 1 THEN <<"OK">> ELSE <<"ERR ARG">>
  BY DEF version_command
<1> DEFINE v == version_command(n)
<1>5. Speaks(v) /\ (n = 1 => v = <<"OK">>)  BY <1>4, ShortAnswers
<1>6. <<>> \in Seq(Replies) /\ <<>> # <<"ERR LINE">>  OBVIOUS
<1> HIDE DEF n, w, h, r, v
<1>7. CASE n > MaxArgs
  <2>1. n # 0 /\ ~(n <= MaxArgs)  BY <1>1, <1>7
  <2>2. r = <<"ERR ARG">>  BY <1>2, <1>7, <2>1, Zenon
  <2> QED  BY <2>1, <2>2, ShortAnswers DEF n, w, r, Speaks
<1>8. CASE n = 0
  <2>1. r = <<>> /\ ~(n > MaxArgs)  BY <1>1, <1>2, <1>8
  <2> QED  BY <1>6, <1>8, <2>1 DEF n, w, r
<1>9. CASE ~(n > MaxArgs) /\ n # 0
  <2>1. r = CASE w = Help -> h [] w \in Commands -> v [] OTHER -> <<"ERR CMD">>
    <3>1. r = dispatch(s, n)  BY <1>2, <1>9
    <3> QED  BY <3>1 DEF dispatch, w, h, v
  <2>2. CASE w = Help
    <3>1. r = h /\ w \notin Commands  BY <1>1, <2>1, <2>2
    <3> QED  BY <1>3, <1>9, <2>2, <3>1 DEF n, w, r, Speaks
  <2>3. CASE w \in Commands
    <3>1. r = v /\ w # Help  BY <1>1, <2>1, <2>3
    <3> QED  BY <1>5, <1>9, <2>3, <3>1 DEF n, w, r, Speaks
  <2>4. CASE w \notin Commands \cup {Help}
    <3>1. r = <<"ERR CMD">> /\ w # Help /\ w \notin Commands  BY <2>1, <2>4
    <3> QED  BY <1>9, <3>1, ShortAnswers DEF n, w, r, Speaks
  <2> QED  BY <2>2, <2>3, <2>4
<1> QED  BY <1>7, <1>8, <1>9

-----------------------------------------------------------------------------
(* The words of a line *)

Starts(s, k) == {i \in WordStarts(s) : i <= k}

BeginsWord(s, k) == k = 1 \/ s[k - 1] = Blank

(* A sequence with another last element.                                   *)
LEMMA OtherLast ==
    ASSUME NEW T, NEW n \in Nat, NEW ws \in [1 .. n -> T], NEW x, n # 0 => x \in T
    PROVE  [ws EXCEPT ![n] = x] \in [1 .. n -> T]
<1> DEFINE u == [ws EXCEPT ![n] = x]
<1>1. u = [i \in 1 .. n |-> IF i = n THEN x ELSE ws[i]]  OBVIOUS
<1>2. ASSUME NEW i \in 1 .. n PROVE (IF i = n THEN x ELSE ws[i]) \in T
  <2>1. n # 0  OBVIOUS
  <2> QED  BY <2>1
<1> QED  BY <1>1, <1>2

(* A character is skipped, starts a word or is added to the last one.      *)
LEMMA AddToFacts ==
    ASSUME NEW ws \in Seq(Text), NEW s \in Text, NEW k \in 1 .. Len(s)
    PROVE  LET v == AddTo(ws, s, k)
           IN  /\ v \in Seq(Text)
               /\ s[k] = Blank => v = ws
               /\ s[k] # Blank /\ BeginsWord(s, k) => v = Append(ws, <<s[k]>>)
               /\ s[k] # Blank /\ ~BeginsWord(s, k) =>
                     /\ Len(v) = Len(ws)
                     /\ Len(ws) = 1 => v[1] = Append(ws[1], s[k])
                     /\ Len(ws) > 1 => v[1] = ws[1]
<1> DEFINE c == s[k]
           v == AddTo(ws, s, k)
           A == Letters \cup {Blank}
           n == Len(ws)
<1>1. c \in A /\ n \in Nat /\ ws \in [1 .. n -> Text]
  BY ElementOfSeq, LenProperties DEF Text
<1>2. CASE c = Blank
  <2>1. v = ws  BY <1>2 DEF AddTo
  <2> QED  BY <1>2, <2>1
<1>3. CASE c # Blank /\ BeginsWord(s, k)
  <2>1. v = Append(ws, <<c>>)  BY <1>3 DEF AddTo, BeginsWord
  <2>2. <<c>> \in Text
    <3> HIDE DEF c, A
    <3>1. <<c>> \in Seq(A)  BY <1>1, ShortSequences, Zenon
    <3> QED  BY <3>1 DEF Text, A
  <2>3. Append(ws, <<c>>) \in Seq(Text)
    <3> HIDE DEF c
    <3> QED  BY <2>2, AppendProperties
  <2> QED  BY <1>3, <2>1, <2>3
<1>4. CASE c # Blank /\ ~BeginsWord(s, k)
  <2> DEFINE x == Append(ws[n], c)
             u == [ws EXCEPT ![n] = x]
  <2>1. v = u  BY <1>4 DEF AddTo, BeginsWord
  <2>2. n # 0 => x \in Text
    <3>1. SUFFICES ASSUME n # 0 PROVE x \in Text  OBVIOUS
    <3>2. ws[n] \in Text  BY <1>1, <3>1
    <3> HIDE DEF c, n, A
    <3>3. Append(ws[n], c) \in Seq(A)
      <4>1. ws[n] \in Seq(A)  BY <3>2 DEF Text, A
      <4> QED  BY <1>1, <4>1, AppendProperties
    <3> QED  BY <3>3 DEF Text, A
  <2> HIDE DEF x, n
  <2>3. u \in [1 .. n -> Text]  BY <1>1, <2>2, OtherLast, Zenon
  <2>4. u \in Seq(Text) /\ Len(u) = n
    <3> HIDE DEF u
    <3> QED  BY <1>1, <2>3
  <2>5. n = 1 => u[1] = x  BY <1>1
  <2>6. n > 1 => u[1] = ws[1]  BY <1>1
  <2> HIDE DEF u
  <2> QED  BY <1>4, <2>1, <2>4, <2>5, <2>6 DEF x, n
<1> QED  BY <1>2, <1>3, <1>4

\* f is the run of the loop of Words over s.
ReadsWords(f, s) ==
    /\ f \in [0 .. Len(s) -> Seq(Text)]
    /\ f[0] = <<>>
    /\ \A k \in 1 .. Len(s) : f[k] = AddTo(f[k - 1], s, k)

(* The turns of Words.                                                     *)
LEMMA WordsRun ==
    ASSUME NEW s \in Text
    PROVE  \E f : ReadsWords(f, s) /\ Words(s) = f[Len(s)]
<1> DEFINE n == Len(s)
           S == Seq(Text)
           s0 == <<>>
           Turn(w, k) == AddTo(w, s, k)
           G(h) == [k \in 0 .. n |-> IF k = 0 THEN s0 ELSE Turn(h[k - 1], k)]
           F == [k \in 1 .. n |-> [w \in S |-> Turn(w, k)]]
           f == CHOOSE h : h = G(h)
<1>1. n \in Nat  BY LenProperties DEF Text
<1>2. s0 \in S  OBVIOUS
<1>3. Words(s) = f[n]  BY DEF Words
<1>4. \A w \in S : \A k \in 1 .. n : Turn(w, k) \in S  BY AddToFacts
<1>5. s0 = <<>> /\ S = Seq(Text)  OBVIOUS
<1> HIDE DEF n, S, s0, Turn
<1>6. F \in [1 .. n -> [S -> S]]  BY <1>4
<1>7. \E h : h = G(h)
  <2>1. PICK h : IsLoop(h, n, S, s0, F)
    <3> HIDE DEF F
    <3> QED  BY <1>1, <1>2, <1>6, LoopExists, Zenon
  <2>2. h \in [0 .. n -> S] /\ h[0] = s0 /\ \A k \in 1 .. n : h[k] = F[k][h[k - 1]]
    BY <2>1 DEF IsLoop
  <2>3. ASSUME NEW k \in 1 .. n PROVE h[k] = Turn(h[k - 1], k)
    <3>1. k - 1 \in 0 .. n  BY <1>1
    <3> QED  BY <2>2, <3>1
  <2>4. h = G(h)
    <3>1. \A k \in 0 .. n : k # 0 => k \in 1 .. n  BY <1>1
    <3> HIDE DEF F
    <3> QED  BY <2>2, <2>3, <3>1
  <2> QED  BY <2>4
<1>8. f = G(f)  BY <1>7
<1> HIDE DEF f
<1>9. f[0] = s0 /\ \A k \in 1 .. n : f[k] = Turn(f[k - 1], k)  BY <1>1, <1>8
<1> DEFINE P == {k \in 0 .. n : f[k] \in S}
<1>10. 0 \in P /\ \A k \in 1 .. n : k - 1 \in P => k \in P  BY <1>1, <1>2, <1>4, <1>9
<1>11. \A k \in 0 .. n : k \in P
  <2> HIDE DEF P
  <2> QED  BY <1>1, <1>10, Induction
<1>12. f \in [0 .. n -> S]  BY <1>8, <1>11
<1>13. ReadsWords(f, s)  BY <1>5, <1>9, <1>12 DEF n, Turn, ReadsWords
<1> QED  BY <1>3, <1>13 DEF n

(* A character adds a word exactly when it starts one.                     *)
LEMMA StartsStep ==
    ASSUME NEW s \in Text, NEW k \in 1 .. Len(s)
    PROVE  /\ k \in WordStarts(s) <=> s[k] # Blank /\ BeginsWord(s, k)
           /\ Cardinality(Starts(s, k - 1)) \in Nat
           /\ Cardinality(Starts(s, k - 1)) = 0 <=> Starts(s, k - 1) = {}
           /\ Cardinality(Starts(s, k)) =
                  IF k \in WordStarts(s) THEN Cardinality(Starts(s, k - 1)) + 1
                  ELSE Cardinality(Starts(s, k - 1))
<1>1. k \in Nat /\ Len(s) \in Nat  BY LenProperties DEF Text
<1>2. k \in WordStarts(s) <=> s[k] # Blank /\ BeginsWord(s, k)
  BY DEF WordStarts, BeginsWord
<1>3. \A i \in WordStarts(s) : i \in Nat  BY <1>1, WordCount
<1>4. IsFiniteSet(Starts(s, k - 1))
  <2>1. Starts(s, k - 1) \in SUBSET WordStarts(s)  BY DEF Starts
  <2> QED  BY <2>1, WordCount, FS_Subset
<1>5. \A i \in WordStarts(s) : i <= k <=> i <= k - 1 \/ i = k  BY <1>1, <1>3
<1>6. k \notin Starts(s, k - 1)
  <2>1. ~(k <= k - 1)  BY <1>1
  <2> QED  BY <2>1 DEF Starts
<1>7. CASE k \in WordStarts(s)
  <2>1. Starts(s, k) = Starts(s, k - 1) \cup {k}  BY <1>5, <1>7 DEF Starts
  <2>2. Cardinality(Starts(s, k - 1) \cup {k}) = Cardinality(Starts(s, k - 1)) + 1
    BY <1>4, <1>6, FS_AddElement
  <2> QED  BY <1>2, <1>4, <1>7, <2>1, <2>2, FS_CardinalityType, FS_EmptySet
<1>8. CASE k \notin WordStarts(s)
  <2>1. Starts(s, k) = Starts(s, k - 1)  BY <1>5, <1>8 DEF Starts
  <2> QED  BY <1>2, <1>4, <1>8, <2>1, FS_CardinalityType, FS_EmptySet
<1> QED  BY <1>7, <1>8

\* The first of the words read up to k is s[from .. to].
Opens(s, ws, from, to, k) ==
    /\ from <= to /\ to <= k
    /\ from \in WordStarts(s) /\ \A j \in WordStarts(s) : from <= j
    /\ \A j \in from .. to : s[j] # Blank
    /\ ws[1] = SubSeq(s, from, to)
    /\ to = k \/ s[to + 1] = Blank
    /\ Len(ws) = 1 /\ s[k] # Blank => to = k
    /\ Len(ws) > 1 => to < k /\ s[to + 1] = Blank

\* What is known of the words read up to k.
ReadUpTo(s, ws, k) ==
    /\ Len(ws) = Cardinality(Starts(s, k))
    /\ k # 0 /\ s[k] # Blank => Len(ws) # 0
    /\ Len(ws) # 0 => \E from, to \in 1 .. k : Opens(s, ws, from, to, k)

(* A blank ends a word.                                                    *)
LEMMA ReadBlank ==
    ASSUME NEW ws \in Seq(Text), NEW s \in Text, NEW k \in 1 .. Len(s),
           ReadUpTo(s, ws, k - 1), s[k] = Blank
    PROVE  ReadUpTo(s, AddTo(ws, s, k), k)
<1>1. k \in Nat /\ Len(s) \in Nat /\ Len(ws) \in Nat  BY LenProperties DEF Text
<1>2. AddTo(ws, s, k) = ws  BY AddToFacts
<1>3. Len(ws) = Cardinality(Starts(s, k))  BY StartsStep DEF ReadUpTo
<1>4. ASSUME Len(ws) # 0 PROVE \E from, to \in 1 .. k : Opens(s, ws, from, to, k)
  <2>1. PICK from \in 1 .. k - 1, to \in 1 .. k - 1 : Opens(s, ws, from, to, k - 1)
    BY <1>4 DEF ReadUpTo
  <2>2. from \in 1 .. k /\ to \in 1 .. k /\ to <= k /\ to < k /\ (to = k - 1 => to + 1 = k)
    BY <1>1
  <2>3. s[to + 1] = Blank
    <3>1. CASE to = k - 1  BY <2>2, <3>1
    <3>2. CASE to # k - 1  BY <2>1, <3>2 DEF Opens
    <3> QED  BY <3>1, <3>2
  <2>4. Opens(s, ws, from, to, k)  BY <2>1, <2>2, <2>3 DEF Opens
  <2> QED  BY <2>2, <2>4
<1> QED  BY <1>2, <1>3, <1>4 DEF ReadUpTo

(* A length is zero, one or more.                                          *)
LEMMA OneOrMore == \A n \in Nat : (n # 0 => n = 1 \/ n > 1) /\ (n = 1 => ~(n > 1))
OBVIOUS

(* The word of one character.                                              *)
LEMMA OneCharacter ==
    ASSUME NEW s \in Text, NEW k \in 1 .. Len(s)
    PROVE  SubSeq(s, k, k) = <<s[k]>>
<1> DEFINE A == Letters \cup {Blank}
<1>1. s \in Seq(A) /\ k \in Int /\ k - 1 \in Int /\ k - 1 < k /\ k \in k .. Len(s)
  BY LenProperties DEF Text
<1> HIDE DEF A
<1>2. SubSeq(s, k, k) = SubSeq(s, k, k - 1) \o <<s[k]>>  BY <1>1, SubSeqRecursiveSecond
<1>3. SubSeq(s, k, k - 1) = <<>>  BY <1>1, SubSeqEmpty
<1>4. <<s[k]>> \in Seq(A)  BY <1>1, ElementOfSeq, ShortSequences
<1> QED  BY <1>2, <1>3, <1>4, ConcatEmptySeq

(* A character behind a blank starts a word.                               *)
LEMMA ReadStart ==
    ASSUME NEW ws \in Seq(Text), NEW s \in Text, NEW k \in 1 .. Len(s),
           ReadUpTo(s, ws, k - 1), s[k] # Blank, BeginsWord(s, k)
    PROVE  ReadUpTo(s, AddTo(ws, s, k), k)
<1> DEFINE v == AddTo(ws, s, k)
           c == <<s[k]>>
<1> SUFFICES ReadUpTo(s, v, k)  OBVIOUS
<1>1. k \in Nat /\ Len(s) \in Nat /\ Len(ws) \in Nat /\ k \in 1 .. k
  BY LenProperties DEF Text
<1>2. v = Append(ws, c) /\ v \in Seq(Text)  BY AddToFacts
<1>3. Len(v) = Len(ws) + 1 /\ (Len(ws) # 0 => v[1] = ws[1]) /\ (Len(ws) = 0 => v[1] = c)
  <2>1. c \in Text
    <3>1. s[k] \in Letters \cup {Blank}  BY ElementOfSeq DEF Text
    <3> QED  BY <3>1, ShortSequences DEF Text
  <2> HIDE DEF c, v
  <2> QED  BY <1>1, <1>2, <2>1, AppendProperties
<1> HIDE DEF v, c
<1>4. k \in WordStarts(s)  BY StartsStep
<1>5. Len(v) = Cardinality(Starts(s, k))  BY <1>1, <1>3, <1>4, StartsStep DEF ReadUpTo
<1>6. Len(v) # 0 /\ (Len(ws) # 0 => Len(v) > 1) /\ (Len(ws) = 0 => Len(v) = 1)  BY <1>1, <1>3
<1>7. CASE Len(ws) = 0
  <2>1. Starts(s, k - 1) = {}  BY <1>7, StartsStep DEF ReadUpTo
  <2>2. \A j \in WordStarts(s) : k <= j
    <3>1. \A j \in WordStarts(s) : j \in Nat /\ ~(j <= k - 1)
      BY <1>1, <2>1, WordCount DEF Starts
    <3> QED  BY <1>1, <3>1
  <2>3. SubSeq(s, k, k) = <<s[k]>>  BY OneCharacter
  <2>4. k <= k /\ \A j \in k .. k : j = k  BY <1>1
  <2>5. ~(Len(v) > 1)
    <3>1. Len(v) = 1 /\ 1 \in Nat  BY <1>6, <1>7
    <3> QED  BY <3>1, OneOrMore, Zenon
  <2>6. v[1] = SubSeq(s, k, k)  BY <1>3, <1>7, <2>3 DEF c
  <2>7. Opens(s, v, k, k, k)  BY <1>4, <2>2, <2>4, <2>5, <2>6 DEF Opens
  <2> QED  BY <1>1, <1>5, <1>6, <2>7 DEF ReadUpTo
<1>8. CASE Len(ws) # 0
  <2>1. PICK from \in 1 .. k - 1, to \in 1 .. k - 1 : Opens(s, ws, from, to, k - 1)
    BY <1>8 DEF ReadUpTo
  <2>2. /\ from \in 1 .. k /\ to \in 1 .. k /\ to <= k /\ to < k
        /\ (to = k - 1 => k # 1) /\ (from <= to => to \in from .. to)
    BY <1>1
  <2>3. to # k - 1
    <3>1. SUFFICES ASSUME to = k - 1 PROVE FALSE  OBVIOUS
    <3>2. s[to] # Blank  BY <2>1, <2>2 DEF Opens
    <3> QED  BY <2>2, <3>1, <3>2 DEF BeginsWord
  <2>4. s[to + 1] = Blank  BY <2>1, <2>3 DEF Opens
  <2>5. v[1] = ws[1] /\ Len(v) # 1  BY <1>3, <1>6, <1>8
  <2>6. Opens(s, v, from, to, k)  BY <2>1, <2>2, <2>4, <2>5 DEF Opens
  <2> QED  BY <1>5, <1>6, <2>2, <2>6 DEF ReadUpTo
<1> QED  BY <1>7, <1>8

(* Another character is added to the word.                                 *)
LEMMA ReadMore ==
    ASSUME NEW ws \in Seq(Text), NEW s \in Text, NEW k \in 1 .. Len(s),
           ReadUpTo(s, ws, k - 1), s[k] # Blank, ~BeginsWord(s, k)
    PROVE  ReadUpTo(s, AddTo(ws, s, k), k)
<1> DEFINE v == AddTo(ws, s, k)
<1> SUFFICES ReadUpTo(s, v, k)  OBVIOUS
<1>1. k \in Nat /\ Len(s) \in Nat /\ Len(ws) \in Nat  BY LenProperties DEF Text
<1>2. k # 1 /\ s[k - 1] # Blank  BY DEF BeginsWord
<1>3. k - 1 # 0 /\ Len(ws) # 0  BY <1>1, <1>2 DEF ReadUpTo
<1>4. Len(v) = Len(ws) /\ (Len(ws) = 1 => v[1] = Append(ws[1], s[k]))
      /\ (Len(ws) > 1 => v[1] = ws[1])
  BY AddToFacts
<1>5. Len(v) = Cardinality(Starts(s, k))  BY <1>4, StartsStep DEF ReadUpTo
<1> HIDE DEF v
<1>6. PICK from \in 1 .. k - 1, to \in 1 .. k - 1 : Opens(s, ws, from, to, k - 1)
  BY <1>3 DEF ReadUpTo
<1>7. from \in 1 .. k /\ to \in 1 .. k /\ k \in 1 .. k /\ to <= k /\ to < k /\ from <= k /\ k <= k
  BY <1>1
<1>8. CASE Len(ws) = 1
  <2>1. to = k - 1  BY <1>2, <1>6, <1>8 DEF Opens
  <2>2. Append(SubSeq(s, from, k - 1), s[k]) = SubSeq(s, from, k)
    <3>1. from \in 1 .. Len(s) /\ k \in from .. Len(s)  BY <1>1, <1>7
    <3>2. SubSeq(s, from, k) = SubSeq(s, from, k - 1) \o <<s[k]>>
      BY <3>1, SubSeqRecursiveSecond DEF Text
    <3>3. SubSeq(s, from, k - 1) \in Text
      <4>1. \A j \in from .. k - 1 : j \in 1 .. Len(s)  BY <1>1
      <4>2. \A j \in from .. k - 1 : s[j] \in Letters \cup {Blank}
        BY <4>1, ElementOfSeq DEF Text
      <4>3. from \in Int /\ k - 1 \in Int  BY <1>1
      <4> QED  BY <4>2, <4>3, SubSeqProperties DEF Text
    <3>4. s[k] \in Letters \cup {Blank}  BY ElementOfSeq DEF Text
    <3> QED  BY <3>2, <3>3, <3>4, AppendIsConcat DEF Text
  <2>3. v[1] = SubSeq(s, from, k)  BY <1>4, <1>6, <1>8, <2>1, <2>2 DEF Opens
  <2>4. \A j \in from .. k : j = k \/ j \in from .. k - 1  BY <1>1
  <2>5. \A j \in from .. k : s[j] # Blank  BY <1>6, <2>1, <2>4 DEF Opens
  <2>6. ~(Len(v) > 1)  BY <1>1, <1>4, <1>8, OneOrMore, Zenon
  <2>7. Opens(s, v, from, k, k)  BY <1>6, <1>7, <2>3, <2>5, <2>6 DEF Opens
  <2> QED  BY <1>3, <1>4, <1>5, <1>7, <2>7 DEF ReadUpTo
<1>9. CASE Len(ws) > 1
  <2>1. s[to + 1] = Blank  BY <1>6, <1>9 DEF Opens
  <2>2. v[1] = ws[1] /\ Len(v) # 1  BY <1>4, <1>9
  <2>3. Opens(s, v, from, to, k)  BY <1>6, <1>7, <2>1, <2>2 DEF Opens
  <2> QED  BY <1>3, <1>4, <1>5, <1>7, <2>3 DEF ReadUpTo
<1>10. Len(ws) = 1 \/ Len(ws) > 1  BY <1>1, <1>3, OneOrMore, Zenon
<1> QED  BY <1>8, <1>9, <1>10

(* The words, read to the end.                                             *)
LEMMA ReadToEnd ==
    ASSUME NEW s \in Text
    PROVE  Words(s) \in Seq(Text) /\ ReadUpTo(s, Words(s), Len(s))
<1> DEFINE n == Len(s)
<1>1. PICK f : ReadsWords(f, s) /\ Words(s) = f[n]  BY WordsRun
<1>2. /\ f \in [0 .. n -> Seq(Text)] /\ f[0] = <<>>
      /\ \A k \in 1 .. n : f[k] = AddTo(f[k - 1], s, k)
  BY <1>1 DEF ReadsWords
<1>3. n \in Nat /\ n \in 0 .. n  BY LenProperties DEF Text
<1> DEFINE P == {k \in 0 .. n : ReadUpTo(s, f[k], k)}
<1>4. 0 \in P
  <2>1. Starts(s, 0) = {}
    <3>1. \A i \in WordStarts(s) : i \in 1 .. n  BY WordCount
    <3>2. \A i \in 1 .. n : ~(i <= 0)  BY <1>3
    <3> QED  BY <3>1, <3>2 DEF Starts
  <2>2. Len(<<>>) = 0 /\ Cardinality({}) = 0  BY FS_EmptySet
  <2>3. ReadUpTo(s, <<>>, 0)  BY <2>1, <2>2 DEF ReadUpTo
  <2>4. 0 \in 0 .. n  BY <1>3
  <2> QED  BY <1>2, <2>3, <2>4
<1>5. ASSUME NEW k \in 1 .. n, k - 1 \in P PROVE k \in P
  <2>1. k - 1 \in 0 .. n /\ k \in 0 .. n  BY <1>3
  <2>2. f[k - 1] \in Seq(Text) /\ ReadUpTo(s, f[k - 1], k - 1)  BY <1>2, <1>5, <2>1
  <2>3. ReadUpTo(s, AddTo(f[k - 1], s, k), k)
    BY <2>2, ReadBlank, ReadStart, ReadMore
  <2> QED  BY <1>2, <2>1, <2>3
<1>6. \A k \in 0 .. n : k \in P
  <2> HIDE DEF P
  <2> QED  BY <1>3, <1>4, <1>5, Induction
<1> QED  BY <1>1, <1>2, <1>3, <1>6

(* argv[0] is the first of the words, and argc their number.               *)
LEMMA WordsAreArguments ==
    ASSUME NEW s \in Text
    PROVE  LET ws == Words(s)
           IN  /\ ws \in Seq(Text)
               /\ Len(ws) = Cardinality(WordStarts(s))
               /\ Len(ws) # 0 => Word(s, 1) = ws[1]
<1> DEFINE ws == Words(s)
           S == WordStarts(s)
           n == Len(s)
<1>1. ws \in Seq(Text) /\ ReadUpTo(s, ws, n) /\ n \in Nat
  BY ReadToEnd, LenProperties DEF Text
<1>2. \A i \in S : i \in Nat /\ i <= n  BY <1>1, WordCount
<1>3. Starts(s, n) = S  BY <1>2 DEF Starts
<1>4. Len(ws) = Cardinality(S)  BY <1>1, <1>3 DEF ReadUpTo
<1>5. ASSUME Len(ws) # 0 PROVE Word(s, 1) = ws[1]
  <2>1. PICK from \in 1 .. n, to \in 1 .. n : Opens(s, ws, from, to, n)
    BY <1>1, <1>5 DEF ReadUpTo
  <2>2. /\ from <= to /\ from \in S /\ (\A j \in S : from <= j)
        /\ (\A j \in from .. to : s[j] # Blank)
        /\ ws[1] = SubSeq(s, from, to) /\ (to = n \/ s[to + 1] = Blank)
    BY <2>1 DEF Opens
  <2> HIDE DEF S, ws, n
  <2> DEFINE Upto(i) == {j \in S : j <= i}
             first == CHOOSE i \in S : Cardinality(Upto(i)) = 1
             Ends(k) == /\ \A j \in from .. k : s[j] # Blank
                        /\ k = n \/ s[k + 1] = Blank
             last1 == CHOOSE k \in from .. n : Ends(k)
  <2>3. Cardinality(Upto(from)) = 1
    <3>1. \A j \in S : j <= from => j = from  BY <1>2, <2>2
    <3>2. from <= from  OBVIOUS
    <3>3. Upto(from) = {from}  BY <2>2, <3>1, <3>2
    <3> QED  BY <3>3, FS_Singleton
  <2>4. ASSUME NEW i \in S, Cardinality(Upto(i)) = 1 PROVE i = from
    <3>1. from \in Upto(i) /\ i \in Upto(i)  BY <1>2, <2>2
    <3>2. IsFiniteSet(Upto(i))
      <4>1. Upto(i) \in SUBSET S /\ IsFiniteSet(S)  BY WordCount DEF S
      <4> QED  BY <4>1, FS_Subset
    <3> HIDE DEF Upto
    <3>3. PICK x : Upto(i) = {x}  BY <2>4, <3>2, FS_Singleton
    <3> QED  BY <3>1, <3>3
  <2>5. first = from
    <3> HIDE DEF Upto
    <3> QED  BY <2>2, <2>3, <2>4
  <2>6. to \in from .. n /\ Ends(to)  BY <1>1, <2>2
  <2>7. ASSUME NEW k \in from .. n, Ends(k) PROVE k = to
    <3>1. k \in Nat /\ to \in Nat /\ from \in Nat  BY <1>1
    <3>2. CASE k < to
      <4>1. k + 1 \in from .. to /\ k # n  BY <1>1, <3>1, <3>2
      <4> QED  BY <2>2, <2>7, <4>1
    <3>3. CASE to < k
      <4>1. to + 1 \in from .. k /\ to # n  BY <1>1, <2>2, <3>1, <3>3
      <4> QED  BY <2>2, <2>7, <4>1
    <3> QED  BY <3>1, <3>2, <3>3
  <2>8. last1 = to
    <3> HIDE DEF Ends
    <3> QED  BY <2>6, <2>7
  <2>9. Nth(S, 1) = first
    BY DEF Nth
  <2>10. Word(s, 1) = SubSeq(s, from, last1)
    <3>1. Nth(WordStarts(s), 1) = from  BY <2>5, <2>9 DEF S
    <3> QED  BY <3>1 DEF Word, n
  <2> QED  BY <2>2, <2>8, <2>10 DEF ws
<1> QED  BY <1>1, <1>4, <1>5

-----------------------------------------------------------------------------
(* The inductive invariant of the CLI *)

\* The buffer holds the line as it was typed, or the flag says that it does not.
LineInv ==
    /\ TypeOK
    /\ tooLong <=> Len(raw) >= LineMax
    /\ ~tooLong => line = raw

(* What a line is answered with.                                           *)
LEMMA AnswerFacts ==
    ASSUME LineInv
    PROVE  /\ tooLong => Answer = <<"ERR LINE">>
           /\ ~tooLong /\ raw # <<>> => Answer = cli_process_line(raw)
           /\ Answer \in Seq(Replies)
<1>1. tooLong \in BOOLEAN /\ raw \in Text  BY DEF LineInv, TypeOK, Text
<1>2. CASE tooLong
  <2>1. Answer = <<"ERR LINE">>  BY <1>2 DEF Answer
  <2>2. "ERR LINE" \in Replies  BY DEF Replies
  <2>3. <<"ERR LINE">> \in Seq(Replies)  BY <2>2, ShortSequences, Zenon
  <2> QED  BY <1>2, <2>1, <2>3
<1>3. CASE ~tooLong /\ raw # <<>>
  <2>1. Answer = cli_process_line(raw)  BY <1>3 DEF Answer, LineInv
  <2> QED  BY <1>1, <1>3, <2>1, ProcessLine
<1>4. CASE ~tooLong /\ raw = <<>>
  <2>1. Answer = <<>>  BY <1>4 DEF Answer, LineInv
  <2> QED  BY <1>4, <2>1
<1> QED  BY <1>1, <1>2, <1>3, <1>4

(* The empty buffer.                                                       *)
LEMMA InitLine == CliInit => LineInv
<1> SUFFICES ASSUME CliInit PROVE LineInv  OBVIOUS
<1>1. line = <<>> /\ tooLong = FALSE /\ raw = <<>> /\ replies = <<>>  BY DEF CliInit
<1>2. Len(<<>>) = 0 /\ 0 < LineMax /\ 0 <= MaxRaw /\ ~(0 >= LineMax)  BY CliAssumption
<1>3. \A S : <<>> \in Seq(S)  OBVIOUS
<1>4. TypeOK  BY <1>1, <1>2, <1>3, Zenon DEF TypeOK
<1> QED  BY <1>1, <1>2, <1>4, Zenon DEF LineInv

(* A character goes to the buffer as long as the terminator still fits.    *)
LEMMA ReadCharLine ==
    ASSUME LineInv, NEW c \in Letters \cup {Blank}, ReadChar(c)
    PROVE  LineInv'
<1> DEFINE A == Letters \cup {Blank}
           n == Len(line)
           m == Len(raw)
<1>1. /\ line \in Seq(A) /\ n < LineMax /\ tooLong \in BOOLEAN /\ raw \in Seq(A) /\ m <= MaxRaw
      /\ (tooLong <=> m >= LineMax) /\ (~tooLong => line = raw)
  BY DEF LineInv, TypeOK
<1>2. /\ m < MaxRaw /\ raw' = Append(raw, c) /\ replies' = <<>>
      /\ line' = (IF n < LineMax - 1 THEN Append(line, c) ELSE line)
      /\ tooLong' = (tooLong \/ ~(n < LineMax - 1))
  BY DEF ReadChar, AddChar, HasRoom
<1>3. n \in Nat /\ m \in Nat /\ LineMax \in Nat \ {0} /\ MaxRaw \in Nat
  BY <1>1, LenProperties, CliAssumption
<1> HIDE DEF A
<1>4. /\ Append(line, c) \in Seq(A) /\ Len(Append(line, c)) = n + 1
      /\ Append(raw, c) \in Seq(A) /\ Len(Append(raw, c)) = m + 1
  <2>1. c \in A  BY DEF A
  <2> QED  BY <1>1, <2>1, AppendProperties
<1>5. ~tooLong => n = m  BY <1>1
<1>6. raw' \in Seq(A) /\ Len(raw') = m + 1  BY <1>2, <1>4
<1> HIDE DEF n, m
<1>7. Len(raw') <= MaxRaw  BY <1>2, <1>3, <1>6
<1>8. line' \in Seq(A) /\ Len(line') < LineMax
  <2>1. CASE n < LineMax - 1
    <3>1. line' = Append(line, c)  BY <1>2, <2>1
    <3>2. n + 1 < LineMax  BY <1>3, <2>1
    <3> QED  BY <1>4, <3>1, <3>2
  <2>2. CASE ~(n < LineMax - 1)
    <3>1. line' = line  BY <1>2, <2>2
    <3> QED  BY <1>1, <3>1 DEF n
  <2> QED  BY <2>1, <2>2
<1>9. tooLong' \in BOOLEAN  BY <1>1, <1>2, Zenon
<1>10. (tooLong' <=> Len(raw') >= LineMax) /\ (~tooLong' => line' = raw')
  <2>1. CASE tooLong
    <3>1. tooLong'  BY <1>2, <2>1, Zenon
    <3>2. m + 1 >= LineMax  BY <1>1, <1>3, <2>1 DEF m
    <3> QED  BY <1>6, <3>1, <3>2
  <2>2. CASE ~tooLong /\ n < LineMax - 1
    <3>1. ~tooLong' /\ line' = Append(line, c) /\ line = raw  BY <1>1, <1>2, <2>2, Zenon
    <3>2. ~(m + 1 >= LineMax)  BY <1>3, <1>5, <2>2
    <3> QED  BY <1>2, <1>6, <3>1, <3>2
  <2>3. CASE ~tooLong /\ ~(n < LineMax - 1)
    <3>1. tooLong'  BY <1>2, <2>3, Zenon
    <3>2. m + 1 >= LineMax  BY <1>3, <1>5, <2>3
    <3> QED  BY <1>6, <3>1, <3>2
  <2> QED  BY <2>1, <2>2, <2>3
<1>11. replies' \in Seq(Replies)
  <2>1. <<>> \in Seq(Replies)  OBVIOUS
  <2> QED  BY <1>2, <2>1
<1> QED  BY <1>6, <1>7, <1>8, <1>9, <1>10, <1>11, Zenon DEF LineInv, TypeOK, A, Replies

(* A line end empties the buffer and clears the flag.                      *)
LEMMA ReadLineEndLine ==
    ASSUME LineInv, ReadLineEnd
    PROVE  LineInv'
<1>1. line' = <<>> /\ tooLong' = FALSE /\ raw' = <<>> /\ replies' = Answer
  BY DEF ReadLineEnd, EndLine
<1>2. Len(<<>>) = 0 /\ 0 < LineMax /\ 0 <= MaxRaw /\ ~(0 >= LineMax)  BY CliAssumption
<1>3. \A S : <<>> \in Seq(S)  OBVIOUS
<1>4. replies' \in Seq(Replies)  BY <1>1, AnswerFacts
<1>5. TypeOK'  BY <1>1, <1>2, <1>3, <1>4, Zenon DEF TypeOK, Replies
<1> QED  BY <1>1, <1>2, <1>5, Zenon DEF LineInv

(* Every step keeps the invariant.                                         *)
LEMMA NextLine == LineInv /\ [CliNext]_cliVars => LineInv'
<1> SUFFICES ASSUME LineInv, [CliNext]_cliVars PROVE LineInv'  OBVIOUS
<1>1. CASE ReadLineEnd  BY <1>1, ReadLineEndLine
<1>2. ASSUME NEW c \in Letters \cup {Blank}, ReadChar(c) PROVE LineInv'
  BY <1>2, ReadCharLine
<1>3. CASE UNCHANGED cliVars  BY <1>3 DEF cliVars, LineInv, TypeOK
<1> QED  BY <1>1, <1>2, <1>3 DEF CliNext

(* The line buffer is never overrun: cliThread keeps the last byte for the *)
(* terminator that it stores at the line end, whatever is typed.           *)
THEOREM LineFitsBuffer == CliSpec => []TypeOK
<1>1. LineInv => TypeOK  BY DEF LineInv
<1> QED  BY <1>1, InitLine, NextLine, PTL DEF CliSpec

-----------------------------------------------------------------------------
(* The answers *)

(* A sequence of one.                                                      *)
LEMMA Single ==
    ASSUME NEW S, NEW q \in Seq(S)
    PROVE  /\ \A x : q = <<x>> => Len(q) = 1 /\ q[1] = x
           /\ q = <<>> <=> Len(q) = 0
           /\ q # <<>> => Head(q) = q[1]
<1>1. ASSUME NEW x, q = <<x>> PROVE Len(q) = 1 /\ q[1] = x  BY <1>1
<1>2. q = <<>> <=> Len(q) = 0  BY EmptySeq
<1>3. q # <<>> => Head(q) = q[1]  OBVIOUS
<1> QED  BY <1>1, <1>2, <1>3

(* A line end is answered by the words of the line it ends.                *)
LEMMA LineAnswered ==
    ASSUME LineInv, ReadLineEnd, raw # <<>>
    PROVE  LET ws == Words(raw)
           IN  /\ Len(raw) >= LineMax <=> replies' = <<"ERR LINE">>
               /\ Len(raw) < LineMax =>
                     /\ ws = <<>> <=> replies' = <<>>
                     /\ Len(ws) > MaxArgs => replies' = <<"ERR ARG">>
                     /\ ws # <<>> /\ Len(ws) <= MaxArgs =>
                           /\ (Head(ws) \notin Commands \cup {Help}) => replies' = <<"ERR CMD">>
                           /\ ws \in {<<c>> : c \in Commands} => replies' = <<"OK">>
                           /\ ws = <<Help>> => Len(replies') = 2 + Cardinality(Commands)
<1> DEFINE ws == Words(raw)
           n == Cardinality(WordStarts(raw))
           w == Word(raw, 1)
           r == replies'
<1>1. raw \in Text /\ (tooLong <=> Len(raw) >= LineMax) /\ Len(raw) \in Nat /\ LineMax \in Nat
  BY LenProperties, TableFacts DEF LineInv, TypeOK, Text
<1>2. replies' = Answer  BY DEF ReadLineEnd, EndLine
<1>3. /\ tooLong => replies' = <<"ERR LINE">>
      /\ ~tooLong => replies' = cli_process_line(raw)
  BY <1>2, AnswerFacts
<1>4. CASE tooLong
  <2>1. ~(Len(raw) < LineMax)  BY <1>1, <1>4
  <2> QED  BY <1>1, <1>3, <1>4, <2>1
<1>5. CASE ~tooLong
  <2>1. r = cli_process_line(raw)  BY <1>3, <1>5
  <2>2. /\ r # <<"ERR LINE">>
        /\ n = 0 <=> r = <<>>
        /\ n > MaxArgs => r = <<"ERR ARG">>
        /\ n # 0 /\ n <= MaxArgs =>
              /\ w \notin Commands \cup {Help} => r = <<"ERR CMD">>
              /\ n = 1 /\ w \in Commands => r = <<"OK">>
              /\ n = 1 /\ w = Help => Len(r) = 2 + Cardinality(Commands)
    BY <1>1, <2>1, ProcessLine
  <2>3. ws \in Seq(Text) /\ Len(ws) = n /\ (n # 0 => w = ws[1])  BY <1>1, WordsAreArguments
  <2> HIDE DEF ws, n, w, r
  <2>4. /\ \A x : ws = <<x>> => n = 1 /\ ws[1] = x
        /\ ws = <<>> <=> n = 0
        /\ ws # <<>> => Head(ws) = ws[1]
    BY <2>3, Single
  <2>5. \A c : ws = <<c>> => n = 1 /\ n # 0 /\ w = c  BY <2>3, <2>4
  <2>6. ws # <<>> => n # 0 /\ Head(ws) = w  BY <2>3, <2>4
  <2>7. /\ ws \in {<<c>> : c \in Commands} => n = 1 /\ n # 0 /\ w \in Commands
        /\ ws = <<Help>> => n = 1 /\ n # 0 /\ w = Help
    BY <2>5
  <2>8. /\ ws = <<>> <=> r = <<>>
        /\ Len(ws) > MaxArgs => r = <<"ERR ARG">>
        /\ ws # <<>> /\ Len(ws) <= MaxArgs =>
              /\ (Head(ws) \notin Commands \cup {Help}) => r = <<"ERR CMD">>
              /\ ws \in {<<c>> : c \in Commands} => r = <<"OK">>
              /\ ws = <<Help>> => Len(r) = 2 + Cardinality(Commands)
    BY <2>2, <2>3, <2>4, <2>6, <2>7, Zenon
  <2>9. ~(Len(raw) >= LineMax)  BY <1>1, <1>5
  <2> QED  BY <2>2, <2>8, <2>9, Zenon DEF ws, r
<1> QED  BY <1>1, <1>4, <1>5

(* A line is answered by its own words alone, whatever came before it, for *)
(* any size of the buffer, any number of arguments and any command table:  *)
(* the words that strtok finds are those a reader sees, and neither an     *)
(* overlong line nor an earlier one leaves anything behind.                *)
THEOREM LineAnsweredByItself == CliSpec => AnswersThisLine
<1> DEFINE Right ==
      raw # <<>> /\ raw' = <<>> =>
         LET ws == Words(raw)
         IN  /\ Len(raw) >= LineMax <=> replies' = <<"ERR LINE">>
             /\ Len(raw) < LineMax =>
                   /\ ws = <<>> <=> replies' = <<>>
                   /\ Len(ws) > MaxArgs => replies' = <<"ERR ARG">>
                   /\ ws # <<>> /\ Len(ws) <= MaxArgs =>
                         /\ (Head(ws) \notin Commands \cup {Help}) => replies' = <<"ERR CMD">>
                         /\ ws \in {<<c>> : c \in Commands} => replies' = <<"OK">>
                         /\ ws = <<Help>> => Len(replies') = 2 + Cardinality(Commands)
<1>1. LineInv /\ [CliNext]_cliVars => [Right]_cliVars
  <2> SUFFICES ASSUME LineInv, CliNext, raw # <<>>, raw' = <<>> PROVE Right
    BY DEF Right
  <2>1. CASE ReadLineEnd  BY <2>1, LineAnswered
  <2>2. ASSUME NEW c \in Letters \cup {Blank}, ReadChar(c) PROVE FALSE
    <3>1. raw' = Append(raw, c)  BY <2>2 DEF ReadChar
    <3>2. raw \in Seq(Letters \cup {Blank})  BY DEF LineInv, TypeOK
    <3>3. Append(raw, c) # <<>>  BY <2>2, <3>2, AppendProperties
    <3> QED  BY <3>1, <3>3
  <2> QED  BY <2>1, <2>2 DEF CliNext
<1>2. CliSpec => []LineInv  BY InitLine, NextLine, PTL DEF CliSpec
<1>3. AnswersThisLine <=> [][Right]_cliVars  BY DEF AnswersThisLine
<1> HIDE DEF Right
<1> QED  BY <1>1, <1>2, <1>3, PTL DEF CliSpec
====
