----------------------------- MODULE WireProofs -----------------------------
(***************************************************************************)
(* The proofs about Wire.                                                  *)
(*                                                                         *)
(* What is written is what was read because a word that is read and        *)
(* written anew is the same bytes (EncodedValue), and a string's padding   *)
(* is compared with zeros before it is written (StringAnew): Copied says   *)
(* at every place how far the copy is behind what has been read.           *)
(*                                                                         *)
(* That the session keeps to the structure of the stream is shown with     *)
(* witnesses: a function that cuts the stream into messages, and one that   *)
(* cuts a list into strings, each grows by a value where the session goes   *)
(* on (Framed), and nothing that is sent later changes them.  At the end    *)
(* they are compared with the recursive functions of the property, value    *)
(* by value.                                                               *)
(*                                                                         *)
(* Induction is over sets of naturals (NatBySets, from the well-founded     *)
(* order on them); a recursive function is known to exist by Iteration.     *)
(***************************************************************************)
EXTENDS Wire, SequenceTheorems, WellFoundedInduction, TLAPS

-----------------------------------------------------------------------------
(* Induction, iteration and division.                                      *)

\* Induction over the naturals, for a set of them.
LEMMA NatBySets ==
    ASSUME NEW S, S \subseteq Nat, 0 \in S, \A n \in S : n + 1 \in S
    PROVE  S = Nat
<1> DEFINE T == Nat \ S
<1> SUFFICES ASSUME T # {} PROVE FALSE
    OBVIOUS
<1> HIDE DEF T
<1>1. T \subseteq Nat
    BY DEF T
<1>2. \E x \in T : \A y \in T : ~ (<<y, x>> \in OpToRel(<, Nat))
    BY <1>1, NatLessThanWellFounded, WFMin
<1>3. PICK x \in T : \A y \in T : ~ (y < x)
    BY <1>1, <1>2 DEF OpToRel
<1>4. x # 0 /\ x \in Nat
    BY DEF T
<1>5. x - 1 \in Nat /\ x - 1 < x /\ (x - 1) + 1 = x
    BY <1>4
<1>6. x - 1 \in S
    BY <1>3, <1>5 DEF T
<1> QED BY <1>5, <1>6 DEF T

\* The same, up to a bound.
LEMMA UpToBySets ==
    ASSUME NEW n \in Nat, NEW S, 0 \in S, \A i \in 0..n : i \in S /\ i + 1 <= n => i + 1 \in S
    PROVE  0..n \subseteq S
<1> DEFINE T == {i \in Nat : i <= n => i \in S}
<1>1. 0 \in T
    OBVIOUS
<1>2. \A i \in T : i + 1 \in T
    OBVIOUS
<1>3. T \subseteq Nat
    OBVIOUS
<1> HIDE DEF T
<1>4. T = Nat
    BY <1>1, <1>2, <1>3, NatBySets
<1> QED BY <1>4 DEF T

\* A function can be defined by what it is at 0 and by a step.
Iterates(n, D, c, G) ==
    \E f \in [0..n -> D] : f[0] = c /\ \A i \in 1..n : f[i] = G[<<f[i - 1], i>>]

LEMMA Iteration ==
    ASSUME NEW n \in Nat, NEW D, NEW c \in D, NEW G \in [D \X (1..n) -> D]
    PROVE  Iterates(n, D, c, G)
<1> DEFINE Is(f, k) == /\ f \in [0..k -> D]
                       /\ f[0] = c
                       /\ \A i \in 1..k : f[i] = G[<<f[i - 1], i>>]
           S == {k \in 0..n : \E f : Is(f, k)}
<1>1. 0 \in S
    <2> DEFINE f == [i \in 0..0 |-> c]
    <2>1. Is(f, 0)
        OBVIOUS
    <2> HIDE DEF f, Is
    <2>2. \E g : Is(g, 0)
        BY <2>1
    <2> QED BY <2>2
<1>2. ASSUME NEW k \in 0..n, k \in S, k + 1 <= n PROVE k + 1 \in S
    <2>1. PICK f : Is(f, k)
        BY <1>2
    <2> DEFINE g == [i \in 0..(k + 1) |-> IF i = k + 1 THEN G[<<f[k], k + 1>>] ELSE f[i]]
    <2>2. k + 1 \in 1..n /\ f[k] \in D
        BY <1>2, <2>1
    <2>3. G[<<f[k], k + 1>>] \in D
        BY <2>2
    <2>4. g \in [0..(k + 1) -> D]
        BY <2>1, <2>3
    <2>5. g[0] = c
        BY <2>1
    <2>6. ASSUME NEW i \in 1..(k + 1) PROVE g[i] = G[<<g[i - 1], i>>]
        <3>1. i \in 0..(k + 1) /\ i - 1 \in 0..(k + 1) /\ i - 1 # k + 1 /\ g[i - 1] = f[i - 1]
            OBVIOUS
        <3>2. CASE i = k + 1
            <4>1. i - 1 = k
                BY <3>2
            <4> QED BY <3>1, <3>2, <4>1
        <3>3. CASE i # k + 1
            <4>1. i \in 1..k /\ g[i] = f[i]
                BY <3>1, <3>3
            <4> QED BY <2>1, <3>1, <4>1
        <3> QED BY <3>2, <3>3
    <2> HIDE DEF g
    <2>7. Is(g, k + 1)
        BY <2>4, <2>5, <2>6
    <2> HIDE DEF Is
    <2>8. k + 1 \in 0..n
        BY <1>2
    <2> QED BY <2>7, <2>8
<1>3. n \in S
    <2> HIDE DEF S
    <2>1. 0..n \subseteq S
        BY <1>1, <1>2, UpToBySets
    <2> QED BY <2>1
<1> QED BY <1>3 DEF Iterates

\* Division by b, with a remainder.
LEMMA DivMod ==
    ASSUME NEW b \in Nat \ {0}, NEW a \in Nat
    PROVE  a = b * (a \div b) + (a % b) /\ a \div b \in Nat /\ a % b \in 0..(b - 1)
<1>1. a = b * (a \div b) + (a % b)
    OBVIOUS
<1>2. a \div b \in Nat /\ a % b \in 0..(b - 1)
    OBVIOUS
<1> QED BY <1>1, <1>2

LEMMA TimesGrows ==
    ASSUME NEW b \in Nat, NEW p \in Nat, NEW q \in Nat, p < q
    PROVE  b * p + b <= b * q
<1>1. PICK d \in Nat : q = p + 1 + d
    <2>1. q - p - 1 \in Nat /\ q = p + 1 + (q - p - 1)
        OBVIOUS
    <2> QED BY <2>1
<1>2. b * q = b * p + b + b * d
    BY <1>1
<1>3. b * d \in Nat /\ b * p \in Nat
    BY <1>1
<1> QED BY <1>2, <1>3

\* Quotient and remainder are the only ones.
LEMMA DivModOf ==
    ASSUME NEW b \in Nat \ {0}, NEW q \in Nat, NEW r \in 0..(b - 1)
    PROVE  (b * q + r) \div b = q /\ (b * q + r) % b = r
<1> DEFINE a == b * q + r
           p == a \div b
           s == a % b
<1>1. a \in Nat
    <2>1. b * q \in Nat
        OBVIOUS
    <2> QED BY <2>1
<1>2. a = b * p + s /\ s \in 0..(b - 1) /\ p \in Nat
    <2> HIDE DEF a
    <2> QED BY <1>1, DivMod
<1>3. b * q + r = b * p + s
    BY <1>2
<1> HIDE DEF a, p, s
<1>4. b * p \in Nat /\ b * q \in Nat
    BY <1>2
<1>5. ~(p < q)
    <2>1. SUFFICES ASSUME p < q PROVE FALSE
        OBVIOUS
    <2>2. b * p + b <= b * q
        BY <1>2, <2>1, TimesGrows
    <2> QED BY <1>2, <1>3, <1>4, <2>2
<1>6. ~(q < p)
    <2>1. SUFFICES ASSUME q < p PROVE FALSE
        OBVIOUS
    <2>2. b * q + b <= b * p
        BY <1>2, <2>1, TimesGrows
    <2> QED BY <1>2, <1>3, <1>4, <2>2
<1>7. p = q
    BY <1>2, <1>5, <1>6
<1> QED BY <1>2, <1>3, <1>4, <1>7 DEF a, p, s

-----------------------------------------------------------------------------
(* Words.                                                                  *)

\* The function of Value is the one its definition describes.
LEMMA ValueSteps ==
    ASSUME NEW bs \in Seq(Bytes)
    PROVE  \E from \in [0..Len(bs) -> Nat] :
              /\ from = [i \in 0..Len(bs) |->
                            IF i = 0 THEN 0 ELSE BASE * from[i - 1] + bs[Len(bs) + 1 - i]]
              /\ Value(bs) = from[Len(bs)]
<1> DEFINE n == Len(bs)
           G == [x \in Nat \X (1..n) |-> BASE * x[1] + bs[n + 1 - x[2]]]
           Is(f) == f = [i \in 0..n |-> IF i = 0 THEN 0 ELSE BASE * f[i - 1] + bs[n + 1 - i]]
<1>1. n \in Nat /\ BASE \in Nat /\ 0 \in Nat
    BY WireAssumption
<1>2. \A i \in 1..n : n + 1 - i \in 1..n /\ bs[i] \in Nat
    BY WireAssumption DEF Bytes
<1>3. \A v \in Nat, i \in 1..n : BASE * v + bs[n + 1 - i] \in Nat
    BY <1>1, <1>2
<1> HIDE DEF n
<1>4. G \in [Nat \X (1..n) -> Nat]
    BY <1>3
<1>5. \A v \in Nat, i \in 1..n : G[<<v, i>>] = BASE * v + bs[n + 1 - i]
    OBVIOUS
<1> HIDE DEF G
<1>6. \E f \in [0..n -> Nat] : Is(f)
    <2>1. Iterates(n, Nat, 0, G)
        BY <1>1, <1>4, Iteration
    <2>2. PICK f \in [0..n -> Nat] : f[0] = 0 /\ \A i \in 1..n : f[i] = G[<<f[i - 1], i>>]
        BY <2>1 DEF Iterates
    <2>3. \A i \in 1..n : f[i - 1] \in Nat
        BY <1>1
    <2>4. \A i \in 1..n : f[i] = BASE * f[i - 1] + bs[n + 1 - i]
        BY <1>5, <2>2, <2>3
    <2>5. \A i \in 0..n : f[i] = IF i = 0 THEN 0 ELSE BASE * f[i - 1] + bs[n + 1 - i]
        BY <2>2, <2>4
    <2> QED BY <2>5
<1> DEFINE from == CHOOSE f : Is(f)
<1>7. Value(bs) = from[n]
    BY DEF Value, n
<1>8. Is(from)
    <2> HIDE DEF Is
    <2> QED BY <1>6
<1> HIDE DEF from
<1>9. \A i \in 0..n : from[i] \in Nat
    <2> DEFINE S == {j \in Nat : from[j] \in Nat}
    <2>1. 0 \in S
        BY <1>1, <1>8
    <2>2. ASSUME NEW j \in 0..n, j \in S, j + 1 <= n PROVE j + 1 \in S
        <3>1. from[j + 1] = BASE * from[j] + bs[n + 1 - (j + 1)]
            <4>1. j + 1 \in 0..n /\ j + 1 # 0 /\ (j + 1) - 1 = j
                BY <2>2
            <4> QED BY <1>8, <4>1
        <3>2. from[j] \in Nat /\ j + 1 \in 1..n /\ j + 1 \in Nat
            BY <1>1, <2>2
        <3>3. BASE * from[j] + bs[n + 1 - (j + 1)] \in Nat
            BY <1>3, <3>2
        <3> QED BY <3>1, <3>2, <3>3
    <2> HIDE DEF S
    <2>3. 0..n \subseteq S
        BY <1>1, <2>1, <2>2, UpToBySets
    <2> QED BY <2>3 DEF S
<1> QED BY <1>7, <1>8, <1>9 DEF n

LEMMA ValueNat ==
    ASSUME NEW bs \in Seq(Bytes)
    PROVE  Value(bs) \in Nat
<1>1. Len(bs) \in Nat
    OBVIOUS
<1> QED BY <1>1, ValueSteps

\* A word that is read and written anew is the same bytes.
LEMMA EncodedValue ==
    ASSUME NEW bs \in Seq(Bytes), Len(bs) = WORD
    PROVE  Encoded(Value(bs)) = bs
<1> DEFINE v == Value(bs)
           Is(f) == f = [i \in 0..WORD |-> IF i = 0 THEN v ELSE f[i - 1] \div BASE]
<1>1. WORD \in Nat /\ BASE \in Nat \ {0}
    BY WireAssumption
<1>2. PICK from \in [0..WORD -> Nat] :
         /\ from = [i \in 0..WORD |-> IF i = 0 THEN 0 ELSE BASE * from[i - 1] + bs[WORD + 1 - i]]
         /\ v = from[WORD]
    BY ValueSteps
<1> HIDE DEF v
<1>3. \A i \in 1..WORD : bs[i] \in 0..(BASE - 1) /\ WORD + 1 - i \in 1..WORD
    BY <1>1 DEF Bytes
<1>4. ASSUME NEW i \in 1..WORD
      PROVE  from[i] \div BASE = from[i - 1] /\ from[i] % BASE = bs[WORD + 1 - i]
    <2>1. i \in 0..WORD /\ i # 0 /\ i - 1 \in 0..WORD
        BY <1>1
    <2>2. from[i] = BASE * from[i - 1] + bs[WORD + 1 - i]
        BY <1>2, <2>1
    <2>3. from[i - 1] \in Nat /\ bs[WORD + 1 - i] \in 0..(BASE - 1)
        BY <1>3, <2>1
    <2>4. \A q \in Nat, r \in 0..(BASE - 1) : (BASE * q + r) \div BASE = q /\ (BASE * q + r) % BASE = r
        BY <1>1, DivModOf
    <2> QED BY <2>2, <2>3, <2>4
<1>5. \E f : Is(f)
    <2> DEFINE f == [i \in 0..WORD |-> from[WORD - i]]
    <2>1. ASSUME NEW i \in 0..WORD
          PROVE  f[i] = IF i = 0 THEN v ELSE f[i - 1] \div BASE
        <3>1. CASE i = 0
            <4>1. WORD - i = WORD
                BY <1>1, <3>1
            <4> QED BY <1>2, <3>1, <4>1
        <3>2. CASE i # 0
            <4>1. /\ WORD - i \in 0..WORD /\ WORD - (i - 1) \in 1..WORD
                  /\ (WORD - (i - 1)) - 1 = WORD - i /\ i - 1 \in 0..WORD
                BY <1>1, <3>2
            <4>2. from[WORD - (i - 1)] \div BASE = from[WORD - i]
                BY <1>4, <4>1
            <4> QED BY <3>2, <4>1, <4>2
        <3> QED BY <3>1, <3>2
    <2>2. Is(f)
        BY <2>1
    <2> HIDE DEF f, Is
    <2> QED BY <2>2
<1> DEFINE rest == CHOOSE f : Is(f)
<1>6. Encoded(v) = [i \in 1..WORD |-> rest[i - 1] % BASE]
    BY DEF Encoded
<1>7. Is(rest)
    <2> HIDE DEF Is
    <2> QED BY <1>5
<1> HIDE DEF rest
<1>8. \A i \in 0..WORD : rest[i] = from[WORD - i]
    <2> DEFINE S == {i \in Nat : rest[i] = from[WORD - i]}
    <2>1. 0 \in S
        <3>1. 0 \in 0..WORD /\ WORD - 0 = WORD
            BY <1>1
        <3>2. rest[0] = from[WORD]
            BY <1>2, <1>7, <3>1
        <3> QED BY <3>1, <3>2
    <2>2. ASSUME NEW i \in 0..WORD, i \in S, i + 1 <= WORD PROVE i + 1 \in S
        <3>1. /\ i + 1 \in 0..WORD /\ i + 1 # 0 /\ (i + 1) - 1 = i
              /\ WORD - i \in 1..WORD /\ (WORD - i) - 1 = WORD - (i + 1)
            BY <1>1, <2>2
        <3>2. rest[i + 1] = rest[i] \div BASE
            BY <1>7, <3>1
        <3>3. from[WORD - i] \div BASE = from[WORD - (i + 1)]
            BY <1>4, <3>1
        <3>4. rest[i + 1] = from[WORD - (i + 1)]
            BY <2>2, <3>2, <3>3
        <3> QED BY <3>4
    <2> HIDE DEF S
    <2>3. 0..WORD \subseteq S
        BY <1>1, <2>1, <2>2, UpToBySets
    <2> QED BY <2>3 DEF S
<1>9. ASSUME NEW i \in 1..WORD PROVE rest[i - 1] % BASE = bs[i]
    <2>1. /\ i - 1 \in 0..WORD /\ WORD - (i - 1) \in 1..WORD
          /\ WORD + 1 - (WORD - (i - 1)) = i
        BY <1>1
    <2>2. rest[i - 1] = from[WORD - (i - 1)]
        BY <1>8, <2>1
    <2>3. from[WORD - (i - 1)] % BASE = bs[WORD + 1 - (WORD - (i - 1))]
        BY <1>4, <2>1
    <2> QED BY <2>1, <2>2, <2>3
<1>10. bs = [i \in 1..WORD |-> bs[i]]
    OBVIOUS
<1>11. Encoded(v) = bs
    BY <1>6, <1>9, <1>10
<1> QED BY <1>11 DEF v

LEMMA EncodedType ==
    ASSUME NEW v \in Nat
    PROVE  Encoded(v) \in Seq(Bytes) /\ Len(Encoded(v)) = WORD
<1> DEFINE Is(f) == f = [i \in 0..WORD |-> IF i = 0 THEN v ELSE f[i - 1] \div BASE]
           G == [x \in Nat \X (1..WORD) |-> x[1] \div BASE]
           rest == CHOOSE f : Is(f)
<1>1. WORD \in Nat /\ BASE \in Nat \ {0}
    BY WireAssumption
<1>2. G \in [Nat \X (1..WORD) -> Nat]
    BY <1>1
<1>3. \A u \in Nat, i \in 1..WORD : G[<<u, i>>] = u \div BASE
    OBVIOUS
<1> HIDE DEF G
<1>4. \E f : Is(f)
    <2>1. Iterates(WORD, Nat, v, G)
        BY <1>1, <1>2, Iteration
    <2>2. PICK f \in [0..WORD -> Nat] : f[0] = v /\ \A i \in 1..WORD : f[i] = G[<<f[i - 1], i>>]
        BY <2>1 DEF Iterates
    <2>3. \A i \in 1..WORD : f[i - 1] \in Nat
        BY <1>1
    <2>4. \A i \in 0..WORD : f[i] = IF i = 0 THEN v ELSE f[i - 1] \div BASE
        <3>1. \A i \in 1..WORD : f[i] = f[i - 1] \div BASE
            BY <1>3, <2>2, <2>3
        <3>2. ASSUME NEW i \in 0..WORD
              PROVE  f[i] = IF i = 0 THEN v ELSE f[i - 1] \div BASE
            <4>1. CASE i = 0
                BY <2>2, <4>1
            <4>2. CASE i # 0
                <5>1. i \in 1..WORD
                    BY <1>1, <4>2
                <5> QED BY <3>1, <4>2, <5>1
            <4> QED BY <4>1, <4>2
        <3> QED BY <3>2
    <2>5. Is(f)
        BY <2>4
    <2> HIDE DEF Is
    <2> QED BY <2>5
<1>5. Encoded(v) = [i \in 1..WORD |-> rest[i - 1] % BASE]
    BY DEF Encoded
<1>6. Is(rest)
    <2> HIDE DEF Is
    <2> QED BY <1>4
<1> HIDE DEF rest
<1>7. \A i \in 0..WORD : rest[i] \in Nat
    <2> DEFINE S == {i \in Nat : rest[i] \in Nat}
    <2>1. 0 \in S
        BY <1>1, <1>6
    <2>2. ASSUME NEW i \in 0..WORD, i \in S, i + 1 <= WORD PROVE i + 1 \in S
        <3>1. i + 1 \in 0..WORD /\ i + 1 # 0 /\ (i + 1) - 1 = i /\ rest[i] \in Nat
            BY <1>1, <2>2
        <3>2. rest[i + 1] = rest[i] \div BASE
            BY <1>6, <3>1
        <3> QED BY <1>1, <3>1, <3>2
    <2> HIDE DEF S
    <2>3. 0..WORD \subseteq S
        BY <1>1, <2>1, <2>2, UpToBySets
    <2> QED BY <2>3 DEF S
<1>8. \A i \in 1..WORD : rest[i - 1] % BASE \in Bytes
    BY <1>1, <1>7 DEF Bytes
<1>9. Encoded(v) \in [1..WORD -> Bytes]
    BY <1>5, <1>8
<1> HIDE DEF Is, rest
<1>10. \A e \in [1..WORD -> Bytes] : e \in Seq(Bytes) /\ Len(e) = WORD
    BY <1>1
<1> QED BY <1>9, <1>10

LEMMA PaddingType ==
    ASSUME NEW n \in Nat
    PROVE  Padding(n) \in Nat
<1>1. WORD \in Nat \ {0} /\ n % WORD \in 0..(WORD - 1)
    BY WireAssumption
<1> QED BY <1>1 DEF Padding

LEMMA ZerosType ==
    ASSUME NEW n \in Nat
    PROVE  Zeros(n) \in Seq(Bytes) /\ Len(Zeros(n)) = n
<1>1. Zeros(n) \in [1..n -> Bytes]
    BY WireAssumption DEF Zeros, Bytes
<1> QED BY <1>1

-----------------------------------------------------------------------------
(* Stretches of a stream: SubSeq(s, a + 1, b) is what follows its first a  *)
(* bytes, up to the b-th.                                                  *)

LEMMA Slice ==
    ASSUME NEW s \in Seq(Bytes), NEW a \in 0..Len(s), NEW b \in a..Len(s)
    PROVE  /\ SubSeq(s, a + 1, b) \in Seq(Bytes)
           /\ Len(SubSeq(s, a + 1, b)) = b - a
           /\ \A i \in 1..(b - a) : SubSeq(s, a + 1, b)[i] = s[a + i]
<1>1. a + 1 \in Int /\ b \in Int /\ \A i \in (a + 1)..b : s[i] \in Bytes
    OBVIOUS
<1>2. /\ SubSeq(s, a + 1, b) \in Seq(Bytes)
      /\ Len(SubSeq(s, a + 1, b)) = IF a + 1 <= b THEN b - (a + 1) + 1 ELSE 0
      /\ \A i \in 1..(b - (a + 1) + 1) : SubSeq(s, a + 1, b)[i] = s[(a + 1) + i - 1]
    BY <1>1, SubSeqProperties
<1>3. (IF a + 1 <= b THEN b - (a + 1) + 1 ELSE 0) = b - a
    OBVIOUS
<1>4. b - (a + 1) + 1 = b - a /\ \A i \in Int : (a + 1) + i - 1 = a + i
    OBVIOUS
<1> QED BY <1>2, <1>3, <1>4

LEMMA Joined ==
    ASSUME NEW s \in Seq(Bytes), NEW a \in 0..Len(s), NEW b \in a..Len(s), NEW c \in b..Len(s)
    PROVE  SubSeq(s, a + 1, b) \o SubSeq(s, b + 1, c) = SubSeq(s, a + 1, c)
<1>1. a + 1 \in 1..(Len(s) + 1) /\ b \in (a + 1 - 1)..Len(s)
    OBVIOUS
<1> QED BY <1>1, ConcatAdjacentSubSeq

\* What is sent later changes nothing of what was sent before.
LEMMA SliceAppend ==
    ASSUME NEW s \in Seq(Bytes), NEW e \in Bytes, NEW a \in 0..Len(s), NEW b \in a..Len(s)
    PROVE  SubSeq(Append(s, e), a + 1, b) = SubSeq(s, a + 1, b)
<1> DEFINE t == Append(s, e)
<1>1. t \in Seq(Bytes) /\ Len(t) = Len(s) + 1 /\ \A i \in 1..Len(s) : t[i] = s[i]
    OBVIOUS
<1> HIDE DEF t
<1>2. a \in 0..Len(t) /\ b \in a..Len(t)
    BY <1>1
<1>3. /\ SubSeq(t, a + 1, b) \in Seq(Bytes) /\ Len(SubSeq(t, a + 1, b)) = b - a
      /\ \A i \in 1..(b - a) : SubSeq(t, a + 1, b)[i] = t[a + i]
    BY <1>1, <1>2, Slice
<1>4. /\ SubSeq(s, a + 1, b) \in Seq(Bytes) /\ Len(SubSeq(s, a + 1, b)) = b - a
      /\ \A i \in 1..(b - a) : SubSeq(s, a + 1, b)[i] = s[a + i]
    BY Slice
<1>5. \A i \in 1..(b - a) : a + i \in 1..Len(s)
    OBVIOUS
<1>6. SubSeq(t, a + 1, b) = SubSeq(s, a + 1, b)
    BY <1>1, <1>3, <1>4, <1>5, SeqEqual
<1> QED BY <1>6 DEF t

\* A copy of the first a bytes, and then of what follows.
LEMMA CopyGrows ==
    ASSUME NEW s \in Seq(Bytes), NEW a \in 0..Len(s), NEW b \in a..Len(s), NEW o \in Seq(Bytes),
           o = SubSeq(s, 1, Len(o)), Len(o) = a
    PROVE  LET p == o \o SubSeq(s, a + 1, b)
           IN  p \in Seq(Bytes) /\ Len(p) = b /\ p = SubSeq(s, 1, Len(p))
<1> DEFINE p == o \o SubSeq(s, a + 1, b)
<1>1. 0 \in 0..Len(s) /\ a \in 0..Len(s) /\ 0 + 1 = 1
    OBVIOUS
<1>2. SubSeq(s, 0 + 1, a) \o SubSeq(s, a + 1, b) = SubSeq(s, 0 + 1, b)
    BY <1>1, Joined
<1>3. p = SubSeq(s, 1, b)
    BY <1>1, <1>2
<1>4. SubSeq(s, a + 1, b) \in Seq(Bytes) /\ Len(SubSeq(s, a + 1, b)) = b - a
    BY Slice
<1>5. p \in Seq(Bytes) /\ Len(p) = b
    BY <1>4
<1> QED BY <1>3, <1>5

-----------------------------------------------------------------------------
(* The shape of the state.                                                 *)

Active == {"op", "count", "len", "body", "pad"}

Shape ==
    /\ stream \in Seq(Bytes) /\ Len(stream) <= MaxBytes
    /\ closed \in BOOLEAN
    /\ taken \in 0..Len(stream)
    /\ mark \in 0..taken
    /\ place \in Active \cup {"eof", "failed"}
    /\ count \in Nat /\ len \in Nat
    /\ out \in Seq(Bytes)
    /\ place \in Active => taken - mark <= Need
    /\ place \in {"len", "body", "pad"} => count >= 1
    /\ place = "pad" => len <= mark

LEMMA NeedType ==
    ASSUME Shape
    PROVE  Need \in Nat
<1>1. WORD \in Nat /\ len \in Nat /\ Padding(len) \in Nat
    BY WireAssumption, PaddingType DEF Shape
<1> QED BY <1>1 DEF Need, Shape, Active

\* A unit that is whole, as bytes.
LEMMA BufType ==
    ASSUME Shape
    PROVE  /\ Buf \in Seq(Bytes) /\ Len(Buf) = taken - mark /\ Value(Buf) \in Nat
           /\ Whole => place \in Active /\ Len(Buf) = Need
<1>1. Buf \in Seq(Bytes) /\ Len(Buf) = taken - mark
    BY Slice DEF Shape, Buf
<1>2. Value(Buf) \in Nat
    BY <1>1, ValueNat
<1>3. Whole => place \in Active /\ Need = taken - mark
    BY DEF Whole, Shape, Active
<1> QED BY <1>1, <1>2, <1>3

\* Where a step goes on, nothing of the next unit has been read.
LEMMA FreshUnit ==
    ASSUME taken' \in Nat, mark' = taken', place' \in Active, len' \in Nat
    PROVE  (taken - mark <= Need)'
<1>1. \A n \in Nat : Padding(n) \in Nat
    BY PaddingType
<1>2. Padding(len') \in Nat
    BY <1>1
<1>3. taken' - mark' = 0
    <2>1. \A n \in Nat : n - n = 0
        OBVIOUS
    <2> QED BY <2>1
<1>4. WORD \in Nat
    BY WireAssumption
<1> QED BY <1>2, <1>3, <1>4 DEF Need, Active

\* The bytes with which a string is written.
LEMMA StringType ==
    ASSUME NEW n \in Nat, NEW bs \in Seq(Bytes), Len(bs) = n
    PROVE  /\ Encoded(n) \o bs \o Zeros(Padding(n)) \in Seq(Bytes)
           /\ Len(Encoded(n) \o bs \o Zeros(Padding(n))) = WORD + n + Padding(n)
<1>1. Padding(n) \in Nat
    BY PaddingType
<1>2. /\ Encoded(n) \in Seq(Bytes) /\ Len(Encoded(n)) = WORD
      /\ Zeros(Padding(n)) \in Seq(Bytes) /\ Len(Zeros(Padding(n))) = Padding(n)
    BY <1>1, EncodedType, ZerosType
<1> DEFINE e == Encoded(n)
           z == Zeros(Padding(n))
<1> HIDE DEF e, z
<1>3. e \in Seq(Bytes) /\ Len(e) = WORD /\ z \in Seq(Bytes) /\ Len(z) = Padding(n)
    BY <1>2 DEF e, z
<1>4. e \o bs \in Seq(Bytes) /\ Len(e \o bs) = WORD + n
    BY <1>3, ConcatProperties
<1> DEFINE f == e \o bs
<1> HIDE DEF f
<1>5. f \o z \in Seq(Bytes) /\ Len(f \o z) = (WORD + n) + Padding(n)
    <2>1. f \in Seq(Bytes) /\ Len(f) = WORD + n
        BY <1>4 DEF f
    <2>2. z \in Seq(Bytes)
        BY <1>3
    <2>3. f \o z \in Seq(Bytes) /\ Len(f \o z) = Len(f) + Len(z)
        BY <2>1, <2>2, ConcatProperties
    <2> QED BY <1>3, <2>1, <2>3
<1> QED BY <1>5 DEF e, f, z

\* The steps of the session, as far as the proofs distinguish them.
LEMMA NextItemActive ==
    ASSUME NEW n \in Nat
    PROVE  /\ NextItem(n) \in {"op", "len"} /\ NextItem(n) \in Active
           /\ NextItem(n) = "len" => n >= 1
BY DEF NextItem, Active

LEMMA GoOnShape ==
    ASSUME Shape, NEW to \in Active \ {"pad"}, NEW bytes \in Seq(Bytes), GoOn(to, bytes),
           count' \in Nat, len' \in Nat, to \in {"len", "body"} => count' >= 1
    PROVE  Shape'
<1>1. /\ stream' = stream /\ closed' = closed /\ taken' = taken
      /\ mark' = taken /\ place' = to /\ out' = out \o bytes
    BY DEF GoOn
<1>2. out' \in Seq(Bytes)
    BY <1>1, ConcatProperties DEF Shape
<1>3. taken \in Nat /\ taken \in 0..Len(stream) /\ taken \in 0..taken
    BY DEF Shape
<1>4. (taken - mark <= Need)'
    BY <1>1, <1>3, FreshUnit
<1>5. (/\ place \in {"len", "body", "pad"} => count >= 1
       /\ place = "pad" => len <= mark)'
    BY <1>1
<1>6. (/\ stream \in Seq(Bytes) /\ Len(stream) <= MaxBytes
       /\ closed \in BOOLEAN
       /\ taken \in 0..Len(stream)
       /\ mark \in 0..taken
       /\ place \in Active \cup {"eof", "failed"}
       /\ count \in Nat /\ len \in Nat)'
    BY <1>1, <1>3 DEF Shape
<1> QED BY <1>2, <1>4, <1>5, <1>6 DEF Shape

\* A step that stops the session moves nothing else.
LEMMA StopShape ==
    ASSUME Shape, place' \in {"eof", "failed"},
           UNCHANGED <<stream, closed, taken, mark, count, len, out>>
    PROVE  Shape'
<1>1. place' \notin Active /\ place' \notin {"len", "body", "pad"} /\ place' # "pad"
    BY DEF Active
<1> QED BY <1>1 DEF Shape

LEMMA WriteStringShape ==
    ASSUME Shape, place \in {"body", "pad"}, NEW bs \in Seq(Bytes), Len(bs) = len, WriteString(bs)
    PROVE  Shape'
<1> DEFINE n == count - 1
           bytes == Encoded(len) \o bs \o Zeros(Padding(len))
<1>1. n \in Nat /\ len \in Nat
    BY DEF Shape
<1>2. bytes \in Seq(Bytes)
    BY <1>1, StringType
<1>3. NextItem(n) \in Active /\ (NextItem(n) = "len" => n >= 1) /\ NextItem(n) \in {"op", "len"}
    BY <1>1, NextItemActive
<1>4. GoOn(NextItem(n), bytes) /\ count' = n /\ len' = 0
    BY DEF WriteString
<1> HIDE DEF n, bytes
<1>5. (NextItem(n) \in {"len", "body"} => count' >= 1) /\ NextItem(n) \in Active \ {"pad"}
    BY <1>3, <1>4
<1>6. count' \in Nat /\ len' \in Nat
    BY <1>1, <1>4
<1> QED BY <1>2, <1>3, <1>4, <1>5, <1>6, GoOnShape

\* The string at hand: what is read, or what was read before its padding.
LEMMA BodyType ==
    ASSUME Shape, place = "body", Whole
    PROVE  Buf \in Seq(Bytes) /\ Len(Buf) = len /\ taken - mark = len
<1>1. Need = len
    BY DEF Need
<1> QED BY <1>1, BufType DEF Whole

LEMMA InitShape == Init => Shape
<1> SUFFICES ASSUME Init PROVE Shape
    OBVIOUS
<1>1. WORD \in Nat /\ MaxBytes \in Nat
    BY WireAssumption
<1>2. Need = WORD
    BY DEF Init, Need
<1>3. <<>> \in Seq(Bytes) /\ Len(<<>>) = 0
    OBVIOUS
<1>4. /\ stream \in Seq(Bytes) /\ Len(stream) = 0 /\ out \in Seq(Bytes)
      /\ taken = 0 /\ mark = 0 /\ place = "op" /\ count = 0 /\ len = 0 /\ closed \in BOOLEAN
    BY <1>3 DEF Init
<1> QED BY <1>1, <1>2, <1>4 DEF Shape, Active

LEMMA SendShape ==
    ASSUME Shape, NEW b \in Bytes, Send(b)
    PROVE  Shape'
<1>1. /\ stream' = Append(stream, b) /\ Len(stream) < MaxBytes /\ place \in Active
      /\ UNCHANGED <<closed, taken, place, mark, count, len, out>>
    BY DEF Send, Shape
<1>2. stream' \in Seq(Bytes) /\ Len(stream') = Len(stream) + 1
    BY <1>1 DEF Shape
<1>3. Len(stream') <= MaxBytes /\ taken' \in 0..Len(stream')
    BY <1>1, <1>2, WireAssumption DEF Shape
<1>4. Need' = Need
    BY <1>1 DEF Need
<1> QED BY <1>1, <1>2, <1>3, <1>4 DEF Shape

LEMMA ReadShape ==
    ASSUME Shape, Read
    PROVE  Shape'
<1>1. PICK n \in 1..(Need - (taken - mark)) : taken + n <= Len(stream) /\ taken' = taken + n
    BY DEF Read
<1>2. UNCHANGED <<stream, closed, place, mark, count, len, out>>
    BY DEF Read
<1>3. Need' = Need
    BY <1>2 DEF Need
<1>4. Need \in Nat /\ taken \in Nat /\ mark \in Nat /\ mark <= taken /\ Len(stream) \in Nat
    BY NeedType DEF Shape
<1>5. taken' \in 0..Len(stream) /\ mark \in 0..taken' /\ taken' - mark <= Need
    BY <1>1, <1>4
<1> QED BY <1>2, <1>3, <1>5 DEF Shape

LEMMA CopyCountShape ==
    ASSUME Shape, CopyCount
    PROVE  Shape'
<1> DEFINE n == Value(Buf)
<1>1. n \in Nat /\ Encoded(n) \in Seq(Bytes)
    BY BufType, EncodedType
<1>2. CASE n <= MAX_COUNT
    <2>1. GoOn(NextItem(n), Encoded(n)) /\ count' = n /\ len' = len
        BY <1>2 DEF CopyCount
    <2>2. NextItem(n) \in Active \ {"pad"} /\ (NextItem(n) \in {"len", "body"} => n >= 1)
        BY <1>1, NextItemActive
    <2>3. len \in Nat
        BY DEF Shape
    <2> HIDE DEF n
    <2> QED BY <1>1, <2>1, <2>2, <2>3, GoOnShape
<1>3. CASE ~(n <= MAX_COUNT)
    BY <1>3, StopShape DEF CopyCount, Fail
<1> QED BY <1>2, <1>3

LEMMA ReadLenShape ==
    ASSUME Shape, ReadLen
    PROVE  Shape'
<1>1. Value(Buf) \in Nat /\ count \in Nat /\ count >= 1 /\ <<>> \in Seq(Bytes)
    BY BufType DEF Shape, ReadLen
<1>2. CASE Value(Buf) <= MAX_STRING
    <2>1. GoOn("body", <<>>) /\ len' = Value(Buf) /\ count' = count
        BY <1>2 DEF ReadLen
    <2>2. "body" \in Active \ {"pad"}
        BY DEF Active
    <2> QED BY <1>1, <2>1, <2>2, GoOnShape
<1>3. CASE ~(Value(Buf) <= MAX_STRING)
    BY <1>3, StopShape DEF ReadLen, Fail
<1> QED BY <1>2, <1>3

LEMMA ReadPaddingShape ==
    ASSUME Shape, ReadPadding
    PROVE  Shape'
<1>1. /\ place = "body" /\ Whole /\ place' = "pad" /\ mark' = taken
      /\ UNCHANGED <<stream, closed, taken, count, len, out>>
    BY DEF ReadPadding
<1>2. taken - mark = len
    BY <1>1, BodyType
<1>3. mark' \in 0..taken' /\ len' <= mark' /\ taken' \in Nat /\ len' \in Nat
    BY <1>1, <1>2 DEF Shape
<1>4. place' \in Active
    BY <1>1 DEF Active
<1>5. (taken - mark <= Need)'
    BY <1>1, <1>3, <1>4, FreshUnit
<1>6. count' >= 1
    BY <1>1 DEF Shape
<1> QED BY <1>1, <1>3, <1>4, <1>5, <1>6 DEF Shape

LEMMA CopyPaddedShape ==
    ASSUME Shape, CopyPadded
    PROVE  Shape'
<1>1. place = "pad"
    BY DEF CopyPadded
<1>2. CASE Buf = Zeros(Padding(len))
    <2> DEFINE bs == SubSeq(stream, mark - len + 1, mark)
    <2>1. /\ mark - len \in 0..Len(stream) /\ mark \in (mark - len)..Len(stream)
          /\ mark - (mark - len) = len
        BY <1>1 DEF Shape
    <2>2. bs \in Seq(Bytes) /\ Len(bs) = len
        BY <2>1, Slice DEF Shape
    <2>3. WriteString(bs)
        BY <1>2 DEF CopyPadded
    <2> HIDE DEF bs
    <2> QED BY <1>1, <2>2, <2>3, WriteStringShape
<1>3. CASE Buf # Zeros(Padding(len))
    BY <1>3, StopShape DEF CopyPadded, Fail
<1> QED BY <1>2, <1>3

LEMMA NextShape == Shape /\ [Next]_vars => Shape'
<1> SUFFICES ASSUME Shape, [Next]_vars PROVE Shape'
    OBVIOUS
<1>1. CASE UNCHANGED vars
    <2>1. Need' = Need
        BY <1>1 DEF vars, Need
    <2> QED BY <1>1, <2>1 DEF vars, Shape
<1>2. ASSUME NEW b \in Bytes, Send(b) PROVE Shape'
    BY <1>2, SendShape
<1>3. CASE Close
    <2>1. Need' = Need
        BY <1>3 DEF Close, Need
    <2> QED BY <1>3, <2>1 DEF Close, Shape
<1>4. CASE Read
    BY <1>4, ReadShape
<1>5. CASE EndOfFile
    BY <1>5, StopShape DEF EndOfFile
<1>6. CASE CopyOp
    <2>1. Encoded(Value(Buf)) \in Seq(Bytes) /\ "count" \in Active \ {"pad"}
        BY BufType, EncodedType DEF Active
    <2>2. GoOn("count", Encoded(Value(Buf))) /\ count' = count /\ len' = len
        BY <1>6 DEF CopyOp
    <2>3. count \in Nat /\ len \in Nat
        BY DEF Shape
    <2> QED BY <2>1, <2>2, <2>3, GoOnShape
<1>7. CASE CopyCount
    BY <1>7, CopyCountShape
<1>8. CASE ReadLen
    BY <1>8, ReadLenShape
<1>9. CASE CopyUnpadded
    <2>1. place = "body" /\ Whole /\ WriteString(Buf)
        BY <1>9 DEF CopyUnpadded
    <2> QED BY <2>1, BodyType, WriteStringShape
<1>10. CASE ReadPadding
    BY <1>10, ReadPaddingShape
<1>11. CASE CopyPadded
    BY <1>11, CopyPaddedShape
<1> QED BY <1>1, <1>2, <1>3, <1>4, <1>5, <1>6, <1>7, <1>8, <1>9, <1>10, <1>11 DEF Next, SessionStep

-----------------------------------------------------------------------------
(* What is written is what was read.                                       *)

\* The word after the first a bytes.
Word(s, a) == SubSeq(s, a + 1, a + WORD)

LEMMA WordType ==
    ASSUME NEW s \in Seq(Bytes), NEW a \in Nat, a + WORD <= Len(s)
    PROVE  /\ Word(s, a) \in Seq(Bytes) /\ Len(Word(s, a)) = WORD
           /\ Value(Word(s, a)) \in Nat
           /\ Encoded(Value(Word(s, a))) = Word(s, a)
<1>1. WORD \in Nat /\ Len(s) \in Nat
    BY WireAssumption
<1>2. a \in 0..Len(s) /\ a + WORD \in a..Len(s) /\ (a + WORD) - a = WORD
    BY <1>1
<1>3. Word(s, a) \in Seq(Bytes) /\ Len(Word(s, a)) = WORD
    BY <1>2, Slice DEF Word
<1> QED BY <1>3, ValueNat, EncodedValue

\* A string as it is written: its length, its bytes and its padding.
LEMMA StringAnew ==
    ASSUME NEW s \in Seq(Bytes), NEW a \in Nat, NEW n \in Nat,
           a + WORD + n + Padding(n) <= Len(s),
           Value(Word(s, a)) = n,
           SubSeq(s, a + WORD + n + 1, a + WORD + n + Padding(n)) = Zeros(Padding(n))
    PROVE  Encoded(n) \o SubSeq(s, a + WORD + 1, a + WORD + n) \o Zeros(Padding(n))
              = SubSeq(s, a + 1, a + WORD + n + Padding(n))
<1> DEFINE p == Padding(n)
           b == a + WORD
           c == a + WORD + n
           d == a + WORD + n + p
<1>1. WORD \in Nat /\ p \in Nat /\ Len(s) \in Nat
    BY WireAssumption, PaddingType
<1>2. a \in 0..Len(s) /\ b \in a..Len(s) /\ c \in b..Len(s) /\ d \in c..Len(s) /\ a + WORD <= Len(s)
    BY <1>1
<1>3. Encoded(n) = SubSeq(s, a + 1, b)
    <2>1. Encoded(Value(Word(s, a))) = Word(s, a)
        BY <1>2, WordType
    <2> QED BY <2>1 DEF Word
<1>4. Zeros(p) = SubSeq(s, c + 1, d)
    OBVIOUS
<1> HIDE DEF b, c, d, p
<1>5. SubSeq(s, a + 1, b) \o SubSeq(s, b + 1, c) = SubSeq(s, a + 1, c)
    BY <1>2, Joined
<1>6. c \in a..Len(s)
    BY <1>2
<1>7. SubSeq(s, a + 1, c) \o SubSeq(s, c + 1, d) = SubSeq(s, a + 1, d)
    BY <1>2, <1>6, Joined
<1>8. Encoded(n) \o SubSeq(s, b + 1, c) \o Zeros(p) = SubSeq(s, a + 1, d)
    BY <1>3, <1>4, <1>5, <1>7
<1> QED BY <1>8 DEF b, c, d, p

Copied ==
    /\ out = SubSeq(stream, 1, Len(out))
    /\ Len(out) <= mark
    /\ place \in {"op", "count", "len"} => Len(out) = mark
    /\ place = "body" =>
          Len(out) + WORD = mark /\ Value(Word(stream, Len(out))) = len
    /\ place = "pad" =>
          Len(out) + WORD + len = mark /\ Value(Word(stream, Len(out))) = len

\* A step that writes the bytes from the copied ones up to what is taken.
LEMMA GoOnCopied ==
    ASSUME Shape, Copied, NEW to \in {"op", "count", "len"},
           GoOn(to, SubSeq(stream, Len(out) + 1, taken))
    PROVE  Copied'
<1> DEFINE bytes == SubSeq(stream, Len(out) + 1, taken)
<1>1. /\ stream' = stream /\ taken' = taken
      /\ mark' = taken /\ place' = to /\ out' = out \o bytes
    BY DEF GoOn
<1>2. /\ stream \in Seq(Bytes) /\ out \in Seq(Bytes) /\ out = SubSeq(stream, 1, Len(out))
      /\ Len(out) \in 0..Len(stream) /\ taken \in Len(out)..Len(stream) /\ taken \in Nat
    <2>1. /\ stream \in Seq(Bytes) /\ out \in Seq(Bytes) /\ mark <= taken /\ taken <= Len(stream)
          /\ mark \in Nat /\ taken \in Nat
        BY DEF Shape
    <2>2. Len(out) \in Nat /\ Len(stream) \in Nat
        BY <2>1
    <2>3. out = SubSeq(stream, 1, Len(out)) /\ Len(out) <= mark
        BY DEF Copied
    <2> QED BY <2>1, <2>2, <2>3
<1>3. out' \in Seq(Bytes) /\ Len(out') = taken /\ out' = SubSeq(stream, 1, Len(out'))
    <2> DEFINE p == out \o bytes
    <2>1. p \in Seq(Bytes) /\ Len(p) = taken /\ p = SubSeq(stream, 1, Len(p))
        BY <1>2, CopyGrows
    <2>2. out' = p
        BY <1>1
    <2> HIDE DEF p
    <2> QED BY <2>1, <2>2
<1>4. place' \in {"op", "count", "len"} /\ place' # "body" /\ place' # "pad"
    BY <1>1
<1>5. Len(out') <= mark' /\ Len(out') = mark'
    <2> HIDE DEF bytes
    <2>1. mark' = taken /\ taken <= taken
        BY <1>1, <1>2
    <2> QED BY <1>3, <2>1
<1> HIDE DEF bytes
<1> QED BY <1>1, <1>3, <1>4, <1>5 DEF Copied

LEMMA StopCopied ==
    ASSUME Copied, place' \in {"eof", "failed"}, UNCHANGED <<stream, mark, len, out>>
    PROVE  Copied'
<1>1. place' \notin {"op", "count", "len"} /\ place' # "body" /\ place' # "pad"
    OBVIOUS
<1> QED BY <1>1 DEF Copied

\* A whole word that is written anew.
LEMMA BufWord ==
    ASSUME Shape, Copied, place \in {"op", "count", "len"}, Whole
    PROVE  /\ Len(out) = mark /\ mark + WORD = taken /\ mark + WORD <= Len(stream)
           /\ Buf = Word(stream, mark)
           /\ Encoded(Value(Buf)) = SubSeq(stream, Len(out) + 1, taken)
<1>1. WORD \in Nat /\ taken \in Nat /\ mark \in Nat /\ taken - mark = Need /\ stream \in Seq(Bytes)
    BY WireAssumption DEF Shape, Whole
<1>2. Need = WORD
    BY DEF Need
<1>3. mark + WORD = taken /\ mark + WORD <= Len(stream)
    BY <1>1, <1>2 DEF Shape
<1>4. Buf = Word(stream, mark)
    BY <1>3 DEF Buf, Word
<1>5. Encoded(Value(Word(stream, mark))) = Word(stream, mark)
    BY <1>1, <1>3, WordType
<1>6. Len(out) = mark
    BY DEF Copied
<1> QED BY <1>3, <1>4, <1>5, <1>6 DEF Word

LEMMA SendCopied ==
    ASSUME Shape, Copied, NEW b \in Bytes, Send(b)
    PROVE  Copied'
<1>1. stream' = Append(stream, b) /\ UNCHANGED <<place, mark, len, out>>
    BY DEF Send
<1>2. /\ stream \in Seq(Bytes) /\ out \in Seq(Bytes) /\ mark \in Nat /\ len \in Nat
      /\ mark <= Len(stream) /\ Len(stream) \in Nat /\ Len(out) \in Nat /\ WORD \in Nat
    BY WireAssumption DEF Shape
<1>3. Len(out) <= mark /\ out = SubSeq(stream, 1, Len(out))
    BY DEF Copied
<1>4. \A x \in 0..Len(stream) : \A y \in x..Len(stream) :
         SubSeq(Append(stream, b), x + 1, y) = SubSeq(stream, x + 1, y)
    BY <1>2, SliceAppend
<1>5. SubSeq(stream', 1, Len(out)) = SubSeq(stream, 1, Len(out))
    <2>1. 0 \in 0..Len(stream) /\ Len(out) \in 0..Len(stream) /\ 0 + 1 = 1
        BY <1>2, <1>3
    <2>2. SubSeq(Append(stream, b), 0 + 1, Len(out)) = SubSeq(stream, 0 + 1, Len(out))
        BY <1>4, <2>1
    <2> QED BY <1>1, <2>1, <2>2
<1>6. Len(out) + WORD <= mark => Word(stream', Len(out)) = Word(stream, Len(out))
    <2>1. ASSUME Len(out) + WORD <= mark
          PROVE  Len(out) \in 0..Len(stream) /\ Len(out) + WORD \in Len(out)..Len(stream)
        BY <1>2, <2>1
    <2> QED BY <1>1, <1>4, <2>1 DEF Word
<1>7. (place = "body" => Len(out) + WORD = mark /\ Value(Word(stream, Len(out))) = len)'
    <2>1. CASE place = "body"
        <3>1. Len(out) + WORD = mark /\ Value(Word(stream, Len(out))) = len /\ Len(out) + WORD <= mark
            BY <1>2, <2>1 DEF Copied
        <3> QED BY <1>1, <1>6, <3>1
    <2> QED BY <1>1, <2>1
<1>8. (place = "pad" => Len(out) + WORD + len = mark /\ Value(Word(stream, Len(out))) = len)'
    <2>1. CASE place = "pad"
        <3>1. Len(out) + WORD + len = mark /\ Value(Word(stream, Len(out))) = len
            BY <2>1 DEF Copied
        <3>2. Len(out) + WORD <= mark
            BY <1>2, <3>1
        <3> QED BY <1>1, <1>6, <3>1, <3>2
    <2> QED BY <1>1, <2>1
<1>9. (place \in {"op", "count", "len"} => Len(out) = mark)'
    BY <1>1 DEF Copied
<1> QED BY <1>1, <1>3, <1>5, <1>7, <1>8, <1>9 DEF Copied

LEMMA ReadLenCopied ==
    ASSUME Shape, Copied, ReadLen
    PROVE  Copied'
<1>1. place = "len" /\ Whole
    BY DEF ReadLen
<1>2. /\ Len(out) = mark /\ mark + WORD = taken /\ Buf = Word(stream, mark)
    BY <1>1, BufWord
<1>3. CASE Value(Buf) <= MAX_STRING
    <2>1. /\ stream' = stream /\ mark' = taken /\ place' = "body" /\ out' = out \o <<>>
          /\ len' = Value(Buf)
        BY <1>3 DEF ReadLen, GoOn
    <2>2. out' = out /\ Len(out) \in Nat /\ mark \in Nat /\ taken \in Nat /\ mark <= taken
        BY <2>1 DEF Shape
    <2>3. Len(out') + WORD = mark' /\ Value(Word(stream', Len(out'))) = len'
        BY <1>2, <2>1, <2>2
    <2>4. Len(out') <= mark'
        BY <1>2, <2>1, <2>2
    <2>5. out' = SubSeq(stream', 1, Len(out'))
        BY <2>1, <2>2 DEF Copied
    <2> QED BY <2>1, <2>3, <2>4, <2>5 DEF Copied
<1>4. CASE ~(Value(Buf) <= MAX_STRING)
    BY <1>4, StopCopied DEF ReadLen, Fail
<1> QED BY <1>3, <1>4

LEMMA ReadPaddingCopied ==
    ASSUME Shape, Copied, ReadPadding
    PROVE  Copied'
<1>1. /\ place = "body" /\ Whole /\ place' = "pad" /\ mark' = taken
      /\ UNCHANGED <<stream, closed, taken, count, len, out>>
    BY DEF ReadPadding
<1>2. taken - mark = len
    BY <1>1, BodyType
<1>3. Len(out) + WORD = mark /\ Value(Word(stream, Len(out))) = len
    BY <1>1 DEF Copied
<1>4. mark \in Nat /\ taken \in Nat /\ len \in Nat /\ Len(out) \in Nat /\ WORD \in Nat
    BY WireAssumption DEF Shape
<1>5. Len(out) + WORD + len = taken /\ Len(out) <= taken
    BY <1>2, <1>3, <1>4
<1> QED BY <1>1, <1>3, <1>5 DEF Copied

\* The string at hand, whole and with its padding, is where the copy stops.
LEMMA WriteStringCopied ==
    ASSUME Shape, Copied, NEW a \in Nat, a = Len(out), Value(Word(stream, a)) = len,
           a + WORD + len + Padding(len) = taken,
           SubSeq(stream, a + WORD + len + 1, a + WORD + len + Padding(len)) = Zeros(Padding(len)),
           count >= 1,
           WriteString(SubSeq(stream, a + WORD + 1, a + WORD + len))
    PROVE  /\ Copied'
           /\ GoOn(NextItem(count - 1), SubSeq(stream, Len(out) + 1, taken))
<1> DEFINE bytes == Encoded(len) \o SubSeq(stream, a + WORD + 1, a + WORD + len) \o Zeros(Padding(len))
<1>1. GoOn(NextItem(count - 1), bytes)
    BY DEF WriteString
<1>2. stream \in Seq(Bytes) /\ len \in Nat /\ taken <= Len(stream) /\ count - 1 \in Nat
    BY DEF Shape
<1>3. a + WORD + len + Padding(len) <= Len(stream)
    BY <1>2
<1>4. bytes = SubSeq(stream, a + 1, a + WORD + len + Padding(len))
    BY <1>2, <1>3, StringAnew
<1> HIDE DEF bytes
<1>5. bytes = SubSeq(stream, Len(out) + 1, taken)
    BY <1>4
<1>6. NextItem(count - 1) \in {"op", "count", "len"}
    BY <1>2, NextItemActive
<1>7. GoOn(NextItem(count - 1), SubSeq(stream, Len(out) + 1, taken))
    BY <1>1, <1>5
<1> QED BY <1>6, <1>7, GoOnCopied

LEMMA CopyUnpaddedCopied ==
    ASSUME Shape, Copied, CopyUnpadded
    PROVE  Copied'
<1> DEFINE a == Len(out)
<1>1. place = "body" /\ Whole /\ Padding(len) = 0 /\ WriteString(Buf)
    BY DEF CopyUnpadded
<1>2. taken - mark = len
    BY <1>1, BodyType
<1>3. a + WORD = mark /\ Value(Word(stream, a)) = len
    BY <1>1 DEF Copied
<1>4. /\ mark \in Nat /\ taken \in Nat /\ len \in Nat /\ a \in Nat /\ WORD \in Nat
      /\ count >= 1 /\ stream \in Seq(Bytes) /\ taken <= Len(stream)
    BY <1>1, WireAssumption DEF Shape
<1> HIDE DEF a
<1>5. a + WORD + len = taken /\ a + WORD + len + Padding(len) = taken
    BY <1>1, <1>2, <1>3, <1>4
<1>6. SubSeq(stream, taken + 1, taken) = Zeros(0)
    <2>1. SubSeq(stream, taken + 1, taken) = <<>>
        BY <1>4, SubSeqEmpty
    <2>2. Zeros(0) \in Seq(Bytes) /\ Len(Zeros(0)) = 0
        BY ZerosType
    <2>3. Zeros(0) = <<>>
        BY <2>2, EmptySeq
    <2> QED BY <2>1, <2>3
<1>7. SubSeq(stream, a + WORD + len + 1, a + WORD + len + Padding(len)) = Zeros(Padding(len))
    BY <1>1, <1>5, <1>6
<1>8. WriteString(SubSeq(stream, a + WORD + 1, a + WORD + len))
    BY <1>1, <1>3, <1>5 DEF Buf
<1>9. a = Len(out)
    BY DEF a
<1> QED BY <1>3, <1>4, <1>5, <1>7, <1>8, <1>9, WriteStringCopied

LEMMA CopyPaddedCopied ==
    ASSUME Shape, Copied, CopyPadded
    PROVE  Copied'
<1>1. place = "pad" /\ Whole
    BY DEF CopyPadded
<1>2. CASE Buf = Zeros(Padding(len))
    <2> DEFINE a == Len(out)
    <2>1. WriteString(SubSeq(stream, mark - len + 1, mark))
        BY <1>2 DEF CopyPadded
    <2>2. taken - mark = Padding(len)
        BY <1>1 DEF Whole, Need
    <2>3. a + WORD + len = mark /\ Value(Word(stream, a)) = len
        BY <1>1 DEF Copied
    <2>4. mark \in Nat /\ taken \in Nat /\ len \in Nat /\ a \in Nat /\ WORD \in Nat /\ count >= 1
        BY <1>1, WireAssumption DEF Shape
    <2> HIDE DEF a
    <2>5. a + WORD + len + Padding(len) = taken /\ mark - len = a + WORD
        <3> DEFINE p == Padding(len)
        <3>1. p \in Nat
            BY <2>4, PaddingType
        <3>2. taken - mark = p
            BY <2>2
        <3>3. a + WORD + len = mark
            BY <2>3
        <3> HIDE DEF p
        <3>4. a + WORD + len + p = taken /\ mark - len = a + WORD
            BY <2>4, <3>1, <3>2, <3>3
        <3> QED BY <3>4 DEF p
    <2>6. SubSeq(stream, a + WORD + len + 1, a + WORD + len + Padding(len)) = Zeros(Padding(len))
        BY <1>2, <2>3, <2>5 DEF Buf
    <2>7. WriteString(SubSeq(stream, a + WORD + 1, a + WORD + len))
        BY <2>1, <2>3, <2>5
    <2>8. a = Len(out)
        BY DEF a
    <2> QED BY <2>3, <2>4, <2>5, <2>6, <2>7, <2>8, WriteStringCopied
<1>3. CASE Buf # Zeros(Padding(len))
    BY <1>3, StopCopied DEF CopyPadded, Fail
<1> QED BY <1>2, <1>3

LEMMA NextCopied == Shape /\ Copied /\ [Next]_vars => Copied'
<1> SUFFICES ASSUME Shape, Copied, [Next]_vars PROVE Copied'
    OBVIOUS
<1>1. CASE UNCHANGED vars
    BY <1>1 DEF vars, Copied
<1>2. ASSUME NEW b \in Bytes, Send(b) PROVE Copied'
    BY <1>2, SendCopied
<1>3. CASE Close
    BY <1>3 DEF Close, Copied
<1>4. CASE Read
    BY <1>4 DEF Read, Copied
<1>5. CASE EndOfFile
    BY <1>5, StopCopied DEF EndOfFile
<1>6. CASE CopyOp
    <2>1. place = "op" /\ Whole /\ GoOn("count", Encoded(Value(Buf)))
        BY <1>6 DEF CopyOp
    <2>2. Encoded(Value(Buf)) = SubSeq(stream, Len(out) + 1, taken)
        BY <2>1, BufWord
    <2>3. GoOn("count", SubSeq(stream, Len(out) + 1, taken))
        BY <2>1, <2>2
    <2> QED BY <2>3, GoOnCopied
<1>7. CASE CopyCount
    <2>1. place = "count" /\ Whole
        BY <1>7 DEF CopyCount
    <2>2. CASE Value(Buf) <= MAX_COUNT
        <3>1. GoOn(NextItem(Value(Buf)), Encoded(Value(Buf)))
            BY <1>7, <2>2 DEF CopyCount
        <3>2. GoOn(NextItem(Value(Buf)), SubSeq(stream, Len(out) + 1, taken))
            BY <2>1, <3>1, BufWord
        <3>3. NextItem(Value(Buf)) \in {"op", "count", "len"}
            BY BufType, NextItemActive
        <3> QED BY <3>2, <3>3, GoOnCopied
    <2>3. CASE ~(Value(Buf) <= MAX_COUNT)
        BY <1>7, <2>3, StopCopied DEF CopyCount, Fail
    <2> QED BY <2>2, <2>3
<1>8. CASE ReadLen
    BY <1>8, ReadLenCopied
<1>9. CASE CopyUnpadded
    BY <1>9, CopyUnpaddedCopied
<1>10. CASE ReadPadding
    BY <1>10, ReadPaddingCopied
<1>11. CASE CopyPadded
    BY <1>11, CopyPaddedCopied
<1> QED BY <1>1, <1>2, <1>3, <1>4, <1>5, <1>6, <1>7, <1>8, <1>9, <1>10, <1>11 DEF Next, SessionStep

-----------------------------------------------------------------------------
(* Items, lists and messages, as positions in the stream.                  *)

\* The bytes of a string of n, with its padding.
Padded(n) == WORD * ((n + WORD - 1) \div WORD)

LEMMA PaddedLen ==
    ASSUME NEW n \in Nat
    PROVE  n + Padding(n) = Padded(n) /\ Padded(n) \in Nat
<1> DEFINE q == n \div WORD
           r == n % WORD
<1>1. WORD \in Nat \ {0}
    BY WireAssumption
<1>2. n = WORD * q + r /\ q \in Nat /\ r \in 0..(WORD - 1)
    BY <1>1, DivMod
<1>3. Padding(n) = IF r = 0 THEN 0 ELSE WORD - r
    BY DEF Padding
<1>4. \A p \in Nat, x \in 0..(WORD - 1) : (WORD * p + x) \div WORD = p
    BY <1>1, DivModOf
<1> HIDE DEF q, r
<1>5. \A p \in Nat : WORD * p \in Nat /\ WORD * (p + 1) = WORD * p + WORD
    BY <1>1
<1>6. CASE r = 0
    <2>1. n + WORD - 1 = WORD * q + (WORD - 1) /\ WORD - 1 \in 0..(WORD - 1)
        BY <1>1, <1>2, <1>5, <1>6
    <2>2. (n + WORD - 1) \div WORD = q
        BY <1>2, <1>4, <2>1
    <2>3. n + Padding(n) = WORD * q
        BY <1>2, <1>3, <1>5, <1>6
    <2> QED BY <1>2, <1>5, <2>2, <2>3 DEF Padded
<1>7. CASE r # 0
    <2>1. n + WORD - 1 = WORD * (q + 1) + (r - 1) /\ r - 1 \in 0..(WORD - 1) /\ q + 1 \in Nat
        BY <1>1, <1>2, <1>5, <1>7
    <2>2. (n + WORD - 1) \div WORD = q + 1
        BY <1>4, <2>1
    <2>3. n + Padding(n) = WORD * (q + 1)
        BY <1>1, <1>2, <1>3, <1>5, <1>7
    <2>4. WORD * (q + 1) \in Nat
        BY <1>5, <2>1
    <2> QED BY <2>2, <2>3, <2>4 DEF Padded
<1> QED BY <1>6, <1>7

\* Where the string whose length is the word after i ends.
Item(s, i) == i + WORD + Padded(Value(Word(s, i)))

LEMMA ItemType ==
    ASSUME NEW s \in Seq(Bytes), NEW i \in Nat, i + WORD <= Len(s)
    PROVE  Item(s, i) \in Nat /\ i + WORD <= Item(s, i)
<1>1. WORD \in Nat /\ Padded(Value(Word(s, i))) \in Nat
    BY WireAssumption, WordType, PaddedLen
<1> QED BY <1>1 DEF Item

\* f cuts the stream from a to b into n strings.
Cuts(f, s, a, b, n) ==
    /\ f \in [0..n -> 0..b]
    /\ f[0] = a /\ f[n] = b
    /\ \A j \in 1..n : f[j - 1] + WORD <= b /\ f[j] = Item(s, f[j - 1])

Items(s, a, b, n) == \E f : Cuts(f, s, a, b, n)

\* A message: an op, a count and as many strings.
IsMessage(s, a, b) ==
    /\ a + WORD + WORD <= b
    /\ Items(s, a + WORD + WORD, b, Value(Word(s, a + WORD)))

\* f cuts the stream up to b into k messages.
Parses(f, s, b, k) ==
    /\ f \in [0..k -> 0..b]
    /\ f[0] = 0 /\ f[k] = b
    /\ \A j \in 1..k : IsMessage(s, f[j - 1], f[j])

Reached(s, b) == \E k \in Nat : \E f : Parses(f, s, b, k)

\* b is in the list of a message, before the last c of its strings.
InList(s, b, c) ==
    \E a \in Nat :
        /\ Reached(s, a)
        /\ a + WORD + WORD <= b
        /\ c <= Value(Word(s, a + WORD))
        /\ Items(s, a + WORD + WORD, b, Value(Word(s, a + WORD)) - c)

LEMMA ItemsNone ==
    ASSUME NEW s, NEW a \in Nat
    PROVE  Items(s, a, a, 0)
<1> DEFINE f == [j \in 0..0 |-> a]
<1>1. f \in [0..0 -> 0..a] /\ f[0] = a
    OBVIOUS
<1>2. \A j \in 1..0 : FALSE
    OBVIOUS
<1> HIDE DEF f
<1>3. Cuts(f, s, a, a, 0)
    BY <1>1, <1>2 DEF Cuts
<1> QED BY <1>3 DEF Items

LEMMA ItemsNext ==
    ASSUME NEW s \in Seq(Bytes), NEW a \in Nat, NEW b \in Nat, NEW n \in Nat,
           b + WORD <= Len(s), Items(s, a, b, n)
    PROVE  Items(s, a, Item(s, b), n + 1)
<1>1. PICK f : Cuts(f, s, a, b, n)
    BY DEF Items
<1> DEFINE c == Item(s, b)
           g == [j \in 0..(n + 1) |-> IF j = n + 1 THEN c ELSE f[j]]
<1>2. c \in Nat /\ b + WORD <= c /\ WORD \in Nat
    BY ItemType, WireAssumption
<1> HIDE DEF c
<1>3. \A j \in 0..n : g[j] = f[j] /\ f[j] \in 0..b
    BY <1>1 DEF Cuts
<1>4. g[n + 1] = c
    OBVIOUS
<1>5. g \in [0..(n + 1) -> 0..c]
    <2>1. ASSUME NEW j \in 0..(n + 1) PROVE (IF j = n + 1 THEN c ELSE f[j]) \in 0..c
        <3>1. CASE j = n + 1
            BY <1>2, <3>1
        <3>2. CASE j # n + 1
            <4>1. j \in 0..n
                BY <3>2
            <4>2. f[j] \in 0..b
                BY <1>3, <4>1
            <4> QED BY <1>2, <3>2, <4>2
        <3> QED BY <3>1, <3>2
    <2> QED BY <2>1
<1>6. g[0] = a
    BY <1>1, <1>3 DEF Cuts
<1> HIDE DEF g
<1>7. ASSUME NEW j \in 1..(n + 1)
      PROVE  g[j - 1] + WORD <= c /\ g[j] = Item(s, g[j - 1])
    <2>1. CASE j = n + 1
        <3>1. j - 1 = n /\ n \in 0..n
            BY <2>1
        <3>2. g[j - 1] = b
            BY <1>1, <1>3, <3>1 DEF Cuts
        <3> QED BY <1>2, <1>4, <2>1, <3>2 DEF c
    <2>2. CASE j # n + 1
        <3>1. j \in 1..n /\ j \in 0..n /\ j - 1 \in 0..n
            BY <2>2
        <3>2. f[j - 1] + WORD <= b /\ f[j] = Item(s, f[j - 1]) /\ f[j - 1] \in 0..b
            BY <1>1, <1>3, <3>1 DEF Cuts
        <3>3. f[j - 1] + WORD <= c
            BY <1>2, <3>2
        <3> QED BY <1>3, <3>1, <3>2, <3>3
    <2> QED BY <2>1, <2>2
<1>8. Cuts(g, s, a, c, n + 1)
    BY <1>4, <1>5, <1>6, <1>7 DEF Cuts
<1>9. Items(s, a, c, n + 1)
    BY <1>8 DEF Items
<1> QED BY <1>9 DEF c

LEMMA ReachedStart ==
    ASSUME NEW s
    PROVE  Reached(s, 0)
<1> DEFINE f == [j \in 0..0 |-> 0]
<1>1. f \in [0..0 -> 0..0] /\ f[0] = 0
    OBVIOUS
<1>2. \A j \in 1..0 : FALSE
    OBVIOUS
<1> HIDE DEF f
<1>3. Parses(f, s, 0, 0)
    BY <1>1, <1>2 DEF Parses
<1> QED BY <1>3 DEF Reached

LEMMA ReachedNext ==
    ASSUME NEW s, NEW b \in Nat, NEW c \in Nat, b <= c, Reached(s, b), IsMessage(s, b, c)
    PROVE  Reached(s, c)
<1>1. PICK n \in Nat : \E f : Parses(f, s, b, n)
    BY DEF Reached
<1>2. PICK f : Parses(f, s, b, n)
    BY <1>1
<1> DEFINE g == [j \in 0..(n + 1) |-> IF j = n + 1 THEN c ELSE f[j]]
<1>3. \A j \in 0..n : g[j] = f[j] /\ f[j] \in 0..b
    BY <1>2 DEF Parses
<1>4. g[n + 1] = c
    OBVIOUS
<1>5. g \in [0..(n + 1) -> 0..c]
    <2>1. ASSUME NEW j \in 0..(n + 1) PROVE (IF j = n + 1 THEN c ELSE f[j]) \in 0..c
        <3>1. CASE j = n + 1
            BY <3>1
        <3>2. CASE j # n + 1
            <4>1. j \in 0..n
                BY <3>2
            <4>2. f[j] \in 0..b
                BY <1>3, <4>1
            <4> QED BY <3>2, <4>2
        <3> QED BY <3>1, <3>2
    <2> QED BY <2>1
<1>6. g[0] = 0
    BY <1>2, <1>3 DEF Parses
<1> HIDE DEF g
<1>7. ASSUME NEW j \in 1..(n + 1) PROVE IsMessage(s, g[j - 1], g[j])
    <2>1. CASE j = n + 1
        <3>1. j - 1 = n /\ n \in 0..n
            BY <2>1
        <3>2. g[j - 1] = b
            BY <1>2, <1>3, <3>1 DEF Parses
        <3> QED BY <1>4, <2>1, <3>2
    <2>2. CASE j # n + 1
        <3>1. j \in 1..n /\ j \in 0..n /\ j - 1 \in 0..n
            BY <2>2
        <3>2. IsMessage(s, f[j - 1], f[j])
            BY <1>2, <3>1 DEF Parses
        <3> QED BY <1>3, <3>1, <3>2
    <2> QED BY <2>1, <2>2
<1>8. Parses(g, s, c, n + 1)
    BY <1>4, <1>5, <1>6, <1>7 DEF Parses
<1>9. n + 1 \in Nat
    OBVIOUS
<1> QED BY <1>8, <1>9 DEF Reached

\* None of it depends on what is sent later.
LEMMA WordAppend ==
    ASSUME NEW s \in Seq(Bytes), NEW e \in Bytes, NEW a \in Nat, a + WORD <= Len(s)
    PROVE  Word(Append(s, e), a) = Word(s, a)
<1>1. WORD \in Nat /\ Len(s) \in Nat
    BY WireAssumption
<1>2. a \in 0..Len(s) /\ a + WORD \in a..Len(s)
    BY <1>1
<1> QED BY <1>2, SliceAppend DEF Word

LEMMA ItemsAppend ==
    ASSUME NEW s \in Seq(Bytes), NEW e \in Bytes, NEW a, NEW b \in Nat, NEW n \in Nat,
           b <= Len(s), Items(s, a, b, n)
    PROVE  Items(Append(s, e), a, b, n)
<1>1. PICK f : Cuts(f, s, a, b, n)
    BY DEF Items
<1>2. Len(s) \in Nat /\ WORD \in Nat
    BY WireAssumption
<1>3. ASSUME NEW j \in 1..n
      PROVE  f[j - 1] + WORD <= b /\ f[j] = Item(Append(s, e), f[j - 1])
    <2>1. f[j - 1] + WORD <= b /\ f[j] = Item(s, f[j - 1])
        BY <1>1 DEF Cuts
    <2>2. f[j - 1] \in 0..b
        <3>1. j - 1 \in 0..n
            OBVIOUS
        <3> QED BY <1>1, <3>1 DEF Cuts
    <2>3. f[j - 1] \in Nat /\ f[j - 1] + WORD <= Len(s)
        BY <1>2, <2>1, <2>2
    <2>4. Word(Append(s, e), f[j - 1]) = Word(s, f[j - 1])
        BY <2>3, WordAppend
    <2> QED BY <2>1, <2>4 DEF Item
<1>4. Cuts(f, Append(s, e), a, b, n)
    BY <1>1, <1>3 DEF Cuts
<1> QED BY <1>4 DEF Items

LEMMA MessageAppend ==
    ASSUME NEW s \in Seq(Bytes), NEW e \in Bytes, NEW a \in Nat, NEW b \in Nat,
           b <= Len(s), IsMessage(s, a, b)
    PROVE  IsMessage(Append(s, e), a, b)
<1>1. a + WORD + WORD <= b /\ Items(s, a + WORD + WORD, b, Value(Word(s, a + WORD)))
    BY DEF IsMessage
<1>2. a + WORD \in Nat /\ (a + WORD) + WORD <= Len(s)
    BY <1>1, WireAssumption
<1>3. Word(Append(s, e), a + WORD) = Word(s, a + WORD)
    BY <1>2, WordAppend
<1>4. Value(Word(s, a + WORD)) \in Nat
    BY <1>2, WordType
<1>5. Items(Append(s, e), a + WORD + WORD, b, Value(Word(s, a + WORD)))
    BY <1>1, <1>4, ItemsAppend
<1> QED BY <1>1, <1>3, <1>5 DEF IsMessage

LEMMA ReachedAppend ==
    ASSUME NEW s \in Seq(Bytes), NEW e \in Bytes, NEW b \in Nat, b <= Len(s), Reached(s, b)
    PROVE  Reached(Append(s, e), b)
<1>1. PICK k \in Nat : \E f : Parses(f, s, b, k)
    BY DEF Reached
<1>2. PICK f : Parses(f, s, b, k)
    BY <1>1
<1>3. ASSUME NEW j \in 1..k PROVE IsMessage(Append(s, e), f[j - 1], f[j])
    <2>1. IsMessage(s, f[j - 1], f[j])
        BY <1>2 DEF Parses
    <2>2. j \in 0..k /\ j - 1 \in 0..k
        OBVIOUS
    <2>3. f[j - 1] \in 0..b /\ f[j] \in 0..b
        BY <1>2, <2>2 DEF Parses
    <2>4. Len(s) \in Nat
        OBVIOUS
    <2>5. f[j - 1] \in Nat /\ f[j] \in Nat /\ f[j] <= Len(s)
        BY <2>3, <2>4
    <2> QED BY <2>1, <2>5, MessageAppend
<1>4. Parses(f, Append(s, e), b, k)
    BY <1>2, <1>3 DEF Parses
<1> QED BY <1>4 DEF Reached

LEMMA InListAppend ==
    ASSUME NEW s \in Seq(Bytes), NEW e \in Bytes, NEW b \in Nat, NEW c \in Nat,
           b <= Len(s), InList(s, b, c)
    PROVE  InList(Append(s, e), b, c)
<1>1. PICK a \in Nat :
         /\ Reached(s, a)
         /\ a + WORD + WORD <= b
         /\ c <= Value(Word(s, a + WORD))
         /\ Items(s, a + WORD + WORD, b, Value(Word(s, a + WORD)) - c)
    BY DEF InList
<1>2. a + WORD \in Nat /\ (a + WORD) + WORD <= Len(s) /\ a <= Len(s)
    BY <1>1, WireAssumption
<1>3. Word(Append(s, e), a + WORD) = Word(s, a + WORD)
    BY <1>2, WordAppend
<1>4. Items(Append(s, e), a + WORD + WORD, b, Value(Word(s, a + WORD)) - c)
    <2>1. Value(Word(s, a + WORD)) \in Nat
        BY <1>2, WordType
    <2>2. Value(Word(s, a + WORD)) - c \in Nat
        BY <1>1, <2>1
    <2> QED BY <1>1, <2>2, ItemsAppend
<1>5. Reached(Append(s, e), a)
    BY <1>1, <1>2, ReachedAppend
<1> QED BY <1>1, <1>3, <1>4, <1>5 DEF InList

\* One string more of a list, and its end.
LEMMA InListFirst ==
    ASSUME NEW s \in Seq(Bytes), NEW a \in Nat, a + WORD + WORD <= Len(s), Reached(s, a)
    PROVE  InList(s, a + WORD + WORD, Value(Word(s, a + WORD)))
<1> DEFINE n == Value(Word(s, a + WORD))
<1>1. a + WORD \in Nat /\ a + WORD + WORD \in Nat
    BY WireAssumption
<1>2. n \in Nat
    BY <1>1, WordType
<1> HIDE DEF n
<1>3. n <= n /\ n - n = 0 /\ a + WORD + WORD <= a + WORD + WORD
    BY <1>1, <1>2
<1>4. Items(s, a + WORD + WORD, a + WORD + WORD, n - n)
    BY <1>1, <1>3, ItemsNone
<1> QED BY <1>3, <1>4 DEF InList, n

LEMMA InListNext ==
    ASSUME NEW s \in Seq(Bytes), NEW b \in Nat, NEW c \in Nat \ {0},
           b + WORD <= Len(s), InList(s, b, c)
    PROVE  InList(s, Item(s, b), c - 1)
<1>1. PICK a \in Nat :
         /\ Reached(s, a)
         /\ a + WORD + WORD <= b
         /\ c <= Value(Word(s, a + WORD))
         /\ Items(s, a + WORD + WORD, b, Value(Word(s, a + WORD)) - c)
    BY DEF InList
<1> DEFINE n == Value(Word(s, a + WORD))
<1>2. WORD \in Nat /\ a + WORD \in Nat /\ a + WORD + WORD \in Nat /\ a + WORD + WORD <= Len(s)
    BY <1>1, WireAssumption
<1>3. n \in Nat
    BY <1>2, WordType
<1>4. c <= n /\ Items(s, a + WORD + WORD, b, n - c)
    BY <1>1
<1> HIDE DEF n
<1>5. n - c \in Nat /\ (n - c) + 1 = n - (c - 1) /\ c - 1 <= n
    BY <1>3, <1>4
<1>6. Items(s, a + WORD + WORD, Item(s, b), n - (c - 1))
    BY <1>2, <1>4, <1>5, ItemsNext
<1>7. a + WORD + WORD <= Item(s, b)
    <2>1. Item(s, b) \in Nat /\ b + WORD <= Item(s, b)
        BY ItemType
    <2> QED BY <1>1, <1>2, <2>1
<1> QED BY <1>1, <1>5, <1>6, <1>7 DEF InList, n

LEMMA InListDone ==
    ASSUME NEW s \in Seq(Bytes), NEW b \in Nat, b <= Len(s), InList(s, b, 0)
    PROVE  Reached(s, b)
<1>1. PICK a \in Nat :
         /\ Reached(s, a)
         /\ a + WORD + WORD <= b
         /\ Items(s, a + WORD + WORD, b, Value(Word(s, a + WORD)) - 0)
    BY DEF InList
<1>2. a + WORD \in Nat /\ (a + WORD) + WORD <= Len(s) /\ a <= b
    BY <1>1, WireAssumption
<1>3. Value(Word(s, a + WORD)) \in Nat
    BY <1>2, WordType
<1>4. Value(Word(s, a + WORD)) - 0 = Value(Word(s, a + WORD))
    BY <1>3
<1>5. IsMessage(s, a, b)
    BY <1>1, <1>4 DEF IsMessage
<1> QED BY <1>1, <1>2, <1>5, ReachedNext

-----------------------------------------------------------------------------
(* The session is at the place in the stream that it takes itself to be at. *)

Framed ==
    /\ place = "op" => Reached(stream, mark)
    /\ place = "count" => \E a \in Nat : a + WORD = mark /\ Reached(stream, a)
    /\ place \in {"len", "body", "pad"} => InList(stream, Len(out), count)
    /\ place = "eof" => Reached(stream, taken)

LEMMA SendFramed ==
    ASSUME Shape, Copied, Framed, NEW b \in Bytes, Send(b)
    PROVE  Framed'
<1>1. stream' = Append(stream, b) /\ place # "eof" /\ UNCHANGED <<taken, place, mark, count, out>>
    BY DEF Send
<1>2. /\ stream \in Seq(Bytes) /\ mark \in Nat /\ taken \in Nat /\ count \in Nat
      /\ mark <= Len(stream) /\ Len(stream) \in Nat /\ WORD \in Nat /\ Len(out) \in Nat
    BY WireAssumption DEF Shape
<1>3. Len(out) <= Len(stream)
    <2>1. Len(out) <= mark
        BY DEF Copied
    <2> QED BY <1>2, <2>1
<1>4. (place = "op" => Reached(stream, mark))'
    BY <1>1, <1>2, ReachedAppend DEF Framed
<1>5. (place = "count" => \E a \in Nat : a + WORD = mark /\ Reached(stream, a))'
    <2>1. SUFFICES ASSUME place = "count"
                   PROVE  \E a \in Nat : a + WORD = mark /\ Reached(Append(stream, b), a)
        BY <1>1
    <2>2. PICK a \in Nat : a + WORD = mark /\ Reached(stream, a)
        BY <2>1 DEF Framed
    <2>3. a <= Len(stream)
        BY <1>2, <2>2
    <2>4. Reached(Append(stream, b), a)
        BY <1>2, <2>2, <2>3, ReachedAppend
    <2> QED BY <2>2, <2>4
<1>6. (place \in {"len", "body", "pad"} => InList(stream, Len(out), count))'
    BY <1>1, <1>2, <1>3, InListAppend DEF Framed
<1> QED BY <1>1, <1>4, <1>5, <1>6 DEF Framed

LEMMA CopyOpFramed ==
    ASSUME Shape, Copied, Framed, CopyOp
    PROVE  Framed'
<1>1. /\ place = "op" /\ Whole /\ place' = "count" /\ mark' = taken /\ stream' = stream
    BY DEF CopyOp, GoOn
<1>2. mark + WORD = taken
    BY <1>1, BufWord
<1>3. Reached(stream, mark) /\ mark \in Nat
    BY <1>1 DEF Framed, Shape
<1>4. \E a \in Nat : a + WORD = mark' /\ Reached(stream', a)
    BY <1>1, <1>2, <1>3
<1> QED BY <1>1, <1>4 DEF Framed

LEMMA CopyCountFramed ==
    ASSUME Shape, Copied, Framed, Copied', CopyCount
    PROVE  Framed'
<1>1. place = "count" /\ Whole
    BY DEF CopyCount
<1>2. CASE Value(Buf) <= MAX_COUNT
    <2> DEFINE n == Value(Buf)
    <2>1. /\ place' = NextItem(n) /\ mark' = taken /\ stream' = stream /\ count' = n
        BY <1>2 DEF CopyCount, GoOn
    <2>2. PICK a \in Nat : a + WORD = mark /\ Reached(stream, a)
        BY <1>1 DEF Framed
    <2>3. Len(out) = mark /\ mark + WORD = taken /\ Buf = Word(stream, mark) /\ taken <= Len(stream)
        BY <1>1, BufWord DEF Shape
    <2>4. stream \in Seq(Bytes) /\ taken \in Nat
        BY DEF Shape
    <2>5. a + WORD + WORD = taken /\ a + WORD + WORD <= Len(stream)
        BY <2>2, <2>3
    <2>6. InList(stream, taken, n)
        <3>1. InList(stream, a + WORD + WORD, Value(Word(stream, a + WORD)))
            BY <2>2, <2>4, <2>5, InListFirst
        <3> QED BY <2>2, <2>3, <2>5, <3>1
    <2>7. n \in Nat
        BY BufType
    <2> HIDE DEF n
    <2>8. CASE n = 0
        <3>1. Reached(stream, taken)
            BY <2>3, <2>4, <2>6, <2>8, InListDone
        <3>2. place' = "op"
            BY <2>1, <2>8 DEF NextItem
        <3> QED BY <2>1, <3>1, <3>2 DEF Framed
    <2>9. CASE n # 0
        <3>1. place' = "len"
            BY <2>1, <2>9 DEF NextItem
        <3>2. Len(out') = mark'
            BY <3>1 DEF Copied
        <3> QED BY <2>1, <2>6, <3>1, <3>2 DEF Framed
    <2> QED BY <2>8, <2>9
<1>3. CASE ~(Value(Buf) <= MAX_COUNT)
    <2>1. place' = "failed"
        BY <1>3 DEF CopyCount, Fail
    <2> QED BY <2>1 DEF Framed
<1> QED BY <1>2, <1>3

\* The step that writes a string, from either place.
LEMMA WriteStringFramed ==
    ASSUME Shape, Copied, Framed, Copied', place \in {"body", "pad"},
           NEW bs, WriteString(bs), Value(Word(stream, Len(out))) = len,
           Len(out) + WORD + len + Padding(len) = taken
    PROVE  Framed'
<1> DEFINE b == Len(out)
           n == count - 1
<1>1. /\ place' = NextItem(n) /\ mark' = taken /\ stream' = stream /\ count' = n
    BY DEF WriteString, GoOn
<1>2. /\ stream \in Seq(Bytes) /\ taken \in Nat /\ taken <= Len(stream) /\ b \in Nat
      /\ count \in Nat \ {0} /\ len \in Nat /\ WORD \in Nat
    BY WireAssumption DEF Shape
<1>3. InList(stream, b, count)
    BY DEF Framed
<1>4. len + Padding(len) = Padded(len) /\ Padded(len) \in Nat /\ Padding(len) \in Nat
    BY <1>2, PaddedLen, PaddingType
<1>5. b + WORD + Padded(len) = taken
    <2> DEFINE p == Padding(len)
               q == Padded(len)
    <2>1. b + WORD + len + p = taken /\ len + p = q /\ p \in Nat /\ q \in Nat
        BY <1>4
    <2> HIDE DEF p, q, b
    <2>2. b + WORD + q = taken
        BY <1>2, <2>1
    <2> QED BY <2>2 DEF q
<1>6. Item(stream, b) = taken
    BY <1>5 DEF Item
<1>7. b + WORD <= Len(stream)
    <2> HIDE DEF b
    <2> QED BY <1>2, <1>4, <1>5
<1> HIDE DEF b
<1>8. InList(stream, taken, n)
    BY <1>2, <1>3, <1>6, <1>7, InListNext
<1> HIDE DEF n
<1>9. CASE n = 0
    <2>1. Reached(stream, taken)
        BY <1>2, <1>8, <1>9, InListDone
    <2>2. place' = "op"
        BY <1>1, <1>9 DEF NextItem
    <2> QED BY <1>1, <2>1, <2>2 DEF Framed
<1>10. CASE n # 0
    <2>1. place' = "len"
        BY <1>1, <1>10 DEF NextItem
    <2>2. Len(out') = mark'
        BY <2>1 DEF Copied
    <2> QED BY <1>1, <1>8, <2>1, <2>2 DEF Framed
<1> QED BY <1>9, <1>10

LEMMA CopyUnpaddedFramed ==
    ASSUME Shape, Copied, Framed, Copied', CopyUnpadded
    PROVE  Framed'
<1>1. place = "body" /\ Whole /\ Padding(len) = 0 /\ WriteString(Buf)
    BY DEF CopyUnpadded
<1>2. taken - mark = len
    BY <1>1, BodyType
<1>3. Len(out) + WORD = mark /\ Value(Word(stream, Len(out))) = len
    BY <1>1 DEF Copied
<1>4. mark \in Nat /\ taken \in Nat /\ len \in Nat /\ Len(out) \in Nat /\ WORD \in Nat
    BY WireAssumption DEF Shape
<1>5. Len(out) + WORD + len = taken
    BY <1>2, <1>3, <1>4
<1>6. Len(out) + WORD + len + Padding(len) = taken
    BY <1>1, <1>4, <1>5
<1> QED BY <1>1, <1>3, <1>6, WriteStringFramed

LEMMA CopyPaddedFramed ==
    ASSUME Shape, Copied, Framed, Copied', CopyPadded
    PROVE  Framed'
<1>1. place = "pad" /\ Whole
    BY DEF CopyPadded
<1>2. CASE Buf = Zeros(Padding(len))
    <2>1. WriteString(SubSeq(stream, mark - len + 1, mark))
        BY <1>2 DEF CopyPadded
    <2>2. taken - mark = Padding(len)
        BY <1>1 DEF Whole, Need
    <2>3. Len(out) + WORD + len = mark /\ Value(Word(stream, Len(out))) = len
        BY <1>1 DEF Copied
    <2>4. mark \in Nat /\ taken \in Nat
        BY DEF Shape
    <2>5. mark + Padding(len) = taken
        BY <2>2, <2>4
    <2>6. Len(out) + WORD + len + Padding(len) = taken
        BY <2>3, <2>5
    <2> QED BY <1>1, <2>1, <2>3, <2>6, WriteStringFramed
<1>3. CASE Buf # Zeros(Padding(len))
    <2>1. place' = "failed"
        BY <1>3 DEF CopyPadded, Fail
    <2> QED BY <2>1 DEF Framed
<1> QED BY <1>2, <1>3

LEMMA NextFramed == Shape /\ Copied /\ Framed /\ Copied' /\ [Next]_vars => Framed'
<1> SUFFICES ASSUME Shape, Copied, Framed, Copied', [Next]_vars PROVE Framed'
    OBVIOUS
<1>1. CASE UNCHANGED vars
    BY <1>1 DEF vars, Framed
<1>2. ASSUME NEW b \in Bytes, Send(b) PROVE Framed'
    BY <1>2, SendFramed
<1>3. CASE Close
    BY <1>3 DEF Close, Framed
<1>4. CASE Read
    <2>1. place # "eof" /\ UNCHANGED <<stream, place, mark, count, out>>
        BY <1>4 DEF Read, Reading
    <2> QED BY <2>1 DEF Framed
<1>5. CASE EndOfFile
    <2>1. /\ UNCHANGED <<stream, taken, mark>>
          /\ place' = IF place = "op" /\ taken = mark THEN "eof" ELSE "failed"
        BY <1>5 DEF EndOfFile
    <2>2. CASE place = "op" /\ taken = mark
        <3>1. Reached(stream, taken) /\ place' = "eof"
            BY <2>1, <2>2 DEF Framed
        <3> QED BY <2>1, <3>1 DEF Framed
    <2>3. CASE ~(place = "op" /\ taken = mark)
        BY <2>1, <2>3 DEF Framed
    <2> QED BY <2>2, <2>3
<1>6. CASE CopyOp
    BY <1>6, CopyOpFramed
<1>7. CASE CopyCount
    BY <1>7, CopyCountFramed
<1>8. CASE ReadLen
    <2>1. CASE Value(Buf) <= MAX_STRING
        <3>1. place = "len" /\ place' = "body" /\ stream' = stream /\ count' = count /\ out' = out \o <<>>
            BY <1>8, <2>1 DEF ReadLen, GoOn
        <3>2. out' = out
            BY <3>1 DEF Shape
        <3> QED BY <3>1, <3>2 DEF Framed
    <2>2. CASE ~(Value(Buf) <= MAX_STRING)
        <3>1. place' = "failed"
            BY <1>8, <2>2 DEF ReadLen, Fail
        <3> QED BY <3>1 DEF Framed
    <2> QED BY <2>1, <2>2
<1>9. CASE CopyUnpadded
    BY <1>9, CopyUnpaddedFramed
<1>10. CASE ReadPadding
    <2>1. place = "body" /\ place' = "pad" /\ UNCHANGED <<stream, count, out>>
        BY <1>10 DEF ReadPadding
    <2> QED BY <2>1 DEF Framed
<1>11. CASE CopyPadded
    BY <1>11, CopyPaddedFramed
<1> QED BY <1>1, <1>2, <1>3, <1>4, <1>5, <1>6, <1>7, <1>8, <1>9, <1>10, <1>11 DEF Next, SessionStep

-----------------------------------------------------------------------------
(* The positions of the proofs are the ones the property computes.         *)

LEMMA ItemEndType ==
    ASSUME Shape, NEW i \in Nat
    PROVE  /\ ItemEnd(i) \in Nat
           /\ i + WORD <= taken => ItemEnd(i) = Item(stream, i)
<1>1. WORD \in Nat /\ taken \in Nat /\ taken <= Len(stream) /\ stream \in Seq(Bytes)
    BY WireAssumption DEF Shape
<1>2. CASE i + WORD > taken
    BY <1>1, <1>2 DEF ItemEnd
<1>3. CASE ~(i + WORD > taken)
    <2>1. i + WORD <= Len(stream)
        BY <1>1, <1>3
    <2>2. Item(stream, i) \in Nat
        BY <1>1, <2>1, ItemType
    <2>3. ItemEnd(i) = Item(stream, i)
        BY <1>3 DEF ItemEnd, Item, Padded, Word
    <2> QED BY <2>2, <2>3
<1> QED BY <1>1, <1>2, <1>3

\* The recursive functions are as their definitions describe them.
IsListEnd(f, i, n) ==
    /\ f \in [0..n -> Nat]
    /\ f[0] = i + WORD
    /\ \A k \in 1..n : f[k] = ItemEnd(f[k - 1])
    /\ ListEnd(i) = f[n]

LEMMA ListEndSteps ==
    ASSUME Shape, NEW i \in Nat, i + WORD <= taken
    PROVE  \E f : IsListEnd(f, i, Value(Word(stream, i)))
<1> DEFINE n == Value(Word(stream, i))
           Is(f) == f = [k \in 0..n |-> IF k = 0 THEN i + WORD ELSE ItemEnd(f[k - 1])]
           G == [x \in Nat \X (1..n) |-> ItemEnd(x[1])]
<1>1. i + WORD \in Nat /\ i + WORD <= Len(stream) /\ stream \in Seq(Bytes)
    BY WireAssumption DEF Shape
<1>2. n \in Nat
    BY <1>1, WordType
<1> DEFINE end == CHOOSE f : Is(f)
<1>3. ListEnd(i) = end[n]
    BY DEF ListEnd, Word
<1> HIDE DEF n
<1>4. \A v \in Nat : ItemEnd(v) \in Nat
    BY ItemEndType
<1>5. G \in [Nat \X (1..n) -> Nat]
    BY <1>4
<1>6. \A v \in Nat, k \in 1..n : G[<<v, k>>] = ItemEnd(v)
    OBVIOUS
<1> HIDE DEF G
<1>7. \E f : Is(f)
    <2>1. Iterates(n, Nat, i + WORD, G)
        BY <1>1, <1>2, <1>5, Iteration
    <2>2. PICK f \in [0..n -> Nat] : f[0] = i + WORD /\ \A k \in 1..n : f[k] = G[<<f[k - 1], k>>]
        BY <2>1 DEF Iterates
    <2>3. \A k \in 1..n : f[k - 1] \in Nat
        BY <1>2
    <2>4. \A k \in 1..n : f[k] = ItemEnd(f[k - 1])
        BY <1>6, <2>2, <2>3
    <2>5. ASSUME NEW k \in 0..n
          PROVE  f[k] = IF k = 0 THEN i + WORD ELSE ItemEnd(f[k - 1])
        <3>1. CASE k = 0
            BY <2>2, <3>1
        <3>2. CASE k # 0
            <4>1. k \in 1..n
                BY <1>2, <3>2
            <4> QED BY <2>4, <3>2, <4>1
        <3> QED BY <3>1, <3>2
    <2>6. Is(f)
        BY <2>5
    <2> HIDE DEF Is
    <2> QED BY <2>6
<1>8. Is(end)
    <2> HIDE DEF Is
    <2> QED BY <1>7
<1> HIDE DEF end
<1>9. end[0] = i + WORD
    <2>1. 0 \in 0..n
        BY <1>2
    <2> QED BY <1>8, <2>1
<1>10. ASSUME NEW k \in 1..n PROVE end[k] = ItemEnd(end[k - 1])
    <2>1. k \in 0..n /\ k # 0
        BY <1>2
    <2> QED BY <1>8, <2>1
<1>11. DOMAIN end = 0..n /\ end = [k \in 0..n |-> end[k]]
    BY <1>8
<1> HIDE DEF Is
<1>12. \A k \in 0..n : end[k] \in Nat
    <2> DEFINE S == {k \in Nat : end[k] \in Nat}
    <2>1. 0 \in S
        BY <1>1, <1>9
    <2>2. ASSUME NEW k \in 0..n, k \in S, k + 1 <= n PROVE k + 1 \in S
        <3>1. k + 1 \in 1..n /\ (k + 1) - 1 = k /\ end[k] \in Nat /\ k + 1 \in Nat
            BY <1>2, <2>2
        <3>2. end[k + 1] = ItemEnd(end[k])
            BY <1>10, <3>1
        <3> QED BY <1>4, <3>1, <3>2
    <2> HIDE DEF S
    <2>3. 0..n \subseteq S
        BY <1>2, <2>1, <2>2, UpToBySets
    <2> QED BY <2>3 DEF S
<1>13. end \in [0..n -> Nat]
    BY <1>11, <1>12
<1>14. IsListEnd(end, i, n)
    BY <1>3, <1>9, <1>10, <1>13 DEF IsListEnd
<1> QED BY <1>14 DEF n

LEMMA MessageEndType ==
    ASSUME Shape, NEW i \in Nat
    PROVE  MessageEnd(i) \in Nat
<1>1. WORD \in Nat /\ taken \in Nat /\ taken <= Len(stream) /\ stream \in Seq(Bytes) /\ Len(stream) \in Nat
    BY WireAssumption DEF Shape
<1>2. 2 * WORD = WORD + WORD
    BY <1>1
<1>3. CASE i + 2 * WORD > taken
    BY <1>3 DEF MessageEnd
<1>4. CASE ~(i + 2 * WORD > taken)
    <2>1. i + WORD \in Nat /\ (i + WORD) + WORD <= taken /\ (i + WORD) + WORD <= Len(stream)
        BY <1>1, <1>2, <1>4
    <2> DEFINE n == Value(Word(stream, i + WORD))
    <2>2. n \in Nat
        BY <1>1, <2>1, WordType
    <2>3. PICK f : IsListEnd(f, i + WORD, n)
        BY <2>1, ListEndSteps
    <2> HIDE DEF n
    <2>4. ListEnd(i + WORD) \in Nat
        BY <2>2, <2>3 DEF IsListEnd
    <2> QED BY <1>4, <2>4 DEF MessageEnd
<1> QED BY <1>3, <1>4

\* A message of the proofs is one of the property.
LEMMA MessageEndIs ==
    ASSUME Shape, NEW a \in Nat, NEW b \in Nat, b <= taken, IsMessage(stream, a, b)
    PROVE  MessageEnd(a) = b /\ a + WORD + WORD <= b
<1> DEFINE i == a + WORD
           n == Value(Word(stream, i))
<1>1. WORD \in Nat /\ taken \in Nat /\ taken <= Len(stream) /\ stream \in Seq(Bytes) /\ Len(stream) \in Nat
    BY WireAssumption DEF Shape
<1>2. a + WORD + WORD <= b /\ Items(stream, a + WORD + WORD, b, n)
    BY DEF IsMessage
<1>3. i \in Nat /\ i + WORD <= taken /\ i + WORD <= Len(stream) /\ ~(a + 2 * WORD > taken)
    BY <1>1, <1>2
<1>4. n \in Nat
    BY <1>1, <1>3, WordType
<1>5. PICK f : IsListEnd(f, i, n)
    BY <1>3, ListEndSteps
<1>6. PICK g : Cuts(g, stream, a + WORD + WORD, b, n)
    BY <1>2 DEF Items
<1>7. MessageEnd(a) = f[n]
    BY <1>3, <1>5 DEF MessageEnd, IsListEnd
<1> HIDE DEF n
<1>8. f[0] = a + WORD + WORD /\ \A k \in 1..n : f[k] = ItemEnd(f[k - 1])
    BY <1>5 DEF IsListEnd
<1> HIDE DEF i
<1>9. \A k \in 0..n : f[k] = g[k]
    <2> DEFINE S == {k \in Nat : f[k] = g[k]}
    <2>1. 0 \in S
        BY <1>6, <1>8 DEF Cuts
    <2>2. ASSUME NEW k \in 0..n, k \in S, k + 1 <= n PROVE k + 1 \in S
        <3>1. k + 1 \in 1..n /\ (k + 1) - 1 = k /\ k + 1 \in Nat /\ f[k] = g[k]
            BY <1>4, <2>2
        <3>2. f[k + 1] = ItemEnd(f[k])
            BY <1>8, <3>1
        <3>3. g[k] + WORD <= b /\ g[k + 1] = Item(stream, g[k])
            BY <1>6, <3>1 DEF Cuts
        <3>4. g[k] \in Nat
            BY <1>6 DEF Cuts
        <3>5. g[k] + WORD <= taken
            BY <1>1, <3>3, <3>4
        <3>6. ItemEnd(g[k]) = Item(stream, g[k])
            BY <3>4, <3>5, ItemEndType
        <3> QED BY <3>1, <3>2, <3>3, <3>6
    <2> HIDE DEF S
    <2>3. 0..n \subseteq S
        BY <1>4, <2>1, <2>2, UpToBySets
    <2> QED BY <2>3 DEF S
<1>10. f[n] = g[n] /\ g[n] = b
    BY <1>4, <1>6, <1>9 DEF Cuts
<1> QED BY <1>2, <1>7, <1>10

\* A message is two words at least, so the bytes bound their number.
LEMMA FewMessages ==
    ASSUME Shape, NEW k \in Nat, NEW b \in Nat, b <= taken, NEW f, Parses(f, stream, b, k)
    PROVE  k <= MaxBytes \div (2 * WORD)
<1> DEFINE w == 2 * WORD
<1>1. WORD \in Nat \ {0} /\ MaxBytes \in Nat /\ taken \in Nat /\ Len(stream) \in Nat
    BY WireAssumption DEF Shape
<1>2. w \in Nat \ {0} /\ WORD + WORD = w
    BY <1>1
<1>3. b <= MaxBytes
    BY <1>1 DEF Shape
<1> HIDE DEF w
<1>4. \A j \in Nat : w * j \in Nat /\ w * (j + 1) = w * j + w /\ w * 0 = 0
    BY <1>2
<1>5. f[0] = 0 /\ f[k] = b /\ \A j \in 0..k : f[j] \in Nat
    BY DEF Parses
<1>6. \A j \in 0..k : w * j <= f[j]
    <2> DEFINE S == {j \in Nat : w * j <= f[j]}
    <2>1. 0 \in S
        BY <1>4, <1>5
    <2>2. ASSUME NEW j \in 0..k, j \in S, j + 1 <= k PROVE j + 1 \in S
        <3>1. j + 1 \in 1..k /\ j + 1 \in 0..k /\ (j + 1) - 1 = j /\ j \in Nat /\ j + 1 \in Nat
            BY <2>2
        <3>2. IsMessage(stream, f[j], f[j + 1])
            BY <3>1 DEF Parses
        <3>3. f[j] + WORD + WORD <= f[j + 1] /\ f[j] \in Nat /\ f[j + 1] \in Nat
            BY <1>5, <3>1, <3>2 DEF IsMessage
        <3>4. w * j <= f[j]
            BY <2>2
        <3>5. w * (j + 1) = w * j + w /\ w * j \in Nat
            BY <1>4, <3>1
        <3>6. w * (j + 1) <= f[j + 1]
            <4> DEFINE p == w * j
                       q == w * (j + 1)
            <4>1. p \in Nat /\ q = p + w /\ p <= f[j]
                BY <3>4, <3>5
            <4> HIDE DEF p, q
            <4>2. q <= f[j + 1]
                BY <1>1, <1>2, <3>3, <4>1
            <4> QED BY <4>2 DEF q
        <3> QED BY <3>1, <3>6
    <2> HIDE DEF S
    <2>3. 0..k \subseteq S
        BY <2>1, <2>2, UpToBySets
    <2> QED BY <2>3 DEF S
<1>7. w * k <= MaxBytes
    <2>1. w * k <= b /\ w * k \in Nat
        BY <1>4, <1>5, <1>6
    <2> QED BY <1>1, <1>3, <2>1
<1> DEFINE q == MaxBytes \div w
           r == MaxBytes % w
<1>8. MaxBytes = w * q + r /\ q \in Nat /\ r \in 0..(w - 1)
    BY <1>1, <1>2, DivMod
<1> HIDE DEF q, r
<1>9. ~(q < k)
    <2>1. SUFFICES ASSUME q < k PROVE FALSE
        OBVIOUS
    <2>2. w * q + w <= w * k
        BY <1>2, <1>8, <2>1, TimesGrows
    <2>3. w * q \in Nat /\ w * k \in Nat
        BY <1>4, <1>8
    <2> QED BY <1>1, <1>2, <1>7, <1>8, <2>2, <2>3
<1>10. k <= q
    BY <1>8, <1>9
<1> QED BY <1>10 DEF q, w

LEMMA ReachedEnds ==
    ASSUME Shape, NEW b \in Nat, b <= taken, Reached(stream, b)
    PROVE  b \in MessageEnds
<1>1. PICK k \in Nat : \E f : Parses(f, stream, b, k)
    BY DEF Reached
<1>2. PICK f : Parses(f, stream, b, k)
    BY <1>1
<1> DEFINE m == MaxBytes \div (2 * WORD)
           Is(e) == e = [n \in 0..m |-> IF n = 0 THEN 0 ELSE MessageEnd(e[n - 1])]
           G == [x \in Nat \X (1..m) |-> MessageEnd(x[1])]
           end == CHOOSE e : Is(e)
<1>3. k <= m
    BY <1>2, FewMessages
<1>4. m \in Nat
    <2>1. 2 * WORD \in Nat \ {0} /\ MaxBytes \in Nat
        BY WireAssumption
    <2> QED BY <2>1, DivMod
<1>5. MessageEnds = {end[n] : n \in DOMAIN end}
    BY DEF MessageEnds
<1> HIDE DEF m
<1>6. \A v \in Nat : MessageEnd(v) \in Nat
    BY MessageEndType
<1>7. G \in [Nat \X (1..m) -> Nat]
    BY <1>6
<1>8. \A v \in Nat, n \in 1..m : G[<<v, n>>] = MessageEnd(v)
    OBVIOUS
<1> HIDE DEF G
<1>9. \E e : Is(e)
    <2>1. Iterates(m, Nat, 0, G)
        BY <1>4, <1>7, Iteration
    <2>2. PICK e \in [0..m -> Nat] : e[0] = 0 /\ \A n \in 1..m : e[n] = G[<<e[n - 1], n>>]
        BY <2>1 DEF Iterates
    <2>3. \A n \in 1..m : e[n - 1] \in Nat
        BY <1>4
    <2>4. \A n \in 1..m : e[n] = MessageEnd(e[n - 1])
        BY <1>8, <2>2, <2>3
    <2>5. ASSUME NEW n \in 0..m
          PROVE  e[n] = IF n = 0 THEN 0 ELSE MessageEnd(e[n - 1])
        <3>1. CASE n = 0
            BY <2>2, <3>1
        <3>2. CASE n # 0
            <4>1. n \in 1..m
                BY <1>4, <3>2
            <4> QED BY <2>4, <3>2, <4>1
        <3> QED BY <3>1, <3>2
    <2>6. Is(e)
        BY <2>5
    <2> HIDE DEF Is
    <2> QED BY <2>6
<1>10. Is(end)
    <2> HIDE DEF Is
    <2> QED BY <1>9
<1> HIDE DEF end
<1>11. DOMAIN end = 0..m
    BY <1>10
<1>12. end[0] = 0
    <2>1. 0 \in 0..m
        BY <1>4
    <2> QED BY <1>10, <2>1
<1>13. ASSUME NEW n \in 1..m PROVE end[n] = MessageEnd(end[n - 1])
    <2>1. n \in 0..m /\ n # 0
        BY <1>4
    <2> QED BY <1>10, <2>1
<1> HIDE DEF Is
<1>14. \A n \in 0..k : end[n] = f[n]
    <2> DEFINE S == {n \in Nat : end[n] = f[n]}
    <2>1. 0 \in S
        BY <1>2, <1>12 DEF Parses
    <2>2. ASSUME NEW n \in 0..k, n \in S, n + 1 <= k PROVE n + 1 \in S
        <3>1. /\ n + 1 \in 1..k /\ n + 1 \in 1..m /\ (n + 1) - 1 = n /\ n + 1 \in Nat
              /\ n + 1 \in 0..k /\ end[n] = f[n]
            BY <1>3, <1>4, <2>2
        <3>2. end[n + 1] = MessageEnd(f[n])
            BY <1>13, <3>1
        <3>3. IsMessage(stream, f[n], f[n + 1]) /\ f[n] \in 0..b /\ f[n + 1] \in 0..b
            BY <1>2, <3>1 DEF Parses
        <3>4. f[n] \in Nat /\ f[n + 1] \in Nat /\ f[n + 1] <= taken
            <4>1. taken \in Nat
                BY DEF Shape
            <4> QED BY <3>3, <4>1
        <3>5. MessageEnd(f[n]) = f[n + 1]
            BY <3>3, <3>4, MessageEndIs
        <3> QED BY <3>1, <3>2, <3>5
    <2> HIDE DEF S
    <2>3. 0..k \subseteq S
        BY <2>1, <2>2, UpToBySets
    <2> QED BY <2>3 DEF S
<1>15. end[k] = b /\ k \in DOMAIN end
    BY <1>2, <1>3, <1>4, <1>11, <1>14 DEF Parses
<1> QED BY <1>5, <1>15

-----------------------------------------------------------------------------
(* The theorems.                                                           *)

IInv == Shape /\ Copied /\ Framed

LEMMA InitIInv == Init => IInv
<1> SUFFICES ASSUME Init PROVE IInv
    OBVIOUS
<1>1. Shape
    BY InitShape
<1>2. out = <<>> /\ Len(out) = 0 /\ mark = 0 /\ place = "op" /\ stream = <<>>
    BY DEF Init
<1>3. SubSeq(stream, 1, 0) = <<>>
    BY SubSeqEmpty
<1>4. Copied
    BY <1>2, <1>3 DEF Copied
<1>5. Reached(stream, mark)
    BY <1>2, ReachedStart
<1>6. Framed
    BY <1>2, <1>5 DEF Framed
<1> QED BY <1>1, <1>4, <1>6 DEF IInv

LEMMA NextIInv == IInv /\ [Next]_vars => IInv'
BY NextShape, NextCopied, NextFramed DEF IInv

\* The inductive invariant: the shape of the state, how far the copy is, and
\* where in a message the session is.
THEOREM WireInvariant == Spec => []IInv
<1> QED BY InitIInv, NextIInv, PTL DEF Spec

\* No more is read than the unit at hand asks for, and than there is; a string
\* is read only while the list has one left.
THEOREM WireShape == Spec => []Shape
<1>1. IInv => Shape
    BY DEF IInv
<1> QED BY <1>1, WireInvariant, PTL

\* What is written toward the host is what the guest sent, byte for byte,
\* although every word and every string of it is encoded anew.
THEOREM WireVerbatim == Spec => []CopiedVerbatim
<1>1. IInv => CopiedVerbatim
    BY DEF IInv, Copied, CopiedVerbatim
<1> QED BY <1>1, WireInvariant, PTL

\* An op is read where a message ends by the counts and lengths in the
\* stream, and a clean end of the stream is nowhere else.
THEOREM WireFraming == Spec => []FramingKept
<1>1. ASSUME IInv PROVE FramingKept
    <2>1. mark \in Nat /\ taken \in Nat /\ mark <= taken /\ Shape /\ Framed
        BY <1>1 DEF IInv, Shape
    <2>2. place = "op" => mark \in MessageEnds
        <3>1. place = "op" => Reached(stream, mark)
            BY <2>1 DEF Framed
        <3> QED BY <2>1, <3>1, ReachedEnds
    <2>3. place = "eof" => taken \in MessageEnds
        <3>1. place = "eof" => Reached(stream, taken)
            BY <2>1 DEF Framed
        <3>2. taken <= taken
            BY <2>1
        <3> QED BY <2>1, <3>1, <3>2, ReachedEnds
    <2> QED BY <2>2, <2>3 DEF FramingKept
<1> QED BY <1>1, WireInvariant, PTL
====
