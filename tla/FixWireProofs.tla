--------------------------- MODULE FixWireProofs ---------------------------
(***************************************************************************)
(* What the operators of FixWire compute, for every input.                 *)
(***************************************************************************)
EXTENDS FixWire, SequenceTheorems, RecursionLemmas, TLAPS

-----------------------------------------------------------------------------
(* Loops over a sequence. *)

\* The values n takes in the loop of Number, and kept in the loop of Without.
NumberRun(num, s) ==
  /\ num[0] = 0
  /\ \A i \in 1..Len(s) :
       num[i] = IF num[i - 1] \in -IntCap..IntCap
                THEN num[i - 1] * 10 + s[i] - ZERO ELSE num[i - 1]

WithoutRun(kept, s, c) ==
  /\ kept[0] = <<>>
  /\ \A i \in 1..Len(s) :
       kept[i] = IF s[i] = c THEN kept[i - 1] ELSE Append(kept[i - 1], s[i])

\* Number returns what such a run ends with.
LEMMA NumberLoop ==
  ASSUME NEW s \in Seq(Int)
  PROVE  \E num \in [0..Len(s) -> Int] :
           /\ NumberRun(num, s)
           /\ Number(s) = num[Len(s)]
<1> DEFINE L  == Len(s)
           E(n, i) == IF n \in -IntCap..IntCap THEN n * 10 + s[i] - ZERO ELSE n
           st == [i \in 1..L |-> [n \in Int |-> E(n, i)]]
           Def(f) == [i \in 0..L |-> IF i = 0 THEN 0 ELSE E(f[i - 1], i)]
<1>1. L \in Nat /\ \A i \in 1..L : s[i] \in Int
  BY LenProperties, ElementOfSeq
<1>2. \A n \in Int, i \in 1..L : E(n, i) \in Int
  BY <1>1 DEF ZERO
<1>3. st \in [1..L -> [Int -> Int]]
  BY <1>2
<1>4. PICK f \in [0..L -> Int] : Iterates(f, L, 0, st)
  <2> HIDE DEF L, st
  <2> QED
    BY <1>1, <1>3, 0 \in Int, Iteration
<1>5. f = Def(f)
  <2> HIDE DEF E, L
  <2>1. \A i \in 0..L : i # 0 => i \in 1..L /\ f[i - 1] \in Int
    BY <1>1
  <2>2. \A i \in 0..L : i # 0 => st[i][f[i - 1]] = E(f[i - 1], i)
    BY <2>1
  <2> HIDE DEF st
  <2> QED
    BY <1>4, <2>2 DEF Iterates
<1> DEFINE num == CHOOSE g : g = Def(g)
<1>6. num = Def(num)
  <2> HIDE DEF Def
  <2> QED
    BY <1>5
<1>7. Number(s) = num[Len(s)]
  BY DEF Number
<1> HIDE DEF num
<1>8. DOMAIN num = 0..L /\ num[0] = 0
  <2> HIDE DEF E, L
  <2> QED
    BY <1>1, <1>6
<1>9. \A i \in 1..L : num[i] = E(num[i - 1], i)
  <2> HIDE DEF E, L
  <2> QED
    BY <1>1, <1>6
<1> DEFINE T == {i \in 0..L : num[i] \in Int}
<1>10. \A i \in 0..L : i \in T
  <2>1. 0 \in T
    BY <1>1, <1>8
  <2>2. ASSUME NEW i \in 1..L, i - 1 \in T PROVE i \in T
    <3>1. i \in 0..L /\ num[i - 1] \in Int
      BY <1>1, <2>2
    <3> HIDE DEF E, L
    <3>2. num[i] \in Int
      BY <1>2, <1>9, <3>1
    <3> QED
      BY <3>1, <3>2
  <2> HIDE DEF T, L
  <2> QED
    BY <1>1, <2>1, <2>2, LoopInduction
<1>11. num \in [0..L -> Int]
  <2>1. num = [i \in 0..L |-> num[i]]
    <3> HIDE DEF E, L
    <3> QED
      BY <1>6
  <2>2. \A i \in 0..L : num[i] \in Int
    BY <1>1, <1>10
  <2> HIDE DEF L
  <2> QED
    BY <2>1, <2>2
<1> QED
  BY <1>7, <1>8, <1>9, <1>11 DEF NumberRun

\* Number is an integer, whatever the bytes.
LEMMA NumberType ==
  ASSUME NEW s \in Seq(Int)
  PROVE  Number(s) \in Int
BY NumberLoop, LenProperties

\* Without returns what such a run ends with.
LEMMA WithoutLoop ==
  ASSUME NEW X, NEW s \in Seq(X), NEW c
  PROVE  \E kept \in [0..Len(s) -> Seq(X)] :
           /\ WithoutRun(kept, s, c)
           /\ Without(s, c) = kept[Len(s)]
<1> DEFINE L  == Len(s)
           E(t, i) == IF s[i] = c THEN t ELSE Append(t, s[i])
           st == [i \in 1..L |-> [t \in Seq(X) |-> E(t, i)]]
           Def(f) == [i \in 0..L |-> IF i = 0 THEN <<>> ELSE E(f[i - 1], i)]
<1>1. L \in Nat /\ \A i \in 1..L : s[i] \in X
  BY LenProperties, ElementOfSeq
<1>2. \A t \in Seq(X), i \in 1..L : E(t, i) \in Seq(X)
  BY <1>1
<1>3. st \in [1..L -> [Seq(X) -> Seq(X)]]
  BY <1>2
<1>4. PICK f \in [0..L -> Seq(X)] : Iterates(f, L, <<>>, st)
  <2>1. <<>> \in Seq(X)
    OBVIOUS
  <2> HIDE DEF L, st
  <2> QED
    BY <1>1, <1>3, <2>1, Iteration
<1>5. f = Def(f)
  <2> HIDE DEF E, L
  <2>1. \A i \in 0..L : i # 0 => i \in 1..L /\ f[i - 1] \in Seq(X)
    BY <1>1
  <2>2. \A i \in 0..L : i # 0 => st[i][f[i - 1]] = E(f[i - 1], i)
    BY <2>1
  <2> HIDE DEF st
  <2> QED
    BY <1>4, <2>2 DEF Iterates
<1> DEFINE kept == CHOOSE g : g = Def(g)
<1>6. kept = Def(kept)
  <2> HIDE DEF Def
  <2> QED
    BY <1>5
<1>7. Without(s, c) = kept[Len(s)]
  BY DEF Without
<1> HIDE DEF kept
<1>8. DOMAIN kept = 0..L /\ kept[0] = <<>>
  <2> HIDE DEF E, L
  <2> QED
    BY <1>1, <1>6
<1>9. \A i \in 1..L : kept[i] = E(kept[i - 1], i)
  <2> HIDE DEF E, L
  <2> QED
    BY <1>1, <1>6
<1> DEFINE T == {i \in 0..L : kept[i] \in Seq(X)}
<1>10. \A i \in 0..L : i \in T
  <2>1. 0 \in T
    BY <1>1, <1>8, SMTT(30)
  <2>2. ASSUME NEW i \in 1..L, i - 1 \in T PROVE i \in T
    <3>1. i \in 0..L /\ kept[i - 1] \in Seq(X)
      BY <1>1, <2>2
    <3> HIDE DEF E, L
    <3>2. kept[i] \in Seq(X)
      BY <1>2, <1>9, <3>1
    <3> QED
      BY <3>1, <3>2
  <2> HIDE DEF T, L
  <2> QED
    BY <1>1, <2>1, <2>2, LoopInduction
<1>11. kept \in [0..L -> Seq(X)]
  <2>1. kept = [i \in 0..L |-> kept[i]]
    <3> HIDE DEF E, L
    <3> QED
      BY <1>6
  <2>2. \A i \in 0..L : kept[i] \in Seq(X)
    BY <1>1, <1>10
  <2> HIDE DEF L
  <2> QED
    BY <2>1, <2>2
<1> QED
  BY <1>7, <1>8, <1>9, <1>11 DEF WithoutRun

\* Without keeps elements, and no more than there are.
LEMMA WithoutType ==
  ASSUME NEW X, NEW s \in Seq(X), NEW c
  PROVE  Without(s, c) \in Seq(X) /\ Len(Without(s, c)) <= Len(s)
<1>1. PICK kept \in [0..Len(s) -> Seq(X)] :
        /\ WithoutRun(kept, s, c)
        /\ Without(s, c) = kept[Len(s)]
  BY WithoutLoop
<1> DEFINE L == Len(s)
           T == {i \in 0..L : Len(kept[i]) <= i}
<1>2. L \in Nat /\ \A i \in 1..L : s[i] \in X
  BY LenProperties, ElementOfSeq
<1>3. \A i \in 0..L : i \in T
  <2>1. 0 \in T
    BY <1>1, <1>2 DEF WithoutRun
  <2>2. ASSUME NEW i \in 1..L, i - 1 \in T PROVE i \in T
    <3>1. i \in 0..L /\ i - 1 \in 0..L /\ Len(kept[i - 1]) <= i - 1
      BY <1>2, <2>2
    <3>2. kept[i - 1] \in Seq(X) /\ Len(kept[i - 1]) \in Nat
      BY <1>1, <3>1, LenProperties
    <3>3. Len(Append(kept[i - 1], s[i])) = Len(kept[i - 1]) + 1
      BY <1>2, <3>2
    <3>4. kept[i] = kept[i - 1] \/ kept[i] = Append(kept[i - 1], s[i])
      BY <1>1 DEF WithoutRun
    <3>5. Len(kept[i]) <= i
      BY <3>1, <3>2, <3>3, <3>4
    <3> QED
      BY <3>1, <3>5
  <2> HIDE DEF T, L
  <2> QED
    BY <1>2, <2>1, <2>2, LoopInduction
<1> QED
  BY <1>1, <1>2, <1>3

\* A sequence without c stays as it is.
LEMMA WithoutNone ==
  ASSUME NEW X, NEW s \in Seq(X), NEW c, \A i \in 1..Len(s) : s[i] # c
  PROVE  Without(s, c) = s
<1>1. PICK kept \in [0..Len(s) -> Seq(X)] :
        /\ WithoutRun(kept, s, c)
        /\ Without(s, c) = kept[Len(s)]
  BY WithoutLoop
<1> DEFINE L == Len(s)
           T == {i \in 0..L : /\ Len(kept[i]) = i
                              /\ \A j \in 1..i : kept[i][j] = s[j]}
<1>2. L \in Nat /\ \A i \in 1..L : s[i] \in X
  BY LenProperties, ElementOfSeq
<1>3. \A i \in 0..L : i \in T
  <2>1. 0 \in T
    BY <1>1, <1>2 DEF WithoutRun
  <2>2. ASSUME NEW i \in 1..L, i - 1 \in T PROVE i \in T
    <3>1. /\ i \in 0..L /\ i - 1 \in 0..L /\ Len(kept[i - 1]) = i - 1
          /\ \A j \in 1..i - 1 : kept[i - 1][j] = s[j]
      BY <1>2, <2>2
    <3>2. kept[i - 1] \in Seq(X)
      BY <1>1, <3>1
    <3>3. kept[i] = Append(kept[i - 1], s[i])
      BY <1>1 DEF WithoutRun
    <3>4. /\ Len(kept[i]) = i
          /\ \A j \in 1..i - 1 : kept[i][j] = kept[i - 1][j]
          /\ kept[i][i] = s[i]
      BY <1>2, <3>1, <3>2, <3>3, AppendProperties
    <3>5. \A j \in 1..i : kept[i][j] = s[j]
      BY <1>2, <3>1, <3>4
    <3> QED
      BY <3>1, <3>4, <3>5
  <2> HIDE DEF T, L
  <2> QED
    BY <1>2, <2>1, <2>2, LoopInduction
<1>4. /\ kept[L] \in Seq(X) /\ Len(kept[L]) = Len(s)
      /\ \A j \in 1..Len(s) : kept[L][j] = s[j]
  BY <1>1, <1>2, <1>3
<1> HIDE DEF L
<1> QED
  BY <1>1, <1>4, SeqEqual DEF L

-----------------------------------------------------------------------------
(* Finding a byte, and scanning a field. *)

\* The least of some naturals.
LEMMA MinOf ==
  ASSUME NEW T, T \subseteq Nat, T # {}
  PROVE  Min(T) \in T /\ \A y \in T : Min(T) <= y
<1>1. \E m \in T : \A y \in T : m <= y
  BY NatMin
<1> QED
  BY <1>1 DEF Min

\* FirstAt finds the first c, or the place behind the end.
LEMMA FirstAtFinds ==
  ASSUME NEW X, NEW w \in Seq(X), NEW c
  PROVE  /\ FirstAt(w, c) \in 1..Len(w) + 1
         /\ FirstAt(w, c) <= Len(w) => w[FirstAt(w, c)] = c
         /\ \A i \in 1..Len(w) : i < FirstAt(w, c) => w[i] # c
<1> DEFINE T == {i \in DOMAIN w : w[i] = c} \cup {Len(w) + 1}
<1>1. Len(w) \in Nat /\ DOMAIN w = 1..Len(w)
  BY LenProperties
<1>2. T \subseteq Nat /\ T # {} /\ FirstAt(w, c) = Min(T)
  BY <1>1 DEF FirstAt
<1>3. Min(T) \in T /\ \A y \in T : Min(T) <= y
  <2> HIDE DEF T
  <2> QED
    BY <1>2, MinOf
<1>4. Min(T) \in 1..Len(w) + 1 /\ (Min(T) <= Len(w) => w[Min(T)] = c)
  BY <1>1, <1>3
<1>5. ASSUME NEW i \in 1..Len(w), i < Min(T) PROVE w[i] # c
  <2> SUFFICES ASSUME w[i] = c PROVE FALSE
    OBVIOUS
  <2>1. i \in T
    BY <1>1
  <2> HIDE DEF T
  <2>2. Min(T) <= i /\ Min(T) \in Nat /\ i \in Nat
    BY <1>2, <1>3, <2>1
  <2> QED
    BY <1>5, <2>2
<1> HIDE DEF T
<1> QED
  BY <1>2, <1>4, <1>5

\* And so it is k, if the first c is at k.
LEMMA FirstAtIs ==
  ASSUME NEW X, NEW w \in Seq(X), NEW c, NEW k \in 1..Len(w) + 1,
         k <= Len(w) => w[k] = c,
         \A i \in 1..Len(w) : i < k => w[i] # c
  PROVE  FirstAt(w, c) = k
<1>1. Len(w) \in Nat
  BY LenProperties
<1>2. /\ FirstAt(w, c) \in 1..Len(w) + 1
      /\ FirstAt(w, c) <= Len(w) => w[FirstAt(w, c)] = c
      /\ \A i \in 1..Len(w) : i < FirstAt(w, c) => w[i] # c
  BY FirstAtFinds
<1>3. ~(FirstAt(w, c) < k)
  BY <1>1, <1>2
<1>4. ~(k < FirstAt(w, c))
  BY <1>1, <1>2
<1> QED
  BY <1>1, <1>2, <1>3, <1>4

\* A piece of a sequence, empty if it would end before it starts.
LEMMA PieceType ==
  ASSUME NEW X, NEW s \in Seq(X), NEW a \in Nat, a >= 1, NEW b \in Int, b <= Len(s)
  PROVE  /\ SubSeq(s, a, b) \in Seq(X)
         /\ Len(SubSeq(s, a, b)) = IF a <= b THEN b - a + 1 ELSE 0
         /\ \A i \in 1..b - a + 1 : SubSeq(s, a, b)[i] = s[a + i - 1]
<1>1. \A i \in a..b : s[i] \in X
  BY ElementOfSeq, LenProperties
<1> QED
  BY <1>1, SubSeqProperties

\* The first n elements.
LEMMA Prefix ==
  ASSUME NEW X, NEW s \in Seq(X), NEW n \in Nat, n <= Len(s)
  PROVE  /\ SubSeq(s, 1, n) \in Seq(X)
         /\ Len(SubSeq(s, 1, n)) = n
         /\ \A i \in 1..n : SubSeq(s, 1, n)[i] = s[i]
<1>1. \A i \in 1..n : s[i] \in X
  BY ElementOfSeq, LenProperties
<1> QED
  BY <1>1, SubSeqProperties

\* ScanField passes over no more bytes than it is given, and its value is made of
\* some of them.
LEMMA ScanFieldType ==
  ASSUME NEW w \in Seq(Nat), NEW tag
  PROVE  /\ ScanField(w, tag).consumed \in 0..Len(w)
         /\ ScanField(w, tag).value \in Seq(Nat)
         /\ Len(ScanField(w, tag).value) <= Len(w)
<1> DEFINE eq    == FirstAt(w, EQUAL)
           soh   == FirstAt(w, SOH)
           named == eq < soh
           bad   == named /\ Number(SubSeq(w, 1, eq - 1)) # tag
           val   == SubSeq(w, eq + 1, soh - 1)
<1>1. Len(w) \in Nat /\ eq \in 1..Len(w) + 1 /\ soh \in 1..Len(w) + 1
  BY FirstAtFinds, LenProperties
<1>2. ScanField(w, tag) =
        [consumed |-> IF bad THEN eq ELSE Min({soh, Len(w)}),
         value    |-> IF named /\ ~bad THEN Without(val, EQUAL) ELSE <<>>]
  BY DEF ScanField
<1>3. val \in Seq(Nat) /\ Len(val) <= Len(w) /\ Len(val) \in Nat
  <2>1. eq + 1 \in Nat /\ eq + 1 >= 1 /\ soh - 1 \in Int /\ soh - 1 <= Len(w)
    BY <1>1
  <2> HIDE DEF eq, soh
  <2> QED
    BY <1>1, <2>1, PieceType, LenProperties
<1> HIDE DEF eq, soh, val
<1>4. /\ Without(val, EQUAL) \in Seq(Nat)
      /\ Len(Without(val, EQUAL)) \in Nat /\ Len(Without(val, EQUAL)) <= Len(w)
  BY <1>1, <1>3, WithoutType, LenProperties
<1>5. Min({soh, Len(w)}) \in 0..Len(w)
  <2> DEFINE T == {soh, Len(w)}
  <2>1. T \subseteq Nat /\ T # {} /\ Len(w) \in T
    BY <1>1
  <2>2. Min(T) \in T /\ \A y \in T : Min(T) <= y
    <3> HIDE DEF T
    <3> QED
      BY <2>1, MinOf
  <2>3. Min(T) \in Nat /\ Min(T) <= Len(w)
    <3> HIDE DEF T
    <3> QED
      BY <2>1, <2>2
  <2> QED
    BY <1>1, <2>3
<1>6. bad => eq \in 0..Len(w)
  BY <1>1
<1> HIDE DEF bad, named
<1>7. Len(<<>>) = 0 /\ <<>> \in Seq(Nat)
  OBVIOUS
<1> QED
  BY <1>1, <1>2, <1>4, <1>5, <1>6, <1>7

\* HandleMsg's msg_len is an integer; a BodyLength of other bytes than digits can
\* make it negative.
LEMMA MsgLenType ==
  ASSUME NEW v \in Seq(Nat), NEW b \in Seq(Nat), NEW ver, NEW body,
         ver.value = v, body.value = b
  PROVE  MsgLen(ver, body) \in Int
<1>1. StrLen(v) \in Int
  BY FirstAtFinds, LenProperties DEF StrLen
<1>2. b \in Seq(Int)
  BY SeqMonotonic, Nat \subseteq Int
<1>3. Number(b) \in Int /\ Len(b) \in Int
  BY <1>2, NumberType, LenProperties
<1> QED
  BY <1>1, <1>3 DEF MsgLen

-----------------------------------------------------------------------------
(* Decimal digits. *)

Digit == ZERO..ZERO + 9

\* The last digit of a number, and what is before it.
LEMMA LastDigit ==
  ASSUME NEW n \in Nat
  PROVE  /\ n \div 10 \in Nat /\ n % 10 \in 0..9 /\ n = ((n \div 10) * 10) + (n % 10)
         /\ n >= 10 => n \div 10 < n /\ n \div 10 >= 1
OBVIOUS

\* The recursive definition of ToString10 has a solution, which it then is.
LEMMA ToStringUnfolds ==
  ASSUME NEW n \in Nat
  PROVE  ToString10[n] = IF n < 10 THEN <<ZERO + n>>
                         ELSE Append(ToString10[n \div 10], ZERO + (n % 10))
<1> DEFINE X == Seq(Nat)
           m == [x \in Nat |-> x]
           E(x, f) == IF x < 10 THEN <<ZERO + x>>
                      ELSE Append(f[x \div 10], ZERO + (x % 10))
           st == [x \in Nat |-> [f \in [Nat -> X] |-> E(x, f)]]
<1>1. m \in [Nat -> Nat] /\ X # {}
  <2>1. <<>> \in X
    OBVIOUS
  <2> QED
    BY <2>1
<1>2. \A x \in Nat, f \in [Nat -> X] : E(x, f) \in X
  <2> SUFFICES ASSUME NEW x \in Nat, NEW f \in [Nat -> X] PROVE E(x, f) \in X
    OBVIOUS
  <2>1. x \div 10 \in Nat /\ ZERO + x \in Nat /\ ZERO + (x % 10) \in Nat
    BY LastDigit DEF ZERO
  <2> QED
    BY <2>1
<1>3. st \in [Nat -> [[Nat -> X] -> X]]
  <2> HIDE DEF E, X
  <2> QED
    BY <1>2
<1>4. Descends(Nat, m, X, st)
  <2> SUFFICES ASSUME NEW x \in Nat, NEW f \in [Nat -> X], NEW g \in [Nat -> X],
                      \A y \in Nat : m[y] < m[x] => f[y] = g[y]
               PROVE  E(x, f) = E(x, g)
    <3> HIDE DEF E, X, m
    <3> QED
      BY DEF Descends
  <2>1. CASE x < 10
    BY <2>1
  <2>2. CASE ~(x < 10)
    <3>1. x \div 10 \in Nat /\ m[x \div 10] < m[x]
      BY <2>2, LastDigit
    <3> HIDE DEF m, X
    <3> QED
      BY <2>2, <3>1
  <2> QED
    BY <2>1, <2>2
<1> DEFINE Def(f) == [x \in Nat |-> E(x, f)]
<1>5. \E f : f = Def(f)
  <2> HIDE DEF E, X, m
  <2>1. PICK f \in [Nat -> X] : Unfolds(f, Nat, st)
    <3> HIDE DEF st
    <3> QED
      BY <1>1, <1>3, <1>4, Recursion
  <2>2. f = Def(f)
    BY <2>1 DEF Unfolds
  <2> HIDE DEF Def
  <2> QED
    BY <2>2
<1>6. ToString10 = CHOOSE f : f = Def(f)
  BY DEF ToString10
<1>7. ToString10 = Def(ToString10)
  <2> HIDE DEF Def
  <2> QED
    BY <1>5, <1>6
<1>8. ToString10[n] = E(n, ToString10)
  <2> HIDE DEF E
  <2> QED
    BY <1>7
<1> QED
  BY <1>8

\* ToString10 writes digits, at least one, and fewer than a tenth of the number.
LEMMA ToStringType ==
  ASSUME NEW n \in Nat
  PROVE  /\ ToString10[n] \in Seq(Digit)
         /\ Len(ToString10[n]) \in 1..(n \div 10) + 1
<1> DEFINE P(k) == /\ ToString10[k] \in Seq(Digit)
                   /\ Len(ToString10[k]) \in 1..(k \div 10) + 1
           T == {i \in Nat : \A k \in 0..i : P(k)}
<1>1. ASSUME NEW k \in Nat, \A j \in Nat : j < k => P(j)
      PROVE  P(k)
  <2>1. CASE k < 10
    <3>1. ToString10[k] = <<ZERO + k>> /\ ZERO + k \in Digit
      <4>1. ZERO + k \in Digit
        BY <2>1 DEF Digit, ZERO
      <4> QED
        BY <2>1, <4>1, ToStringUnfolds
    <3>2. k \div 10 = 0
      BY <2>1
    <3> QED
      BY <3>1, <3>2
  <2>2. CASE ~(k < 10)
    <3> DEFINE q == k \div 10
               t == ToString10[q]
    <3>1. q \in Nat /\ q < k /\ q >= 1 /\ k % 10 \in 0..9
      BY <2>2, LastDigit
    <3>2. ToString10[k] = Append(t, ZERO + (k % 10)) /\ ZERO + (k % 10) \in Digit
      <4>1. ZERO + (k % 10) \in Digit
        BY <3>1 DEF Digit, ZERO
      <4> QED
        BY <2>2, <4>1, ToStringUnfolds
    <3>3. t \in Seq(Digit) /\ Len(t) \in 1..(q \div 10) + 1
      BY <1>1, <3>1
    <3>4. q \div 10 \in Nat /\ q \div 10 < q
      BY <3>1
    <3> HIDE DEF q, t
    <3>5. ToString10[k] \in Seq(Digit) /\ Len(ToString10[k]) = Len(t) + 1
      BY <3>2, <3>3, AppendProperties
    <3>6. Len(ToString10[k]) \in 1..q + 1
      BY <3>1, <3>3, <3>4, <3>5
    <3> QED
      BY <3>5, <3>6 DEF q
  <2> QED
    BY <2>1, <2>2
<1> HIDE DEF P
<1>2. 0 \in T
  <2>1. P(0)
    BY <1>1
  <2>2. \A k \in 0..0 : k = 0
    OBVIOUS
  <2> QED
    BY <2>1, <2>2
<1>3. ASSUME NEW i \in Nat, i \in T PROVE i + 1 \in T
  <2>1. P(i + 1)
    BY <1>1, <1>3
  <2>2. \A k \in 0..i + 1 : k = i + 1 \/ k \in 0..i
    OBVIOUS
  <2> QED
    BY <1>3, <2>1, <2>2
<1>4. n \in T
  <2> HIDE DEF T
  <2> QED
    BY <1>2, <1>3, SetInduction
<1>5. P(n)
  BY <1>4
<1> QED
  BY <1>5 DEF P

Shorter(m, k) == \A n \in Nat : n < m => Len(ToString10[n]) <= k

\* If all numbers below m have at most k digits, those below 10 m have one more.
LEMMA OneMoreDigit ==
  ASSUME NEW m \in Nat, m >= 1, NEW k \in Nat, k >= 1, Shorter(m, k),
         NEW M \in Nat, M = 10 * m
  PROVE  Shorter(M, k + 1)
<1> SUFFICES ASSUME NEW n \in Nat, n < 10 * m
             PROVE  Len(ToString10[n]) <= k + 1
  BY DEF Shorter
<1>1. CASE n < 10
  <2>1. ToString10[n] = <<ZERO + n>>
    BY <1>1, ToStringUnfolds
  <2> QED
    BY <2>1
<1>2. CASE ~(n < 10)
  <2> DEFINE q == n \div 10
             t == ToString10[q]
  <2>1. q \in Nat /\ q < m
    BY LastDigit
  <2>2. ToString10[n] = Append(t, ZERO + (n % 10)) /\ Len(t) <= k
    BY <1>2, <2>1, ToStringUnfolds DEF Shorter
  <2>3. t \in Seq(Digit) /\ ZERO + (n % 10) \in Digit /\ Len(t) \in Nat
    <3>1. n % 10 \in 0..9
      BY LastDigit
    <3>2. t \in Seq(Digit)
      BY <2>1, ToStringType
    <3> HIDE DEF t
    <3> QED
      BY <3>1, <3>2, LenProperties DEF Digit, ZERO
  <2> HIDE DEF t
  <2>4. Len(ToString10[n]) = Len(t) + 1
    BY <2>2, <2>3, AppendProperties
  <2> QED
    BY <2>2, <2>3, <2>4
<1> QED
  BY <1>1, <1>2

\* So a tag or a length below 1000 has at most 3 digits, a short 5, and an int 10.
LEMMA ToStringShort ==
  /\ Shorter(10, 1) /\ Shorter(100, 2) /\ Shorter(1000, 3)
  /\ Shorter(100000, 5) /\ Shorter(10000000000, 10)
<1>1. Shorter(10, 1)
  <2> SUFFICES ASSUME NEW n \in Nat, n < 10 PROVE Len(ToString10[n]) <= 1
    BY DEF Shorter
  <2>1. ToString10[n] = <<ZERO + n>>
    BY ToStringUnfolds
  <2> QED
    BY <2>1
<1>2. Shorter(100, 1 + 1)
  BY <1>1, 100 = 10 * 10, OneMoreDigit, SMT
<1>3. Shorter(1000, 2 + 1)
  BY <1>2, 1000 = 10 * 100, OneMoreDigit, SMT
<1>4. Shorter(10000, 3 + 1)
  BY <1>3, 10000 = 10 * 1000, OneMoreDigit, SMT
<1>5. Shorter(100000, 4 + 1)
  BY <1>4, 100000 = 10 * 10000, OneMoreDigit, SMT
<1>6. Shorter(1000000, 5 + 1)
  BY <1>5, 1000000 = 10 * 100000, OneMoreDigit, SMT
<1>7. Shorter(10000000, 6 + 1)
  BY <1>6, 10000000 = 10 * 1000000, OneMoreDigit, SMT
<1>8. Shorter(100000000, 7 + 1)
  BY <1>7, 100000000 = 10 * 10000000, OneMoreDigit, SMT
<1>9. Shorter(1000000000, 8 + 1)
  BY <1>8, 1000000000 = 10 * 100000000, OneMoreDigit, SMT
<1>10. Shorter(10000000000, 9 + 1)
  BY <1>9, 10000000000 = 10 * 1000000000, OneMoreDigit, SMT
<1> QED
  BY <1>1, <1>2, <1>3, <1>5, <1>10, SMT

\* A digit more is one round more of Number's loop.
LEMMA NumberAppend ==
  ASSUME NEW s \in Seq(Int), NEW c \in Int
  PROVE  Number(Append(s, c)) =
           IF Number(s) \in -IntCap..IntCap
           THEN (Number(s) * 10) + (c - ZERO) ELSE Number(s)
<1> DEFINE t == Append(s, c)
           L == Len(s)
<1>1. /\ t \in Seq(Int) /\ Len(t) = L + 1 /\ L \in Nat /\ t[L + 1] = c
      /\ \A i \in 1..L : t[i] = s[i]
  BY AppendProperties, LenProperties
<1> HIDE DEF t
<1>2. PICK f \in [0..L -> Int] : NumberRun(f, s) /\ Number(s) = f[L]
  BY NumberLoop
<1>3. PICK g \in [0..L + 1 -> Int] : NumberRun(g, t) /\ Number(t) = g[L + 1]
  BY <1>1, NumberLoop
<1> HIDE DEF L
<1> DEFINE T == {i \in 0..L : g[i] = f[i]}
<1>4. \A i \in 0..L : i \in T
  <2>1. 0 \in T
    BY <1>1, <1>2, <1>3 DEF NumberRun, L
  <2>2. ASSUME NEW i \in 1..L, i - 1 \in T PROVE i \in T
    <3>1. /\ i \in 0..L /\ i \in 1..L + 1 /\ g[i - 1] = f[i - 1] /\ t[i] = s[i]
          /\ i \in 1..Len(s) /\ i \in 1..Len(t)
      BY <1>1, <2>2, SMTT(30) DEF L
    <3>2. g[i] = f[i]
      BY <1>2, <1>3, <3>1 DEF NumberRun
    <3> QED
      BY <3>1, <3>2
  <2> HIDE DEF T
  <2> QED
    BY <1>1, <2>1, <2>2, LoopInduction
<1>5. g[L] = f[L] /\ (L + 1) - 1 = L /\ L + 1 \in 1..Len(t)
  BY <1>1, <1>4
<1>6. g[L + 1] = IF g[L] \in -IntCap..IntCap
                 THEN (g[L] * 10) + (c - ZERO) ELSE g[L]
  <2> DEFINE i == L + 1
  <2>1. i \in 1..Len(t) /\ i - 1 = L /\ t[i] = c
    BY <1>1, <1>5
  <2>2. g[i] = IF g[i - 1] \in -IntCap..IntCap
               THEN g[i - 1] * 10 + t[i] - ZERO ELSE g[i - 1]
    BY <1>3, <2>1, Zenon DEF NumberRun
  <2> HIDE DEF i
  <2>3. g[i] = IF g[L] \in -IntCap..IntCap
               THEN (g[L] * 10) + (c - ZERO) ELSE g[L]
    BY <2>1, <2>2, Zenon
  <2> QED
    BY <2>3 DEF i
<1> QED
  BY <1>2, <1>3, <1>5, <1>6 DEF t

\* No digit, no number.
LEMMA NumberEmpty == Number(<<>>) = 0
<1>1. <<>> \in Seq(Int) /\ Len(<<>>) = 0
  OBVIOUS
<1>2. PICK f \in [0..0 -> Int] : NumberRun(f, <<>>) /\ Number(<<>>) = f[0]
  BY <1>1, NumberLoop
<1> QED
  BY <1>2 DEF NumberRun

\* IntCap is a large number, and needs no other property in what follows.
LEMMA InsideCap ==
  /\ IntCap \in Nat
  /\ \A n \in Nat : n <= IntCap => n \in -IntCap..IntCap
<1>1. IntCap \in Nat
  BY SMT DEF IntCap
<1> QED
  BY <1>1

\* Number reads what ToString10 writes, of any number its cap lets through.
LEMMA NumberOfDigits ==
  ASSUME NEW n \in Nat, n \div 10 <= IntCap
  PROVE  Number(ToString10[n]) = n
<1> DEFINE P(k) == k \div 10 <= IntCap => Number(ToString10[k]) = k
           T == {i \in Nat : \A k \in 0..i : P(k)}
<1>1. ASSUME NEW k \in Nat, \A j \in Nat : j < k => P(j)
      PROVE  P(k)
  <2> SUFFICES ASSUME k \div 10 <= IntCap PROVE Number(ToString10[k]) = k
    OBVIOUS
  <2>1. CASE k < 10
    <3>1. ToString10[k] = <<ZERO + k>> /\ ZERO + k \in Int
      <4>1. ZERO + k \in Int
        BY DEF ZERO
      <4> QED
        BY <2>1, <4>1, ToStringUnfolds
    <3>2. <<>> \in Seq(Int) /\ <<ZERO + k>> = Append(<<>>, ZERO + k)
      OBVIOUS
    <3>3. 0 \in -IntCap..IntCap
      BY InsideCap
    <3>4. Number(ToString10[k]) = (0 * 10) + ((ZERO + k) - ZERO)
      BY <3>1, <3>2, <3>3, NumberEmpty, NumberAppend
    <3> QED
      BY <3>4 DEF ZERO
  <2>2. CASE ~(k < 10)
    <3> DEFINE q == k \div 10
               d == k % 10
               t == ToString10[q]
    <3>1. q \in Nat /\ q < k /\ d \in 0..9 /\ k = (q * 10) + d
      BY <2>2, LastDigit
    <3>2. ToString10[k] = Append(t, ZERO + d)
      BY <2>2, ToStringUnfolds
    <3>3. t \in Seq(Int) /\ ZERO + d \in Int
      <4>1. t \in Seq(Digit)
        BY <3>1, ToStringType
      <4>2. Digit \subseteq Int
        BY DEF Digit
      <4>3. ZERO + d \in Int
        BY <3>1 DEF ZERO
      <4> HIDE DEF t
      <4> QED
        BY <4>1, <4>2, <4>3, SeqMonotonic
    <3>4. q \div 10 <= IntCap /\ q \in -IntCap..IntCap
      <4>1. q <= IntCap
        OBVIOUS
      <4>2. q \div 10 <= q /\ q \div 10 \in Nat
        BY <3>1
      <4> HIDE DEF q
      <4>3. q \in -IntCap..IntCap
        BY <3>1, <4>1, InsideCap
      <4> QED
        BY <3>1, <4>1, <4>2, <4>3, InsideCap
    <3>5. Number(t) = q
      BY <1>1, <3>1, <3>4
    <3> HIDE DEF q, d, t
    <3>6. Number(ToString10[k]) = (q * 10) + ((ZERO + d) - ZERO)
      BY <3>2, <3>3, <3>4, <3>5, NumberAppend
    <3> QED
      BY <3>1, <3>6 DEF ZERO
  <2> QED
    BY <2>1, <2>2
<1> HIDE DEF P
<1>2. 0 \in T
  <2>1. P(0)
    BY <1>1
  <2>2. \A k \in 0..0 : k = 0
    OBVIOUS
  <2> QED
    BY <2>1, <2>2
<1>3. ASSUME NEW i \in Nat, i \in T PROVE i + 1 \in T
  <2>1. P(i + 1)
    BY <1>1, <1>3
  <2>2. \A k \in 0..i + 1 : k = i + 1 \/ k \in 0..i
    OBVIOUS
  <2> QED
    BY <1>3, <2>1, <2>2
<1>4. n \in T
  <2> HIDE DEF T
  <2> QED
    BY <1>2, <1>3, SetInduction
<1>5. P(n)
  BY <1>4
<1> QED
  BY <1>5 DEF P

-----------------------------------------------------------------------------
(* A field, written and read. *)

\* Two sequences one behind the other.
LEMMA Glue ==
  ASSUME NEW X, NEW s \in Seq(X), NEW t \in Seq(X), NEW p, Len(s) = p
  PROVE  /\ s \o t \in Seq(X)
         /\ Len(s \o t) = p + Len(t)
         /\ \A i \in 1..p : (s \o t)[i] = s[i]
         /\ \A i \in 1..Len(t) : (s \o t)[p + i] = t[i]
<1>1. p \in Nat /\ Len(t) \in Nat
  BY LenProperties
<1>2. /\ s \o t \in Seq(X) /\ Len(s \o t) = p + Len(t)
      /\ \A i \in 1..p + Len(t) :
           (s \o t)[i] = IF i <= p THEN s[i] ELSE t[i - p]
  BY ConcatProperties
<1>3. \A i \in 1..p : (s \o t)[i] = s[i]
  BY <1>1, <1>2
<1>4. ASSUME NEW i \in 1..Len(t) PROVE (s \o t)[p + i] = t[i]
  <2>1. p + i \in 1..p + Len(t) /\ ~(p + i <= p) /\ (p + i) - p = i
    BY <1>1
  <2> QED
    BY <1>2, <2>1
<1> QED
  BY <1>2, <1>3, <1>4

\* The bytes of a field one by one.
LEMMA FieldBytes ==
  ASSUME NEW X, Digit \subseteq X, EQUAL \in X, SOH \in X,
         NEW t \in Nat, NEW v \in Seq(X)
  PROVE  LET f == AppendFIX(t, v)
             a == Len(ToString10[t])
         IN  /\ f \in Seq(X) /\ Len(f) = (a + Len(v)) + 2
             /\ \A i \in 1..a : f[i] = ToString10[t][i]
             /\ f[a + 1] = EQUAL
             /\ \A i \in 1..Len(v) : f[(a + 1) + i] = v[i]
             /\ f[(a + Len(v)) + 2] = SOH
<1> DEFINE A == ToString10[t]
           a == Len(A)
           b == Len(v)
           g == A \o <<EQUAL>>
           h == g \o v
           f == h \o <<SOH>>
<1>1. A \in Seq(X) /\ a \in Nat /\ b \in Nat
  <2>1. A \in Seq(Digit)
    BY ToStringType
  <2> HIDE DEF A
  <2> QED
    BY <2>1, SeqMonotonic, LenProperties
<1>2. AppendFIX(t, v) = f
  BY DEF AppendFIX
<1> HIDE DEF A
<1>3. /\ g \in Seq(X) /\ Len(g) = a + 1 /\ g[a + 1] = EQUAL
      /\ \A i \in 1..a : g[i] = A[i]
  BY <1>1
<1> HIDE DEF g
<1>4. /\ h \in Seq(X) /\ Len(h) = (a + 1) + b
      /\ \A i \in 1..a + 1 : h[i] = g[i]
      /\ \A i \in 1..b : h[(a + 1) + i] = v[i]
  <2> DEFINE p == a + 1
  <2>1. g \in Seq(X) /\ Len(g) = p
    BY <1>3
  <2> HIDE DEF p
  <2>2. h \in Seq(X) /\ Len(h) = p + b
    BY <2>1, Glue
  <2>3. \A i \in 1..p : h[i] = g[i]
    BY <2>1, Glue
  <2>4. \A i \in 1..b : h[p + i] = v[i]
    BY <2>1, Glue, SMTT(30)
  <2> QED
    BY <2>2, <2>3, <2>4 DEF p
<1> HIDE DEF h
<1>5. /\ f \in Seq(X) /\ Len(f) = ((a + 1) + b) + 1
      /\ \A i \in 1..(a + 1) + b : f[i] = h[i]
      /\ f[((a + 1) + b) + 1] = SOH
  <2> DEFINE p == (a + 1) + b
             z == <<SOH>>
  <2>1. h \in Seq(X) /\ Len(h) = p /\ f = h \o z
    BY <1>4
  <2>2. z \in Seq(X)
    OBVIOUS
  <2>0. Len(z) = 1 /\ z[1] = SOH
    OBVIOUS
  <2> HIDE DEF p, z, f
  <2>3. /\ h \o z \in Seq(X) /\ Len(h \o z) = p + Len(z)
        /\ \A i \in 1..Len(z) : (h \o z)[p + i] = z[i]
    BY <2>1, <2>2, Glue, SMTT(30)
  <2>4. \A i \in 1..p : f[i] = h[i]
    BY <2>1, <2>2, Glue
  <2>6. f \in Seq(X) /\ Len(f) = p + 1 /\ f[p + 1] = SOH
    BY <2>0, <2>1, <2>3
  <2> QED
    BY <2>4, <2>6 DEF p
<1> HIDE DEF f
<1>6. Len(f) = (a + b) + 2 /\ f[(a + b) + 2] = SOH
  BY <1>1, <1>5
<1>7. \A i \in 1..a : f[i] = A[i]
  BY <1>1, <1>3, <1>4, <1>5
<1>8. f[a + 1] = EQUAL
  BY <1>1, <1>3, <1>4, <1>5
<1>9. \A i \in 1..b : f[(a + 1) + i] = v[i]
  BY <1>1, <1>4, <1>5
<1> QED
  BY <1>2, <1>5, <1>6, <1>7, <1>8, <1>9 DEF A

\* The tag of bytes that begin with its digits and '='.
LEMMA TagIs ==
  ASSUME NEW w \in Seq(Nat), NEW t \in Nat, t < 1000,
         Len(ToString10[t]) + 1 <= Len(w),
         \A i \in 1..Len(ToString10[t]) : w[i] = ToString10[t][i],
         w[Len(ToString10[t]) + 1] = EQUAL
  PROVE  /\ FirstAt(w, EQUAL) = Len(ToString10[t]) + 1
         /\ Number(SubSeq(w, 1, FirstAt(w, EQUAL) - 1)) = t
<1> DEFINE A == ToString10[t]
           a == Len(A)
<1>1. A \in Seq(Digit) /\ a \in Nat /\ A \in Seq(Nat) /\ Number(A) = t
  <2>1. A \in Seq(Digit) /\ Digit \subseteq Nat
    BY ToStringType, SMTT(30) DEF Digit, ZERO
  <2>2. t \div 10 <= IntCap
    BY SMT DEF IntCap
  <2>3. Number(A) = t
    BY <2>2, NumberOfDigits
  <2> HIDE DEF A
  <2> QED
    BY <2>1, <2>3, SeqMonotonic, LenProperties, ZenonT(40)
<1> HIDE DEF A
<1>2. \A i \in 1..a : w[i] = A[i] /\ A[i] # EQUAL
  <2> TAKE i \in 1..a
  <2>1. A[i] \in Digit
    BY <1>1, ElementOfSeq
  <2>2. w[i] = A[i]
    BY SMTT(30) DEF A
  <2>3. EQUAL \notin Digit
    BY DEF Digit, ZERO, EQUAL
  <2> QED
    BY <2>1, <2>2, <2>3
<1>3. Len(w) \in Nat /\ a + 1 \in 1..Len(w) + 1 /\ w[a + 1] = EQUAL
  BY <1>1, LenProperties DEF A
<1>4. FirstAt(w, EQUAL) = a + 1
  <2> DEFINE k == a + 1
  <2>1. \A i \in 1..Len(w) : i < k => w[i] # EQUAL
    BY <1>1, <1>2, SMTT(30)
  <2>2. k \in 1..Len(w) + 1 /\ w[k] = EQUAL
    BY <1>3
  <2> HIDE DEF k
  <2>3. FirstAt(w, EQUAL) = k
    BY <2>1, <2>2, FirstAtIs
  <2> QED
    BY <2>3 DEF k
<1>5. SubSeq(w, 1, a) = A
  <2>1. a <= Len(w)
    BY <1>1, <1>3 DEF A
  <2>2. /\ SubSeq(w, 1, a) \in Seq(Nat) /\ Len(SubSeq(w, 1, a)) = a
        /\ \A i \in 1..a : SubSeq(w, 1, a)[i] = w[i]
    <3>1. \A i \in 1..a : w[i] \in Nat
      BY <1>1, <1>3, <2>1, ElementOfSeq, SMTT(30)
    <3> QED
      BY <1>1, <3>1, SubSeqProperties
  <2> QED
    BY <1>1, <1>2, <2>2, SeqEqual
<1>6. (a + 1) - 1 = a
  BY <1>1
<1> QED
  BY <1>1, <1>4, <1>5, <1>6, ZenonT(40) DEF A

-----------------------------------------------------------------------------
(* DecodeHeader. *)

\* The greatest of some naturals up to b.
LEMMA MaxOf ==
  ASSUME NEW b \in Nat, NEW T, T \subseteq 0..b, T # {}
  PROVE  Max(T) \in T /\ \A y \in T : y <= Max(T)
<1> DEFINE U == {b - y : y \in T}
<1>1. U \subseteq Nat /\ U # {}
  <2>1. \A y \in T : y \in 0..b
    OBVIOUS
  <2>2. \A y \in T : b - y \in Nat
    BY <2>1
  <2> QED
    BY <2>2
<1>2. PICK m \in U : \A u \in U : m <= u
  <2> HIDE DEF U
  <2> QED
    BY <1>1, NatMin
<1>3. PICK x \in T : m = b - x
  OBVIOUS
<1>4. \A y \in T : x >= y
  <2> TAKE y \in T
  <2>1. b - y \in U /\ x \in Nat /\ y \in Nat
    OBVIOUS
  <2>2. b - x <= b - y
    BY <1>2, <1>3, <2>1
  <2> QED
    BY <2>1, <2>2
<1>5. Max(T) \in T /\ \A y \in T : Max(T) >= y
  BY <1>4 DEF Max
<1>6. \A y \in T : y \in Int
  OBVIOUS
<1> QED
  BY <1>5, <1>6

\* And so it is m, if m is the greatest.
LEMMA MaxIs ==
  ASSUME NEW b \in Nat, NEW T, T \subseteq 0..b, NEW m \in T, \A y \in T : y <= m
  PROVE  Max(T) = m
<1>1. Max(T) \in T /\ \A y \in T : y <= Max(T)
  BY MaxOf
<1>2. \A y \in T : y \in Int
  OBVIOUS
<1>3. Max(T) \in Int /\ m \in Int
  BY <1>1, <1>2
<1>4. m <= Max(T) /\ Max(T) <= m
  BY <1>1
<1> QED
  BY <1>3, <1>4

\* Where the field that ends at i begins.
FieldFrom(d, i) == Max({j \in SohIn(d) : j < i} \cup {0})

\* The field before a SOH starts behind the SOH before it, or with the message.
LEMMA FieldFromIs ==
  ASSUME NEW d \in Seq(Nat), NEW i \in SohIn(d), NEW m \in 0..i - 1,
         m = 0 \/ m \in SohIn(d), \A j \in SohIn(d) : j < i => j <= m
  PROVE  FieldFrom(d, i) = m
<1>1. Len(d) \in Nat /\ SohIn(d) \subseteq 1..Len(d)
  BY LenProperties DEF SohIn
<1> DEFINE T == {j \in SohIn(d) : j < i} \cup {0}
<1>2. T \subseteq 0..Len(d) /\ m \in T /\ \A y \in T : y <= m
  BY <1>1
<1>3. Max(T) = m
  <2> HIDE DEF T
  <2> QED
    BY <1>1, <1>2, MaxIs
<1> QED
  BY <1>3 DEF FieldFrom

\* DecodeHeader looks at the fields up to the first whose tag is not a header's.
LEMMA HeaderEndsAre ==
  ASSUME NEW d \in Seq(Nat), NEW i
  PROVE  i \in HeaderEnds(d) <=>
           /\ i \in SohIn(d)
           /\ \A j \in SohIn(d) : j <= i => TagOf(FieldBefore(d, j)) \in HeaderTags
<1>1. Len(d) \in Nat /\ SohIn(d) \subseteq 1..Len(d)
  BY LenProperties DEF SohIn
<1> DEFINE other == {j \in SohIn(d) : TagOf(FieldBefore(d, j)) \notin HeaderTags}
           T     == other \cup {Len(d) + 1}
<1>2. HeaderEnds(d) = {j \in SohIn(d) : j < Min(T)}
  BY DEF HeaderEnds, HeaderStop
<1>3. T \subseteq Nat /\ T # {}
  BY <1>1
<1>4. Min(T) \in T /\ \A y \in T : Min(T) <= y
  <2> HIDE DEF T
  <2> QED
    BY <1>3, MinOf
<1>a. Min(T) \in Nat /\ \A j \in SohIn(d) : j \in Nat
  <2>1. Min(T) \in Nat
    <3> HIDE DEF T
    <3> QED
      BY <1>3, <1>4
  <2> QED
    BY <1>1, <2>1
<1>5. ASSUME i \in SohIn(d), i < Min(T),
             NEW j \in SohIn(d), j <= i
      PROVE  TagOf(FieldBefore(d, j)) \in HeaderTags
  <2> SUFFICES ASSUME j \in other PROVE FALSE
    OBVIOUS
  <2>1. Min(T) <= j
    <3>1. j \in T
      OBVIOUS
    <3> HIDE DEF T
    <3> QED
      BY <1>4, <3>1
  <2>2. i \in Nat /\ j \in Nat /\ Min(T) \in Nat
    BY <1>a, <1>5
  <2> HIDE DEF T
  <2> QED
    BY <1>5, <2>1, <2>2
<1>6. ASSUME i \in SohIn(d),
             \A j \in SohIn(d) : j <= i => TagOf(FieldBefore(d, j)) \in HeaderTags
      PROVE  i < Min(T)
  <2>1. CASE Min(T) = Len(d) + 1
    <3> HIDE DEF T
    <3> QED
      BY <1>1, <1>6, <2>1
  <2>2. CASE Min(T) \in other
    <3>1. ~(Min(T) <= i)
      <4> HIDE DEF T
      <4> QED
        BY <1>6, <2>2
    <3>2. i \in Nat /\ Min(T) \in Nat
      BY <1>a, <1>6
    <3> HIDE DEF T
    <3> QED
      BY <3>1, <3>2
  <2> QED
    BY <1>4, <2>1, <2>2
<1> HIDE DEF T
<1> QED
  BY <1>2, <1>5, <1>6

\* It looks at none if the first tag is not a header's.
LEMMA HeaderStops ==
  ASSUME NEW d \in Seq(Nat), NEW t \in Nat, t < 1000, t \notin HeaderTags,
         Len(ToString10[t]) + 1 <= Len(d),
         \A i \in 1..Len(ToString10[t]) : d[i] = ToString10[t][i],
         d[Len(ToString10[t]) + 1] = EQUAL
  PROVE  HeaderEnds(d) = {}
<1> DEFINE A == ToString10[t]
           a == Len(A)
<1>1. /\ Len(d) \in Nat /\ SohIn(d) \subseteq 1..Len(d)
      /\ \A i \in SohIn(d) : d[i] = SOH
  BY LenProperties DEF SohIn
<1>2. A \in Seq(Digit) /\ a \in Nat
  <2>1. A \in Seq(Digit)
    BY ToStringType
  <2> HIDE DEF A
  <2> QED
    BY <2>1, LenProperties
<1>3. \A i \in 1..a + 1 : d[i] # SOH
  <2> TAKE i \in 1..a + 1
  <2>1. CASE i = a + 1
    BY <2>1 DEF SOH, EQUAL
  <2>2. CASE i # a + 1
    <3>1. i \in 1..a
      BY <1>2, <2>2
    <3>2. d[i] = A[i]
      BY <3>1
    <3> HIDE DEF A
    <3>3. A[i] \in Digit
      BY <1>2, <3>1, ElementOfSeq
    <3>4. SOH \notin Digit
      BY DEF SOH, Digit, ZERO
    <3> QED
      BY <3>2, <3>3, <3>4
  <2> QED
    BY <2>1, <2>2
<1> SUFFICES ASSUME NEW i \in HeaderEnds(d) PROVE FALSE
  OBVIOUS
<1>4. i \in SohIn(d)
  BY HeaderEndsAre
<1>5. PICK m \in SohIn(d) : \A j \in SohIn(d) : m <= j
  <2>1. SohIn(d) \subseteq Nat /\ SohIn(d) # {}
    BY <1>1, <1>4
  <2> QED
    BY ONLY <2>1, NatMin, Zenon
<1>6. m <= i /\ m \in 1..Len(d) /\ m \in Nat
  BY <1>1, <1>4, <1>5
<1>7. m > a + 1
  <2>1. d[m] = SOH
    BY <1>1
  <2> HIDE DEF A
  <2>2. m \notin 1..a + 1
    BY <1>3, <2>1
  <2> QED
    BY <1>2, <1>6, <2>2
<1> DEFINE w == SubSeq(d, 1, m - 1)
<1>8. FieldBefore(d, m) = w
  <2>1. FieldFrom(d, m) = 0
    <3>1. 0 \in 0..m - 1 /\ \A j \in SohIn(d) : ~(j < m)
      BY <1>1, <1>5, <1>6
    <3> QED
      BY <3>1, FieldFromIs
  <2>2. FieldBefore(d, m) = SubSeq(d, FieldFrom(d, m) + 1, m - 1)
    BY DEF FieldBefore, FieldFrom
  <2> QED
    BY <2>1, <2>2
<1>9. /\ w \in Seq(Nat) /\ Len(w) = m - 1
      /\ \A j \in 1..m - 1 : w[j] = d[j]
  <2>1. \A j \in 1..m - 1 : d[j] \in Nat
    BY <1>1, <1>6, ElementOfSeq
  <2> QED
    BY <1>6, <2>1, SubSeqProperties
<1>10. TagOf(w) = t
  <2> HIDE DEF w
  <2>1. /\ a + 1 <= Len(w) /\ w[a + 1] = d[a + 1]
        /\ \A j \in 1..a : w[j] = d[j]
    <3>1. a \in Nat /\ m \in Nat /\ m > a + 1
      BY <1>2, <1>6, <1>7
    <3> HIDE DEF A
    <3>2. a + 1 \in 1..m - 1 /\ \A j \in 1..a : j \in 1..m - 1
      BY <3>1
    <3>3. a + 1 <= Len(w)
      BY <1>9, <3>1
    <3> QED
      BY <1>9, <3>2, <3>3, SMTT(30)
  <2>2. w[a + 1] = EQUAL /\ \A j \in 1..a : w[j] = A[j]
    BY <2>1
  <2> QED
    BY <1>9, <2>1, <2>2, TagIs, ZenonT(40) DEF TagOf
<1> QED
  BY <1>6, <1>8, <1>10, HeaderEndsAre, ZenonT(40)

\* A field of the header that can be read back: '=' and SOH are not in its value.
Readable(t, v) ==
  /\ t \in HeaderTags /\ v \in Seq(Nat)
  /\ \A i \in 1..Len(v) : v[i] # SOH /\ v[i] # EQUAL

\* Such a field, in front of any other bytes.
LEMMA InFront ==
  ASSUME NEW t, NEW v, Readable(t, v), NEW rest \in Seq(Nat)
  PROVE  LET f == AppendFIX(t, v)
             L == Len(f)
             d == f \o rest
         IN  /\ t \in Nat /\ t < 1000 /\ L \in Nat /\ L >= 2
             /\ L = (Len(ToString10[t]) + Len(v)) + 2
             /\ f \in Seq(Nat) /\ d \in Seq(Nat) /\ Len(d) = L + Len(rest)
             /\ \A i \in 1..L : d[i] = f[i]
             /\ \A i \in 1..Len(rest) : d[L + i] = rest[i]
             /\ f[L] = SOH /\ \A i \in 1..L - 1 : f[i] # SOH
<1> DEFINE A == ToString10[t]
           a == Len(A)
           b == Len(v)
           f == AppendFIX(t, v)
           L == Len(f)
           d == f \o rest
<1>1. t \in Nat /\ t < 1000
  BY DEF Readable, HeaderTags, BeginString, BodyLength, MsgType, SenderCompID,
         TargetCompID, MsgSeqNum, SenderSubID, TargetSubID, PossDupFlag,
         PossResend, SendingTime, OrigSendingTime
<1>2. A \in Seq(Digit) /\ a \in Nat /\ a >= 1 /\ b \in Nat /\ v \in Seq(Nat)
  <2>1. A \in Seq(Digit) /\ a \in 1..(t \div 10) + 1
    BY <1>1, ToStringType
  <2>2. v \in Seq(Nat) /\ b \in Nat
    BY LenProperties DEF Readable
  <2> HIDE DEF A
  <2> QED
    BY <2>1, <2>2, LenProperties
<1>3. /\ f \in Seq(Nat) /\ L = (a + b) + 2
      /\ \A i \in 1..a : f[i] = A[i]
      /\ f[a + 1] = EQUAL
      /\ \A i \in 1..b : f[(a + 1) + i] = v[i]
      /\ f[(a + b) + 2] = SOH
  <2>1. Digit \subseteq Nat /\ EQUAL \in Nat /\ SOH \in Nat
    BY DEF Digit, ZERO, EQUAL, SOH
  <2>2. t \in Nat /\ v \in Seq(Nat)
    BY <1>1, <1>2
  <2> QED
    BY ONLY <2>1, <2>2, FieldBytes, ZenonT(40)
<1> HIDE DEF f
<1>a. f \in Seq(Nat)
  BY <1>3
<1>4. d \in Seq(Nat) /\ Len(d) = L + Len(rest)
  BY <1>a, Glue
<1>5. \A i \in 1..L : d[i] = f[i]
  BY <1>a, Glue
<1>6. \A i \in 1..Len(rest) : d[L + i] = rest[i]
  BY <1>a, Glue
<1>7. L \in Nat /\ L >= 2 /\ f[L] = SOH
  BY <1>2, <1>3
<1>8. ASSUME NEW i \in 1..L - 1 PROVE f[i] # SOH
  <2>1. i \in 1..(a + b) + 1
    BY <1>2, <1>3
  <2>2. CASE i <= a
    <3>a. a \in Nat /\ b \in Nat
      BY <1>2
    <3> HIDE DEF A, a, b
    <3>0. i \in 1..a
      BY <3>a, <2>1, <2>2
    <3>1. f[i] = A[i]
      BY <1>3, <3>0
    <3> USE DEF a
    <3>2. A[i] \in Digit
      BY <1>2, <3>0, ElementOfSeq
    <3>3. SOH \notin Digit
      BY DEF SOH, Digit, ZERO
    <3> QED
      BY <3>1, <3>2, <3>3
  <2>3. CASE i = a + 1
    BY <1>3, <2>3 DEF SOH, EQUAL
  <2>4. CASE i > a + 1
    <3> DEFINE j == i - (a + 1)
    <3>a. a \in Nat /\ b \in Nat
      BY <1>2
    <3> HIDE DEF A, a, b
    <3>0. i \in Int
      BY <2>1
    <3>1. j \in 1..b /\ i = (a + 1) + j
      BY <3>a, <3>0, <2>1, <2>4
    <3> HIDE DEF j
    <3>2. f[i] = v[j]
      BY <1>3, <3>1
    <3>3. v[j] # SOH
      BY <3>1 DEF Readable, b
    <3> QED
      BY <3>2, <3>3
  <2> QED
    BY <1>2, <2>1, <2>2, <2>3, <2>4
<1> HIDE DEF d, L, A
<1> QED
  BY <1>1, <1>3, <1>4, <1>5, <1>6, <1>7, <1>8, ZenonT(40) DEF d, L, f, A

\* Where its SOH is, and those behind it.
LEMMA SohBehind ==
  ASSUME NEW t, NEW v, Readable(t, v), NEW rest \in Seq(Nat), NEW i \in Nat
  PROVE  LET L == Len(AppendFIX(t, v))
             d == AppendFIX(t, v) \o rest
         IN  i \in SohIn(d) <=> i = L \/ (i > L /\ i - L \in SohIn(rest))
<1> DEFINE f == AppendFIX(t, v)
           L == Len(f)
           d == f \o rest
           r == Len(rest)
<1>1. /\ L \in Nat /\ L >= 2 /\ f \in Seq(Nat) /\ d \in Seq(Nat) /\ Len(d) = L + r
      /\ \A j \in 1..L : d[j] = f[j]
      /\ \A j \in 1..r : d[L + j] = rest[j]
      /\ f[L] = SOH /\ \A j \in 1..L - 1 : f[j] # SOH
  BY InFront
<1>2. r \in Nat /\ DOMAIN rest = 1..r /\ DOMAIN d = 1..L + r
  BY <1>1, LenProperties
<1> HIDE DEF f, L, d
<1>3. CASE i < L
  <2>1. i \notin SohIn(d)
    <3>1. CASE i = 0
      <4>1. 0 \notin DOMAIN d
        BY <1>2
      <4> QED
        BY <3>1, <4>1 DEF SohIn
    <3>2. CASE i # 0
      <4>1. i \in 1..L - 1 /\ i \in 1..L
        BY <1>1, <1>3, <3>2
      <4>2. d[i] # SOH
        BY <1>1, <4>1
      <4> QED
        BY <4>2 DEF SohIn
    <3> QED
      BY <3>1, <3>2
  <2> QED
    BY <1>1, <1>3, <2>1 DEF d, f, L
<1>4. CASE i = L
  <2>1. i \in SohIn(d)
    BY <1>1, <1>2, <1>4 DEF SohIn
  <2> QED
    BY <1>4, <2>1 DEF d, f, L
<1>5. CASE i > L
  <2> DEFINE j == i - L
  <2>1. j \in Nat /\ j >= 1 /\ i = L + j
    BY <1>1, <1>5
  <2> HIDE DEF j
  <2>2. i \in SohIn(d) <=> j \in SohIn(rest)
    <3>1. CASE j <= r
      <4>1. j \in 1..r /\ i \in 1..L + r /\ d[i] = rest[j]
        BY <1>1, <1>2, <2>1, <3>1
      <4> QED
        BY <1>2, <4>1 DEF SohIn
    <3>2. CASE j > r
      <4>1. j \notin 1..r /\ i \notin 1..L + r
        BY <1>1, <1>2, <2>1, <3>2
      <4> QED
        BY <1>2, <4>1 DEF SohIn
    <3> QED
      BY <1>2, <2>1, <3>1, <3>2
  <2>3. i # L /\ i > L
    BY <1>1, <1>5
  <2> QED
    BY <2>2, <2>3 DEF d, f, L, j
<1> QED
  BY <1>1, <1>3, <1>4, <1>5

\* DecodeHeader finds the tag and the value of such a field.
LEMMA FirstField ==
  ASSUME NEW t, NEW v, Readable(t, v), NEW rest \in Seq(Nat)
  PROVE  LET L == Len(AppendFIX(t, v))
             w == FieldBefore(AppendFIX(t, v) \o rest, L)
         IN  TagOf(w) = t /\ ValueOf(w) = v
<1> DEFINE A == ToString10[t]
           a == Len(A)
           b == Len(v)
           f == AppendFIX(t, v)
           L == Len(f)
           d == f \o rest
           w == SubSeq(d, 1, L - 1)
<1>1. /\ t \in Nat /\ t < 1000 /\ L \in Nat /\ L >= 2 /\ L = (a + b) + 2
      /\ f \in Seq(Nat) /\ d \in Seq(Nat) /\ Len(d) = L + Len(rest)
      /\ \A i \in 1..L : d[i] = f[i]
      /\ f[L] = SOH /\ \A i \in 1..L - 1 : f[i] # SOH
  BY InFront
<1>2. A \in Seq(Digit) /\ a \in Nat /\ b \in Nat /\ v \in Seq(Nat)
  <2>1. A \in Seq(Digit)
    BY <1>1, ToStringType, ZenonT(40)
  <2>2. v \in Seq(Nat) /\ b \in Nat
    BY LenProperties DEF Readable
  <2> HIDE DEF A
  <2> QED
    BY <2>1, <2>2, LenProperties
<1>3. /\ \A i \in 1..a : f[i] = A[i]
      /\ f[a + 1] = EQUAL
      /\ \A i \in 1..b : f[(a + 1) + i] = v[i]
  <2>1. Digit \subseteq Nat /\ EQUAL \in Nat /\ SOH \in Nat
    BY DEF Digit, ZERO, EQUAL, SOH
  <2>2. t \in Nat /\ v \in Seq(Nat)
    BY <1>1, <1>2
  <2>3. /\ f \in Seq(Nat) /\ L = (a + b) + 2
        /\ \A i \in 1..a : f[i] = A[i]
        /\ f[a + 1] = EQUAL
        /\ \A i \in 1..b : f[(a + 1) + i] = v[i]
        /\ f[(a + b) + 2] = SOH
    BY ONLY <2>1, <2>2, FieldBytes, ZenonT(40)
  <2> HIDE DEF A, f
  <2> QED
    BY <2>3
<1> HIDE DEF f, d
<1>a. Len(d) \in Nat /\ DOMAIN d = 1..Len(d) /\ L <= Len(d) /\ Len(rest) \in Nat
  <2>1. Len(d) \in Nat /\ DOMAIN d = 1..Len(d) /\ Len(rest) \in Nat
    BY <1>1, LenProperties
  <2> HIDE DEF L
  <2> QED
    BY <1>1, <2>1
<1>4. FieldBefore(d, L) = w
  <2>1. L \in SohIn(d) /\ \A j \in SohIn(d) : ~(j < L)
    <3>1. L \in SohIn(d)
      BY SohBehind, <1>1 DEF d, f, L
    <3>2. ASSUME NEW j \in SohIn(d), j < L PROVE FALSE
      <4>1. j \in Nat
        BY <1>a DEF SohIn
      <4>2. j = L \/ (j > L /\ j - L \in SohIn(rest))
        BY <4>1, SohBehind DEF d, f, L
      <4> HIDE DEF L
      <4> QED
        BY <1>1, <3>2, <4>1, <4>2, SMTT(30)
    <3> QED
      BY <3>1, <3>2
  <2>2. FieldFrom(d, L) = 0
    <3>1. 0 \in 0..L - 1
      BY <1>1
    <3> QED
      BY <1>1, <2>1, <3>1, FieldFromIs, ZenonT(40)
  <2>3. FieldBefore(d, L) = SubSeq(d, FieldFrom(d, L) + 1, L - 1)
    BY DEF FieldBefore, FieldFrom
  <2>4. 0 + 1 = 1
    OBVIOUS
  <2> QED
    BY <2>2, <2>3, <2>4
<1>5. /\ w \in Seq(Nat) /\ Len(w) = L - 1
      /\ \A j \in 1..L - 1 : w[j] = d[j]
  <2>1. L \in Nat /\ L >= 2 /\ L <= Len(d) /\ Len(d) \in Nat
    BY <1>1, <1>a
  <2> HIDE DEF L
  <2>2. L - 1 \in Nat /\ L - 1 <= Len(d)
    BY <2>1
  <2> QED
    BY <1>1, <2>2, Prefix, ZenonT(40)
<1>6. \A j \in 1..(a + b) + 1 : w[j] = f[j]
  <2> HIDE DEF w, A, a, b, L
  <2>1. \A j \in 1..(a + b) + 1 : j \in 1..L - 1 /\ j \in 1..L
    BY <1>1, <1>2
  <2>2. \A j \in 1..L : d[j] = f[j]
    BY ONLY <1>1, ZenonT(40)
  <2>3. \A j \in 1..L - 1 : w[j] = d[j]
    BY ONLY <1>5, ZenonT(40)
  <2> QED
    BY ONLY <2>1, <2>2, <2>3, ZenonT(40)
<1>7. /\ a + 1 <= Len(w) /\ w[a + 1] = EQUAL
      /\ \A i \in 1..a : w[i] = A[i]
      /\ \A i \in 1..b : w[(a + 1) + i] = v[i]
  <2> HIDE DEF w, A, a, b, L
  <2>1. a + 1 <= Len(w)
    BY <1>1, <1>2, <1>5
  <2>2. a + 1 \in 1..(a + b) + 1
    BY <1>2
  <2>3. w[a + 1] = EQUAL
    BY <1>3, <1>6, <2>2
  <2>4. \A i \in 1..a : w[i] = A[i]
    BY <1>2, <1>3, <1>6
  <2>5. ASSUME NEW i \in 1..b PROVE w[(a + 1) + i] = v[i]
    <3>1. (a + 1) + i \in 1..(a + b) + 1
      BY <1>2
    <3> QED
      BY <1>3, <1>6, <3>1
  <2> QED
    BY <2>1, <2>3, <2>4, <2>5
<1> HIDE DEF w
<1>8. FirstAt(w, EQUAL) = a + 1 /\ TagOf(w) = t
  BY <1>1, <1>5, <1>7, TagIs, ZenonT(40) DEF TagOf
<1>9. SubSeq(w, a + 2, Len(w)) = v
  <2> DEFINE u == SubSeq(w, a + 2, Len(w))
  <2> HIDE DEF A, a, L
  <2>1. Len(w) = (a + b) + 1 /\ a + 2 \in Nat /\ a + 2 >= 1
    BY <1>1, <1>2, <1>5
  <2>2. /\ u \in Seq(Nat)
        /\ Len(u) = IF a + 2 <= Len(w) THEN (Len(w) - (a + 2)) + 1 ELSE 0
        /\ \A i \in 1..(Len(w) - (a + 2)) + 1 : u[i] = w[(a + 2) + i - 1]
    BY <1>2, <1>5, <2>1, PieceType, SMTT(30)
  <2>3. Len(u) = b
    BY <1>2, <2>1, <2>2
  <2>4. ASSUME NEW i \in 1..b PROVE u[i] = v[i]
    <3>1. i \in 1..(Len(w) - (a + 2)) + 1 /\ (a + 2) + i - 1 = (a + 1) + i
      BY <1>2, <2>1
    <3> QED
      BY <1>7, <2>2, <3>1
  <2>5. u \in Seq(Nat) /\ v \in Seq(Nat) /\ Len(v) = b
    BY <1>2, <2>2
  <2> HIDE DEF u
  <2>6. u = v
    BY <2>3, <2>4, <2>5, SeqEqual
  <2> QED
    BY <2>6 DEF u
<1>10. ValueOf(w) = v
  <2>1. ValueOf(w) = Without(v, EQUAL)
    <3>1. (a + 1) + 1 = a + 2
      BY <1>2
    <3> QED
      BY <1>8, <1>9, <3>1 DEF ValueOf
  <2>2. \A i \in 1..Len(v) : v[i] # EQUAL
    BY DEF Readable
  <2> QED
    BY <1>2, <2>1, <2>2, WithoutNone
<1> HIDE DEF L
<1> QED
  BY <1>4, <1>8, <1>10 DEF d, f, L

\* And behind it, the fields that the bytes behind it have.
LEMMA FieldBehind ==
  ASSUME NEW t, NEW v, Readable(t, v), NEW rest \in Seq(Nat), NEW i \in SohIn(rest)
  PROVE  LET L == Len(AppendFIX(t, v))
         IN  FieldBefore(AppendFIX(t, v) \o rest, L + i) = FieldBefore(rest, i)
<1> DEFINE f == AppendFIX(t, v)
           L == Len(f)
           d == f \o rest
           r == Len(rest)
           m == FieldFrom(rest, i)
<1>1. /\ L \in Nat /\ L >= 2 /\ d \in Seq(Nat) /\ Len(d) = L + r
      /\ \A j \in 1..r : d[L + j] = rest[j]
  BY InFront
<1>2. r \in Nat /\ SohIn(rest) \subseteq 1..r /\ i \in 1..r
  BY LenProperties DEF SohIn
<1>3. ASSUME NEW j \in Nat
      PROVE  j \in SohIn(d) <=> j = L \/ (j > L /\ j - L \in SohIn(rest))
  BY SohBehind
<1>4. /\ m \in 0..i - 1 /\ (m = 0 \/ m \in SohIn(rest))
      /\ \A j \in SohIn(rest) : j < i => j <= m
  <2> DEFINE T == {j \in SohIn(rest) : j < i} \cup {0}
  <2>1. T \subseteq 0..r /\ T # {}
    BY <1>2
  <2>2. m = Max(T)
    BY DEF FieldFrom
  <2>3. Max(T) \in T /\ \A y \in T : y <= Max(T)
    <3> HIDE DEF T
    <3> QED
      BY <1>2, <2>1, MaxOf
  <2> HIDE DEF m
  <2>4. m \in T /\ \A y \in T : y <= m
    BY <2>2, <2>3
  <2> QED
    BY <1>2, <2>4
<1> HIDE DEF f, L, d, m
<1>5. L + i \in SohIn(d) /\ L + m \in SohIn(d)
  <2>1. L + i \in Nat /\ L + i > L /\ (L + i) - L = i
    <3>1. i \in Nat /\ i > 0 /\ L \in Nat
      BY <1>1, <1>2, SMTT(30)
    <3> QED
      BY ONLY <3>1
  <2>2. L + i \in SohIn(d)
    BY <1>3, <2>1
  <2>3. CASE m = 0
    BY <1>1, <1>3, <2>2, <2>3
  <2>4. CASE m \in SohIn(rest)
    <3>1. L + m \in Nat /\ L + m > L /\ (L + m) - L = m
      <4>1. m \in Nat /\ m > 0 /\ L \in Nat
        BY <1>1, <1>2, <2>4
      <4> QED
        BY ONLY <4>1
    <3> QED
      BY <1>3, <2>2, <2>4, <3>1
  <2> QED
    BY <1>4, <2>3, <2>4
<1>6. FieldFrom(d, L + i) = L + m
  <2>1. L + m \in 0..(L + i) - 1
    BY <1>1, <1>2, <1>4
  <2>2. ASSUME NEW j \in SohIn(d), j < L + i PROVE j <= L + m
    <3>1. j \in Nat
      BY <1>1, LenProperties DEF SohIn
    <3>2. CASE j = L
      BY <1>1, <1>2, <1>4, <3>2
    <3>3. CASE j > L /\ j - L \in SohIn(rest)
      <4>1. j - L < i
        BY <1>1, <1>2, <2>2, <3>1
      <4>2. j - L <= m
        BY <1>4, <3>3, <4>1
      <4>3. m \in Int
        BY <1>2, <1>4
      <4> QED
        BY <1>1, <3>1, <4>2, <4>3
    <3> QED
      BY <1>3, <3>1, <3>2, <3>3
  <2> QED
    BY <1>1, <1>5, <2>1, <2>2, FieldFromIs
<1>7. FieldBefore(d, L + i) = SubSeq(d, (L + m) + 1, (L + i) - 1)
  BY <1>6 DEF FieldBefore, FieldFrom
<1>8. FieldBefore(rest, i) = SubSeq(rest, m + 1, i - 1)
  BY DEF FieldBefore, FieldFrom, m
<1>9. SubSeq(d, (L + m) + 1, (L + i) - 1) = SubSeq(rest, m + 1, i - 1)
  <2> DEFINE x == SubSeq(d, (L + m) + 1, (L + i) - 1)
             y == SubSeq(rest, m + 1, i - 1)
             n == (i - m) - 1
  <2>1. /\ m + 1 \in Nat /\ m + 1 >= 1 /\ i - 1 \in Int /\ i - 1 <= r
        /\ (L + m) + 1 \in Nat /\ (L + m) + 1 >= 1
        /\ (L + i) - 1 \in Int /\ (L + i) - 1 <= Len(d)
    BY <1>1, <1>2, <1>4, SMTT(30)
  <2>0. m \in Int /\ i \in Int /\ L \in Int /\ n \in Nat
    BY <1>1, <1>2, <1>4
  <2>2. /\ x \in Seq(Nat)
        /\ Len(x) = IF (L + m) + 1 <= (L + i) - 1
                    THEN (((L + i) - 1) - ((L + m) + 1)) + 1 ELSE 0
        /\ \A j \in 1..(((L + i) - 1) - ((L + m) + 1)) + 1 :
             x[j] = d[((L + m) + 1) + j - 1]
    <3> DEFINE p == (L + m) + 1
               q == (L + i) - 1
    <3>1. p \in Nat /\ p >= 1 /\ q \in Int /\ q <= Len(d)
      BY <2>1
    <3> HIDE DEF p, q
    <3>2. /\ SubSeq(d, p, q) \in Seq(Nat)
          /\ Len(SubSeq(d, p, q)) = IF p <= q THEN q - p + 1 ELSE 0
          /\ \A j \in 1..q - p + 1 : SubSeq(d, p, q)[j] = d[p + j - 1]
      BY <1>1, <3>1, PieceType
    <3> QED
      BY <3>2 DEF p, q
  <2>3. /\ y \in Seq(Nat)
        /\ Len(y) = IF m + 1 <= i - 1 THEN ((i - 1) - (m + 1)) + 1 ELSE 0
        /\ \A j \in 1..((i - 1) - (m + 1)) + 1 : y[j] = rest[(m + 1) + j - 1]
    <3> DEFINE p == m + 1
               q == i - 1
    <3>1. p \in Nat /\ p >= 1 /\ q \in Int /\ q <= Len(rest)
      BY <2>1
    <3> HIDE DEF p, q
    <3>2. /\ SubSeq(rest, p, q) \in Seq(Nat)
          /\ Len(SubSeq(rest, p, q)) = IF p <= q THEN q - p + 1 ELSE 0
          /\ \A j \in 1..q - p + 1 : SubSeq(rest, p, q)[j] = rest[p + j - 1]
      BY <3>1, PieceType
    <3> QED
      BY <3>2 DEF p, q
  <2> HIDE DEF x, y, n
  <2>4. Len(x) = n /\ Len(y) = n
    BY <2>0, <2>2, <2>3 DEF n
  <2>5. ASSUME NEW j \in 1..n PROVE x[j] = y[j]
    <3>1. /\ j \in 1..(((L + i) - 1) - ((L + m) + 1)) + 1
          /\ j \in 1..((i - 1) - (m + 1)) + 1
          /\ ((L + m) + 1) + j - 1 = L + (m + j)
          /\ (m + 1) + j - 1 = m + j
      BY <2>0 DEF n
    <3>2. m + j \in 1..r
      BY <1>2, <1>4, <2>0 DEF n
    <3> QED
      BY <1>1, <2>2, <2>3, <3>1, <3>2
  <2> QED
    BY <2>2, <2>3, <2>4, <2>5, SeqEqual DEF x, y
<1> QED
  BY <1>7, <1>8, <1>9 DEF d, f, L

\* Where the fields end that DecodeHeader looks at.
LEMMA EndsBehind ==
  ASSUME NEW t, NEW v, Readable(t, v), NEW rest \in Seq(Nat), NEW i \in Nat
  PROVE  LET L == Len(AppendFIX(t, v))
         IN  i \in HeaderEnds(AppendFIX(t, v) \o rest)
               <=> i = L \/ (i > L /\ i - L \in HeaderEnds(rest))
<1> DEFINE f == AppendFIX(t, v)
           L == Len(f)
           d == f \o rest
           Known(s, j) == TagOf(FieldBefore(s, j)) \in HeaderTags
<1>1. L \in Nat /\ d \in Seq(Nat)
  BY InFront
<1>2. /\ \A j \in SohIn(rest) : j \in Nat /\ j >= 1
      /\ \A j \in SohIn(d) : j \in Nat
  BY <1>1, LenProperties DEF SohIn
<1>3. ASSUME NEW j \in Nat
      PROVE  j \in SohIn(d) <=> j = L \/ (j > L /\ j - L \in SohIn(rest))
  BY SohBehind
<1>4. Known(d, L)
  <2>1. TagOf(FieldBefore(d, L)) = t
    BY FirstField
  <2> QED
    BY <2>1 DEF Readable
<1>5. ASSUME NEW j \in SohIn(rest) PROVE Known(d, L + j) <=> Known(rest, j)
  BY FieldBehind
<1>6. ASSUME NEW j
      PROVE  j \in HeaderEnds(d) <=>
               j \in SohIn(d) /\ \A k \in SohIn(d) : k <= j => Known(d, k)
  BY <1>1, HeaderEndsAre
<1>7. ASSUME NEW j
      PROVE  j \in HeaderEnds(rest) <=>
               j \in SohIn(rest) /\ \A k \in SohIn(rest) : k <= j => Known(rest, k)
  BY HeaderEndsAre
<1> HIDE DEF f, L, d, Known
<1>8. CASE i = L
  <2>1. L \in SohIn(d)
    BY <1>1, <1>3
  <2>2. ASSUME NEW k \in SohIn(d), k <= L PROVE Known(d, k)
    <3>1. k = L
      BY <1>1, <1>2, <1>3, <2>2
    <3> QED
      BY <1>4, <3>1
  <2>3. L \in HeaderEnds(d)
    BY <1>6, <2>1, <2>2
  <2> QED
    BY <1>8, <2>3 DEF d, f, L
<1>9. CASE i < L
  <2>1. i \notin SohIn(d)
    BY <1>1, <1>3, <1>9
  <2>2. i \notin HeaderEnds(d)
    BY <1>6, <2>1
  <2>3. ~(i = L) /\ ~(i > L)
    BY <1>1, <1>9
  <2> QED
    BY <2>2, <2>3 DEF d, f, L
<1>10. CASE i > L
  <2> DEFINE j == i - L
  <2>1. j \in Nat /\ j >= 1 /\ i = L + j
    BY <1>1, <1>10
  <2> HIDE DEF j
  <2>2. i \in SohIn(d) <=> j \in SohIn(rest)
    BY <1>1, <1>3, <1>10 DEF j
  <2>3. ASSUME \A k \in SohIn(d) : k <= i => Known(d, k),
               NEW k \in SohIn(rest), k <= j
        PROVE  Known(rest, k)
    <3>1. k \in Nat /\ L + k \in Nat /\ L + k > L /\ (L + k) - L = k /\ L + k <= i
      BY <1>1, <1>2, <2>1, <2>3
    <3>2. L + k \in SohIn(d)
      BY <1>3, <3>1
    <3> QED
      BY <1>5, <2>3, <3>1, <3>2
  <2>4. ASSUME \A k \in SohIn(rest) : k <= j => Known(rest, k),
               NEW k \in SohIn(d), k <= i
        PROVE  Known(d, k)
    <3>1. k \in Nat
      BY <1>2
    <3>2. CASE k = L
      BY <1>4, <3>2
    <3>3. CASE k > L /\ k - L \in SohIn(rest)
      <4>1. k - L <= j /\ L + (k - L) = k
        BY <1>1, <2>1, <2>4, <3>1
      <4>2. Known(rest, k - L)
        BY <2>4, <3>3, <4>1
      <4>3. Known(d, L + (k - L))
        BY <1>5, <3>3, <4>2
      <4> QED
        BY <4>1, <4>3
    <3> QED
      BY <1>3, <3>1, <3>2, <3>3
  <2>5. i \in HeaderEnds(d) <=> j \in HeaderEnds(rest)
    BY <1>6, <1>7, <2>2, <2>3, <2>4
  <2>6. i # L /\ i > L
    BY <1>1, <1>10
  <2> QED
    BY <2>5, <2>6 DEF d, f, L, j
<1> QED
  BY <1>1, <1>8, <1>9, <1>10

\* The header of d has the tags of T only, with the values V.
Reads(d, T, V) ==
  /\ \A tag \in T : DecodeHeader(d, tag) = V[tag]
  /\ \A i \in HeaderEnds(d) : TagOf(FieldBefore(d, i)) \in T

\* Bytes whose first tag is not a header's have none.
LEMMA ReadsNothing ==
  ASSUME NEW d, HeaderEnds(d) = {}, NEW V
  PROVE  Reads(d, {}, V)
BY DEF Reads

\* A field in front adds its tag, if the bytes behind it do not have it.
LEMMA ReadsField ==
  ASSUME NEW t, NEW v, Readable(t, v), NEW rest \in Seq(Nat),
         NEW T, NEW V, Reads(rest, T, V), t \notin T, V[t] = v
  PROVE  Reads(AppendFIX(t, v) \o rest, T \cup {t}, V)
<1> DEFINE f == AppendFIX(t, v)
           L == Len(f)
           d == f \o rest
           At(s, tag) == {i \in HeaderEnds(s) : TagOf(FieldBefore(s, i)) = tag}
<1>1. L \in Nat /\ d \in Seq(Nat) /\ Len(d) = L + Len(rest)
  BY InFront
<1>a. Len(rest) \in Nat /\ Len(d) \in Nat
  BY <1>1, LenProperties
<1>2. /\ \A j \in HeaderEnds(rest) : j \in 1..Len(rest) /\ j \in SohIn(rest)
      /\ \A j \in HeaderEnds(d) : j \in 1..Len(d)
  <2>1. DOMAIN rest = 1..Len(rest) /\ DOMAIN d = 1..Len(d)
    BY <1>1, LenProperties
  <2>2. \A j \in HeaderEnds(rest) : j \in SohIn(rest)
    BY HeaderEndsAre
  <2>3. \A j \in HeaderEnds(d) : j \in SohIn(d)
    BY <1>1, HeaderEndsAre
  <2> HIDE DEF d
  <2> QED
    BY <2>1, <2>2, <2>3 DEF SohIn
<1>3. ASSUME NEW i \in Nat
      PROVE  i \in HeaderEnds(d) <=> i = L \/ (i > L /\ i - L \in HeaderEnds(rest))
  BY EndsBehind
<1>4. TagOf(FieldBefore(d, L)) = t /\ ValueOf(FieldBefore(d, L)) = v
  BY FirstField
<1>5. \A j \in HeaderEnds(rest) : FieldBefore(d, L + j) = FieldBefore(rest, j)
  <2> TAKE j \in HeaderEnds(rest)
  <2>1. j \in SohIn(rest)
    BY <1>2
  <2> QED
    BY <2>1, FieldBehind
<1> HIDE DEF f, L, d
<1>6. \A i \in HeaderEnds(d) : i # L => i - L \in HeaderEnds(rest) /\ L + (i - L) = i
  BY <1>1, <1>a, <1>2, <1>3
<1>7. ASSUME NEW j \in HeaderEnds(rest) PROVE L + j \in HeaderEnds(d)
  <2>1. L + j \in Nat /\ L + j > L /\ (L + j) - L = j
    BY <1>1, <1>a, <1>2, SMTT(30)
  <2> QED
    BY <1>3, <2>1
<1>8. L \in HeaderEnds(d)
  BY <1>1, <1>3
<1>9. ASSUME NEW i \in HeaderEnds(d) PROVE TagOf(FieldBefore(d, i)) \in T \cup {t}
  <2>1. CASE i = L
    BY <1>4, <2>1
  <2>2. CASE i # L
    <3>1. i - L \in HeaderEnds(rest) /\ L + (i - L) = i
      BY <1>6, <2>2
    <3>2. FieldBefore(d, i) = FieldBefore(rest, i - L)
      BY <1>5, <3>1
    <3> QED
      BY <3>1, <3>2 DEF Reads
  <2> QED
    BY <2>1, <2>2
<1>10. DecodeHeader(d, t) = v
  <2>1. At(d, t) = {L}
    <3>1. ASSUME NEW i \in At(d, t), i # L PROVE FALSE
      <4>1. i - L \in HeaderEnds(rest) /\ L + (i - L) = i
        BY <1>6, <3>1
      <4>2. FieldBefore(d, i) = FieldBefore(rest, i - L)
        BY <1>5, <4>1
      <4>3. TagOf(FieldBefore(rest, i - L)) = t
        BY <4>2
      <4> QED
        BY <4>1, <4>3 DEF Reads
    <3> QED
      BY <1>4, <1>8, <3>1
  <2>2. Max({L}) = L
    <3> DEFINE U == {L}
    <3>1. U \subseteq 0..L /\ L \in U /\ \A y \in U : y <= L
      BY <1>1
    <3> HIDE DEF U
    <3>2. Max(U) = L
      BY <1>1, <3>1, MaxIs
    <3> QED
      BY <3>2 DEF U
  <2>3. DecodeHeader(d, t) = IF At(d, t) = {} THEN <<>>
                             ELSE ValueOf(FieldBefore(d, Max(At(d, t))))
    BY DEF DecodeHeader
  <2> HIDE DEF At
  <2>4. {L} # {}
    OBVIOUS
  <2> QED
    BY <1>4, <2>1, <2>2, <2>3, <2>4
<1>11. ASSUME NEW tag \in T PROVE DecodeHeader(d, tag) = DecodeHeader(rest, tag)
  <2>0. tag # t
    OBVIOUS
  <2>1. \A j \in HeaderEnds(rest) : j \in At(rest, tag) <=> L + j \in At(d, tag)
    BY <1>5, <1>7
  <2>2. \A i \in At(d, tag) : i - L \in At(rest, tag) /\ L + (i - L) = i
    <3> TAKE i \in At(d, tag)
    <3>1. i # L
      BY <1>4, <2>0
    <3>2. i - L \in HeaderEnds(rest) /\ L + (i - L) = i
      BY <1>6, <3>1
    <3> QED
      BY <2>1, <3>2
  <2>3. At(rest, tag) \subseteq 0..Len(rest) /\ At(d, tag) \subseteq 0..Len(d)
    BY <1>2
  <2>4. At(rest, tag) \subseteq HeaderEnds(rest)
    OBVIOUS
  <2>5. /\ DecodeHeader(d, tag) = IF At(d, tag) = {} THEN <<>>
                                  ELSE ValueOf(FieldBefore(d, Max(At(d, tag))))
        /\ DecodeHeader(rest, tag) =
             IF At(rest, tag) = {} THEN <<>>
             ELSE ValueOf(FieldBefore(rest, Max(At(rest, tag))))
    BY DEF DecodeHeader
  <2> HIDE DEF At
  <2>6. CASE At(rest, tag) = {}
    BY <2>2, <2>5, <2>6
  <2>7. CASE At(rest, tag) # {}
    <3> DEFINE m == Max(At(rest, tag))
    <3>1. m \in At(rest, tag) /\ \A y \in At(rest, tag) : y <= m
      BY <1>a, <2>3, <2>7, MaxOf
    <3> HIDE DEF m
    <3>2. L + m \in At(d, tag) /\ m \in Nat
      BY <2>1, <2>3, <2>4, <3>1
    <3>3. \A y \in At(d, tag) : y <= L + m
      <4> TAKE y \in At(d, tag)
      <4>1. y - L <= m /\ y \in Int
        BY <2>2, <2>3, <3>1
      <4> QED
        BY <1>1, <3>2, <4>1
    <3>4. Max(At(d, tag)) = L + m
      BY <1>a, <2>3, <3>2, <3>3, MaxIs
    <3>5. FieldBefore(d, L + m) = FieldBefore(rest, m)
      BY <1>5, <2>4, <3>1
    <3>6. At(d, tag) # {}
      BY <3>2
    <3> QED
      BY <2>5, <2>7, <3>4, <3>5, <3>6 DEF m
  <2> QED
    BY <2>6, <2>7
<1>12. \A tag \in T \cup {t} : DecodeHeader(d, tag) = V[tag]
  <2> TAKE tag \in T \cup {t}
  <2>1. CASE tag = t
    BY <1>10, <2>1
  <2>2. CASE tag \in T
    BY <1>11, <2>2 DEF Reads
  <2> QED
    BY <2>1, <2>2
<1>13. Reads(d, T \cup {t}, V)
  BY <1>9, <1>12 DEF Reads
<1> QED
  BY <1>13 DEF d, f

-----------------------------------------------------------------------------
(* The sum of bytes. *)

\* The sums of the first bytes of s, as the loop of encodeHeaderAndTrailer has them.
SumRun(pre, s) ==
  /\ pre[0] = 0
  /\ \A i \in 1..Len(s) : pre[i] = pre[i - 1] + s[i]

\* The sums of the first bytes, one after the other.
LEMMA SumRunExists ==
  ASSUME NEW s \in Seq(Nat)
  PROVE  \E pre \in [0..Len(s) -> Nat] : SumRun(pre, s)
<1> DEFINE L == Len(s)
           st == [i \in 1..L |-> [n \in Nat |-> n + s[i]]]
<1>1. L \in Nat /\ \A i \in 1..L : s[i] \in Nat
  BY LenProperties, ElementOfSeq
<1>2. st \in [1..L -> [Nat -> Nat]]
  BY <1>1
<1>3. PICK f \in [0..L -> Nat] : Iterates(f, L, 0, st)
  <2> HIDE DEF L, st
  <2> QED
    BY <1>1, <1>2, 0 \in Nat, Iteration
<1>4. ASSUME NEW i \in 1..L PROVE f[i] = f[i - 1] + s[i]
  <2> HIDE DEF L
  <2>1. i \in 0..L /\ i # 0 /\ i - 1 \in 0..L
    BY <1>1
  <2>2. f[i - 1] \in Nat
    BY <2>1
  <2>3. f[i] = st[i][f[i - 1]]
    <3> HIDE DEF st
    <3> QED
      BY <1>3, <2>1 DEF Iterates
  <2> QED
    BY <2>2, <2>3
<1>5. f[0] = 0
  <2> HIDE DEF L, st
  <2>1. 0 \in 0..L
    BY <1>1
  <2> QED
    BY <1>3, <2>1 DEF Iterates
<1> QED
  BY <1>4, <1>5 DEF SumRun

\* SumOfBytes is the last of them.
LEMMA SumOfBytesIs ==
  ASSUME NEW s \in Seq(Nat), NEW pre \in [0..Len(s) -> Nat], SumRun(pre, s)
  PROVE  SumOfBytes(s) = pre[Len(s)]
<1> DEFINE L == Len(s)
           S == (0..L) \X (0..L)
           E(f, r) == IF r[2] <= r[1] + 1 THEN IF r[2] > r[1] THEN s[r[2]] ELSE 0
                      ELSE f[<<r[1], (r[1] + r[2]) \div 2>>]
                             + f[<<(r[1] + r[2]) \div 2, r[2]>>]
           m  == [r \in S |-> IF r[2] <= r[1] THEN 0 ELSE r[2] - r[1]]
           st == [r \in S |-> [f \in [S -> Nat] |-> E(f, r)]]
           Def(f) == [r \in S |-> E(f, r)]
<1>1. L \in Nat /\ \A i \in 1..L : s[i] \in Nat
  BY LenProperties, ElementOfSeq
<1>2. m \in [S -> Nat]
  <2> HIDE DEF L
  <2> QED
    BY <1>1
<1>3. ASSUME NEW r \in S, ~(r[2] <= r[1] + 1)
      PROVE  LET mid == (r[1] + r[2]) \div 2
             IN  /\ mid \in 0..L /\ r[1] < mid /\ mid < r[2]
                 /\ <<r[1], mid>> \in S /\ <<mid, r[2]>> \in S
                 /\ m[<<r[1], mid>>] = mid - r[1] /\ m[<<mid, r[2]>>] = r[2] - mid
                 /\ m[r] = r[2] - r[1]
  <2> DEFINE mid == (r[1] + r[2]) \div 2
  <2> HIDE DEF L
  <2>1. r[1] \in 0..L /\ r[2] \in 0..L
    OBVIOUS
  <2>2. mid \in Nat /\ r[1] < mid /\ mid < r[2]
    BY <1>1, <1>3, <2>1
  <2> HIDE DEF mid
  <2>3. <<r[1], mid>> \in S /\ <<mid, r[2]>> \in S
    BY <1>1, <2>1, <2>2
  <2>4. m[<<r[1], mid>>] = mid - r[1]
    BY <1>1, <2>1, <2>2, <2>3
  <2>5. m[<<mid, r[2]>>] = r[2] - mid
    BY <1>1, <2>1, <2>2, <2>3
  <2>6. m[r] = r[2] - r[1]
    BY <1>1, <2>1, <1>3
  <2>7. mid \in 0..L
    BY <1>1, <2>1, <2>2
  <2> QED
    BY <2>2, <2>3, <2>4, <2>5, <2>6, <2>7 DEF mid
<1>4. ASSUME NEW r \in S, r[2] > r[1] PROVE s[r[2]] \in Nat
  <2>1. r[2] \in 1..L
    <3> HIDE DEF L
    <3> QED
      BY <1>1, <1>4
  <2> QED
    BY <1>1, <2>1
<1>5. \A f \in [S -> Nat], r \in S : E(f, r) \in Nat
  <2> TAKE f \in [S -> Nat], r \in S
  <2> HIDE DEF S, L
  <2>1. CASE r[2] <= r[1] + 1
    BY <1>4, <2>1
  <2>2. CASE ~(r[2] <= r[1] + 1)
    <3> DEFINE a == <<r[1], (r[1] + r[2]) \div 2>>
               b == <<(r[1] + r[2]) \div 2, r[2]>>
    <3>1. a \in S /\ b \in S
      BY <1>3, <2>2
    <3>2. E(f, r) = f[a] + f[b]
      BY <2>2
    <3> HIDE DEF a, b, E
    <3>3. f[a] \in Nat /\ f[b] \in Nat
      BY <3>1
    <3> QED
      BY <3>2, <3>3
  <2> QED
    BY <2>1, <2>2
<1>6. st \in [S -> [[S -> Nat] -> Nat]]
  <2> HIDE DEF S, E
  <2> QED
    BY <1>5
<1>7. Descends(S, m, Nat, st)
  <2> SUFFICES ASSUME NEW r \in S, NEW f \in [S -> Nat], NEW g \in [S -> Nat],
                      \A y \in S : m[y] < m[r] => f[y] = g[y]
               PROVE  E(f, r) = E(g, r)
    <3> HIDE DEF S, E, m
    <3> QED
      BY DEF Descends
  <2>1. CASE r[2] <= r[1] + 1
    BY <2>1
  <2>2. CASE ~(r[2] <= r[1] + 1)
    <3> DEFINE mid == (r[1] + r[2]) \div 2
    <3>1. /\ mid \in 0..L /\ r[1] < mid /\ mid < r[2]
          /\ <<r[1], mid>> \in S /\ <<mid, r[2]>> \in S
          /\ m[<<r[1], mid>>] = mid - r[1] /\ m[<<mid, r[2]>>] = r[2] - mid
          /\ m[r] = r[2] - r[1]
      BY <1>3, <2>2
    <3>2. r[1] \in 0..L /\ r[2] \in 0..L
      OBVIOUS
    <3> HIDE DEF mid, S, m, L
    <3>3. m[<<r[1], mid>>] < m[r] /\ m[<<mid, r[2]>>] < m[r]
      BY <1>1, <3>1, <3>2, SMTT(30)
    <3>4. f[<<r[1], mid>>] = g[<<r[1], mid>>] /\ f[<<mid, r[2]>>] = g[<<mid, r[2]>>]
      BY <3>1, <3>3
    <3> QED
      BY <2>2, <3>4 DEF mid
  <2> QED
    BY <2>1, <2>2
<1>8. \E f : f = Def(f)
  <2> HIDE DEF E, S, m
  <2>1. PICK f \in [S -> Nat] : Unfolds(f, S, st)
    <3> HIDE DEF st
    <3>1. Nat # {}
      OBVIOUS
    <3> QED
      BY <1>2, <1>6, <1>7, <3>1, Recursion
  <2>2. f = Def(f)
    BY <2>1 DEF Unfolds
  <2> HIDE DEF Def
  <2> QED
    BY <2>2
<1> DEFINE sum == CHOOSE g : g = Def(g)
<1>9. sum = Def(sum)
  <2> HIDE DEF Def
  <2> QED
    BY <1>8
<1>10. SumOfBytes(s) = sum[<<0, L>>]
  BY DEF SumOfBytes
<1> HIDE DEF sum
<1>11. \A r \in S : sum[r] = E(sum, r)
  <2> HIDE DEF E, S
  <2> QED
    BY <1>9
<1> DEFINE T == {r \in S : r[1] <= r[2] /\ sum[r] # pre[r[2]] - pre[r[1]]}
<1>12. T = {}
  <2> SUFFICES ASSUME T # {} PROVE FALSE
    OBVIOUS
  <2>1. PICK r \in T : \A y \in S : m[y] < m[r] => y \notin T
    <3>1. T \subseteq S
      OBVIOUS
    <3> HIDE DEF T, S, m
    <3> QED
      BY <1>2, <3>1, LeastBy
  <2>2. /\ r \in S /\ r[1] <= r[2] /\ sum[r] # pre[r[2]] - pre[r[1]]
        /\ r[1] \in 0..L /\ r[2] \in 0..L
    OBVIOUS
  <2>3. sum[r] = E(sum, r)
    BY <1>11, <2>2
  <2>4. pre[r[1]] \in Nat /\ pre[r[2]] \in Nat
    BY <2>2
  <2>5. CASE r[1] = r[2]
    <3>1. E(sum, r) = 0
      BY <1>1, <2>2, <2>5
    <3> HIDE DEF E, T, S, m
    <3> QED
      BY <2>2, <2>3, <2>4, <2>5, <3>1
  <2>6. CASE r[2] = r[1] + 1
    <3>1. E(sum, r) = s[r[2]]
      BY <1>1, <2>2, <2>6
    <3>2. r[2] \in 1..L /\ r[2] - 1 = r[1]
      <4> DEFINE from == r[1]
                 to   == r[2]
      <4>1. from \in 0..L /\ to \in 0..L /\ to = from + 1
        BY <2>2, <2>6
      <4> HIDE DEF L, E, T, S, m, from, to
      <4>2. to \in 1..L /\ to - 1 = from
        BY <1>1, <4>1
      <4> QED
        BY <4>2 DEF from, to
    <3>3. pre[r[2]] = pre[r[1]] + s[r[2]] /\ s[r[2]] \in Nat
      <4> HIDE DEF E, T, S, m
      <4> QED
        BY <1>1, <3>2 DEF SumRun
    <3> HIDE DEF E, T, S, m, L
    <3> QED
      BY <2>2, <2>3, <2>4, <3>1, <3>3
  <2>7. CASE ~(r[2] <= r[1] + 1)
    <3> DEFINE mid == (r[1] + r[2]) \div 2
               a == <<r[1], mid>>
               b == <<mid, r[2]>>
    <3>1. /\ mid \in 0..L /\ r[1] < mid /\ mid < r[2]
          /\ a \in S /\ b \in S
          /\ m[a] = mid - r[1] /\ m[b] = r[2] - mid
          /\ m[r] = r[2] - r[1]
      BY <1>3, <2>2, <2>7
    <3>2. E(sum, r) = sum[a] + sum[b]
      BY <2>7
    <3>3. a[1] = r[1] /\ a[2] = mid /\ b[1] = mid /\ b[2] = r[2]
      OBVIOUS
    <3>a. mid \in Int /\ r[1] \in Int /\ r[2] \in Int
      <4> HIDE DEF mid, S, m, L, T, a, b
      <4> QED
        BY <1>1, <2>2, <3>1
    <3> HIDE DEF mid, S, m, L, a, b
    <3>4. m[a] < m[r] /\ m[b] < m[r] /\ a[1] <= a[2] /\ b[1] <= b[2]
      <4> DEFINE from == r[1]
                 to   == r[2]
      <4>1. /\ mid \in Int /\ from \in Int /\ to \in Int /\ from < mid /\ mid < to
            /\ m[a] = mid - from /\ m[b] = to - mid /\ m[r] = to - from
        BY <3>a, <3>1
      <4>2. a[1] = from /\ a[2] = mid /\ b[1] = mid /\ b[2] = to
        BY <3>3
      <4> HIDE DEF from, to
      <4>3. m[a] < m[r] /\ m[b] < m[r]
        BY <4>1
      <4>4. from <= mid /\ mid <= to
        BY <4>1
      <4> QED
        BY <4>2, <4>3, <4>4
    <3>5. a \notin T /\ b \notin T
      <4> HIDE DEF T
      <4> QED
        BY <2>1, <3>1, <3>4
    <3>6. sum[a] = pre[mid] - pre[r[1]] /\ sum[b] = pre[r[2]] - pre[mid]
      BY <3>1, <3>3, <3>4, <3>5
    <3>7. pre[mid] \in Nat
      BY <3>1 DEF L
    <3> HIDE DEF E, T
    <3> QED
      BY <2>2, <2>3, <2>4, <3>2, <3>6, <3>7
  <2> HIDE DEF E, T, S, m, L
  <2> QED
    BY <1>1, <2>2, <2>5, <2>6, <2>7, SMTT(30)
<1>13. sum[<<0, L>>] = pre[L] - pre[0]
  <2> DEFINE r == <<0, L>>
  <2>1. r \in S /\ r[1] = 0 /\ r[2] = L /\ r[1] <= r[2]
    BY <1>1
  <2> HIDE DEF S, r
  <2>2. sum[r] = pre[r[2]] - pre[r[1]]
    BY <1>12, <2>1
  <2> QED
    BY <2>1, <2>2 DEF r
<1>14. pre[0] = 0 /\ pre[L] \in Nat
  <2>1. 0 \in 0..L /\ L \in 0..L
    BY <1>1
  <2> QED
    BY <2>1 DEF SumRun
<1> HIDE DEF L, sum
<1> QED
  BY <1>10, <1>13, <1>14 DEF L

-----------------------------------------------------------------------------
(* EncodeHeaderAndTrailer. *)

\* Overwrite puts src at its place, and grows dst if it has to.
LEMMA OverwriteIs ==
  ASSUME NEW X, NEW dst \in Seq(X), NEW src \in Seq(X), NEW at \in Nat, at <= Len(dst)
  PROVE  LET o == Overwrite(dst, at, src)
             e == at + Len(src)
         IN  /\ o \in Seq(X)
             /\ Len(o) = IF e <= Len(dst) THEN Len(dst) ELSE e
             /\ \A i \in 1..Len(src) : o[at + i] = src[i]
             /\ \A i \in e + 1..Len(dst) : o[i] = dst[i]
<1> DEFINE e == at + Len(src)
           a == SubSeq(dst, 1, at)
           b == a \o src
           c == SubSeq(dst, e + 1, Len(dst))
           o == b \o c
<1>1. Len(dst) \in Nat /\ Len(src) \in Nat /\ e \in Nat /\ e + 1 >= 1 /\ e + 1 \in Nat
  BY LenProperties
<1>2. a \in Seq(X) /\ Len(a) = at
  BY Prefix
<1> HIDE DEF a
<1>3. /\ b \in Seq(X) /\ Len(b) = e
      /\ \A i \in 1..Len(src) : b[at + i] = src[i]
  <2>1. b \in Seq(X)
    BY <1>2, Glue
  <2>2. Len(b) = at + Len(src)
    BY <1>2, Glue, SMTT(30)
  <2>3. \A i \in 1..Len(src) : b[at + i] = src[i]
    BY <1>2, Glue
  <2> QED
    BY <2>1, <2>2, <2>3
<1>4. /\ c \in Seq(X)
      /\ Len(c) = IF e + 1 <= Len(dst) THEN Len(dst) - (e + 1) + 1 ELSE 0
      /\ \A i \in 1..Len(dst) - (e + 1) + 1 : c[i] = dst[(e + 1) + i - 1]
  <2> DEFINE p == e + 1
             q == Len(dst)
  <2>1. p \in Nat /\ p >= 1 /\ q \in Int /\ q <= Len(dst)
    BY <1>1
  <2> HIDE DEF p, q
  <2>2. /\ SubSeq(dst, p, q) \in Seq(X)
        /\ Len(SubSeq(dst, p, q)) = IF p <= q THEN q - p + 1 ELSE 0
        /\ \A i \in 1..q - p + 1 : SubSeq(dst, p, q)[i] = dst[p + i - 1]
    BY <2>1, PieceType
  <2> QED
    BY <2>2 DEF p, q
<1> HIDE DEF b, c, e
<1>a. b \in Seq(X) /\ Len(b) = e /\ c \in Seq(X)
  BY <1>3, <1>4
<1>5. o \in Seq(X)
  BY <1>a, Glue
<1>6. Len(o) = e + Len(c)
  BY <1>a, Glue
<1>7. \A i \in 1..e : o[i] = b[i]
  BY <1>a, Glue
<1>8. \A i \in 1..Len(c) : o[e + i] = c[i]
  <2> SUFFICES ASSUME NEW i \in 1..Len(c) PROVE (b \o c)[e + i] = c[i]
    OBVIOUS
  <2> QED
    BY <1>a, ConcatProperties, LenProperties, SMTT(30)
<1>9. Overwrite(dst, at, src) = o
  BY DEF Overwrite, o, b, c, a, e
<1> HIDE DEF o
<1>10. Len(o) = IF e <= Len(dst) THEN Len(dst) ELSE e
  BY <1>1, <1>4, <1>6
<1>11. ASSUME NEW i \in 1..Len(src) PROVE o[at + i] = src[i]
  <2>1. at + i \in 1..e
    BY <1>1 DEF e
  <2> QED
    BY <1>3, <1>7, <2>1
<1>12. ASSUME NEW i \in e + 1..Len(dst) PROVE o[i] = dst[i]
  <2> DEFINE j == i - e
  <2>1. /\ j \in 1..Len(dst) - (e + 1) + 1 /\ j \in 1..Len(c)
        /\ e + j = i /\ (e + 1) + j - 1 = i
    BY <1>1, <1>4
  <2> HIDE DEF j
  <2> QED
    BY <1>4, <1>8, <2>1
<1> QED
  BY <1>5, <1>9, <1>10, <1>11, <1>12 DEF e

\* The header: its length is the room that is made for it.
LEMMA HeaderLength ==
  ASSUME NEW X, Digit \subseteq X, EQUAL \in X, SOH \in X, FIX_VER_44 \in Seq(X),
         NEW n \in Nat, n >= 16
  PROVE  LET header == AppendFIX(BeginString, FIX_VER_44)
                         \o AppendFIX(BodyLength, ToString10[n])
         IN  /\ header \in Seq(X) /\ Len(header) = HeaderRoom(n)
             /\ HeaderRoom(n) \in Nat /\ HeaderRoom(n) <= n
<1> DEFINE u == AppendFIX(BeginString, FIX_VER_44)
           w == AppendFIX(BodyLength, ToString10[n])
           k == Len(ToString10[n])
<1>1. k \in 1..(n \div 10) + 1 /\ ToString10[n] \in Seq(X)
  <2>1. ToString10[n] \in Seq(Digit) /\ k \in 1..(n \div 10) + 1
    BY ToStringType
  <2> HIDE DEF k
  <2> QED
    BY <2>1, SeqMonotonic
<1>2. Len(ToString10[BeginString]) = 1 /\ Len(ToString10[BodyLength]) = 1
  <2>1. ToString10[8] = <<ZERO + 8>> /\ ToString10[9] = <<ZERO + 9>>
    <3>1. 8 \in Nat /\ 9 \in Nat /\ 8 < 10 /\ 9 < 10
      OBVIOUS
    <3> QED
      BY <3>1, ToStringUnfolds
  <2> QED
    BY <2>1 DEF BeginString, BodyLength
<1>3. u \in Seq(X) /\ Len(u) = 10
  <2>1. BeginString \in Nat /\ Len(FIX_VER_44) = 7
    BY DEF BeginString, FIX_VER_44
  <2>2. u \in Seq(X) /\ Len(u) = (Len(ToString10[BeginString]) + Len(FIX_VER_44)) + 2
    BY <2>1, FieldBytes, ZenonT(40)
  <2> QED
    BY <1>2, <2>1, <2>2
<1>4. w \in Seq(X) /\ Len(w) = k + 3
  <2>1. BodyLength \in Nat
    BY DEF BodyLength
  <2>2. w \in Seq(X) /\ Len(w) = (Len(ToString10[BodyLength]) + k) + 2
    <3> DEFINE v == ToString10[n]
    <3>1. v \in Seq(X) /\ w = AppendFIX(BodyLength, v) /\ k = Len(v)
      BY <1>1
    <3> HIDE DEF v, w, k
    <3>2. /\ AppendFIX(BodyLength, v) \in Seq(X)
          /\ Len(AppendFIX(BodyLength, v)) = (Len(ToString10[BodyLength]) + Len(v)) + 2
      BY <2>1, <3>1, FieldBytes, ZenonT(40)
    <3> QED
      BY <3>1, <3>2
  <2> HIDE DEF w, k
  <2> QED
    BY <1>1, <1>2, <2>2
<1> HIDE DEF u, w
<1>b. u \in Seq(X) /\ w \in Seq(X) /\ Len(u) = 10
  BY <1>3, <1>4
<1>5. u \o w \in Seq(X) /\ Len(u \o w) = 10 + Len(w)
  <2>1. u \o w \in Seq(X)
    BY <1>b, Glue
  <2>2. Len(u \o w) = Len(u) + Len(w)
    BY <1>b, ConcatProperties
  <2> QED
    BY <1>b, <2>1, <2>2
<1>6. HeaderRoom(n) = 13 + k
  BY DEF HeaderRoom
<1>a. k \in Nat /\ k <= (n \div 10) + 1
  BY <1>1
<1> HIDE DEF k
<1>7. Len(u \o w) = 13 + k /\ 13 + k \in Nat /\ 13 + k <= n
  BY <1>a, <1>4, <1>5
<1> QED
  BY <1>5, <1>6, <1>7 DEF u, w

\* The message is the header, the body behind it, and the trailer: what is written
\* over the body is what the body has been moved away from.
THEOREM EncodeShape ==
  ASSUME NEW X, Digit \subseteq X, EQUAL \in X, SOH \in X, FIX_VER_44 \in Seq(X),
         NEW body \in Seq(X), Len(body) >= 16
  PROVE  LET header == AppendFIX(BeginString, FIX_VER_44)
                         \o AppendFIX(BodyLength, ToString10[Len(body)])
             framed == header \o body
         IN  EncodeHeaderAndTrailer(body)
               = framed \o AppendFIX(CheckSum, CheckSumDigits(SumOfBytes(framed)))
<1> DEFINE n == Len(body)
           H == HeaderRoom(n)
           header == AppendFIX(BeginString, FIX_VER_44)
                       \o AppendFIX(BodyLength, ToString10[n])
           moved  == Overwrite(body, H, body)
           put    == Overwrite(moved, 0, header)
           framed == SubSeq(put, 1, Len(header) + n)
<1>1. EncodeHeaderAndTrailer(body)
        = framed \o AppendFIX(CheckSum, CheckSumDigits(SumOfBytes(framed)))
  BY DEF EncodeHeaderAndTrailer
<1>2. n \in Nat /\ n >= 16
  BY LenProperties
<1>3. header \in Seq(X) /\ Len(header) = H /\ H \in Nat /\ H <= n
  <2> HIDE DEF n
  <2> QED
    BY <1>2, HeaderLength
<1> HIDE DEF header, H
<1>4. /\ moved \in Seq(X) /\ Len(moved) = H + n
      /\ \A i \in 1..n : moved[H + i] = body[i]
  <2>1. /\ moved \in Seq(X)
        /\ Len(moved) = IF H + n <= n THEN n ELSE H + n
        /\ \A i \in 1..n : moved[H + i] = body[i]
    BY <1>3, OverwriteIs
  <2> HIDE DEF moved, n
  <2>2. Len(moved) = H + n
    BY <1>2, <1>3, <2>1
  <2> QED
    BY <2>1, <2>2
<1> HIDE DEF moved
<1>5. /\ put \in Seq(X) /\ Len(put) = H + n
      /\ \A i \in 1..H : put[i] = header[i]
      /\ \A i \in H + 1..H + n : put[i] = moved[i]
  <2> DEFINE z == 0
             e == z + Len(header)
  <2> HIDE DEF n, z
  <2>0. z \in Nat /\ z <= Len(moved) /\ z = 0
    BY <1>2, <1>3, <1>4 DEF z
  <2>1. /\ Overwrite(moved, z, header) \in Seq(X)
        /\ Len(Overwrite(moved, z, header)) = IF e <= Len(moved) THEN Len(moved) ELSE e
        /\ \A i \in 1..Len(header) : Overwrite(moved, z, header)[z + i] = header[i]
        /\ \A i \in e + 1..Len(moved) : Overwrite(moved, z, header)[i] = moved[i]
    <3>1. moved \in Seq(X) /\ header \in Seq(X)
      BY <1>3, <1>4
    <3> QED
      BY <2>0, <3>1, OverwriteIs
  <2>2. put = Overwrite(moved, z, header) /\ e = H
    BY <1>3, <2>0
  <2> HIDE DEF put, e
  <2>3. Len(put) = H + n
    BY <1>2, <1>3, <1>4, <2>1, <2>2
  <2>4. \A i \in 1..H : put[i] = header[i]
    <3>1. \A i \in 1..H : z + i = i
      BY <2>0
    <3> QED
      BY <1>3, <2>1, <2>2, <3>1
  <2>5. \A i \in H + 1..H + n : put[i] = moved[i]
    BY <1>4, <2>1, <2>2
  <2> QED
    BY <2>1, <2>2, <2>3, <2>4, <2>5
<1> HIDE DEF put
<1>6. framed = header \o body
  <2> DEFINE k == H + n
             g == header \o body
  <2> HIDE DEF n
  <2>1. k \in Nat /\ k <= Len(put)
    BY <1>2, <1>3, <1>5
  <2>2. /\ framed \in Seq(X) /\ Len(framed) = k
        /\ \A i \in 1..k : framed[i] = put[i]
    <3>1. framed = SubSeq(put, 1, k)
      BY <1>3
    <3> HIDE DEF k, framed
    <3> QED
      BY <1>5, <2>1, <3>1, Prefix
  <2>3. g \in Seq(X)
    BY <1>3, Glue
  <2>4. Len(g) = H + n
    BY <1>3, Glue DEF n
  <2>5. \A i \in 1..H : g[i] = header[i]
    BY <1>3, Glue
  <2>6. \A i \in 1..n : g[H + i] = body[i]
    BY <1>3, Glue DEF n
  <2> HIDE DEF g, framed
  <2>7. ASSUME NEW i \in 1..k PROVE framed[i] = g[i]
    <3>1. CASE i <= H
      <4>1. i \in 1..H
        BY <1>3, <3>1
      <4> QED
        BY <1>5, <2>2, <2>5, <4>1
    <3>2. CASE i > H
      <4> DEFINE j == i - H
      <4>1. j \in 1..n /\ H + j = i /\ i \in H + 1..H + n
        BY <1>2, <1>3, <3>2
      <4> HIDE DEF j
      <4>2. g[i] = body[j]
        BY <2>6, <4>1
      <4>3. moved[i] = body[j]
        BY <1>4, <4>1
      <4>4. framed[i] = put[i] /\ put[i] = moved[i]
        BY <1>5, <2>2, <4>1
      <4> QED
        BY <4>2, <4>3, <4>4
    <3> QED
      BY <1>3, <3>1, <3>2
  <2>8. framed = g
    BY <2>2, <2>3, <2>4, <2>7, SeqEqual
  <2> QED
    BY <2>8 DEF g
<1> HIDE DEF framed
<1> QED
  BY <1>1, <1>6 DEF header, n

-----------------------------------------------------------------------------
(* Reading what EncodeHeaderAndTrailer wrote. *)

\* ScanField finds the field it looks for, if it is the first it sees.
LEMMA ScanFieldFinds ==
  ASSUME NEW t, NEW v, Readable(t, v), NEW w \in Seq(Nat),
         Len(AppendFIX(t, v)) <= Len(w),
         \A i \in 1..Len(AppendFIX(t, v)) : w[i] = AppendFIX(t, v)[i]
  PROVE  /\ ScanField(w, t).consumed = Len(AppendFIX(t, v))
         /\ ScanField(w, t).value = v
<1> DEFINE A == ToString10[t]
           a == Len(A)
           b == Len(v)
           f == AppendFIX(t, v)
           L == Len(f)
           N == Len(w)
<1>1. /\ t \in Nat /\ t < 1000 /\ L \in Nat /\ L >= 2 /\ L = (a + b) + 2
      /\ f[L] = SOH /\ \A i \in 1..L - 1 : f[i] # SOH
  <2> DEFINE e == << >>
  <2>1. e \in Seq(Nat)
    OBVIOUS
  <2> HIDE DEF e
  <2> QED
    BY <2>1, InFront
<1>2. A \in Seq(Digit) /\ a \in Nat /\ a >= 1 /\ b \in Nat /\ v \in Seq(Nat) /\ N \in Nat
  <2>1. A \in Seq(Digit) /\ a \in 1..(t \div 10) + 1
    BY <1>1, ToStringType
  <2>2. v \in Seq(Nat) /\ b \in Nat /\ N \in Nat
    BY LenProperties DEF Readable
  <2> HIDE DEF A
  <2> QED
    BY <2>1, <2>2, LenProperties
<1>3. /\ \A i \in 1..a : f[i] = A[i]
      /\ f[a + 1] = EQUAL
      /\ \A i \in 1..b : f[(a + 1) + i] = v[i]
  <2>1. Digit \subseteq Nat /\ EQUAL \in Nat /\ SOH \in Nat
    BY DEF Digit, ZERO, EQUAL, SOH
  <2>2. t \in Nat /\ v \in Seq(Nat)
    BY <1>1, <1>2
  <2>3. /\ f \in Seq(Nat) /\ L = (a + b) + 2
        /\ \A i \in 1..a : f[i] = A[i]
        /\ f[a + 1] = EQUAL
        /\ \A i \in 1..b : f[(a + 1) + i] = v[i]
        /\ f[(a + b) + 2] = SOH
    BY ONLY <2>1, <2>2, FieldBytes, ZenonT(40)
  <2> HIDE DEF A, f
  <2> QED
    BY <2>3
<1>4. L <= N /\ \A i \in 1..L : w[i] = f[i]
  OBVIOUS
<1> HIDE DEF f, L
<1>5. /\ a + 1 <= N /\ a + 1 < L
      /\ \A i \in 1..a : w[i] = A[i]
      /\ w[a + 1] = EQUAL
      /\ \A i \in 1..b : w[(a + 1) + i] = v[i]
  <2> HIDE DEF A, a, b, N
  <2>1. a + 1 <= N /\ a + 1 < L
    BY <1>1, <1>2, <1>4
  <2>2. a + 1 \in 1..L
    BY <1>1, <1>2
  <2>3. w[a + 1] = EQUAL
    BY <1>3, <1>4, <2>2
  <2>4. \A i \in 1..a : i \in 1..L
    BY <1>1, <1>2
  <2>5. \A i \in 1..a : w[i] = A[i]
    BY <1>3, <1>4, <2>4
  <2>6. \A i \in 1..b : (a + 1) + i \in 1..L
    BY <1>1, <1>2
  <2>7. \A i \in 1..b : w[(a + 1) + i] = v[i]
    BY <1>3, <1>4, <2>6
  <2> QED
    BY <2>1, <2>3, <2>5, <2>7
<1>6. FirstAt(w, EQUAL) = a + 1 /\ Number(SubSeq(w, 1, FirstAt(w, EQUAL) - 1)) = t
  BY <1>1, <1>5, TagIs
<1>7. FirstAt(w, SOH) = L
  <2> HIDE DEF A, a, b
  <2>1. L \in 1..Len(w) + 1
    BY <1>1, <1>2, <1>4
  <2>2. w[L] = SOH
    <3>1. L \in 1..L
      BY <1>1
    <3> QED
      BY <1>1, <1>4, <3>1
  <2>3. ASSUME NEW i \in 1..Len(w), i < L PROVE w[i] # SOH
    <3>1. i \in 1..L - 1 /\ i \in 1..L
      BY <1>1, <2>3
    <3> QED
      BY <1>1, <1>4, <3>1, ZenonT(40)
  <2> QED
    BY <2>1, <2>2, <2>3, FirstAtIs
<1> HIDE DEF A, a
<1>8. SubSeq(w, a + 2, L - 1) = v
  <2> DEFINE p == a + 2
             q == L - 1
             u == SubSeq(w, p, q)
  <2>1. /\ p \in Nat /\ p >= 1 /\ q \in Int /\ q <= Len(w)
        /\ q = (p + b) - 1 /\ p = (a + 1) + 1
    BY <1>1, <1>2, <1>4
  <2> HIDE DEF p, q
  <2>2. /\ u \in Seq(Nat)
        /\ Len(u) = IF p <= q THEN q - p + 1 ELSE 0
        /\ \A i \in 1..q - p + 1 : u[i] = w[p + i - 1]
    <3>1. p \in Nat /\ p >= 1 /\ q \in Int /\ q <= Len(w)
      BY <2>1
    <3> QED
      BY <3>1, PieceType
  <2> HIDE DEF u, b
  <2>3. Len(u) = b
    BY <1>2, <2>1, <2>2
  <2>4. ASSUME NEW i \in 1..b PROVE u[i] = v[i]
    <3>1. i \in 1..q - p + 1 /\ p + i - 1 = (a + 1) + i
      BY <1>2, <2>1
    <3> QED
      BY <1>5, <2>2, <3>1
  <2>5. u \in Seq(Nat) /\ v \in Seq(Nat) /\ Len(v) = b
    BY <1>2, <2>2 DEF b
  <2>6. u = v
    BY <2>3, <2>4, <2>5, SeqEqual
  <2> QED
    BY <2>6 DEF u, p, q
<1>9. Without(v, EQUAL) = v
  <2>1. \A i \in 1..Len(v) : v[i] # EQUAL
    BY DEF Readable
  <2> QED
    BY <1>2, <2>1, WithoutNone
<1>10. Min({L, N}) = L
  <2> DEFINE U == {L, N}
  <2>1. U \subseteq Nat /\ U # {} /\ L \in U /\ \A y \in U : y = L \/ y = N
    BY <1>1, <1>2
  <2> HIDE DEF U
  <2>2. Min(U) \in U /\ \A y \in U : Min(U) <= y
    BY <2>1, MinOf
  <2>3. Min(U) <= L /\ (Min(U) = L \/ Min(U) = N)
    BY <2>1, <2>2
  <2>4. Min(U) = L
    BY <1>1, <1>2, <1>4, <2>3
  <2> QED
    BY <2>4 DEF U
<1> HIDE DEF b
<1>11. (a + 1) + 1 = a + 2 /\ a + 1 < L
  BY <1>2, <1>5
<1> DEFINE eq == FirstAt(w, EQUAL)
           soh == FirstAt(w, SOH)
           bad == eq < soh /\ Number(SubSeq(w, 1, eq - 1)) # t
<1>12. ScanField(w, t) =
         [consumed |-> IF bad THEN eq ELSE Min({soh, N}),
          value    |-> IF eq < soh /\ ~bad
                       THEN Without(SubSeq(w, eq + 1, soh - 1), EQUAL) ELSE <<>>]
  BY DEF ScanField
<1>13. ~bad
  BY <1>6
<1>14. eq < soh
  BY <1>6, <1>7, <1>11
<1>15. Without(SubSeq(w, eq + 1, soh - 1), EQUAL) = v
  BY <1>6, <1>7, <1>8, <1>9, <1>11
<1>16. Min({soh, N}) = L
  BY <1>7, <1>10
<1> HIDE DEF eq, soh, bad, N
<1> QED
  BY <1>12, <1>13, <1>14, <1>15, <1>16 DEF L, f

\* Two ways to put three sequences together.
LEMMA Regroup ==
  ASSUME NEW X, NEW a, NEW b, NEW c, a \in Seq(X), b \in Seq(X), c \in Seq(X),
         NEW s, s = a \o b, NEW y, y = b \o c
  PROVE  s \o c = a \o y
BY ConcatAssociative, SMTT(30)

\* Fields put together one by one, and then more bytes.
Eight(X, a, b, c, d, e, f, g, x) ==
  /\ a \in Seq(X) /\ b \in Seq(X) /\ c \in Seq(X) /\ d \in Seq(X)
  /\ e \in Seq(X) /\ f \in Seq(X) /\ g \in Seq(X) /\ x \in Seq(X)

Regrouped(a, b, c, d, e, f, g, x) ==
  ((((((a \o b) \o c) \o d) \o e) \o f) \o g) \o x
    = a \o (b \o (c \o (d \o (e \o (f \o (g \o x))))))

\* EncodeHeaderCommon's seven fields and what is behind them, put together from the
\* front or from the back.
LEMMA EightInOrder ==
  ASSUME NEW X, NEW a, NEW b, NEW c, NEW d, NEW e, NEW f, NEW g, NEW x,
         Eight(X, a, b, c, d, e, f, g, x)
  PROVE  Regrouped(a, b, c, d, e, f, g, x)
<1> DEFINE s2 == a \o b
           s3 == s2 \o c
           s4 == s3 \o d
           s5 == s4 \o e
           s6 == s5 \o f
           x1 == g \o x
           x2 == f \o x1
           x3 == e \o x2
           x4 == d \o x3
           x5 == c \o x4
<1>ta. a \in Seq(X)
  BY DEF Eight
<1>tb. b \in Seq(X)
  BY DEF Eight
<1>tc. c \in Seq(X)
  BY DEF Eight
<1>td. d \in Seq(X)
  BY DEF Eight
<1>te. e \in Seq(X)
  BY DEF Eight
<1>tf. f \in Seq(X)
  BY DEF Eight
<1>tg. g \in Seq(X)
  BY DEF Eight
<1>tx. x \in Seq(X)
  BY DEF Eight
<1>ts2. s2 \in Seq(X)
  BY <1>ta, <1>tb, ConcatProperties
<1>s2. s2 = a \o b
  OBVIOUS
<1> HIDE DEF s2
<1>ts3. s3 \in Seq(X)
  BY <1>ts2, <1>tc, ConcatProperties
<1>s3. s3 = s2 \o c
  OBVIOUS
<1> HIDE DEF s3
<1>ts4. s4 \in Seq(X)
  BY <1>ts3, <1>td, ConcatProperties
<1>s4. s4 = s3 \o d
  OBVIOUS
<1> HIDE DEF s4
<1>ts5. s5 \in Seq(X)
  BY <1>ts4, <1>te, ConcatProperties
<1>s5. s5 = s4 \o e
  OBVIOUS
<1> HIDE DEF s5
<1>ts6. s6 \in Seq(X)
  BY <1>ts5, <1>tf, ConcatProperties
<1>s6. s6 = s5 \o f
  OBVIOUS
<1> HIDE DEF s6
<1>tx1. x1 \in Seq(X)
  BY <1>tg, <1>tx, ConcatProperties
<1>x1. x1 = g \o x
  OBVIOUS
<1> HIDE DEF x1
<1>tx2. x2 \in Seq(X)
  BY <1>tf, <1>tx1, ConcatProperties
<1>x2. x2 = f \o x1
  OBVIOUS
<1> HIDE DEF x2
<1>tx3. x3 \in Seq(X)
  BY <1>te, <1>tx2, ConcatProperties
<1>x3. x3 = e \o x2
  OBVIOUS
<1> HIDE DEF x3
<1>tx4. x4 \in Seq(X)
  BY <1>td, <1>tx3, ConcatProperties
<1>x4. x4 = d \o x3
  OBVIOUS
<1> HIDE DEF x4
<1>tx5. x5 \in Seq(X)
  BY <1>tc, <1>tx4, ConcatProperties
<1>x5. x5 = c \o x4
  OBVIOUS
<1> HIDE DEF x5
<1>1. (s6 \o g) \o x = s6 \o x1
  BY <1>ts6, <1>tg, <1>tx, <1>x1, Regroup
<1>2. s6 \o x1 = s5 \o x2
  BY <1>ts5, <1>tf, <1>tx1, <1>s6, <1>x2, Regroup, SMTT(30)
<1>3. s5 \o x2 = s4 \o x3
  BY <1>ts4, <1>te, <1>tx2, <1>s5, <1>x3, Regroup, SMTT(30)
<1>4. s4 \o x3 = s3 \o x4
  BY <1>ts3, <1>td, <1>tx3, <1>s4, <1>x4, Regroup, SMTT(30)
<1>5. s3 \o x4 = s2 \o x5
  BY <1>ts2, <1>tc, <1>tx4, <1>s3, <1>x5, Regroup, SMTT(30)
<1>6. s2 \o x5 = a \o (b \o x5)
  BY <1>ta, <1>tb, <1>tx5, <1>s2, Regroup
<1>7. (s6 \o g) \o x = a \o (b \o x5)
  BY <1>1, <1>2, <1>3, <1>4, <1>5, <1>6
<1> QED
  BY <1>7 DEF Regrouped, s2, s3, s4, s5, s6, x1, x2, x3, x4, x5

\* A message whose first tag is not a header's has no header fields.
LEMMA FieldStops ==
  ASSUME NEW t \in Nat, t < 1000, t \notin HeaderTags, NEW v \in Seq(Nat),
         NEW rest \in Seq(Nat)
  PROVE  HeaderEnds(AppendFIX(t, v) \o rest) = {}
<1> DEFINE A == ToString10[t]
           a == Len(A)
           b == Len(v)
           f == AppendFIX(t, v)
           L == Len(f)
           d == f \o rest
<1>1. a \in Nat /\ b \in Nat
  <2>1. A \in Seq(Digit)
    BY ToStringType
  <2> HIDE DEF A
  <2> QED
    BY <2>1, LenProperties
<1>2. /\ f \in Seq(Nat) /\ L = (a + b) + 2
      /\ \A i \in 1..a : f[i] = A[i]
      /\ f[a + 1] = EQUAL
  <2>1. Digit \subseteq Nat /\ EQUAL \in Nat /\ SOH \in Nat
    BY DEF Digit, ZERO, EQUAL, SOH
  <2>2. t \in Nat /\ v \in Seq(Nat)
    OBVIOUS
  <2>3. /\ f \in Seq(Nat) /\ L = (a + b) + 2
        /\ \A i \in 1..a : f[i] = A[i]
        /\ f[a + 1] = EQUAL
        /\ \A i \in 1..b : f[(a + 1) + i] = v[i]
        /\ f[(a + b) + 2] = SOH
    BY ONLY <2>1, <2>2, FieldBytes, ZenonT(40)
  <2> HIDE DEF A, f
  <2> QED
    BY <2>3
<1> HIDE DEF f
<1>3. f \in Seq(Nat)
  BY <1>2
<1>4. d \in Seq(Nat)
  BY <1>3, Glue
<1>5. Len(d) = L + Len(rest)
  BY <1>3, Glue
<1>6. \A i \in 1..L : d[i] = f[i]
  BY <1>3, Glue
<1>7. Len(rest) \in Nat
  BY LenProperties
<1> HIDE DEF A, a, b, L, d
<1>8. a + 1 <= Len(d) /\ a + 1 \in 1..L /\ \A i \in 1..a : i \in 1..L
  BY <1>1, <1>2, <1>5, <1>7
<1>9. \A i \in 1..a : d[i] = A[i]
  BY <1>2, <1>6, <1>8, SMTT(30)
<1>10. d[a + 1] = EQUAL
  BY <1>2, <1>6, <1>8, SMTT(30)
<1>11. HeaderEnds(d) = {}
  BY <1>4, <1>8, <1>9, <1>10, HeaderStops, ZenonT(40) DEF a, A
<1> QED
  BY <1>11 DEF d, f

-----------------------------------------------------------------------------
(* FlattenSeq. *)

\* FlattenSeq returns what such a loop ends with.
LEMMA FlattenLoop ==
  ASSUME NEW X, NEW ss \in Seq(Seq(X)), Len(ss) # 0
  PROVE  \E k \in [1..Len(ss) -> Seq(X)] :
           /\ k[1] = ss[1]
           /\ \A i \in 2..Len(ss) : k[i] = k[i - 1] \o ss[i]
           /\ FlattenSeq(ss) = k[Len(ss)]
<1> DEFINE L == Len(ss)
           E(x, i) == IF i = 1 THEN ss[i] ELSE x \o ss[i]
           st == [i \in 1..L |-> [x \in Seq(X) |-> E(x, i)]]
           Def(f) == [i \in 1..L |-> IF i = 1 THEN ss[i] ELSE f[i - 1] \o ss[i]]
<1>1. L \in Nat /\ L >= 1 /\ \A i \in 1..L : ss[i] \in Seq(X)
  BY LenProperties, ElementOfSeq
<1>2. \A x \in Seq(X), i \in 1..L : E(x, i) \in Seq(X)
  BY <1>1, ConcatProperties
<1>3. st \in [1..L -> [Seq(X) -> Seq(X)]]
  <2> HIDE DEF E
  <2> QED
    BY <1>2
<1>4. PICK f \in [0..L -> Seq(X)] : Iterates(f, L, <<>>, st)
  <2>1. <<>> \in Seq(X)
    OBVIOUS
  <2> HIDE DEF L, st
  <2> QED
    BY <1>1, <1>3, <2>1, Iteration
<1> DEFINE g == [i \in 1..L |-> f[i]]
<1>5. g = Def(g)
  <2> HIDE DEF E, L
  <2>1. \A i \in 1..L : i \in 0..L /\ i # 0 /\ i - 1 \in 0..L /\ f[i - 1] \in Seq(X)
    BY <1>1
  <2>2. \A i \in 1..L : f[i] = E(f[i - 1], i)
    BY <1>4, <2>1 DEF Iterates
  <2>3. \A i \in 1..L : i # 1 => g[i - 1] = f[i - 1]
    BY <1>1
  <2> QED
    BY <2>2, <2>3 DEF E
<1> DEFINE k == CHOOSE h : h = Def(h)
<1>6. k = Def(k)
  <2> HIDE DEF Def, g
  <2> QED
    BY <1>5
<1>7. FlattenSeq(ss) = k[Len(ss)]
  BY DEF FlattenSeq
<1> HIDE DEF k
<1>8. k[1] = ss[1]
  <2> HIDE DEF L
  <2> QED
    BY <1>1, <1>6
<1>9. \A i \in 2..L : k[i] = k[i - 1] \o ss[i]
  <2> TAKE i \in 2..L
  <2>1. i \in 1..L /\ i # 1
    BY <1>1
  <2> DEFINE e == IF i = 1 THEN ss[i] ELSE k[i - 1] \o ss[i]
  <2>2. k[i] = e
    <3> HIDE DEF L
    <3> QED
      BY <1>6, <2>1
  <2>3. e = k[i - 1] \o ss[i]
    BY <2>1
  <2> HIDE DEF e
  <2> QED
    BY <2>2, <2>3
<1> DEFINE T == {i \in 0..L : i # 0 => k[i] \in Seq(X)}
<1>10. \A i \in 0..L : i \in T
  <2>1. 0 \in T
    BY <1>1
  <2>2. ASSUME NEW i \in 1..L, i - 1 \in T PROVE i \in T
    <3>1. i \in 0..L /\ ss[i] \in Seq(X)
      BY <1>1
    <3>2. CASE i = 1
      BY <1>8, <3>1, <3>2
    <3>3. CASE i # 1
      <4>1. i \in 2..L /\ k[i - 1] \in Seq(X)
        BY <1>1, <2>2, <3>3
      <4>2. k[i - 1] \o ss[i] \in Seq(X)
        BY <3>1, <4>1, ConcatProperties
      <4>3. k[i] = k[i - 1] \o ss[i]
        BY <1>9, <4>1
      <4> QED
        BY <3>1, <4>2, <4>3
    <3> QED
      BY <3>2, <3>3
  <2> HIDE DEF T, L
  <2> QED
    BY <1>1, <2>1, <2>2, LoopInduction
<1>11. k \in [1..L -> Seq(X)]
  <2>1. k = [i \in 1..L |-> k[i]]
    <3> HIDE DEF L
    <3> QED
      BY <1>6
  <2>2. \A i \in 1..L : k[i] \in Seq(X)
    <3>1. \A i \in 1..L : i \in 0..L /\ i # 0
      BY <1>1
    <3> HIDE DEF L
    <3> QED
      BY <1>10, <3>1
  <2> HIDE DEF L
  <2> QED
    BY <2>1, <2>2
<1> QED
  BY <1>7, <1>8, <1>9, <1>11

\* Fields in a row are bytes of the same kind.
LEMMA FlattenType ==
  ASSUME NEW X, NEW ss \in Seq(Seq(X))
  PROVE  FlattenSeq(ss) \in Seq(X)
<1>1. CASE Len(ss) = 0
  <2>1. ss = <<>> /\ <<>> \in Seq(X)
    BY <1>1, EmptySeq
  <2> QED
    BY <1>1, <2>1 DEF FlattenSeq
<1>2. CASE Len(ss) # 0
  <2>1. Len(ss) \in 1..Len(ss)
    BY <1>2, LenProperties
  <2>2. PICK k \in [1..Len(ss) -> Seq(X)] : FlattenSeq(ss) = k[Len(ss)]
    BY <1>2, FlattenLoop
  <2> QED
    BY <2>1, <2>2
<1> QED
  BY <1>1, <1>2

\* Sequences of at most c elements make one of at most c times as many.
LEMMA FlattenLength ==
  ASSUME NEW X, NEW ss \in Seq(Seq(X)), NEW c \in Nat,
         \A i \in 1..Len(ss) : Len(ss[i]) <= c
  PROVE  Len(FlattenSeq(ss)) <= c * Len(ss)
<1>0. Len(ss) \in Nat
  BY LenProperties
<1>1. CASE Len(ss) = 0
  <2>1. FlattenSeq(ss) = ss
    BY <1>1 DEF FlattenSeq
  <2>2. c * 0 = 0
    OBVIOUS
  <2> QED
    BY <1>1, <2>1, <2>2
<1>2. CASE Len(ss) # 0
  <2> DEFINE L == Len(ss)
  <2>1. PICK k \in [1..L -> Seq(X)] :
          /\ k[1] = ss[1]
          /\ \A i \in 2..L : k[i] = k[i - 1] \o ss[i]
          /\ FlattenSeq(ss) = k[L]
    BY <1>2, FlattenLoop
  <2> DEFINE T == {i \in 0..L : i # 0 => Len(k[i]) <= c * i}
  <2>2. \A i \in 0..L : i \in T
    <3>1. 0 \in T
      BY <1>0
    <3>2. ASSUME NEW i \in 1..L, i - 1 \in T PROVE i \in T
      <4>1. i \in 0..L /\ i \in Nat /\ ss[i] \in Seq(X) /\ Len(ss[i]) <= c
        BY <1>0, ElementOfSeq
      <4>2. CASE i = 1
        <5>1. c * 1 = c
          OBVIOUS
        <5> QED
          BY <2>1, <4>1, <4>2, <5>1
      <4>3. CASE i # 1
        <5>1. i \in 2..L /\ i - 1 \in 1..L /\ i - 1 # 0
          BY <1>0, <4>3
        <5>2. k[i] = k[i - 1] \o ss[i] /\ k[i - 1] \in Seq(X)
          BY <2>1, <5>1
        <5>3. Len(k[i - 1]) <= c * (i - 1)
          BY <3>2, <5>1
        <5>4. Len(k[i]) = Len(k[i - 1]) + Len(ss[i])
          BY <4>1, <5>2, ConcatProperties
        <5>5. Len(k[i - 1]) \in Nat /\ Len(ss[i]) \in Nat
          BY <4>1, <5>2, LenProperties
        <5>6. (c * (i - 1)) + c = c * i /\ c * (i - 1) \in Int
          BY <4>1
        <5>7. Len(k[i]) <= c * i
          <6> DEFINE u == Len(k[i - 1])
                     v == Len(ss[i])
                     p == c * (i - 1)
                     q == c * i
          <6>1. /\ u \in Nat /\ v \in Nat /\ p \in Int /\ p + c = q
                /\ u <= p /\ v <= c /\ Len(k[i]) = u + v
            BY <4>1, <5>3, <5>4, <5>5, <5>6
          <6> HIDE DEF u, v, p, q
          <6>2. Len(k[i]) <= q
            BY <6>1
          <6> QED
            BY <6>2 DEF q
        <5> QED
          BY <4>1, <5>7
      <4> QED
        BY <4>2, <4>3
    <3> HIDE DEF T, L
    <3> QED
      BY <1>0, <3>1, <3>2, LoopInduction DEF L
  <2>3. L \in 0..L /\ L # 0
    BY <1>0, <1>2
  <2> QED
    BY <2>1, <2>2, <2>3
<1> QED
  BY <1>1, <1>2
=============================================================================
