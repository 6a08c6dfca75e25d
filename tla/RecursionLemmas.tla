-------------------------- MODULE RecursionLemmas --------------------------
(***************************************************************************)
(* Induction and recursive functions, in a form that is first-order: where *)
(* the library's induction theorems take a predicate or a step as an       *)
(* operator, these take a set or a function.  They rest on one fact of the *)
(* library, that < is well founded on Nat.                                 *)
(***************************************************************************)
EXTENDS Integers, WellFoundedInduction, TLAPS

-----------------------------------------------------------------------------
(* Induction. *)

\* Every set of natural numbers that is not empty has a least one.
LEMMA NatMin ==
  ASSUME NEW T, T \subseteq Nat, T # {}
  PROVE  \E m \in T : \A y \in T : m <= y
<1> DEFINE R == OpToRel(<, Nat)
<1>1. IsWellFoundedOn(R, Nat)
  BY NatLessThanWellFounded
<1>3. \A x, y \in T : y < x => <<y, x>> \in R
  BY DEF OpToRel
<1> HIDE DEF R
<1>2. PICK x \in T : \A y \in T : ~ (<<y, x>> \in R)
  BY <1>1, WFMin
<1>4. \A y \in T : ~(y < x)
  BY <1>2, <1>3
<1>5. \A y \in T : x <= y
  <2> TAKE y \in T
  <2>1. x \in Nat /\ y \in Nat
    OBVIOUS
  <2> QED
    BY <1>4, <2>1
<1> QED
  BY <1>5

\* A set with a measure has an element that no other is smaller than.
LEMMA LeastBy ==
  ASSUME NEW S, NEW m \in [S -> Nat], NEW T, T \subseteq S, T # {}
  PROVE  \E x \in T : \A y \in S : m[y] < m[x] => y \notin T
<1> DEFINE M == {m[x] : x \in T}
<1>1. M \subseteq Nat /\ M # {}
  OBVIOUS
<1>2. PICK k \in M : \A y \in M : k <= y
  <2> HIDE DEF M
  <2> QED
    BY <1>1, NatMin
<1>3. PICK x \in T : m[x] = k
  OBVIOUS
<1>4. \A y \in T : ~(m[y] < m[x])
  <2> TAKE y \in T
  <2>1. m[y] \in M /\ m[y] \in Nat /\ m[x] \in Nat
    OBVIOUS
  <2>2. k <= m[y]
    BY <1>2, <2>1
  <2> HIDE DEF M
  <2> QED
    BY <1>3, <2>1, <2>2
<1> QED
  BY <1>4

\* Induction over the natural numbers, the property being membership in T.
LEMMA SetInduction ==
  ASSUME NEW T, 0 \in T, \A n \in Nat : n \in T => n + 1 \in T
  PROVE  \A n \in Nat : n \in T
<1> DEFINE B == Nat \ T
<1> SUFFICES ASSUME B # {} PROVE FALSE
  OBVIOUS
<1>1. PICK n \in B : \A k \in B : n <= k
  <2>1. B \subseteq Nat
    OBVIOUS
  <2> HIDE DEF B
  <2> QED
    BY <2>1, NatMin
<1>2. n \in Nat /\ n \notin T /\ n # 0
  OBVIOUS
<1>3. n - 1 \in Nat /\ n - 1 \in T
  <2>1. n - 1 \in Nat /\ ~(n <= n - 1)
    BY <1>2
  <2>2. n - 1 \notin B
    <3> HIDE DEF B
    <3> QED
      BY <1>1, <2>1
  <2> QED
    BY <2>1, <2>2
<1>4. (n - 1) + 1 = n
  BY <1>2
<1> QED
  BY <1>2, <1>3, <1>4

\* The same for the numbers up to n: what a loop that runs n times keeps.
LEMMA LoopInduction ==
  ASSUME NEW n \in Nat, NEW T, 0 \in T, \A i \in 1..n : i - 1 \in T => i \in T
  PROVE  \A i \in 0..n : i \in T
<1> DEFINE U == {i \in Nat : i <= n => i \in T}
<1>1. 0 \in U
  OBVIOUS
<1>2. ASSUME NEW i \in Nat, i \in U PROVE i + 1 \in U
  <2> SUFFICES ASSUME i + 1 <= n PROVE i + 1 \in T
    OBVIOUS
  <2>1. i + 1 \in 1..n /\ (i + 1) - 1 = i /\ i <= n
    OBVIOUS
  <2>2. i \in T
    BY <1>2, <2>1
  <2> QED
    BY <2>1, <2>2
<1>3. \A i \in Nat : i \in U
  <2> HIDE DEF U
  <2> QED
    BY <1>1, <1>2, SetInduction
<1> QED
  BY <1>3

-----------------------------------------------------------------------------
(* Recursive functions. *)

\* step[x][f] looks at f only where the measure m is smaller than at x.
Descends(S, m, X, step) ==
  \A x \in S : \A f, g \in [S -> X] :
    (\A y \in S : m[y] < m[x] => f[y] = g[y]) => step[x][f] = step[x][g]

\* f is the function that step defines recursively.
Unfolds(f, S, step) == f = [x \in S |-> step[x][f]]

\* A step that descends defines a function: the equation TLA+ gives a recursive
\* function f[x \in S] == ... has a solution.
LEMMA Recursion ==
  ASSUME NEW S, NEW m \in [S -> Nat], NEW X, X # {},
         NEW step \in [S -> [[S -> X] -> X]], Descends(S, m, X, step)
  PROVE  \E f \in [S -> X] : Unfolds(f, S, step)
<1> USE DEF Descends
<1> DEFINE Good(n, f) == \A x \in S : m[x] < n => f[x] = step[x][f]
<1>1. \A n \in Nat : \E f \in [S -> X] : Good(n, f)
  <2> DEFINE B == {n \in Nat : ~ \E f \in [S -> X] : Good(n, f)}
  <2> SUFFICES ASSUME B # {} PROVE FALSE
    OBVIOUS
  <2>1. PICK n \in B : \A k \in B : n <= k
    <3>1. B \subseteq Nat
      OBVIOUS
    <3> HIDE DEF B
    <3> QED
      BY <3>1, NatMin
  <2>2. n # 0
    <3>1. PICK a \in X : TRUE
      OBVIOUS
    <3>2. [x \in S |-> a] \in [S -> X] /\ Good(0, [x \in S |-> a])
      OBVIOUS
    <3> QED
      BY <3>2
  <2>3. n - 1 \in Nat /\ n - 1 \notin B
    <3>1. n \in Nat
      OBVIOUS
    <3> HIDE DEF B
    <3>2. n - 1 \in Nat /\ ~(n <= n - 1)
      BY <2>2, <3>1
    <3> QED
      BY <2>1, <3>2
  <2>4. PICK f \in [S -> X] : Good(n - 1, f)
    BY <2>3
  <2> DEFINE g == [x \in S |-> step[x][f]]
  <2>5. g \in [S -> X]
    OBVIOUS
  <2>6. ASSUME NEW x \in S, m[x] < n PROVE g[x] = step[x][g]
    <3>1. ASSUME NEW y \in S, m[y] < m[x] PROVE f[y] = g[y]
      <4>1. m[y] < n - 1
        BY <2>3, <2>6, <3>1
      <4> QED
        BY <2>4, <4>1
    <3>2. step[x][f] = step[x][g]
      <4> HIDE DEF g, Good
      <4> QED
        BY <2>5, <3>1
    <3> QED
      BY <3>2
  <2>7. Good(n, g)
    BY <2>6
  <2> HIDE DEF g, Good
  <2>8. n \notin B
    BY <2>5, <2>7
  <2> QED
    BY <2>8
<1>2. ASSUME NEW n \in Nat, NEW k \in Nat, n <= k, NEW f \in [S -> X],
             NEW g \in [S -> X], Good(n, f), Good(k, g), NEW z \in S, m[z] < n
      PROVE  f[z] = g[z]
  <2> DEFINE D == {x \in S : m[x] < n /\ f[x] # g[x]}
  <2> SUFFICES ASSUME D # {} PROVE FALSE
    BY <1>2
  <2>1. PICK x \in D : \A y \in S : m[y] < m[x] => y \notin D
    <3>1. D \subseteq S
      OBVIOUS
    <3> HIDE DEF D, Good
    <3> QED
      BY ONLY m \in [S -> Nat], D # {}, <3>1, LeastBy, ZenonT(40)
  <2>2. x \in S /\ m[x] < n /\ m[x] < k /\ m[x] \in Nat
    BY <1>2
  <2>3. \A y \in S : m[y] < m[x] => f[y] = g[y]
    BY <2>1, <2>2
  <2>4. step[x][f] = step[x][g]
    BY <2>2, <2>3
  <2> QED
    BY <1>2, <2>1, <2>2, <2>4
<1> DEFINE F == [n \in Nat |-> CHOOSE f \in [S -> X] : Good(n, f)]
           G == [x \in S |-> F[m[x] + 1][x]]
<1>3. \A n \in Nat : F[n] \in [S -> X] /\ Good(n, F[n])
  <2> TAKE n \in Nat
  <2>1. F[n] = CHOOSE f \in [S -> X] : Good(n, f)
    OBVIOUS
  <2> HIDE DEF F, Good
  <2> QED
    BY <1>1, <2>1
<1>4. ASSUME NEW n \in Nat, NEW k \in Nat, n <= k, NEW z \in S, m[z] < n
      PROVE  F[n][z] = F[k][z]
  <2> HIDE DEF F, Good
  <2>1. F[n] \in [S -> X] /\ F[k] \in [S -> X] /\ Good(n, F[n]) /\ Good(k, F[k])
    BY <1>3
  <2> QED
    BY <1>2, <1>4, <2>1, ZenonT(40)
<1>5. G \in [S -> X] /\ \A x \in S : G[x] = F[m[x] + 1][x]
  <2> HIDE DEF F
  <2> QED
    BY <1>3
<1>6. ASSUME NEW x \in S PROVE G[x] = step[x][G]
  <2> HIDE DEF F, G
  <2>1. m[x] + 1 \in Nat /\ m[x] \in Nat /\ m[x] < m[x] + 1
    OBVIOUS
  <2>2. G[x] = step[x][F[m[x] + 1]]
    BY <1>3, <1>5, <2>1
  <2>3. ASSUME NEW y \in S, m[y] < m[x] PROVE F[m[x] + 1][y] = G[y]
    <3>1. m[y] + 1 \in Nat /\ m[y] + 1 <= m[x] + 1 /\ m[y] < m[y] + 1
      BY <2>1, <2>3
    <3> HIDE DEF Good
    <3>2. F[m[y] + 1][y] = F[m[x] + 1][y]
      BY <1>4, <2>1, <3>1
    <3> QED
      BY <1>5, <3>2
  <2>4. step[x][F[m[x] + 1]] = step[x][G]
    <3> HIDE DEF Good
    <3> QED
      BY <1>3, <1>5, <2>1, <2>3
  <2> QED
    BY <2>2, <2>4
<1>7. Unfolds(G, S, step)
  <2> HIDE DEF F
  <2>1. G = [x \in S |-> G[x]]
    OBVIOUS
  <2> HIDE DEF G
  <2> QED
    BY <1>5, <1>6 DEF Unfolds
<1> QED
  BY <1>5, <1>7

\* f is what a loop carries from 0 to n.
Iterates(f, n, base, step) ==
  f = [i \in 0..n |-> IF i = 0 THEN base ELSE step[i][f[i - 1]]]

\* A loop whose step is a function has such an f.
LEMMA Iteration ==
  ASSUME NEW n \in Nat, NEW X, NEW base \in X, NEW step \in [1..n -> [X -> X]]
  PROVE  \E f \in [0..n -> X] : Iterates(f, n, base, step)
<1> DEFINE S == 0..n
           m == [i \in S |-> i]
           st == [x \in S |-> [f \in [S -> X] |->
                    IF x = 0 THEN base ELSE step[x][f[x - 1]]]]
<1>1. m \in [S -> Nat] /\ X # {}
  OBVIOUS
<1>2. \A x \in S, f \in [S -> X] :
        st[x][f] = IF x = 0 THEN base ELSE step[x][f[x - 1]]
  OBVIOUS
<1>3. \A x \in S : x # 0 => x \in 1..n /\ x - 1 \in S /\ m[x - 1] < m[x]
  OBVIOUS
<1>4. st \in [S -> [[S -> X] -> X]]
  <2>1. ASSUME NEW x \in S, NEW f \in [S -> X]
        PROVE  (IF x = 0 THEN base ELSE step[x][f[x - 1]]) \in X
    <3> HIDE DEF S
    <3> QED
      BY <1>3
  <2> HIDE DEF S
  <2> QED
    BY <2>1
<1>5. Descends(S, m, X, st)
  <2> SUFFICES ASSUME NEW x \in S, NEW f \in [S -> X], NEW g \in [S -> X],
                      \A y \in S : m[y] < m[x] => f[y] = g[y]
               PROVE  st[x][f] = st[x][g]
    BY DEF Descends
  <2> HIDE DEF S, m, st
  <2>1. x # 0 => f[x - 1] = g[x - 1]
    BY <1>3
  <2>2. /\ st[x][f] = IF x = 0 THEN base ELSE step[x][f[x - 1]]
        /\ st[x][g] = IF x = 0 THEN base ELSE step[x][g[x - 1]]
    BY <1>2
  <2> QED
    BY <2>1, <2>2
<1>6. \E f \in [S -> X] : Unfolds(f, S, st)
  <2> HIDE DEF S, m, st
  <2> QED
    BY <1>1, <1>4, <1>5, Recursion
<1>7. PICK f \in [S -> X] : Unfolds(f, S, st)
  BY <1>6
<1>8. f = [i \in S |-> IF i = 0 THEN base ELSE step[i][f[i - 1]]]
  <2> HIDE DEF S, st
  <2> QED
    BY <1>2, <1>7 DEF Unfolds
<1> QED
  BY <1>7, <1>8 DEF Iterates
=============================================================================
