--------------------------- MODULE DataInduction ----------------------------
(* Induction over numbers, and functions that are defined by recursion *)
EXTENDS Integers, SequenceTheorems, WellFoundedInduction, TLAPS

\* The numbers are well-founded: a set of them has a least one.
LEMMA Least ==
  ASSUME NEW T, T \subseteq Nat, T # {}
  PROVE  \E n \in T : \A m \in T : n <= m
<1> DEFINE R == OpToRel(<, Nat)
<1>1. IsWellFoundedOn(R, Nat)
  BY NatLessThanWellFounded, Zenon
<1>2. \A x, y \in Nat : x < y => <<x, y>> \in R
  BY SMT DEF OpToRel
<1> HIDE DEF R
<1>3. PICK n \in T : \A m \in T : ~(<<m, n>> \in R)
  BY <1>1, WFMin, Zenon
<1>4. ASSUME NEW m \in T PROVE n <= m
  <2>1. ~(m < n)
    BY <1>2, <1>3, Zenon
  <2> QED
    BY <2>1, SMT
<1> QED
  BY <1>4, Zenon

\* A set with 0, and with each number after one it has, has all up to N.
LEMMA UpTo ==
  ASSUME NEW N \in Nat, NEW T, 0 \in T, \A n \in 1 .. N : n - 1 \in T => n \in T
  PROVE  \A n \in 0 .. N : n \in T
<1> DEFINE U == (0 .. N) \ T
<1>1. SUFFICES ASSUME U # {} PROVE FALSE
  BY Zenon
<1>2. U \subseteq Nat
  BY SMT
<1>3. PICK n \in U : \A m \in U : n <= m
  <2> HIDE DEF U
  <2> QED
    BY <1>1, <1>2, Least, Zenon
<1>4. n # 0 /\ n \in 0 .. N /\ n \notin T
  BY <1>3, Zenon
<1>5. n \in 1 .. N /\ n - 1 \in 0 .. N /\ ~(n <= n - 1)
  BY <1>4, SMT
<1>6. n - 1 \in T
  BY <1>3, <1>5, Zenon
<1> QED
  BY <1>4, <1>5, <1>6, Zenon

\* f is what N steps make of base.
Iterated(f, N, S, base, step) ==
    f \in [0 .. N -> S] /\ f[0] = base /\ \A n \in 1 .. N : f[n] = step[n][f[n - 1]]

\* What N steps make of base exists: a function defined by recursion has the values
\* that its definition says.
LEMMA Iteration ==
  ASSUME NEW N \in Nat, NEW S, NEW base \in S, NEW step \in [1 .. N -> [S -> S]]
  PROVE  \E f : Iterated(f, N, S, base, step)
<1> DEFINE T == { n \in 0 .. N : \E f : Iterated(f, n, S, base, step) }
<1>1. 0 \in T
  <2>1. Iterated([m \in 0 .. 0 |-> base], 0, S, base, step)
    BY SMT DEF Iterated
  <2>2. 0 \in 0 .. N
    BY SMT
  <2> QED
    BY <2>1, <2>2, Zenon
<1>2. ASSUME NEW n \in 1 .. N, n - 1 \in T PROVE n \in T
  <2>1. PICK f : Iterated(f, n - 1, S, base, step)
    BY <1>2, Zenon
  <2> DEFINE g == [m \in 0 .. n |-> IF m = n THEN step[n][f[n - 1]] ELSE f[m]]
  <2>2. f \in [0 .. n - 1 -> S] /\ f[0] = base /\ \A m \in 1 .. n - 1 : f[m] = step[m][f[m - 1]]
    BY <2>1, Zenon DEF Iterated
  <2>3. n \in 0 .. n /\ 0 \in 0 .. n /\ 0 # n /\ n - 1 \in 0 .. n - 1
    BY SMT
  <2>4. step[n][f[n - 1]] \in S
    BY <2>2, <2>3, Zenon
  <2>5. ASSUME NEW m \in 0 .. n, m # n PROVE m \in 0 .. n - 1
    BY <2>5, SMT
  <2>6. g \in [0 .. n -> S] /\ g[0] = base
    BY <2>2, <2>3, <2>4, <2>5, Zenon
  <2>7. ASSUME NEW m \in 1 .. n PROVE g[m] = step[m][g[m - 1]]
    <3>1. m \in 0 .. n /\ m - 1 \in 0 .. n /\ m - 1 # n /\ (m # n => m \in 1 .. n - 1)
      BY SMT
    <3>2. g[m - 1] = f[m - 1] /\ g[m] = IF m = n THEN step[n][f[n - 1]] ELSE f[m]
      BY <3>1, Zenon
    <3> HIDE DEF g
    <3> QED
      BY <2>2, <3>1, <3>2, Zenon
  <2> HIDE DEF g
  <2>8. Iterated(g, n, S, base, step)
    BY <2>6, <2>7, Zenon DEF Iterated
  <2>9. n \in 0 .. N
    BY SMT
  <2> QED
    BY <2>8, <2>9, Zenon
<1> HIDE DEF T
<1>3. \A n \in 0 .. N : n \in T
  BY <1>1, <1>2, UpTo, Zenon
<1>4. N \in 0 .. N
  BY SMT
<1> QED
  BY <1>3, <1>4, Zenon DEF T

\* A function on 1 .. n is a sequence of that length.
LEMMA FunctionSeq ==
  ASSUME NEW S, NEW n \in Nat, NEW f \in [1 .. n -> S]
  PROVE  f \in Seq(S) /\ Len(f) = n
<1>1. f \in Seq(S)
  BY SeqDef, Zenon
<1>2. Len(f) \in Nat /\ DOMAIN f = 1 .. Len(f) /\ DOMAIN f = 1 .. n
  BY <1>1, LenProperties, Zenon
<1> QED
  BY <1>1, <1>2, SMT

=============================================================================
