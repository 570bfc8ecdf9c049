--------------------------- MODULE Recursion_proofs ---------------------------
(***************************************************************************)
(* Lemmas about naturals, sequences and functions defined by recursion     *)
(* that every other proof module may use.  Induction over the naturals is  *)
(* used in the form "a set of naturals that contains 0 and is closed under *)
(* successor is Nat" (NatSet).                                             *)
(***************************************************************************)
EXTENDS Integers, Sequences, FiniteSetTheorems, TLAPS

(* A nonempty set of naturals has a least element.                         *)
LEMMA LeastNat ==
  ASSUME NEW T \in SUBSET Nat, T # {}
  PROVE  \E x \in T : \A y \in T : x <= y
<1> DEFINE Below == {0 .. k : k \in T}
<1>1. Below \subseteq FiniteSubsetsOf(Nat)
  <2>1. ASSUME NEW k \in T PROVE (0 .. k) \in FiniteSubsetsOf(Nat)
    <3>1. IsFiniteSet(0 .. k)
      BY FS_Interval
    <3>2. QED
      BY <3>1, SMT DEF FiniteSubsetsOf
  <2>2. QED
    BY <2>1
<1>2. Below # {}
  OBVIOUS
<1>3. PICK b \in Below :
        \A c \in Below : ~ (<<c, b>> \in StrictSubsetOrdering(Nat))
  <2> HIDE DEF Below
  <2> QED
    BY <1>1, <1>2, WFMin, FS_StrictSubsetOrderingWellFounded
<1>4. PICK x \in T : b = 0 .. x
  OBVIOUS
<1>5. ASSUME NEW y \in T, y < x
      PROVE  FALSE
  <2>1. (0 .. y) \in Below
    OBVIOUS
  <2>2. /\ (0 .. y) \subseteq (0 .. x)
        /\ (0 .. y) # (0 .. x)
    <3>1. x \in 0 .. x /\ x \notin 0 .. y
      BY <1>5
    <3>2. QED
      BY <1>5, <3>1
  <2>3. <<0 .. y, 0 .. x>> \in StrictSubsetOrdering(Nat)
    BY <2>2 DEF StrictSubsetOrdering
  <2>4. QED
    BY <1>3, <1>4, <2>1, <2>3
<1>6. QED
  BY <1>5

(* Induction, for a set of naturals.                                       *)
LEMMA NatSet ==
  ASSUME NEW S \in SUBSET Nat, 0 \in S, \A n \in S : n + 1 \in S
  PROVE  S = Nat
<1>1. SUFFICES ASSUME Nat \ S # {}
               PROVE  FALSE
  OBVIOUS
<1>2. PICK x \in Nat \ S : \A y \in Nat \ S : x <= y
  BY <1>1, LeastNat
<1>3. x - 1 \in Nat /\ x - 1 \notin Nat \ S
  BY <1>2
<1>4. QED
  BY <1>2, <1>3

(* What Append and EXCEPT make of a sequence.                               *)
LEMMA AppendFacts ==
  ASSUME NEW S, NEW q \in Seq(S), NEW e \in S
  PROVE  /\ Append(q, e) \in Seq(S)
         /\ Len(q) \in Nat
         /\ Len(Append(q, e)) = Len(q) + 1
         /\ \A k \in 1 .. Len(q) : Append(q, e)[k] = q[k]
         /\ Append(q, e)[Len(q) + 1] = e
OBVIOUS

LEMMA ReplaceFacts ==
  ASSUME NEW S, NEW q \in Seq(S), NEW i \in 1 .. Len(q), NEW e \in S
  PROVE  /\ [q EXCEPT ![i] = e] \in Seq(S)
         /\ Len([q EXCEPT ![i] = e]) = Len(q)
         /\ [q EXCEPT ![i] = e][i] = e
         /\ \A k \in 1 .. Len(q) : k # i => [q EXCEPT ![i] = e][k] = q[k]
OBVIOUS

LEMMA FunctionIsSequence ==
  ASSUME NEW S, NEW n \in Nat, NEW q \in [1 .. n -> S]
  PROVE  q \in Seq(S) /\ Len(q) = n
OBVIOUS

\* f is defined from lo up to hi by its value at lo and the step function g.
Recurses(f, lo, hi, D, start, g) ==
  /\ f \in [lo .. hi -> D]
  /\ f[lo] = start
  /\ \A k \in (lo + 1) .. hi : f[k] = g[<<k, f[k - 1]>>]

(* A function defined by recursion from lo up to hi exists.                *)
LEMMA RecursionExists ==
  ASSUME NEW lo \in Nat, NEW hi \in Nat, lo <= hi,
         NEW D, NEW start \in D,
         NEW g \in [((lo + 1) .. hi) \X D -> D]
  PROVE  \E f : Recurses(f, lo, hi, D, start, g)
<1> DEFINE Upto(n) ==
      \E f \in [lo .. (lo + n) -> D] :
        /\ f[lo] = start
        /\ \A k \in (lo + 1) .. (lo + n) : f[k] = g[<<k, f[k - 1]>>]
<1> DEFINE S == {n \in Nat : lo + n <= hi => Upto(n)}
<1>1. 0 \in S
  <2>1. lo .. (lo + 0) = {lo} /\ (lo + 1) .. (lo + 0) = {}
    OBVIOUS
  <2>2. [k \in lo .. (lo + 0) |-> start] \in [lo .. (lo + 0) -> D]
    OBVIOUS
  <2>3. QED
    BY <2>1, <2>2
<1>2. ASSUME NEW n \in S
      PROVE  n + 1 \in S
  <2>1. SUFFICES ASSUME lo + (n + 1) <= hi
                 PROVE  Upto(n + 1)
    OBVIOUS
  <2>2. PICK f \in [lo .. (lo + n) -> D] :
          /\ f[lo] = start
          /\ \A k \in (lo + 1) .. (lo + n) : f[k] = g[<<k, f[k - 1]>>]
    BY <1>2, <2>1
  <2> DEFINE h == [k \in lo .. (lo + (n + 1)) |->
                     IF k = lo + n + 1 THEN g[<<k, f[k - 1]>>] ELSE f[k]]
  <2>3. lo + n + 1 \in (lo + 1) .. hi /\ f[lo + n] \in D
    BY <1>2, <2>1
  <2>4. g[<<lo + n + 1, f[lo + n]>>] \in D
    BY <2>3
  <2>5. h \in [lo .. (lo + (n + 1)) -> D]
    <3>1. ASSUME NEW k \in lo .. (lo + (n + 1))
          PROVE  (IF k = lo + n + 1 THEN g[<<k, f[k - 1]>>] ELSE f[k]) \in D
      <4>1. CASE k = lo + n + 1
        BY <2>4, <4>1, k - 1 = lo + n
      <4>2. CASE k # lo + n + 1
        <5>1. k \in lo .. (lo + n)
          BY <4>2
        <5>2. QED
          BY <4>2, <5>1
      <4>3. QED
        BY <4>1, <4>2
    <3>2. QED
      BY <3>1
  <2>6. h[lo] = start
    BY <2>2, lo # lo + n + 1
  <2>7. ASSUME NEW k \in (lo + 1) .. (lo + (n + 1))
        PROVE  h[k] = g[<<k, h[k - 1]>>]
    <3>1. k - 1 \in lo .. (lo + n) /\ k \in lo .. (lo + (n + 1))
      OBVIOUS
    <3>2. h[k - 1] = f[k - 1]
      BY <3>1
    <3>3. QED
      BY <2>2, <3>1, <3>2
  <2>8. QED
    BY <2>5, <2>6, <2>7
<1>3. S = Nat
  <2> HIDE DEF S
  <2>1. S \subseteq Nat
    BY DEF S
  <2>2. QED
    BY <1>1, <1>2, <2>1, NatSet
<1>4. hi - lo \in Nat /\ lo + (hi - lo) = hi
  OBVIOUS
<1>5. hi - lo \in S
  BY <1>3, <1>4
<1>6. QED
  BY <1>4, <1>5 DEF Recurses
=============================================================================
