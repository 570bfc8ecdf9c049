------------------------- MODULE Activations_proofs -------------------------
(***************************************************************************)
(* Theorems about the stack of activations, for every value of the         *)
(* constants: its types, the exact depths, the exact loop flag, and that   *)
(* an import is evaluated once and as a whole.                             *)
(*                                                                         *)
(* break, continue and return look for the frame they return to, and only  *)
(* the loop flag and the depth of value functions say that there is one:   *)
(* so the invariant has to relate both to the frames, and each saved flag  *)
(* to the frames below it (StackOK).  An import lies on sources only       *)
(* (ImportsLow), so no loop and no call can be below it and nothing but    *)
(* its own end leaves it.                                                  *)
(***************************************************************************)
EXTENDS Activations, SequenceTheorems, FiniteSetTheorems, WellFoundedInduction, TLAPS

Kinds == {"source", "block", "loop"} \cup Calls

FrameSet ==
  [kind : Kinds, saved : BOOLEAN, identity : Identities \cup {None},
   mode : {"include", "import", None}, open : Int]

KindsOf(s, kinds) == {n \in 1 .. Len(s) : s[n].kind \in kinds}

\* A loop surrounds what is above position k, with no call in between.
LoopAt(s, k) ==
  \E l \in 1 .. k :
    s[l].kind = "loop" /\ \A m \in 1 .. k : s[m].kind \in Calls => m < l

FlagsOK(s, flag) ==
  /\ flag <=> LoopAt(s, Len(s))
  /\ \A n \in 1 .. Len(s) :
       s[n].kind \in Calls \cup {"loop"} => (s[n].saved <=> LoopAt(s, n - 1))

ImportsLow(s) ==
  \A n \in 1 .. Len(s) :
    s[n].mode = "import" => \A m \in 1 .. n : s[m].kind = "source"

Distinct(s) ==
  \A m, n \in 1 .. Len(s) :
    s[m].kind = "source" /\ s[n].kind = "source" /\ s[m].identity = s[n].identity => m = n

Identified(s) ==
  \A n \in 1 .. Len(s) : s[n].kind = "source" => s[n].identity \in Identities

Counted(s, calls, values) ==
  /\ calls = Cardinality(KindsOf(s, Calls)) /\ calls <= MaxCallDepth
  /\ values = Cardinality(KindsOf(s, {"value"}))
  /\ Cardinality(KindsOf(s, {"source"})) <= MaxIncludeDepth

StackOK(s, flag, calls, values) ==
  /\ s \in Seq(FrameSet) /\ flag \in BOOLEAN
  /\ FlagsOK(s, flag)
  /\ ImportsLow(s)
  /\ Distinct(s)
  /\ Identified(s)
  /\ Counted(s, calls, values)

Rooted == Running => Len(frames) >= 1 /\ frames[1].kind = "source"

\* An import that was started is remembered or still active.
ImportsOK ==
  /\ imported \subseteq Identities
  /\ evaluations \in [Identities -> Nat]
  /\ \A i \in Identities :
       /\ evaluations[i] <= 1
       /\ Running /\ evaluations[i] = 1 =>
            i \in imported \/ \E n \in 1 .. Len(frames) : frames[n].mode = "import" /\ frames[n].identity = i

IInv == StackOK(frames, inLoop, callDepth, valueDepth) /\ Rooted /\ ImportsOK

-----------------------------------------------------------------------------
(* Sets of positions *)

\* A set of positions is finite and, unless empty, has a first and a last.
LEMMA FirstPosition ==
  ASSUME NEW T, T \subseteq Nat, T # {}
  PROVE  \E x \in T : \A y \in T : x <= y
<1>1. PICK x \in T : \A y \in T : ~(<<y, x>> \in OpToRel(<, Nat))
  BY NatLessThanWellFounded, WFMin
<1>2. \A y \in T : ~(y < x)
  BY <1>1 DEF OpToRel
<1> QED
  BY <1>2

LEMMA LastPosition ==
  ASSUME NEW N \in Nat, NEW T, T \subseteq 1 .. N, T # {}
  PROVE  \E x \in T : \A y \in T : y <= x
<1> DEFINE U == {N - y : y \in T}
<1>1. U \subseteq Nat /\ U # {}
  <2>1. PICK y \in T : y \in 1 .. N
    OBVIOUS
  <2>2. N - y \in U
    BY <2>1
  <2> QED
    BY <2>2
<1>2. PICK u \in U : \A w \in U : u <= w
  <2> HIDE DEF U
  <2> QED BY <1>1, FirstPosition
<1>3. PICK x \in T : u = N - x
  OBVIOUS
<1>4. \A y \in T : N - x <= N - y
  BY <1>2, <1>3
<1> QED
  BY <1>4

LEMMA PositionsFinite ==
  ASSUME NEW N \in Nat, NEW T, T \subseteq 1 .. N
  PROVE  IsFiniteSet(T) /\ Cardinality(T) \in Nat
<1>1. IsFiniteSet(1 .. N)
  BY FS_Interval
<1>2. T \in SUBSET (1 .. N)
  OBVIOUS
<1>3. IsFiniteSet(T)
  BY <1>1, <1>2, FS_Subset
<1> QED
  BY <1>3, FS_CardinalityType

LEMMA KindsFinite ==
  ASSUME NEW s \in Seq(FrameSet), NEW kinds
  PROVE  IsFiniteSet(KindsOf(s, kinds)) /\ Cardinality(KindsOf(s, kinds)) \in Nat
<1>1. KindsOf(s, kinds) \subseteq 1 .. Len(s) /\ Len(s) \in Nat
  BY DEF KindsOf
<1> QED
  BY <1>1, PositionsFinite

LEMMA KindsAreOfKind ==
  ASSUME frames \in Seq(FrameSet), NEW kinds
  PROVE  OfKind(kinds) = KindsOf(frames, kinds)
BY DEF OfKind, KindsOf

-----------------------------------------------------------------------------
(* What is kept, cut and pushed *)

LEMMA LoopAtPrefix ==
  ASSUME NEW s, NEW t, NEW k \in Nat, \A n \in 1 .. k : t[n].kind = s[n].kind
  PROVE  LoopAt(t, k) <=> LoopAt(s, k)
BY DEF LoopAt

\* Without loops and calls between two positions, both have the same answer.
LEMMA LoopAtSkips ==
  ASSUME NEW s, NEW j \in Nat, NEW k \in Nat, j <= k,
         \A n \in j + 1 .. k : s[n].kind \notin Calls \cup {"loop"}
  PROVE  LoopAt(s, k) <=> LoopAt(s, j)
<1>1. ASSUME NEW l \in 1 .. k, s[l].kind = "loop"
      PROVE  l \in 1 .. j
  BY <1>1
<1>2. ASSUME NEW m \in 1 .. k, s[m].kind \in Calls
      PROVE  m \in 1 .. j
  BY <1>2
<1>3. 1 .. j \subseteq 1 .. k
  OBVIOUS
<1> QED
  BY <1>1, <1>2, <1>3 DEF LoopAt

\* The fields the invariant reads.
Alike(s, t) ==
  /\ Len(t) = Len(s)
  /\ \A n \in 1 .. Len(s) :
       /\ t[n].kind = s[n].kind /\ t[n].mode = s[n].mode
       /\ t[n].identity = s[n].identity /\ t[n].saved = s[n].saved

LEMMA AlikeOK ==
  ASSUME NEW s, NEW t \in Seq(FrameSet), Alike(s, t),
         NEW flag, NEW calls, NEW values, StackOK(s, flag, calls, values)
  PROVE  StackOK(t, flag, calls, values)
<1> USE DEF StackOK, Alike
<1>1. Len(s) \in Nat /\ Len(t) = Len(s)
  OBVIOUS
<1>2. \A k \in 0 .. Len(s) : LoopAt(t, k) <=> LoopAt(s, k)
  BY <1>1, LoopAtPrefix
<1>3. FlagsOK(t, flag)
  <2>1. \A n \in 1 .. Len(s) : n - 1 \in 0 .. Len(s)
    BY <1>1
  <2> QED
    BY <1>1, <1>2, <2>1 DEF FlagsOK
<1>4. \A kinds : KindsOf(t, kinds) = KindsOf(s, kinds)
  BY DEF KindsOf
<1>5. Counted(t, calls, values)
  BY <1>4 DEF Counted
<1>6. ImportsLow(t)
  BY <1>1 DEF ImportsLow
<1> QED
  BY <1>1, <1>3, <1>5, <1>6 DEF Distinct, Identified

LEMMA CountCut ==
  ASSUME NEW s \in Seq(FrameSet), NEW n \in 0 .. Len(s), NEW kinds
  PROVE  Cardinality(KindsOf(SubSeq(s, 1, n), kinds)) =
           Cardinality(KindsOf(s, kinds)) - Cardinality({m \in KindsOf(s, kinds) : m > n})
<1> DEFINE K == KindsOf(s, kinds)
           A == {m \in K : m > n}
           t == SubSeq(s, 1, n)
<1>1. Len(t) = n /\ \A i \in 1 .. n : t[i] = s[i]
  OBVIOUS
<1>2. KindsOf(t, kinds) = K \ A
  BY <1>1 DEF KindsOf
<1>3. IsFiniteSet(K) /\ K \cap A = A
  BY KindsFinite
<1>4. Cardinality(K \ A) = Cardinality(K) - Cardinality(K \cap A)
  <2> HIDE DEF K, A
  <2> QED BY <1>3, FS_Difference
<1> QED
  BY <1>2, <1>3, <1>4

LEMMA CountPushed ==
  ASSUME NEW s \in Seq(FrameSet), NEW f \in FrameSet, NEW kinds
  PROVE  Cardinality(KindsOf(Append(s, f), kinds)) =
           IF f.kind \in kinds THEN Cardinality(KindsOf(s, kinds)) + 1 ELSE Cardinality(KindsOf(s, kinds))
<1> DEFINE K == KindsOf(s, kinds)
           t == Append(s, f)
           n == Len(s) + 1
<1>1. Len(t) = n /\ t[n] = f /\ \A i \in 1 .. Len(s) : t[i] = s[i]
  OBVIOUS
<1>2. KindsOf(t, kinds) = IF f.kind \in kinds THEN K \cup {n} ELSE K
  BY <1>1 DEF KindsOf
<1>3. n \notin K
  BY DEF KindsOf
<1>4. IsFiniteSet(K)
  BY KindsFinite
<1>5. Cardinality(K \cup {n}) = Cardinality(K) + 1
  <2> HIDE DEF K, n
  <2> QED BY <1>3, <1>4, FS_AddElement
<1> QED
  BY <1>2, <1>5

LEMMA CutOK ==
  ASSUME NEW s, NEW flag, NEW calls, NEW values, StackOK(s, flag, calls, values),
         NEW n \in 0 .. Len(s), NEW cut \in BOOLEAN, cut <=> LoopAt(s, n)
  PROVE  StackOK(SubSeq(s, 1, n), cut,
                 calls - Cardinality({m \in KindsOf(s, Calls) : m > n}),
                 values - Cardinality({m \in KindsOf(s, {"value"}) : m > n}))
<1> DEFINE t == SubSeq(s, 1, n)
<1>1. s \in Seq(FrameSet) /\ Len(s) \in Nat
  BY DEF StackOK
<1>2. t \in Seq(FrameSet) /\ Len(t) = n /\ \A i \in 1 .. n : t[i] = s[i]
  BY <1>1
<1>3. FlagsOK(t, cut)
  <2>1. \A k \in 0 .. n : LoopAt(t, k) <=> LoopAt(s, k)
    <3>1. \A k \in 0 .. n : k \in Nat /\ \A i \in 1 .. k : t[i].kind = s[i].kind
      BY <1>2
    <3> HIDE DEF t
    <3> QED
      BY <3>1, LoopAtPrefix
  <2>2. \A i \in 1 .. n : i - 1 \in 0 .. n /\ i \in 1 .. Len(s)
    BY <1>1
  <2> HIDE DEF t
  <2> QED
    BY <1>2, <2>1, <2>2 DEF FlagsOK, StackOK
<1>4. ImportsLow(t) /\ Distinct(t) /\ Identified(t)
  <2>1. \A i \in 1 .. n : i \in 1 .. Len(s) /\ \A m \in 1 .. i : m \in 1 .. n
    BY <1>1
  <2> HIDE DEF t
  <2> QED
    BY <1>2, <2>1 DEF ImportsLow, Distinct, Identified, StackOK
<1>5. \A kinds : /\ Cardinality(KindsOf(t, kinds)) =
                      Cardinality(KindsOf(s, kinds)) - Cardinality({m \in KindsOf(s, kinds) : m > n})
                 /\ Cardinality(KindsOf(t, kinds)) <= Cardinality(KindsOf(s, kinds))
  <2> TAKE kinds
  <2> DEFINE A == {m \in KindsOf(s, kinds) : m > n}
  <2>1. Cardinality(KindsOf(t, kinds)) = Cardinality(KindsOf(s, kinds)) - Cardinality(A)
    BY <1>1, CountCut
  <2>2. A \subseteq 1 .. Len(s)
    BY DEF KindsOf
  <2>3. Cardinality(A) \in Nat
    <3> HIDE DEF A
    <3> QED BY <1>1, <2>2, PositionsFinite
  <2>4. Cardinality(KindsOf(s, kinds)) \in Nat
    BY <1>1, KindsFinite
  <2> QED
    BY <2>1, <2>3, <2>4
<1>6. /\ Cardinality(KindsOf(s, Calls)) \in Nat
      /\ Cardinality(KindsOf(s, {"source"})) \in Nat
      /\ Cardinality(KindsOf(t, Calls)) \in Nat
      /\ Cardinality(KindsOf(t, {"source"})) \in Nat
  BY <1>1, <1>2, KindsFinite
<1>7. Counted(s, calls, values)
  BY DEF StackOK
<1>8. Counted(t, calls - Cardinality({m \in KindsOf(s, Calls) : m > n}),
                 values - Cardinality({m \in KindsOf(s, {"value"}) : m > n}))
  <2> HIDE DEF t
  <2> QED
    BY <1>5, <1>6, <1>7, LimitsAssumption DEF Counted
<1> QED
  BY <1>2, <1>3, <1>4, <1>8 DEF StackOK

\* What is put back is the flag of the frame that is returned to.
LEMMA RestoredFlag ==
  ASSUME StackOK(frames, inLoop, callDepth, valueDepth), NEW n \in 0 .. Len(frames)
  PROVE  Restored(n) \in BOOLEAN /\ (Restored(n) <=> LoopAt(frames, n))
<1> DEFINE changed == {m \in OfKind(Calls \cup {"loop"}) : m > n}
<1>1. frames \in Seq(FrameSet) /\ Len(frames) \in Nat /\ inLoop \in BOOLEAN /\ FlagsOK(frames, inLoop)
  BY DEF StackOK
<1>2. changed = {m \in n + 1 .. Len(frames) : frames[m].kind \in Calls \cup {"loop"}}
  BY <1>1 DEF OfKind
<1>3. CASE changed = {}
  <2>1. LoopAt(frames, Len(frames)) <=> LoopAt(frames, n)
    <3>1. \A m \in n + 1 .. Len(frames) : frames[m].kind \notin Calls \cup {"loop"}
      BY <1>2, <1>3
    <3> QED
      BY <1>1, <3>1, LoopAtSkips
  <2>2. Restored(n) = inLoop
    BY <1>3 DEF Restored
  <2> QED
    BY <1>1, <2>1, <2>2 DEF FlagsOK
<1>4. CASE changed # {}
  <2> DEFINE lowest == CHOOSE m \in changed : \A k \in changed : m <= k
  <2>1. lowest \in changed /\ \A k \in changed : lowest <= k
    <3> HIDE DEF changed
    <3>1. changed \subseteq Nat
      BY <1>1, <1>2
    <3> QED
      BY <1>4, <3>1, FirstPosition
  <2>2. Restored(n) = frames[lowest].saved
    BY <1>4 DEF Restored
  <2>3. lowest \in n + 1 .. Len(frames) /\ frames[lowest].kind \in Calls \cup {"loop"}
    BY <1>2, <2>1
  <2> HIDE DEF lowest
  <2>4. frames[lowest].saved \in BOOLEAN /\ (frames[lowest].saved <=> LoopAt(frames, lowest - 1))
    <3>1. lowest \in 1 .. Len(frames)
      BY <1>1, <2>3
    <3>2. frames[lowest] \in FrameSet
      BY <1>1, <3>1
    <3>3. frames[lowest].saved \in BOOLEAN
      BY <3>2 DEF FrameSet
    <3> QED
      BY <1>1, <2>3, <3>1, <3>3 DEF FlagsOK
  <2>5. \A m \in n + 1 .. lowest - 1 : frames[m].kind \notin Calls \cup {"loop"}
    <3>1. SUFFICES ASSUME NEW m \in n + 1 .. lowest - 1, frames[m].kind \in Calls \cup {"loop"}
                   PROVE  FALSE
      OBVIOUS
    <3>2. m \in n + 1 .. Len(frames) /\ m < lowest
      BY <1>1, <2>3
    <3>3. m \in changed
      BY <1>2, <3>1, <3>2
    <3>4. lowest <= m
      BY <2>1, <3>3
    <3> QED
      BY <1>1, <2>3, <3>2, <3>4
  <2>6. LoopAt(frames, lowest - 1) <=> LoopAt(frames, n)
    BY <2>3, <2>5, LoopAtSkips
  <2> QED
    BY <2>2, <2>4, <2>6
<1> QED
  BY <1>3, <1>4

\* The flag above a new frame.
LEMMA LoopAtPushed ==
  ASSUME NEW s \in Seq(FrameSet), NEW f \in FrameSet
  PROVE  LoopAt(Append(s, f), Len(s) + 1) <=>
           (f.kind = "loop" \/ (f.kind \notin Calls /\ LoopAt(s, Len(s))))
<1> DEFINE t == Append(s, f)
           n == Len(s) + 1
<1>1. Len(s) \in Nat /\ n \in Nat /\ t[n] = f /\ \A i \in 1 .. Len(s) : t[i] = s[i]
  OBVIOUS
<1>2. LoopAt(t, Len(s)) <=> LoopAt(s, Len(s))
  <2> HIDE DEF t
  <2> QED BY <1>1, LoopAtPrefix
<1>3. CASE f.kind \notin Calls \cup {"loop"}
  <2>1. \A m \in Len(s) + 1 .. n : t[m].kind \notin Calls \cup {"loop"}
    BY <1>1, <1>3
  <2>2. LoopAt(t, n) <=> LoopAt(t, Len(s))
    <3> HIDE DEF t
    <3> QED BY <1>1, <2>1, LoopAtSkips
  <2> QED
    BY <1>2, <1>3, <2>2
<1>4. CASE f.kind = "loop"
  <2>1. n \in 1 .. n /\ t[n].kind = "loop"
    BY <1>1, <1>4
  <2>2. ASSUME NEW m \in 1 .. n, t[m].kind \in Calls
        PROVE  m < n
    BY <1>1, <1>4, <2>2 DEF Calls
  <2> HIDE DEF t, n
  <2>3. LoopAt(t, n)
    BY <2>1, <2>2 DEF LoopAt
  <2> QED
    BY <1>4, <2>3 DEF t, n
<1>5. CASE f.kind \in Calls
  <2>1. f.kind # "loop"
    BY <1>5 DEF Calls
  <2>2. n \in 1 .. n /\ t[n].kind \in Calls /\ \A l \in 1 .. n : l < n \/ l = n
    BY <1>1, <1>5
  <2>3. ~LoopAt(t, n)
    <3>1. SUFFICES ASSUME NEW l \in 1 .. n, t[l].kind = "loop", \A m \in 1 .. n : t[m].kind \in Calls => m < l
                   PROVE  FALSE
      BY DEF LoopAt
    <3>2. n < l
      BY <2>2, <3>1
    <3> QED
      BY <1>1, <3>1, <3>2
  <2> QED
    BY <1>5, <2>1, <2>3
<1> QED
  BY <1>3, <1>4, <1>5

LEMMA PushOK ==
  ASSUME NEW s, NEW flag, NEW calls, NEW values, StackOK(s, flag, calls, values),
         NEW f \in FrameSet, NEW above \in BOOLEAN,
         f.saved = flag,
         above <=> (f.kind = "loop" \/ (f.kind \notin Calls /\ flag)),
         f.mode = "import" => f.kind = "source" /\ \A m \in 1 .. Len(s) : s[m].kind = "source",
         f.kind = "source" =>
           /\ f.identity \in Identities
           /\ \A m \in 1 .. Len(s) : s[m].kind = "source" => s[m].identity # f.identity
           /\ Cardinality(KindsOf(s, {"source"})) < MaxIncludeDepth,
         f.kind \in Calls => calls < MaxCallDepth
  PROVE  StackOK(Append(s, f), above,
                 IF f.kind \in Calls THEN calls + 1 ELSE calls,
                 IF f.kind = "value" THEN values + 1 ELSE values)
<1> DEFINE t == Append(s, f)
           n == Len(s) + 1
<1>1. s \in Seq(FrameSet) /\ Len(s) \in Nat /\ flag \in BOOLEAN
  BY DEF StackOK
<1>2. t \in Seq(FrameSet) /\ Len(t) = n /\ t[n] = f /\ \A i \in 1 .. Len(s) : t[i] = s[i]
  BY <1>1
<1>3. FlagsOK(s, flag) /\ ImportsLow(s) /\ Distinct(s) /\ Identified(s) /\ Counted(s, calls, values)
  BY DEF StackOK
<1>4. \A i \in 1 .. n : i \in 1 .. Len(s) \/ i = n
  BY <1>1
<1>5. FlagsOK(t, above)
  <2>1. \A k \in 0 .. Len(s) : LoopAt(t, k) <=> LoopAt(s, k)
    <3>1. \A k \in 0 .. Len(s) : k \in Nat /\ \A i \in 1 .. k : t[i].kind = s[i].kind
      BY <1>1, <1>2
    <3> HIDE DEF t
    <3> QED
      BY <3>1, LoopAtPrefix
  <2>2. LoopAt(t, n) <=> (f.kind = "loop" \/ (f.kind \notin Calls /\ LoopAt(s, Len(s))))
    BY <1>1, LoopAtPushed
  <2>3. flag <=> LoopAt(s, Len(s))
    BY <1>3 DEF FlagsOK
  <2>4. above <=> LoopAt(t, n)
    BY <2>2, <2>3
  <2>5. \A i \in 1 .. Len(s) : i - 1 \in 0 .. Len(s)
    BY <1>1
  <2>6. ASSUME NEW i \in 1 .. n, t[i].kind \in Calls \cup {"loop"}
        PROVE  t[i].saved <=> LoopAt(t, i - 1)
    <3>1. CASE i \in 1 .. Len(s)
      <4> HIDE DEF t
      <4> QED
        BY <1>2, <1>3, <2>1, <2>5, <2>6, <3>1 DEF FlagsOK
    <3>2. CASE i = n
      <4>1. i - 1 = Len(s) /\ Len(s) \in 0 .. Len(s)
        BY <1>1, <3>2
      <4>2. t[i].saved = flag
        BY <1>2, <3>2
      <4> HIDE DEF t
      <4> QED
        BY <2>1, <2>3, <4>1, <4>2
    <3> QED
      BY <1>4, <3>1, <3>2
  <2> HIDE DEF t, n
  <2> QED
    BY <1>2, <2>4, <2>6 DEF FlagsOK
<1>6. ImportsLow(t)
  <2>1. SUFFICES ASSUME NEW i \in 1 .. n, t[i].mode = "import", NEW m \in 1 .. i
                 PROVE  t[m].kind = "source"
    BY <1>2 DEF ImportsLow
  <2>2. CASE i \in 1 .. Len(s)
    <3>1. m \in 1 .. Len(s)
      BY <1>1, <2>2
    <3> HIDE DEF t
    <3> QED
      BY <1>2, <1>3, <2>1, <2>2, <3>1 DEF ImportsLow
  <2>3. CASE i = n
    <3>1. m \in 1 .. n
      BY <1>1, <2>3
    <3> HIDE DEF t
    <3> QED
      BY <1>2, <1>4, <2>1, <2>3, <3>1
  <2> QED
    BY <1>4, <2>2, <2>3
<1>7. Distinct(t) /\ Identified(t)
  <2> HIDE DEF t, n
  <2> QED
    BY <1>2, <1>3, <1>4 DEF Distinct, Identified
<1>8. \A kinds : Cardinality(KindsOf(t, kinds)) =
        IF f.kind \in kinds THEN Cardinality(KindsOf(s, kinds)) + 1 ELSE Cardinality(KindsOf(s, kinds))
  BY <1>1, CountPushed
<1>9. Counted(t, IF f.kind \in Calls THEN calls + 1 ELSE calls,
                 IF f.kind = "value" THEN values + 1 ELSE values)
  <2>1. Cardinality(KindsOf(s, Calls)) \in Nat /\ Cardinality(KindsOf(s, {"source"})) \in Nat
    BY <1>1, KindsFinite
  <2> HIDE DEF t
  <2>2. /\ Cardinality(KindsOf(t, Calls)) = IF f.kind \in Calls THEN calls + 1 ELSE calls
        /\ Cardinality(KindsOf(t, {"value"})) = IF f.kind = "value" THEN values + 1 ELSE values
    BY <1>3, <1>8 DEF Counted
  <2>3. Cardinality(KindsOf(t, {"source"})) <= MaxIncludeDepth
    BY <1>3, <1>8, <2>1, LimitsAssumption DEF Counted
  <2>4. (IF f.kind \in Calls THEN calls + 1 ELSE calls) <= MaxCallDepth
    BY <1>3, <2>1, LimitsAssumption DEF Counted
  <2> QED
    BY <2>2, <2>3, <2>4 DEF Counted
<1> QED
  BY <1>2, <1>5, <1>6, <1>7, <1>9 DEF StackOK

LEMMA UnwindOK ==
  ASSUME StackOK(frames, inLoop, callDepth, valueDepth), NEW n \in 0 .. Len(frames), Unwind(n)
  PROVE  StackOK(frames', inLoop', callDepth', valueDepth')
<1>1. frames \in Seq(FrameSet)
  BY DEF StackOK
<1>2. \A kinds : Above(n, kinds) = Cardinality({m \in KindsOf(frames, kinds) : m > n})
  BY <1>1, KindsAreOfKind DEF Above
<1>3. Restored(n) \in BOOLEAN /\ (Restored(n) <=> LoopAt(frames, n))
  BY RestoredFlag
<1>4. StackOK(SubSeq(frames, 1, n), Restored(n),
              callDepth - Cardinality({m \in KindsOf(frames, Calls) : m > n}),
              valueDepth - Cardinality({m \in KindsOf(frames, {"value"}) : m > n}))
  <2> DEFINE cut == Restored(n)
  <2> HIDE DEF cut
  <2>1. cut \in BOOLEAN /\ (cut <=> LoopAt(frames, n))
    BY <1>3 DEF cut
  <2>2. StackOK(SubSeq(frames, 1, n), cut,
                callDepth - Cardinality({m \in KindsOf(frames, Calls) : m > n}),
                valueDepth - Cardinality({m \in KindsOf(frames, {"value"}) : m > n}))
    BY <2>1, CutOK
  <2> QED
    BY <2>2 DEF cut
<1> QED
  BY <1>2, <1>4 DEF Unwind

-----------------------------------------------------------------------------
(* The kinds of steps *)

\* What a step may do to an active import.
EndsWhole ==
  status' \in {"running", "done"} =>
    \A n \in Popped : frames[n].mode = "import" => n = Len(frames)

Failing ==
  Unwind(0) /\ status' \notin {"running", "done"} /\ UNCHANGED <<imported, evaluations>>

LEMMA FailOK ==
  ASSUME IInv, Unwind(0), UNCHANGED <<imported, evaluations>>, status' \notin {"running", "done"}
  PROVE  IInv' /\ EndsWhole
<1>1. StackOK(frames, inLoop, callDepth, valueDepth)
  BY DEF IInv
<1>2. 0 \in 0 .. Len(frames)
  BY <1>1 DEF StackOK
<1>3. StackOK(frames', inLoop', callDepth', valueDepth')
  BY <1>1, <1>2, UnwindOK
<1>4. Rooted' /\ ImportsOK' /\ EndsWhole
  BY DEF IInv, Rooted, ImportsOK, Running, EndsWhole
<1> QED
  BY <1>3, <1>4 DEF IInv

LEMMA LeaveOK ==
  ASSUME IInv, Running, NEW n \in 1 .. Len(frames),
         frames[n].kind # "source" \/ (n < Len(frames) /\ frames[n + 1].kind # "source"),
         Leave(n)
  PROVE  IInv' /\ EndsWhole
<1>1. frames \in Seq(FrameSet) /\ Len(frames) \in Nat /\ ImportsLow(frames)
  BY DEF IInv, StackOK
<1>2. ASSUME NEW m \in n + 1 .. Len(frames)
      PROVE  frames[m].mode # "import"
  <2>1. n \in 1 .. m /\ n + 1 \in 1 .. m /\ m \in 1 .. Len(frames)
    BY <1>1
  <2> QED
    BY <1>1, <2>1 DEF ImportsLow
<1>3. n \in 0 .. Len(frames)
  BY <1>1
<1>4. StackOK(frames', inLoop', callDepth', valueDepth')
  BY <1>3, UnwindOK DEF IInv, Leave
<1>5. Len(frames') = n /\ \A m \in 1 .. n : frames'[m] = frames[m]
  BY <1>1 DEF Leave, Unwind
<1>6. Rooted'
  BY <1>1, <1>5 DEF IInv, Rooted, Leave, Running
<1>7. ImportsOK'
  <2>1. \A m \in 1 .. Len(frames) : m \in 1 .. n \/ m \in n + 1 .. Len(frames)
    BY <1>1
  <2>2. \A m \in 1 .. Len(frames) : frames[m].mode = "import" => m \in 1 .. Len(frames') /\ frames'[m] = frames[m]
    BY <1>2, <1>5, <2>1
  <2> QED
    BY <1>1, <2>2 DEF IInv, ImportsOK, Leave, Running
<1>8. EndsWhole
  <2>1. \A m \in Popped : m \in n + 1 .. Len(frames)
    BY <1>1, <1>5 DEF Popped
  <2> QED
    BY <1>2, <2>1 DEF EndsWhole
<1> QED
  BY <1>4, <1>6, <1>7, <1>8 DEF IInv

LEMMA SetOK ==
  ASSUME IInv, NEW new \in Seq(FrameSet), Alike(frames, new), SetFrames(new)
  PROVE  IInv' /\ EndsWhole
<1>1. StackOK(new, inLoop, callDepth, valueDepth)
  BY AlikeOK DEF IInv
<1>2. frames' = new /\ Len(frames') = Len(frames) /\ Len(frames) \in Nat
  BY DEF SetFrames, Alike, IInv, StackOK
<1>3. Rooted' /\ ImportsOK'
  BY <1>2 DEF IInv, Rooted, ImportsOK, Running, SetFrames, Alike
<1>4. EndsWhole
  BY <1>2 DEF EndsWhole, Popped, IInv, StackOK
<1> QED
  BY <1>1, <1>3, <1>4 DEF IInv, SetFrames

\* Everything but a source is pushed this way.
LEMMA PushedOK ==
  ASSUME IInv, Running, NEW kind \in Kinds \ {"source"}, Push(Frame(kind)),
         inLoop' \in BOOLEAN, inLoop' <=> (kind = "loop" \/ (kind \notin Calls /\ inLoop)),
         kind \in Calls => callDepth < MaxCallDepth,
         callDepth' = IF kind \in Calls THEN callDepth + 1 ELSE callDepth,
         valueDepth' = IF kind = "value" THEN valueDepth + 1 ELSE valueDepth,
         UNCHANGED <<imported, evaluations, status>>
  PROVE  IInv' /\ EndsWhole
<1> DEFINE f == Frame(kind)
<1>1. StackOK(frames, inLoop, callDepth, valueDepth) /\ frames \in Seq(FrameSet) /\ Len(frames) \in Nat /\ inLoop \in BOOLEAN
  BY DEF IInv, StackOK
<1>2. f \in FrameSet /\ f.kind = kind /\ f.saved = inLoop /\ f.mode # "import" /\ f.kind # "source"
  BY <1>1, NoneAssumption DEF Frame, Activation, FrameSet
<1>3. frames' = Append(frames, f)
  BY DEF Push
<1> HIDE DEF f
<1>4. StackOK(frames', inLoop', callDepth', valueDepth')
  BY <1>1, <1>2, <1>3, PushOK
<1>5. Len(frames') = Len(frames) + 1 /\ \A m \in 1 .. Len(frames) : frames'[m] = frames[m]
  BY <1>1, <1>2, <1>3
<1>6. Rooted' /\ ImportsOK'
  BY <1>1, <1>5 DEF IInv, Rooted, ImportsOK, Running
<1>7. EndsWhole
  BY <1>1, <1>5 DEF EndsWhole, Popped
<1> QED
  BY <1>4, <1>6, <1>7 DEF IInv

-----------------------------------------------------------------------------
(* The frames that break, continue, return and the end of a source look for *)

LEMMA InnermostLoop ==
  ASSUME IInv, Running, inLoop
  PROVE  /\ Innermost({"loop"}) \in 2 .. Len(frames)
         /\ frames[Innermost({"loop"})].kind = "loop"
<1> DEFINE T == OfKind({"loop"})
<1>1. frames \in Seq(FrameSet) /\ Len(frames) \in Nat /\ FlagsOK(frames, inLoop) /\ frames[1].kind = "source"
  BY DEF IInv, StackOK, Rooted
<1>2. T = {n \in 1 .. Len(frames) : frames[n].kind = "loop"}
  BY <1>1 DEF OfKind
<1>3. T # {}
  BY <1>1, <1>2 DEF FlagsOK, LoopAt
<1>4. \E x \in T : \A y \in T : y <= x
  <2> HIDE DEF T
  <2>1. T \subseteq 1 .. Len(frames)
    BY <1>2
  <2> QED
    BY <1>1, <1>3, <2>1, LastPosition
<1>5. Innermost({"loop"}) \in T
  BY <1>4 DEF Innermost
<1>6. Innermost({"loop"}) # 1
  BY <1>1, <1>2, <1>5
<1> QED
  BY <1>1, <1>2, <1>5, <1>6

LEMMA InnermostValue ==
  ASSUME IInv, Running, valueDepth # 0
  PROVE  /\ Innermost({"value"}) \in 2 .. Len(frames)
         /\ frames[Innermost({"value"})].kind = "value"
<1> DEFINE T == OfKind({"value"})
<1>1. frames \in Seq(FrameSet) /\ Len(frames) \in Nat /\ frames[1].kind = "source"
  BY DEF IInv, StackOK, Rooted
<1>2. T = KindsOf(frames, {"value"}) /\ T = {n \in 1 .. Len(frames) : frames[n].kind = "value"}
  BY <1>1 DEF OfKind, KindsOf
<1>3. T # {}
  <2>1. Cardinality(KindsOf(frames, {"value"})) # 0
    BY DEF IInv, StackOK, Counted
  <2> QED
    BY <1>2, <2>1, FS_EmptySet
<1>4. \E x \in T : \A y \in T : y <= x
  <2> HIDE DEF T
  <2>1. T \subseteq 1 .. Len(frames)
    BY <1>2
  <2> QED
    BY <1>1, <1>3, <2>1, LastPosition
<1>5. Innermost({"value"}) \in T
  BY <1>4 DEF Innermost
<1>6. Innermost({"value"}) # 1
  BY <1>1, <1>2, <1>5
<1> QED
  BY <1>1, <1>2, <1>5, <1>6

\* Where no scope is open, every frame is a source.
LEMMA NoScopes ==
  ASSUME frames \in Seq(FrameSet), Scopes = 0
  PROVE  \A n \in 1 .. Len(frames) : frames[n].kind = "source"
<1> DEFINE D == DOMAIN frames
           T == OfKind({"source"})
<1>1. D = 1 .. Len(frames) /\ Len(frames) \in Nat
  OBVIOUS
<1>2. IsFiniteSet(D) /\ Cardinality(D) \in Nat
  BY <1>1, PositionsFinite
<1>3. T \in SUBSET D
  BY DEF OfKind
<1>4. Cardinality(T) \in Nat
  BY <1>1, <1>3, PositionsFinite
<1>5. Cardinality(D) = Cardinality(T)
  BY <1>2, <1>4 DEF Scopes
<1>6. D = T
  <2> HIDE DEF D, T
  <2> QED BY <1>2, <1>3, <1>5, FS_Subset
<1> QED
  BY <1>1, <1>6 DEF OfKind

-----------------------------------------------------------------------------
(* The steps *)

LEMMA LoadStep ==
  ASSUME IInv, NEW identity \in Identities, NEW mode \in {"include", "import"}, Load(identity, mode)
  PROVE  IInv' /\ EndsWhole
<1>1. CASE Failing
  BY <1>1, FailOK DEF Failing
<1>2. CASE UNCHANGED vars
  BY <1>2 DEF vars, IInv, StackOK, Rooted, Running, ImportsOK, EndsWhole, Popped
<1>3. CASE /\ Running /\ MayLoad(mode) /\ ~Cyclic(identity) /\ ~(mode = "import" /\ identity \in imported)
           /\ ~(Cardinality(OfKind({"source"})) >= MaxIncludeDepth)
           /\ Push(SourceFrame(identity, mode))
           /\ evaluations' = IF mode = "import" THEN [evaluations EXCEPT ![identity] = @ + 1] ELSE evaluations
           /\ UNCHANGED <<imported, inLoop, callDepth, valueDepth, expansions, status>>
  <2> DEFINE f == SourceFrame(identity, mode)
  <2>1. StackOK(frames, inLoop, callDepth, valueDepth) /\ frames \in Seq(FrameSet) /\ Len(frames) \in Nat /\ inLoop \in BOOLEAN
    BY DEF IInv, StackOK
  <2>2. f \in FrameSet /\ f.kind = "source" /\ f.saved = inLoop /\ f.mode = mode /\ f.identity = identity
    <3>1. f = [kind |-> "source", saved |-> inLoop, identity |-> identity, mode |-> mode, open |-> 0]
      BY DEF SourceFrame, Activation
    <3>2. "source" \in Kinds
      BY DEF Kinds
    <3> HIDE DEF f
    <3> QED
      BY <2>1, <3>1, <3>2 DEF FrameSet
  <2>3. frames' = Append(frames, f)
    BY <1>3 DEF Push
  <2>4. mode = "import" => \A m \in 1 .. Len(frames) : frames[m].kind = "source"
    BY <1>3, <2>1, NoScopes DEF MayLoad
  <2>5. \A m \in 1 .. Len(frames) : frames[m].kind = "source" => frames[m].identity # identity
    BY <1>3, <2>1 DEF Cyclic, SourceStack, OfKind
  <2>6. Cardinality(KindsOf(frames, {"source"})) < MaxIncludeDepth
    BY <1>3, <2>1, KindsFinite, KindsAreOfKind, LimitsAssumption
  <2> HIDE DEF f
  <2>7. f.kind \notin Calls /\ f.kind # "loop" /\ f.kind # "value"
    BY <2>2 DEF Calls
  <2>8. StackOK(frames', inLoop', callDepth', valueDepth')
    <3>1. StackOK(Append(frames, f), inLoop, IF f.kind \in Calls THEN callDepth + 1 ELSE callDepth,
                  IF f.kind = "value" THEN valueDepth + 1 ELSE valueDepth)
      BY <2>1, <2>2, <2>4, <2>5, <2>6, <2>7, PushOK
    <3> QED
      BY <1>3, <2>3, <2>7, <3>1
  <2>9. /\ Len(frames') = Len(frames) + 1 /\ frames'[Len(frames) + 1] = f
        /\ \A m \in 1 .. Len(frames) : frames'[m] = frames[m]
    BY <2>1, <2>2, <2>3
  <2>10. Rooted'
    BY <1>3, <2>1, <2>9 DEF IInv, Rooted, Running
  <2>11. ImportsOK'
    <3>1. CASE mode = "include"
      BY <1>3, <2>1, <2>9, <3>1 DEF IInv, ImportsOK, Running
    <3>2. CASE mode = "import"
      <4>1. evaluations[identity] = 0
        <5>1. evaluations[identity] \in Nat /\ evaluations[identity] <= 1
          BY DEF IInv, ImportsOK
        <5>2. evaluations[identity] # 1
          <6>1. \A n \in 1 .. Len(frames) : frames[n].mode = "import" => frames[n].kind = "source"
            BY <2>4, <3>2
          <6> QED
            BY <1>3, <2>5, <3>2, <6>1 DEF IInv, ImportsOK
        <5> QED
          BY <5>1, <5>2
      <4>2. evaluations' = [evaluations EXCEPT ![identity] = 1]
        BY <1>3, <3>2, <4>1
      <4>3. Len(frames) + 1 \in 1 .. Len(frames')
        BY <2>1, <2>9
      <4>4. \A m \in 1 .. Len(frames) : m \in 1 .. Len(frames')
        BY <2>1, <2>9
      <4> QED
        BY <1>3, <2>2, <2>9, <3>2, <4>2, <4>3, <4>4 DEF IInv, ImportsOK, Running
    <3> QED
      BY <3>1, <3>2
  <2>12. EndsWhole
    BY <2>1, <2>9 DEF EndsWhole, Popped
  <2> QED
    BY <2>8, <2>10, <2>11, <2>12 DEF IInv
<1> QED
  BY <1>1, <1>2, <1>3 DEF Load, Fail, Failing

LEMMA EndSourceStep ==
  ASSUME IInv, EndSource
  PROVE  IInv' /\ EndsWhole
<1> DEFINE last == Len(frames)
           n == Len(frames) - 1
           cut == SubSeq(frames, 1, n)
<1>1. StackOK(frames, inLoop, callDepth, valueDepth) /\ frames \in Seq(FrameSet) /\ Len(frames) \in Nat /\ inLoop \in BOOLEAN
  BY DEF IInv, StackOK
<1>2. Running /\ last >= 1 /\ frames[1].kind = "source" /\ Last(frames) = frames[last] /\ frames[last].kind = "source"
  BY DEF IInv, Rooted, EndSource, Last
<1>3. CASE Failing
  BY <1>3, FailOK DEF Failing
<1>4. CASE n = 0 /\ status' = "done" /\ UNCHANGED <<frames, imported, inLoop, callDepth, valueDepth, expansions, evaluations>>
  <2>1. Popped = {}
    BY <1>4 DEF Popped
  <2> QED
    BY <1>1, <1>4, <2>1 DEF IInv, Rooted, Running, ImportsOK, EndsWhole
<1>5. CASE /\ n # 0 /\ frames' = cut
           /\ imported' = Remembered(Last(frames))
           /\ UNCHANGED <<inLoop, callDepth, valueDepth, expansions, evaluations, status>>
  <2>1. n \in 0 .. Len(frames) /\ n \in Nat /\ n >= 1
    <3>1. n # 0
      BY <1>5
    <3>2. Len(frames) \in Nat /\ Len(frames) >= 1
      BY <1>1, <1>2
    <3>3. \A l \in Nat : l - 1 # 0 /\ l >= 1 => l - 1 \in 0 .. l /\ l - 1 \in Nat /\ l - 1 >= 1
      OBVIOUS
    <3> HIDE DEF cut
    <3> QED
      BY <3>1, <3>2, <3>3
  <2>2. \A m \in n + 1 .. Len(frames) : m = last
    BY <1>1
  <2>3. \A kinds : "source" \notin kinds => {m \in KindsOf(frames, kinds) : m > n} = {}
    <3>1. \A kinds : \A m \in KindsOf(frames, kinds) : m > n => frames[last].kind \in kinds
      BY <1>1, <2>2 DEF KindsOf
    <3> HIDE DEF n, last
    <3> QED
      BY <1>2, <3>1
  <2>4. StackOK(cut, inLoop, callDepth, valueDepth)
    <3>1. inLoop <=> LoopAt(frames, n)
      <4>1. \A m \in n + 1 .. Len(frames) : frames[m].kind \notin Calls \cup {"loop"}
        BY <1>2, <2>2 DEF Calls
      <4>2. n <= Len(frames)
        BY <1>1
      <4>3. LoopAt(frames, Len(frames)) <=> LoopAt(frames, n)
        <5> HIDE DEF n
        <5> QED BY <1>1, <2>1, <4>1, <4>2, LoopAtSkips
      <4> QED
        BY <1>1, <4>3 DEF StackOK, FlagsOK
    <3>2. StackOK(cut, inLoop, callDepth - Cardinality({m \in KindsOf(frames, Calls) : m > n}),
                  valueDepth - Cardinality({m \in KindsOf(frames, {"value"}) : m > n}))
      <4> HIDE DEF n
      <4> QED BY <1>1, <2>1, <3>1, CutOK
    <3>3. /\ Cardinality({m \in KindsOf(frames, Calls) : m > n}) = 0
          /\ Cardinality({m \in KindsOf(frames, {"value"}) : m > n}) = 0
      <4> HIDE DEF n
      <4> QED BY <2>3, FS_EmptySet DEF Calls
    <3>4. callDepth \in Nat /\ valueDepth \in Nat
      BY <1>1, KindsFinite DEF StackOK, Counted
    <3>5. /\ callDepth - Cardinality({m \in KindsOf(frames, Calls) : m > n}) = callDepth
          /\ valueDepth - Cardinality({m \in KindsOf(frames, {"value"}) : m > n}) = valueDepth
      <4> HIDE DEF n
      <4> QED BY <3>3, <3>4
    <3> HIDE DEF cut, n
    <3> QED
      BY <3>2, <3>5
  <2>5. Len(cut) = n /\ cut \in Seq(FrameSet) /\ \A m \in 1 .. n : cut[m] = frames[m] /\ cut[m] \in FrameSet
    BY <1>1, <2>1
  <2>7. StackOK(frames', inLoop', callDepth', valueDepth')
    <3> HIDE DEF cut
    <3> QED BY <1>5, <2>4
  <2>8. Len(frames') = n /\ \A m \in 1 .. n : /\ frames'[m].kind = frames[m].kind /\ frames'[m].mode = frames[m].mode
                                          /\ frames'[m].identity = frames[m].identity
    <3> HIDE DEF cut, n
    <3> QED BY <1>5, <2>5
  <2>9. Rooted'
    <3>1. 1 \in 1 .. n
      BY <2>1
    <3> HIDE DEF n
    <3> QED
      BY <1>2, <2>1, <2>8, <3>1 DEF Rooted
  <2>10. \A m \in 1 .. Len(frames) : m \in 1 .. n \/ m = last
    BY <1>1
  <2>11. ImportsOK'
    <3>1. imported' = IF frames[last].mode = "import" THEN imported \cup {frames[last].identity} ELSE imported
      BY <1>2, <1>5 DEF Remembered
    <3>2. frames[last].identity \in Identities
      BY <1>1, <1>2 DEF StackOK, Identified
    <3>3. \A m \in 1 .. Len(frames) : frames[m].mode = "import" =>
            frames[m].identity \in imported' \/ (m \in 1 .. Len(frames') /\ frames'[m].mode = "import" /\ frames'[m].identity = frames[m].identity)
      <4> HIDE DEF n, last
      <4> QED BY <2>8, <2>10, <3>1
    <3>4. imported \subseteq imported'
      BY <3>1
    <3>5. Running' /\ evaluations' = evaluations
      BY <1>2, <1>5 DEF Running
    <3> HIDE DEF n, last
    <3>6. imported' \subseteq Identities /\ evaluations' \in [Identities -> Nat]
      BY <3>1, <3>2, <3>5 DEF IInv, ImportsOK
    <3>7. ASSUME NEW i \in Identities
          PROVE  /\ evaluations'[i] <= 1
                 /\ evaluations'[i] = 1 => i \in imported' \/ \E m \in 1 .. Len(frames') : frames'[m].mode = "import" /\ frames'[m].identity = i
      BY <1>2, <3>3, <3>4, <3>5 DEF IInv, ImportsOK
    <3> QED
      BY <3>6, <3>7 DEF ImportsOK
  <2>12. EndsWhole
    <3>1. \A m \in Popped : m \in 1 .. Len(frames) /\ m > n
      BY <1>1, <2>8 DEF Popped
    <3> QED
      BY <1>1, <2>8, <3>1 DEF EndsWhole
  <2> QED
    BY <2>7, <2>9, <2>11, <2>12 DEF IInv
<1> QED
  BY <1>3, <1>4, <1>5 DEF EndSource, Fail, Failing

\* One frame is replaced: a virtual output is opened or closed.
LEMMA ReplacedOK ==
  ASSUME frames \in Seq(FrameSet), NEW k, NEW e,
         k \in 1 .. Len(frames) =>
           /\ e \in FrameSet /\ e.kind = frames[k].kind /\ e.mode = frames[k].mode
           /\ e.identity = frames[k].identity /\ e.saved = frames[k].saved,
         NEW new, new = [frames EXCEPT ![k] = e]
  PROVE  new \in Seq(FrameSet) /\ Alike(frames, new)
<1>1. Len(frames) \in Nat /\ DOMAIN frames = 1 .. Len(frames)
  OBVIOUS
<1>2. CASE k \in 1 .. Len(frames)
  <2>1. new \in Seq(FrameSet) /\ Len(new) = Len(frames) /\ \A m \in 1 .. Len(frames) : new[m] = IF m = k THEN e ELSE frames[m]
    BY <1>2, ExceptSeq
  <2> QED
    BY <1>2, <2>1 DEF Alike
<1>3. CASE k \notin 1 .. Len(frames)
  <2>1. new = frames
    BY <1>1, <1>3
  <2> QED
    BY <2>1 DEF Alike
<1> QED
  BY <1>2, <1>3

LEMMA EmitStep ==
  ASSUME IInv, Emit
  PROVE  IInv' /\ EndsWhole
<1>1. CASE Failing
  BY <1>1, FailOK DEF Failing
<1>2. CASE UNCHANGED vars
  BY <1>2 DEF vars, IInv, StackOK, Rooted, Running, ImportsOK, EndsWhole, Popped
<1> QED
  BY <1>1, <1>2 DEF Emit, Fail, Failing

LEMMA VirtualBeginStep ==
  ASSUME IInv, VirtualBegin
  PROVE  IInv' /\ EndsWhole
<1> DEFINE k == Source
           e == [frames[k] EXCEPT !.open = @ + 1]
           new == [frames EXCEPT ![k].open = @ + 1]
<1>1. frames \in Seq(FrameSet)
  BY DEF IInv, StackOK
<1>2. CASE Failing
  BY <1>2, FailOK DEF Failing
<1>3. CASE SetFrames(new)
  <2> HIDE DEF k
  <2>1. new = [frames EXCEPT ![k] = e]
    OBVIOUS
  <2>2. ASSUME k \in 1 .. Len(frames)
        PROVE  /\ e \in FrameSet /\ e.kind = frames[k].kind /\ e.mode = frames[k].mode
               /\ e.identity = frames[k].identity /\ e.saved = frames[k].saved
    <3>1. frames[k] \in FrameSet
      BY <1>1, <2>2
    <3> QED
      BY <3>1 DEF FrameSet
  <2> HIDE DEF e, new
  <2>3. new \in Seq(FrameSet) /\ Alike(frames, new)
    BY <1>1, <2>1, <2>2, ReplacedOK
  <2> QED
    BY <1>3, <2>3, SetOK
<1> QED
  BY <1>2, <1>3 DEF VirtualBegin, Fail, Failing

LEMMA VirtualEndStep ==
  ASSUME IInv, VirtualEnd
  PROVE  IInv' /\ EndsWhole
<1> DEFINE k == Source
           e == [frames[k] EXCEPT !.open = @ - 1]
           new == [frames EXCEPT ![k].open = @ - 1]
<1>1. frames \in Seq(FrameSet)
  BY DEF IInv, StackOK
<1>2. CASE Failing
  BY <1>2, FailOK DEF Failing
<1>3. CASE SetFrames(new)
  <2> HIDE DEF k
  <2>1. new = [frames EXCEPT ![k] = e]
    OBVIOUS
  <2>2. ASSUME k \in 1 .. Len(frames)
        PROVE  /\ e \in FrameSet /\ e.kind = frames[k].kind /\ e.mode = frames[k].mode
               /\ e.identity = frames[k].identity /\ e.saved = frames[k].saved
    <3>1. frames[k] \in FrameSet
      BY <1>1, <2>2
    <3> QED
      BY <3>1 DEF FrameSet
  <2> HIDE DEF e, new
  <2>3. new \in Seq(FrameSet) /\ Alike(frames, new)
    BY <1>1, <2>1, <2>2, ReplacedOK
  <2> QED
    BY <1>3, <2>3, SetOK
<1> QED
  BY <1>2, <1>3 DEF VirtualEnd, Fail, Failing

LEMMA BlockStep ==
  ASSUME IInv, Block
  PROVE  IInv' /\ EndsWhole
<1>1. "block" \in Kinds \ {"source"} /\ "block" \notin Calls /\ inLoop \in BOOLEAN
  BY DEF Kinds, Calls, IInv, StackOK
<1> QED
  BY <1>1, PushedOK DEF Block

LEMMA LoopStep ==
  ASSUME IInv, Loop
  PROVE  IInv' /\ EndsWhole
<1>1. "loop" \in Kinds \ {"source"} /\ "loop" \notin Calls
  BY DEF Kinds, Calls
<1> QED
  BY <1>1, PushedOK DEF Loop

LEMMA CallStep ==
  ASSUME IInv, NEW kind \in Calls, Call(kind)
  PROVE  IInv' /\ EndsWhole
<1>1. kind \in Kinds \ {"source"} /\ kind # "loop"
  BY DEF Kinds, Calls
<1>2. CASE Failing
  BY <1>2, FailOK DEF Failing
<1>3. CASE /\ Running /\ ~(callDepth >= MaxCallDepth)
           /\ Push(Frame(kind)) /\ inLoop' = FALSE /\ callDepth' = callDepth + 1
           /\ valueDepth' = IF kind = "value" THEN valueDepth + 1 ELSE valueDepth
           /\ UNCHANGED <<imported, evaluations, status>>
  <2>1. callDepth < MaxCallDepth
    BY <1>3, LimitsAssumption, KindsFinite DEF IInv, StackOK, Counted
  <2> QED
    BY <1>1, <1>3, <2>1, PushedOK
<1> QED
  BY <1>2, <1>3 DEF Call, Fail, Failing

LEMMA EndStep ==
  ASSUME IInv, End
  PROVE  IInv' /\ EndsWhole
<1>1. CASE Failing
  BY <1>1, FailOK DEF Failing
<1>2. CASE Leave(Len(frames) - 1)
  <2>1. Running /\ Len(frames) \in Nat /\ Len(frames) >= 1 /\ frames[1].kind = "source" /\ frames[Len(frames)].kind # "source"
    <3>1. frames \in Seq(FrameSet) /\ (Running => Len(frames) >= 1 /\ frames[1].kind = "source")
      BY DEF IInv, StackOK, Rooted
    <3>2. Running /\ Last(frames).kind # "source" /\ Last(frames) = frames[Len(frames)]
      BY DEF End, Last
    <3> QED
      BY <3>1, <3>2
  <2>2. Len(frames) # 1
    BY <2>1
  <2>3. Len(frames) - 1 \in 1 .. Len(frames) - 1 /\ (Len(frames) - 1) + 1 = Len(frames)
    BY <2>1, <2>2
  <2> QED
    BY <1>2, <2>1, <2>3, LeaveOK
<1> QED
  BY <1>1, <1>2 DEF End, Fail, Failing

LEMMA BreakStep ==
  ASSUME IInv, Break
  PROVE  IInv' /\ EndsWhole
<1>1. CASE Failing
  BY <1>1, FailOK DEF Failing
<1>2. CASE inLoop /\ Leave(Innermost({"loop"}) - 1)
  <2> DEFINE n == Innermost({"loop"})
  <2>1. Running /\ n \in 2 .. Len(frames) /\ frames[n].kind = "loop" /\ Len(frames) \in Nat
    BY <1>2, InnermostLoop DEF Break, IInv, StackOK
  <2>2. Leave(n - 1)
    BY <1>2
  <2> HIDE DEF n
  <2>3. n - 1 \in 1 .. Len(frames) - 1 /\ (n - 1) + 1 = n
    BY <2>1
  <2> QED
    BY <2>1, <2>2, <2>3, LeaveOK
<1> QED
  BY <1>1, <1>2 DEF Break, Fail, Failing

LEMMA ReturnStep ==
  ASSUME IInv, Return
  PROVE  IInv' /\ EndsWhole
<1>1. CASE Failing
  BY <1>1, FailOK DEF Failing
<1>2. CASE valueDepth # 0 /\ Leave(Innermost({"value"}) - 1)
  <2> DEFINE n == Innermost({"value"})
  <2>1. Running /\ n \in 2 .. Len(frames) /\ frames[n].kind = "value" /\ Len(frames) \in Nat
    BY <1>2, InnermostValue DEF Return, IInv, StackOK
  <2>2. Leave(n - 1)
    BY <1>2
  <2> HIDE DEF n
  <2>3. n - 1 \in 1 .. Len(frames) - 1 /\ (n - 1) + 1 = n
    BY <2>1
  <2> QED
    BY <2>1, <2>2, <2>3, LeaveOK
<1> QED
  BY <1>1, <1>2 DEF Return, Fail, Failing

\* continue leaves the loop's frame: there may be nothing above it to leave.
LEMMA ContinueStep ==
  ASSUME IInv, Continue
  PROVE  IInv' /\ EndsWhole
<1>1. CASE Failing
  BY <1>1, FailOK DEF Failing
<1>2. CASE inLoop /\ Leave(Innermost({"loop"}))
  <2> DEFINE n == Innermost({"loop"})
  <2>1. Running /\ n \in 2 .. Len(frames) /\ frames[n].kind = "loop" /\ Len(frames) \in Nat
    BY <1>2, InnermostLoop DEF Continue, IInv, StackOK
  <2>2. Leave(n)
    BY <1>2
  <2> HIDE DEF n
  <2>3. n \in 1 .. Len(frames) /\ frames[n].kind # "source"
    BY <2>1
  <2> QED
    BY <2>1, <2>2, <2>3, LeaveOK
<1> QED
  BY <1>1, <1>2 DEF Continue, Fail, Failing

-----------------------------------------------------------------------------
(* The invariant *)

LEMMA InitOK == Init => IInv
<1> SUFFICES ASSUME Init PROVE IInv
  OBVIOUS
<1> DEFINE f == [kind |-> "source", saved |-> FALSE, identity |-> Root, mode |-> "include", open |-> 0]
<1>1. frames = <<f>> /\ f \in FrameSet
  BY RootAssumption DEF Init, FrameSet, Kinds
<1>2. f.kind = "source" /\ f.mode = "include" /\ f.identity = Root
  OBVIOUS
<1> HIDE DEF f
<1>3. frames \in Seq(FrameSet) /\ Len(frames) = 1 /\ frames[1] = f /\ 1 .. 1 = {1}
  BY <1>1
<1>4. FlagsOK(frames, inLoop)
  <2>1. f.kind # "loop" /\ f.kind \notin Calls
    BY <1>2 DEF Calls
  <2> QED
    BY <1>3, <2>1 DEF Init, FlagsOK, LoopAt
<1>5. ImportsLow(frames) /\ Distinct(frames) /\ Identified(frames)
  BY <1>2, <1>3, RootAssumption DEF ImportsLow, Distinct, Identified
<1>6. Counted(frames, callDepth, valueDepth)
  <2>1. KindsOf(frames, Calls) = {} /\ KindsOf(frames, {"value"}) = {} /\ KindsOf(frames, {"source"}) = {1}
    BY <1>2, <1>3 DEF KindsOf, Calls
  <2>2. Cardinality({}) = 0 /\ Cardinality({1}) = 1
    BY FS_EmptySet, FS_Singleton
  <2> QED
    <3>1. callDepth = 0 /\ valueDepth = 0
      BY DEF Init
    <3>2. 0 <= MaxCallDepth /\ 1 <= MaxIncludeDepth
      BY LimitsAssumption
    <3> QED
      BY <2>1, <2>2, <3>1, <3>2 DEF Counted
<1>7. Rooted /\ ImportsOK
  BY <1>2, <1>3 DEF Init, Rooted, ImportsOK
<1> QED
  BY <1>3, <1>4, <1>5, <1>6, <1>7 DEF IInv, StackOK, Init

LEMMA StepOK == IInv /\ [Next]_vars => IInv' /\ EndsWhole
<1> SUFFICES ASSUME IInv, [Next]_vars PROVE IInv' /\ EndsWhole
  OBVIOUS
<1>1. ASSUME NEW identity \in Identities, NEW mode \in {"include", "import"}, Load(identity, mode)
      PROVE  IInv' /\ EndsWhole
  BY <1>1, LoadStep
<1>2. CASE EndSource
  BY <1>2, EndSourceStep
<1>3. CASE Emit
  BY <1>3, EmitStep
<1>4. CASE VirtualBegin
  BY <1>4, VirtualBeginStep
<1>5. CASE VirtualEnd
  BY <1>5, VirtualEndStep
<1>6. CASE Block
  BY <1>6, BlockStep
<1>7. CASE Loop
  BY <1>7, LoopStep
<1>8. ASSUME NEW kind \in Calls, Call(kind)
      PROVE  IInv' /\ EndsWhole
  BY <1>8, CallStep
<1>9. CASE End
  BY <1>9, EndStep
<1>10. CASE Break
  BY <1>10, BreakStep
<1>11. CASE Continue
  BY <1>11, ContinueStep
<1>12. CASE Return
  BY <1>12, ReturnStep
<1>13. CASE UNCHANGED vars
  BY <1>13 DEF vars, IInv, StackOK, Rooted, Running, ImportsOK, EndsWhole, Popped
<1> QED
  BY <1>1, <1>2, <1>3, <1>4, <1>5, <1>6, <1>7, <1>8, <1>9, <1>10, <1>11, <1>12, <1>13 DEF Next

\* The inductive invariant of the stack of activations.
THEOREM Activated == Spec => []IInv
BY InitOK, StepOK, PTL DEF Spec

\* The types, and the root source below everything until the end.
THEOREM Typed == Spec => []TypeOK
<1>1. IInv => TypeOK
  <2> SUFFICES ASSUME IInv PROVE TypeOK
    OBVIOUS
  <2>1. frames \in Seq(FrameSet) /\ inLoop \in BOOLEAN /\ Counted(frames, callDepth, valueDepth)
    BY DEF IInv, StackOK
  <2>2. \A n \in DOMAIN frames : frames[n].kind \in {"source", "block", "loop"} \cup Calls
    <3>1. SUFFICES ASSUME NEW n \in DOMAIN frames
                   PROVE  frames[n].kind \in Kinds
      BY DEF Kinds
    <3>2. frames[n] \in FrameSet
      BY <2>1, <3>1
    <3> QED
      BY <3>2 DEF FrameSet
  <2>3. callDepth \in 0 .. MaxCallDepth /\ valueDepth \in 0 .. MaxCallDepth
    <3>1. KindsOf(frames, {"value"}) \in SUBSET KindsOf(frames, Calls)
      BY DEF KindsOf, Calls
    <3>2. Cardinality(KindsOf(frames, {"value"})) <= Cardinality(KindsOf(frames, Calls))
      BY <2>1, <3>1, KindsFinite, FS_Subset
    <3>3. Cardinality(KindsOf(frames, {"value"})) \in Nat /\ Cardinality(KindsOf(frames, Calls)) \in Nat
      BY <2>1, KindsFinite
    <3> QED
      BY <2>1, <3>2, <3>3, LimitsAssumption DEF Counted
  <2>4. Running => frames # <<>> /\ frames[1].kind = "source"
    BY <2>1 DEF IInv, Rooted
  <2> QED
    BY <2>1, <2>2, <2>3, <2>4 DEF TypeOK, IInv, ImportsOK
<1> QED
  BY <1>1, Activated, PTL

\* The depths count what is active and keep their limits, and no source is
\* loaded within itself, after any mixture of break, continue and return.
THEOREM Exact == Spec => []DepthsAreExact
<1>1. IInv => DepthsAreExact
  <2> SUFFICES ASSUME IInv PROVE DepthsAreExact
    OBVIOUS
  <2> DEFINE S == KindsOf(frames, {"source"})
             identityOf == [n \in S |-> frames[n].identity]
  <2>1. frames \in Seq(FrameSet) /\ Counted(frames, callDepth, valueDepth) /\ Distinct(frames)
    BY DEF IInv, StackOK
  <2>2. OfKind(Calls) = KindsOf(frames, Calls) /\ OfKind({"value"}) = KindsOf(frames, {"value"}) /\ OfKind({"source"}) = S
    BY <2>1, KindsAreOfKind
  <2>3. Cardinality(SourceStack) = Cardinality(S)
    <3>1. identityOf \in Bijection(S, SourceStack)
      <4>1. identityOf \in [S -> SourceStack] /\ \A i \in SourceStack : \E n \in S : identityOf[n] = i
        BY <2>2 DEF SourceStack
      <4>2. \A m, n \in S : identityOf[m] = identityOf[n] => m = n
        BY <2>1 DEF Distinct, KindsOf
      <4> QED
        BY <4>1, <4>2 DEF Bijection, Injection, Surjection, IsInjective
    <3>2. ExistsBijection(S, SourceStack)
      BY <3>1 DEF ExistsBijection
    <3>3. IsFiniteSet(S)
      BY <2>1, KindsFinite
    <3> QED
      BY <3>2, <3>3, FS_Bijection
  <2> HIDE DEF S
  <2> QED
    BY <2>1, <2>2, <2>3 DEF DepthsAreExact, Counted, S
<1> QED
  BY <1>1, Activated, PTL

\* break and continue are accepted where a loop surrounds them without a
\* call in between, and only there.
THEOREM FlagExact == Spec => []LoopFlagIsExact
<1>1. IInv => LoopFlagIsExact
  <2> SUFFICES ASSUME IInv PROVE LoopFlagIsExact
    OBVIOUS
  <2>1. frames \in Seq(FrameSet) /\ (inLoop <=> LoopAt(frames, Len(frames)))
    BY DEF IInv, StackOK, FlagsOK
  <2>2. OfKind({"loop"}) = {n \in 1 .. Len(frames) : frames[n].kind = "loop"}
    BY <2>1 DEF OfKind
  <2>3. OfKind(Calls) = {n \in 1 .. Len(frames) : frames[n].kind \in Calls}
    BY <2>1 DEF OfKind
  <2> QED
    BY <2>1, <2>2, <2>3 DEF LoopFlagIsExact, LoopAt
<1> QED
  BY <1>1, Activated, PTL

\* An import evaluates a source at most once.
THEOREM EvaluatedOnce == Spec => []ImportsEvaluateOnce
<1>1. IInv => ImportsEvaluateOnce
  BY DEF IInv, ImportsOK, ImportsEvaluateOnce
<1> QED
  BY <1>1, Activated, PTL

\* An imported source is left by its own end, or the assembly fails.
THEOREM EndedWhole == Spec => ImportsEndWhole
<1>1. IInv /\ [Next]_vars => [EndsWhole]_vars
  BY StepOK
<1> QED
  BY <1>1, Activated, PTL DEF Spec, ImportsEndWhole, EndsWhole
=============================================================================
