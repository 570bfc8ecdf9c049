---------------------------- MODULE Module_proofs ----------------------------
(***************************************************************************)
(* The functions the lowering machine is built from, for every value of    *)
(* its constants.                                                          *)
(*                                                                         *)
(* The cursor arithmetic and the two recursive functions of Layout: that   *)
(* they are defined, what they return, and that they agree.                *)
(*                                                                         *)
(* The functions on modules: each leads from a well-formed module to a     *)
(* Later one.  Later is transitive, so an action that composes several of  *)
(* them needs no argument of its own.  A module is ModuleOK if it is well  *)
(* formed (WellFormed), every memo is the walk of a prefix all of which    *)
(* lies below the watermark (MemoOK), and the stores agree with each other *)
(* (StoresOK).                                                             *)
(***************************************************************************)
EXTENDS Lowering, Recursion_proofs, SequenceTheorems

-----------------------------------------------------------------------------
(* Cursors.                                                                *)

CursorType == [offset : Nat, fileOffset : Nat]

\* The size of a fragment is a natural, that of an alignment is not zero.
Sized(f) == f.n \in Nat /\ (f.kind = "alignment" => f.n # 0)

\* Every fragment of fs is sized, and there are finitely many.
AllSized(fs) == Len(fs) \in Nat /\ \A k \in 1 .. Len(fs) : Sized(fs[k])

(* Rounding up to a multiple never goes down and stays in the naturals.    *)
LEMMA AlignUpBounds ==
  ASSUME NEW v \in Nat, NEW a \in Nat, a # 0
  PROVE  AlignUp(v, a) \in Nat /\ AlignUp(v, a) >= v
<1>1. v % a \in Nat /\ v % a < a
  OBVIOUS
<1>2. QED
  BY <1>1 DEF AlignUp

(* A fragment moves a cursor to a cursor, and never backwards.             *)
LEMMA CursorAfterType ==
  ASSUME NEW f, Sized(f), NEW c \in CursorType
  PROVE  /\ CursorAfter(f, c) \in CursorType
         /\ CursorAfter(f, c).offset = NextOffset(f, c.offset)
         /\ CursorAfter(f, c).fileOffset =
              NextFileOffset(f, c.offset, c.fileOffset)
<1>1. f.n \in Nat /\ c.offset \in Nat /\ c.fileOffset \in Nat
  BY DEF Sized, CursorType
<1>2. Materialized(c.offset, c.fileOffset) \in Nat
  BY <1>1 DEF Materialized
<1>3. NextOffset(f, c.offset) \in Nat
  BY <1>1, AlignUpBounds DEF NextOffset, Sized
<1>4. NextFileOffset(f, c.offset, c.fileOffset) \in Nat
  <2>1. CASE f.kind = "reserve"
    BY <1>1, <2>1 DEF NextFileOffset
  <2>2. CASE f.kind = "alignment"
    BY <1>1, <1>2, <2>2, AlignUpBounds DEF NextFileOffset, Sized
  <2>3. CASE f.kind # "reserve" /\ f.kind # "alignment"
    BY <1>1, <1>2, <2>3 DEF NextFileOffset
  <2>4. QED
    BY <2>1, <2>2, <2>3
<1>5. QED
  BY <1>3, <1>4 DEF CursorAfter, CursorType

LEMMA StartIsCursor == StartOfRegion \in CursorType
BY DEF StartOfRegion, CursorType

(* Walk is a function from positions to cursors, defined by its recursion. *)
LEMMA WalkDef ==
  ASSUME NEW fs, AllSized(fs), NEW from \in 0 .. Len(fs),
         NEW start \in CursorType
  PROVE  /\ Walk(fs, from, start) \in [from .. Len(fs) -> CursorType]
         /\ Walk(fs, from, start)[from] = start
         /\ \A k \in (from + 1) .. Len(fs) :
              Walk(fs, from, start)[k] =
                CursorAfter(fs[k], Walk(fs, from, start)[k - 1])
<1> DEFINE g == [x \in ((from + 1) .. Len(fs)) \X CursorType |->
                   CursorAfter(fs[x[1]], x[2])]
           Body(f) == [k \in from .. Len(fs) |->
                         IF k = from THEN start
                         ELSE CursorAfter(fs[k], f[k - 1])]
<1>1. from \in Nat /\ Len(fs) \in Nat /\ from <= Len(fs)
  BY DEF AllSized
<1>2. g \in [((from + 1) .. Len(fs)) \X CursorType -> CursorType]
  <2>1. ASSUME NEW x \in ((from + 1) .. Len(fs)) \X CursorType
        PROVE  CursorAfter(fs[x[1]], x[2]) \in CursorType
    <3>1. x[1] \in 1 .. Len(fs) /\ x[2] \in CursorType
      BY <1>1
    <3>2. QED
      BY <3>1, CursorAfterType DEF AllSized
  <2>2. QED
    BY <2>1
<1>3. PICK f \in [from .. Len(fs) -> CursorType] :
        /\ f[from] = start
        /\ \A k \in (from + 1) .. Len(fs) : f[k] = g[<<k, f[k - 1]>>]
  <2> HIDE DEF g
  <2>1. \E f : Recurses(f, from, Len(fs), CursorType, start, g)
    BY <1>1, <1>2, RecursionExists
  <2>2. QED
    BY <2>1 DEF Recurses
<1>4. ASSUME NEW k \in (from + 1) .. Len(fs)
      PROVE  f[k] = CursorAfter(fs[k], f[k - 1])
  <2>1. f[k - 1] \in CursorType
    BY <1>1
  <2>2. <<k, f[k - 1]>> \in ((from + 1) .. Len(fs)) \X CursorType
    BY <2>1
  <2>3. g[<<k, f[k - 1]>>] = CursorAfter(fs[k], f[k - 1])
    BY <2>2
  <2>4. QED
    BY <1>3, <2>3
<1>5. f = Body(f)
  <2>1. ASSUME NEW k \in from .. Len(fs)
        PROVE  f[k] = IF k = from THEN start ELSE CursorAfter(fs[k], f[k - 1])
    BY <1>1, <1>3, <1>4
  <2>2. QED
    BY <2>1
<1>6. Walk(fs, from, start) = CHOOSE h : h = Body(h)
  BY DEF Walk
<1> DEFINE w == Walk(fs, from, start)
<1>7. w = Body(w)
  <2> HIDE DEF Body, w
  <2>1. \E h : h = Body(h)
    BY <1>5
  <2>2. QED
    BY <1>6, <2>1 DEF w
<1> HIDE DEF w
<1>8. w[from] = start
  BY <1>1, <1>7
<1>9. ASSUME NEW k \in (from + 1) .. Len(fs)
      PROVE  w[k] = CursorAfter(fs[k], w[k - 1])
  BY <1>1, <1>7
<1>10. w \in [from .. Len(fs) -> CursorType]
  <2> DEFINE S == {n \in Nat : from + n <= Len(fs) =>
                                  w[from + n] \in CursorType}
  <2>1. 0 \in S
    BY <1>1, <1>8
  <2>2. ASSUME NEW n \in S
        PROVE  n + 1 \in S
    <3>1. SUFFICES ASSUME from + (n + 1) <= Len(fs)
                   PROVE  w[from + (n + 1)] \in CursorType
      OBVIOUS
    <3>2. w[from + n] \in CursorType
      BY <1>1, <3>1
    <3>3. /\ from + (n + 1) \in (from + 1) .. Len(fs)
          /\ from + (n + 1) \in 1 .. Len(fs)
          /\ (from + (n + 1)) - 1 = from + n
      BY <1>1, <3>1
    <3>4. w[from + (n + 1)] = CursorAfter(fs[from + (n + 1)], w[from + n])
      BY <1>9, <3>3
    <3>5. QED
      BY <3>2, <3>3, <3>4, CursorAfterType DEF AllSized
  <2>3. S = Nat
    <3> HIDE DEF S
    <3>1. S \subseteq Nat
      BY DEF S
    <3>2. QED
      BY <2>1, <2>2, <3>1, NatSet
  <2>4. ASSUME NEW k \in from .. Len(fs)
        PROVE  w[k] \in CursorType
    <3>1. k - from \in S /\ from + (k - from) = k
      <4> HIDE DEF S
      <4>1. QED
        BY <1>1, <2>3
    <3>2. QED
      BY <3>1
  <2>5. w = [k \in from .. Len(fs) |-> w[k]]
    BY <1>7
  <2>6. QED
    BY <2>4, <2>5
<1>11. QED
  BY <1>8, <1>9, <1>10 DEF w

(* A walk that goes on from the cursor of a prefix is the whole walk.      *)
LEMMA WalkContinues ==
  ASSUME NEW fs, AllSized(fs), NEW from \in 0 .. Len(fs),
         NEW k \in from .. Len(fs)
  PROVE  Walk(fs, from, Walk(fs, 0, StartOfRegion)[from])[k] =
           Walk(fs, 0, StartOfRegion)[k]
<1> DEFINE w == Walk(fs, 0, StartOfRegion)
           v == Walk(fs, from, w[from])
           S == {n \in Nat : from + n <= Len(fs) => v[from + n] = w[from + n]}
<1>1. from \in Nat /\ Len(fs) \in Nat /\ from <= Len(fs) /\ 0 \in 0 .. Len(fs)
  BY DEF AllSized
<1>2. /\ w \in [0 .. Len(fs) -> CursorType]
      /\ \A i \in 1 .. Len(fs) : w[i] = CursorAfter(fs[i], w[i - 1])
  BY <1>1, WalkDef, StartIsCursor
<1>3. w[from] \in CursorType
  BY <1>1, <1>2
<1> HIDE DEF w
<1>4. /\ v[from] = w[from]
      /\ \A i \in (from + 1) .. Len(fs) : v[i] = CursorAfter(fs[i], v[i - 1])
  BY <1>3, WalkDef
<1> HIDE DEF v
<1>5. 0 \in S
  BY <1>1, <1>4
<1>6. ASSUME NEW n \in S
      PROVE  n + 1 \in S
  <2>1. SUFFICES ASSUME from + (n + 1) <= Len(fs)
                 PROVE  v[from + (n + 1)] = w[from + (n + 1)]
    OBVIOUS
  <2>2. v[from + n] = w[from + n]
    BY <1>1, <2>1
  <2>3. /\ from + (n + 1) \in (from + 1) .. Len(fs)
        /\ from + (n + 1) \in 1 .. Len(fs)
        /\ (from + (n + 1)) - 1 = from + n
    BY <1>1, <2>1
  <2>4. QED
    BY <1>2, <1>4, <2>2, <2>3
<1>7. S = Nat
  <2> HIDE DEF S
  <2>1. S \subseteq Nat
    BY DEF S
  <2>2. QED
    BY <1>5, <1>6, <2>1, NatSet
<1>8. k - from \in Nat /\ from + (k - from) = k /\ k <= Len(fs)
  BY <1>1
<1>9. v[k] = w[k]
  <2>1. k - from \in S
    BY <1>7, <1>8
  <2>2. QED
    BY <1>8, <2>1
<1>10. QED
  BY <1>9 DEF v, w

\* The layout does not tell f and h apart.
SameShape(f, h) ==
  /\ f.n = h.n
  /\ f.kind = "alignment" <=> h.kind = "alignment"
  /\ f.kind = "reserve" <=> h.kind = "reserve"

LEMMA SameShapeMovesAlike ==
  ASSUME NEW f, NEW h, SameShape(f, h), NEW c
  PROVE  CursorAfter(f, c) = CursorAfter(h, c)
BY DEF SameShape, CursorAfter, NextOffset, NextFileOffset

(* The walk over a prefix looks at the shapes of that prefix only.         *)
LEMMA WalkOfPrefix ==
  ASSUME NEW fs, AllSized(fs), NEW hs, AllSized(hs),
         NEW n \in Nat, n <= Len(fs), n <= Len(hs),
         \A k \in 1 .. n : SameShape(fs[k], hs[k])
  PROVE  Walk(fs, 0, StartOfRegion)[n] = Walk(hs, 0, StartOfRegion)[n]
<1> DEFINE w == Walk(fs, 0, StartOfRegion)
           v == Walk(hs, 0, StartOfRegion)
           S == {i \in Nat : i <= n => v[i] = w[i]}
<1>1. Len(fs) \in Nat /\ Len(hs) \in Nat /\ 0 \in 0 .. Len(fs)
        /\ 0 \in 0 .. Len(hs)
  BY DEF AllSized
<1>2. /\ w[0] = StartOfRegion
      /\ \A i \in 1 .. Len(fs) : w[i] = CursorAfter(fs[i], w[i - 1])
  BY <1>1, WalkDef, StartIsCursor
<1>3. /\ v[0] = StartOfRegion
      /\ \A i \in 1 .. Len(hs) : v[i] = CursorAfter(hs[i], v[i - 1])
  BY <1>1, WalkDef, StartIsCursor
<1> HIDE DEF w, v
<1>4. 0 \in S
  BY <1>2, <1>3
<1>5. ASSUME NEW i \in S
      PROVE  i + 1 \in S
  <2>1. SUFFICES ASSUME i + 1 <= n
                 PROVE  v[i + 1] = w[i + 1]
    OBVIOUS
  <2>2. v[i] = w[i]
    BY <2>1
  <2>3. /\ i + 1 \in 1 .. n /\ i + 1 \in 1 .. Len(fs) /\ i + 1 \in 1 .. Len(hs)
        /\ (i + 1) - 1 = i
    BY <1>1, <2>1
  <2>4. CursorAfter(fs[i + 1], w[i]) = CursorAfter(hs[i + 1], w[i])
    BY <2>3, SameShapeMovesAlike
  <2>5. QED
    BY <1>2, <1>3, <2>2, <2>3, <2>4
<1>6. S = Nat
  <2> HIDE DEF S
  <2>1. S \subseteq Nat
    BY DEF S
  <2>2. QED
    BY <1>4, <1>5, <2>1, NatSet
<1>7. n \in S
  BY <1>6
<1>8. v[n] = w[n]
  BY <1>7
<1>9. QED
  BY <1>8 DEF v, w

-----------------------------------------------------------------------------
(* The offsets of the final layout.                                        *)

LEMMA FragmentSizeType ==
  ASSUME NEW f, Sized(f), NEW off \in Nat
  PROVE  LogicalFragmentSize(f, off) \in Nat
<1>1. CASE f.kind = "alignment"
  <2>1. AlignUp(off, f.n) \in Nat /\ AlignUp(off, f.n) >= off
    BY <1>1, AlignUpBounds DEF Sized
  <2>2. QED
    BY <1>1, <2>1 DEF LogicalFragmentSize
<1>2. CASE f.kind # "alignment"
  BY <1>2 DEF LogicalFragmentSize, Sized
<1>3. QED
  BY <1>1, <1>2

(* Offsets is a function from positions to naturals, by its recursion.     *)
LEMMA OffsetsDef ==
  ASSUME NEW fs, AllSized(fs)
  PROVE  /\ Offsets(fs) \in [0 .. Len(fs) -> Nat]
         /\ Offsets(fs)[0] = 0
         /\ \A k \in 1 .. Len(fs) :
              Offsets(fs)[k] = Offsets(fs)[k - 1]
                + LogicalFragmentSize(fs[k], Offsets(fs)[k - 1])
<1> DEFINE g == [x \in (1 .. Len(fs)) \X Nat |->
                   x[2] + LogicalFragmentSize(fs[x[1]], x[2])]
           Body(f) == [k \in 0 .. Len(fs) |->
                         IF k = 0 THEN 0
                         ELSE f[k - 1] + LogicalFragmentSize(fs[k], f[k - 1])]
<1>1. Len(fs) \in Nat /\ 0 <= Len(fs) /\ 0 + 1 = 1
  BY DEF AllSized
<1>2. g \in [((0 + 1) .. Len(fs)) \X Nat -> Nat]
  <2>1. ASSUME NEW x \in (1 .. Len(fs)) \X Nat
        PROVE  x[2] + LogicalFragmentSize(fs[x[1]], x[2]) \in Nat
    <3>1. x[1] \in 1 .. Len(fs) /\ x[2] \in Nat
      OBVIOUS
    <3>2. LogicalFragmentSize(fs[x[1]], x[2]) \in Nat
      BY <3>1, FragmentSizeType DEF AllSized
    <3>3. QED
      BY <3>1, <3>2
  <2>2. QED
    BY <1>1, <2>1
<1>3. PICK f : Recurses(f, 0, Len(fs), Nat, 0, g)
  <2> HIDE DEF g
  <2>1. QED
    BY <1>1, <1>2, RecursionExists
<1>4. ASSUME NEW k \in 1 .. Len(fs)
      PROVE  f[k] = f[k - 1] + LogicalFragmentSize(fs[k], f[k - 1])
  <2>1. f[k - 1] \in Nat
    BY <1>1, <1>3 DEF Recurses
  <2>2. <<k, f[k - 1]>> \in (1 .. Len(fs)) \X Nat
    BY <2>1
  <2>3. g[<<k, f[k - 1]>>] = f[k - 1] + LogicalFragmentSize(fs[k], f[k - 1])
    BY <2>2
  <2> HIDE DEF g
  <2>4. f[k] = g[<<k, f[k - 1]>>]
    BY <1>1, <1>3 DEF Recurses
  <2>5. QED
    BY <2>3, <2>4
<1>5. f = Body(f)
  <2>1. ASSUME NEW k \in 0 .. Len(fs)
        PROVE  f[k] = IF k = 0 THEN 0
                      ELSE f[k - 1] + LogicalFragmentSize(fs[k], f[k - 1])
    BY <1>1, <1>3, <1>4 DEF Recurses
  <2>2. f \in [0 .. Len(fs) -> Nat]
    BY <1>3 DEF Recurses
  <2>3. QED
    BY <2>1, <2>2
<1>6. Offsets(fs) = CHOOSE h : h = Body(h)
  BY DEF Offsets
<1> DEFINE o == Offsets(fs)
<1>7. o = Body(o)
  <2> HIDE DEF Body, o
  <2>1. \E h : h = Body(h)
    BY <1>5
  <2>2. QED
    BY <1>6, <2>1 DEF o
<1> HIDE DEF o
<1>8. o[0] = 0
  BY <1>1, <1>7
<1>9. ASSUME NEW k \in 1 .. Len(fs)
      PROVE  o[k] = o[k - 1] + LogicalFragmentSize(fs[k], o[k - 1])
  BY <1>1, <1>7
<1>10. ASSUME NEW k \in 0 .. Len(fs)
       PROVE  o[k] \in Nat
  <2> DEFINE S == {n \in Nat : n <= Len(fs) => o[n] \in Nat}
  <2>1. 0 \in S
    BY <1>8
  <2>2. ASSUME NEW n \in S
        PROVE  n + 1 \in S
    <3>1. SUFFICES ASSUME n + 1 <= Len(fs)
                   PROVE  o[n + 1] \in Nat
      OBVIOUS
    <3>2. o[n] \in Nat /\ n + 1 \in 1 .. Len(fs) /\ (n + 1) - 1 = n
      BY <1>1, <3>1
    <3>3. LogicalFragmentSize(fs[n + 1], o[n]) \in Nat
      BY <3>2, FragmentSizeType DEF AllSized
    <3>4. QED
      BY <1>9, <3>2, <3>3
  <2>3. S = Nat
    <3> HIDE DEF S
    <3>1. S \subseteq Nat
      BY DEF S
    <3>2. QED
      BY <2>1, <2>2, <3>1, NatSet
  <2>4. k \in S
    BY <1>1, <2>3
  <2>5. QED
    BY <1>1, <2>4
<1>11. o = [k \in 0 .. Len(fs) |-> o[k]]
  BY <1>7
<1>12. QED
  BY <1>8, <1>9, <1>10, <1>11 DEF o

-----------------------------------------------------------------------------
(* Max of FiniteSetsExt, for the sets of positions it is used on.          *)
LEMMA MaxOfNaturals ==
  ASSUME NEW n \in Nat, NEW T \in SUBSET (0 .. n), T # {}
  PROVE  Max(T) \in T /\ \A y \in T : y <= Max(T)
<1> DEFINE Mirror == {m \in 0 .. n : n - m \in T}
<1>1. Mirror \in SUBSET Nat
  OBVIOUS
<1>2. Mirror # {}
  <2>1. PICK x \in T : x \in 0 .. n
    OBVIOUS
  <2>2. n - x \in 0 .. n /\ n - (n - x) = x
    BY <2>1
  <2>3. QED
    BY <2>1, <2>2
<1>3. PICK m \in Mirror : \A y \in Mirror : m <= y
  <2> HIDE DEF Mirror
  <2>1. QED
    BY <1>1, <1>2, LeastNat
<1>4. ASSUME NEW y \in T
      PROVE  y <= n - m
  <2>1. y \in 0 .. n /\ n - y \in 0 .. n /\ n - (n - y) = y
    OBVIOUS
  <2>2. n - y \in Mirror
    BY <2>1
  <2>3. m <= n - y /\ m \in 0 .. n
    BY <1>3, <2>2
  <2>4. QED
    BY <2>1, <2>3
<1>5. \E z \in T : \A y \in T : z >= y
  <2>1. n - m \in T /\ n - m \in Int
    BY <1>3
  <2>2. QED
    BY <1>4, <2>1
<1>6. QED
  BY <1>5 DEF Max

LEMMA MaxOfPositions ==
  ASSUME NEW n \in Nat, NEW T \in SUBSET (1 .. n), T # {}
  PROVE  Max(T) \in T /\ \A y \in T : y <= Max(T)
<1>1. T \in SUBSET (0 .. n)
  OBVIOUS
<1>2. QED
  BY <1>1, MaxOfNaturals
-----------------------------------------------------------------------------
(* The two implementations of the layout agree.                            *)

(* One fragment moves the cursor by its size in the final layout, and the  *)
(* file part of the cursor follows unless the fragment is trimmed.         *)
LEMMA StepIsSize ==
  ASSUME NEW f, Sized(f), NEW off \in Nat, NEW file \in Nat, file <= off
  PROVE  /\ NextOffset(f, off) = off + LogicalFragmentSize(f, off)
         /\ NextFileOffset(f, off, file) =
              IF f.kind # "reserve" /\ LogicalFragmentSize(f, off) > 0
              THEN off + LogicalFragmentSize(f, off) ELSE file
<1>1. f.n \in Nat /\ Materialized(off, file) = off
  BY DEF Sized, Materialized
<1>2. CASE f.kind = "alignment"
  <2> DEFINE x == AlignUp(off, f.n)
  <2>1. x \in Nat /\ x >= off
    BY <1>2, AlignUpBounds DEF Sized
  <2>2. /\ NextOffset(f, off) = x /\ LogicalFragmentSize(f, off) = x - off
        /\ NextFileOffset(f, off, file) = IF x = off THEN file ELSE x
    BY <1>1, <1>2 DEF NextOffset, NextFileOffset, LogicalFragmentSize
  <2> HIDE DEF x
  <2>3. QED
    BY <1>2, <2>1, <2>2
<1>3. CASE f.kind = "reserve"
  BY <1>1, <1>3 DEF NextOffset, NextFileOffset, LogicalFragmentSize
<1>4. CASE f.kind # "reserve" /\ f.kind # "alignment"
  BY <1>1, <1>4 DEF NextOffset, NextFileOffset, LogicalFragmentSize
<1>5. QED
  BY <1>2, <1>3, <1>4

LEMMA OffsetsStep ==
  ASSUME NEW fs, AllSized(fs), NEW k \in 1 .. Len(fs)
  PROVE  /\ Offsets(fs)[k - 1] \in Nat /\ Offsets(fs)[k] \in Nat
         /\ LogicalFragmentSize(fs[k], Offsets(fs)[k - 1]) \in Nat
         /\ Offsets(fs)[k] = Offsets(fs)[k - 1]
              + LogicalFragmentSize(fs[k], Offsets(fs)[k - 1])
<1>1. Len(fs) \in Nat /\ k - 1 \in 0 .. Len(fs) /\ k \in 0 .. Len(fs)
  BY DEF AllSized
<1>2. Offsets(fs)[k - 1] \in Nat /\ Offsets(fs)[k] \in Nat
  BY <1>1, OffsetsDef
<1>3. LogicalFragmentSize(fs[k], Offsets(fs)[k - 1]) \in Nat
  BY <1>2, FragmentSizeType DEF AllSized
<1>4. QED
  BY <1>2, <1>3, OffsetsDef

(* A later fragment does not start before an earlier one.                  *)
LEMMA OffsetsGrow ==
  ASSUME NEW fs, AllSized(fs), NEW j \in 0 .. Len(fs), NEW k \in j .. Len(fs)
  PROVE  /\ Offsets(fs)[j] \in Nat /\ Offsets(fs)[k] \in Nat
         /\ Offsets(fs)[j] <= Offsets(fs)[k]
<1> DEFINE o == Offsets(fs)
           S == {n \in Nat : j + n <= Len(fs) => o[j] <= o[j + n]}
<1>1. Len(fs) \in Nat /\ j \in Nat
  BY DEF AllSized
<1>2. /\ \A i \in 0 .. Len(fs) : o[i] \in Nat
      /\ \A i \in 1 .. Len(fs) : o[i - 1] <= o[i]
  BY OffsetsDef, OffsetsStep
<1> HIDE DEF o
<1>3. 0 \in S
  BY <1>1, <1>2
<1>4. ASSUME NEW n \in S
      PROVE  n + 1 \in S
  <2>1. SUFFICES ASSUME j + (n + 1) <= Len(fs)
                 PROVE  o[j] <= o[j + (n + 1)]
    OBVIOUS
  <2>2. o[j] <= o[j + n]
    BY <1>1, <2>1
  <2>3. /\ j + (n + 1) \in 1 .. Len(fs) /\ (j + (n + 1)) - 1 = j + n
        /\ j + (n + 1) \in 0 .. Len(fs) /\ j + n \in 0 .. Len(fs)
        /\ j \in 0 .. Len(fs)
    BY <1>1, <2>1
  <2>4. o[j + n] <= o[j + (n + 1)] /\ o[j] \in Nat /\ o[j + n] \in Nat
          /\ o[j + (n + 1)] \in Nat
    BY <1>2, <2>3
  <2>5. QED
    BY <2>2, <2>4
<1>5. S = Nat
  <2> HIDE DEF S
  <2>1. S \subseteq Nat
    BY DEF S
  <2>2. QED
    BY <1>3, <1>4, <2>1, NatSet
<1>6. k - j \in S /\ j + (k - j) = k /\ k \in 0 .. Len(fs)
  <2> HIDE DEF S
  <2>1. \A n \in Nat : n \in S
    BY <1>5
  <2>2. QED
    BY <1>1, <2>1
<1>7. o[j] <= o[k]
  <2>1. j + (k - j) <= Len(fs)
    BY <1>1, <1>6
  <2>2. QED
    BY <1>6, <2>1
<1>8. QED
  BY <1>2, <1>6, <1>7 DEF o

(* A byte of a section belongs to one fragment at most.                    *)
LEMMA OffsetsApart ==
  ASSUME NEW fs, AllSized(fs), NEW j \in 1 .. Len(fs), NEW k \in 1 .. Len(fs),
         NEW t \in Int,
         Offsets(fs)[j - 1] <= t, t < Offsets(fs)[j],
         Offsets(fs)[k - 1] <= t, t < Offsets(fs)[k]
  PROVE  j = k
<1> DEFINE o == Offsets(fs)
<1>1. Len(fs) \in Nat
  BY DEF AllSized
<1>2. ASSUME NEW x \in 1 .. Len(fs), NEW y \in 1 .. Len(fs), x < y
      PROVE  o[x] \in Nat /\ o[y - 1] \in Nat /\ o[x] <= o[y - 1]
  <2>1. x \in 0 .. Len(fs) /\ y - 1 \in x .. Len(fs)
    BY <1>1, <1>2
  <2>2. QED
    BY <2>1, OffsetsGrow
<1> HIDE DEF o
<1>3. ~ (j < k)
  <2> SUFFICES ASSUME j < k PROVE FALSE
    OBVIOUS
  <2>1. o[j] \in Nat /\ o[k - 1] \in Nat /\ o[j] <= o[k - 1]
    BY <1>2
  <2>2. QED
    BY <2>1 DEF o
<1>4. ~ (k < j)
  <2> SUFFICES ASSUME k < j PROVE FALSE
    OBVIOUS
  <2>1. o[k] \in Nat /\ o[j - 1] \in Nat /\ o[k] <= o[j - 1]
    BY <1>2
  <2>2. QED
    BY <2>1 DEF o
<1>5. QED
  BY <1>1, <1>3, <1>4

(* A fragment with bytes ends before the part of a section that is trimmed. *)
LEMMA FileSizeCovers ==
  ASSUME NEW fs, AllSized(fs)
  PROVE  /\ FileSize(fs) \in Nat
         /\ \A k \in 1 .. Len(fs) :
              fs[k].kind # "reserve" /\ Offsets(fs)[k - 1] < Offsets(fs)[k] =>
                Offsets(fs)[k] <= FileSize(fs)
<1> DEFINE o == Offsets(fs)
           T == Initialized(fs)
<1>1. Len(fs) \in Nat
  BY DEF AllSized
<1>2. T \in SUBSET (1 .. Len(fs))
  BY DEF Initialized
<1>3. CASE T = {}
  <2>1. FileSize(fs) = 0
    BY <1>3 DEF FileSize
  <2>2. ASSUME NEW k \in 1 .. Len(fs),
               fs[k].kind # "reserve", o[k - 1] < o[k]
        PROVE  FALSE
    <3>1. /\ o[k - 1] \in Nat
          /\ LogicalFragmentSize(fs[k], o[k - 1]) \in Nat
          /\ o[k] = o[k - 1] + LogicalFragmentSize(fs[k], o[k - 1])
      BY OffsetsStep
    <3> HIDE DEF o
    <3>2. LogicalFragmentSize(fs[k], o[k - 1]) > 0
      BY <2>2, <3>1
    <3>3. k \in T
      BY <2>2, <3>2 DEF Initialized, o
    <3>4. QED
      BY <1>3, <3>3
  <2>3. QED
    BY <2>1, <2>2
<1>4. CASE T # {}
  <2> DEFINE h == Max(T)
  <2>1. /\ FileSize(fs) = o[h] /\ h \in 1 .. Len(fs)
        /\ \A y \in T : y <= h
    BY <1>1, <1>2, <1>4, MaxOfPositions DEF FileSize
  <2> HIDE DEF h
  <2>2. o[h] \in Nat
    BY <2>1, OffsetsStep
  <2>3. ASSUME NEW k \in 1 .. Len(fs),
               fs[k].kind # "reserve", o[k - 1] < o[k]
        PROVE  o[k] <= o[h]
    <3>1. /\ o[k - 1] \in Nat
          /\ LogicalFragmentSize(fs[k], o[k - 1]) \in Nat
          /\ o[k] = o[k - 1] + LogicalFragmentSize(fs[k], o[k - 1])
      BY OffsetsStep
    <3>2. k \in T
      <4> HIDE DEF o
      <4>1. LogicalFragmentSize(fs[k], o[k - 1]) > 0
        BY <2>3, <3>1
      <4>2. QED
        BY <2>3, <4>1 DEF Initialized, o
    <3>3. k \in 0 .. Len(fs) /\ h \in k .. Len(fs)
      BY <1>1, <2>1, <3>2
    <3>4. QED
      BY <3>3, OffsetsGrow
  <2>4. QED
    BY <2>1, <2>2, <2>3
<1>5. QED
  BY <1>3, <1>4

(* The offsets of a prefix depend on the shapes of that prefix only.       *)
LEMMA OffsetsOfPrefix ==
  ASSUME NEW fs, AllSized(fs), NEW hs, AllSized(hs),
         NEW n \in Nat, n <= Len(fs), n <= Len(hs),
         \A k \in 1 .. n : SameShape(fs[k], hs[k])
  PROVE  \A k \in 0 .. n : Offsets(fs)[k] = Offsets(hs)[k]
<1> DEFINE o == Offsets(fs)
           p == Offsets(hs)
           S == {i \in Nat : i <= n => o[i] = p[i]}
<1>1. Len(fs) \in Nat /\ Len(hs) \in Nat
  BY DEF AllSized
<1>2. /\ o[0] = 0
      /\ \A i \in 1 .. Len(fs) :
           o[i] = o[i - 1] + LogicalFragmentSize(fs[i], o[i - 1])
  BY OffsetsDef
<1>3. /\ p[0] = 0
      /\ \A i \in 1 .. Len(hs) :
           p[i] = p[i - 1] + LogicalFragmentSize(hs[i], p[i - 1])
  BY OffsetsDef
<1> HIDE DEF o, p
<1>4. 0 \in S
  BY <1>2, <1>3
<1>5. ASSUME NEW i \in S
      PROVE  i + 1 \in S
  <2>1. SUFFICES ASSUME i + 1 <= n
                 PROVE  o[i + 1] = p[i + 1]
    OBVIOUS
  <2>2. o[i] = p[i]
    BY <2>1
  <2>3. /\ i + 1 \in 1 .. n /\ i + 1 \in 1 .. Len(fs) /\ i + 1 \in 1 .. Len(hs)
        /\ (i + 1) - 1 = i
    BY <1>1, <2>1
  <2>4. SameShape(fs[i + 1], hs[i + 1])
    BY <2>3
  <2>5. LogicalFragmentSize(fs[i + 1], o[i]) =
          LogicalFragmentSize(hs[i + 1], o[i])
    BY <2>4 DEF SameShape, LogicalFragmentSize
  <2>6. QED
    BY <1>2, <1>3, <2>2, <2>3, <2>5
<1>6. S = Nat
  <2> HIDE DEF S
  <2>1. S \subseteq Nat
    BY DEF S
  <2>2. QED
    BY <1>4, <1>5, <2>1, NatSet
<1>7. QED
  BY <1>6 DEF o, p

(* Trimming never makes a section larger.                                  *)
LEMMA FileSizeBelow ==
  ASSUME NEW fs, AllSized(fs)
  PROVE  FileSize(fs) <= LogicalSize(fs) /\ LogicalSize(fs) \in Nat
<1>1. Len(fs) \in Nat
  BY DEF AllSized
<1>2. Offsets(fs)[Len(fs)] \in Nat
  BY <1>1, OffsetsDef
<1>3. CASE Initialized(fs) = {}
  BY <1>2, <1>3 DEF FileSize, LogicalSize
<1>4. CASE Initialized(fs) # {}
  <2> DEFINE h == Max(Initialized(fs))
  <2>1. h \in 1 .. Len(fs)
    <3>1. Initialized(fs) \in SUBSET (1 .. Len(fs))
      BY DEF Initialized
    <3>2. QED
      BY <1>1, <1>4, <3>1, MaxOfPositions
  <2>2. FileSize(fs) = Offsets(fs)[h]
    BY <1>4 DEF FileSize
  <2> HIDE DEF h
  <2>3. h \in 0 .. Len(fs) /\ Len(fs) \in h .. Len(fs)
    BY <1>1, <2>1
  <2>4. QED
    BY <1>2, <2>2, <2>3, OffsetsGrow DEF LogicalSize
<1>5. QED
  BY <1>3, <1>4

(* So does the file size.                                                  *)
LEMMA FileSizeOfShapes ==
  ASSUME NEW fs, AllSized(fs), NEW hs, AllSized(hs), Len(fs) = Len(hs),
         \A k \in 1 .. Len(fs) : SameShape(fs[k], hs[k])
  PROVE  FileSize(fs) = FileSize(hs)
<1>1. Len(fs) \in Nat
  BY DEF AllSized
<1>2. \A k \in 0 .. Len(fs) : Offsets(fs)[k] = Offsets(hs)[k]
  BY <1>1, OffsetsOfPrefix
<1>3. ASSUME NEW k \in 1 .. Len(fs)
      PROVE  k \in Initialized(fs) <=> k \in Initialized(hs)
  <2>1. Offsets(fs)[k - 1] = Offsets(hs)[k - 1]
    BY <1>1, <1>2
  <2>2. SameShape(fs[k], hs[k])
    OBVIOUS
  <2>3. QED
    BY <2>1, <2>2 DEF Initialized, SameShape, LogicalFragmentSize
<1>4. Initialized(fs) = Initialized(hs)
  BY <1>3 DEF Initialized
<1>5. CASE Initialized(fs) = {}
  BY <1>4, <1>5 DEF FileSize
<1>6. CASE Initialized(fs) # {}
  <2>1. Max(Initialized(fs)) \in 1 .. Len(fs)
    <3>1. Initialized(fs) \in SUBSET (1 .. Len(fs))
      BY DEF Initialized
    <3>2. QED
      BY <1>1, <1>6, <3>1, MaxOfPositions
  <2>2. QED
    BY <1>1, <1>2, <1>4, <1>6, <2>1 DEF FileSize
<1>7. QED
  BY <1>5, <1>6

\* m is the last of the first k fragments that keeps the file from being
\* trimmed, and file is where it ends.
TrimmedAt(fs, k, file) ==
  LET T == {i \in Initialized(fs) : i <= k}
  IN  \/ T = {} /\ file = 0
      \/ \E m \in T : (\A i \in T : i <= m) /\ file = Offsets(fs)[m]

(* The cursor walk of layout_cursor.zig computes the offsets and the file  *)
(* size of layout.zig, for every list of fragments.                        *)
LEMMA WalkIsLayout ==
  ASSUME NEW fs, AllSized(fs), NEW k \in 0 .. Len(fs)
  PROVE  /\ Walk(fs, 0, StartOfRegion)[k].offset = Offsets(fs)[k]
         /\ TrimmedAt(fs, k, Walk(fs, 0, StartOfRegion)[k].fileOffset)
<1> DEFINE w == Walk(fs, 0, StartOfRegion)
           o == Offsets(fs)
           S == {n \in Nat : n <= Len(fs) =>
                   w[n].offset = o[n] /\ TrimmedAt(fs, n, w[n].fileOffset)}
<1>1. Len(fs) \in Nat /\ 0 \in 0 .. Len(fs)
  BY DEF AllSized
<1>2. /\ w \in [0 .. Len(fs) -> CursorType]
      /\ w[0] = StartOfRegion
      /\ \A i \in 1 .. Len(fs) : w[i] = CursorAfter(fs[i], w[i - 1])
  BY <1>1, WalkDef, StartIsCursor
<1>3. o[0] = 0 /\ \A i \in 0 .. Len(fs) : o[i] \in Nat
  BY OffsetsDef
<1>4. \A i \in Initialized(fs) : i \in 1 .. Len(fs)
  BY DEF Initialized
<1> HIDE DEF w
<1>5. 0 \in S
  <2>1. w[0].offset = 0 /\ w[0].fileOffset = 0
    BY <1>2 DEF StartOfRegion
  <2>2. {i \in Initialized(fs) : i <= 0} = {}
    BY <1>1, <1>4
  <2>3. QED
    BY <1>3, <2>1, <2>2 DEF TrimmedAt
<1>6. ASSUME NEW n \in S
      PROVE  n + 1 \in S
  <2>1. SUFFICES ASSUME n + 1 <= Len(fs)
                 PROVE  /\ w[n + 1].offset = o[n + 1]
                        /\ TrimmedAt(fs, n + 1, w[n + 1].fileOffset)
    OBVIOUS
  <2> DEFINE f == fs[n + 1]
             file == w[n].fileOffset
             size == LogicalFragmentSize(f, o[n])
             T == {i \in Initialized(fs) : i <= n}
             U == {i \in Initialized(fs) : i <= n + 1}
  <2>2. /\ n \in Nat /\ n + 1 \in 1 .. Len(fs) /\ (n + 1) - 1 = n
        /\ n \in 0 .. Len(fs) /\ n + 1 \in 0 .. Len(fs)
    BY <1>1, <2>1
  <2>3. w[n].offset = o[n] /\ TrimmedAt(fs, n, file)
    BY <2>1
  <2>4. w[n] \in CursorType /\ file \in Nat /\ o[n] \in Nat
    BY <1>2, <1>3, <2>2 DEF CursorType
  <2>5. size \in Nat /\ o[n + 1] = o[n] + size
    BY <2>2, OffsetsStep
  <2>6. file <= o[n]
    <3>1. CASE file = 0
      BY <2>4, <3>1
    <3>2. CASE \E m \in T : file = o[m]
      <4>1. PICK m \in T : file = o[m]
        BY <3>2
      <4>2. m \in 0 .. Len(fs) /\ n \in m .. Len(fs)
        BY <1>4, <2>2, <4>1
      <4>3. QED
        BY <4>1, <4>2, OffsetsGrow
    <3>3. QED
      BY <2>3, <3>1, <3>2 DEF TrimmedAt
  <2>7. Sized(f) /\ w[n + 1] = CursorAfter(f, w[n])
    BY <1>2, <2>2 DEF AllSized
  <2>8. /\ w[n + 1].offset = NextOffset(f, o[n])
        /\ w[n + 1].fileOffset = NextFileOffset(f, o[n], file)
    BY <2>3, <2>4, <2>7, CursorAfterType
  <2>9. /\ w[n + 1].offset = o[n] + size
        /\ w[n + 1].fileOffset =
             IF f.kind # "reserve" /\ size > 0 THEN o[n] + size ELSE file
    BY <2>4, <2>6, <2>7, <2>8, StepIsSize
  <2>10. n + 1 \in Initialized(fs) <=> f.kind # "reserve" /\ size > 0
    BY <2>2 DEF Initialized
  <2> HIDE DEF f, size, o, file
  <2>11. CASE n + 1 \in Initialized(fs)
    <3>1. w[n + 1].fileOffset = o[n + 1]
      BY <2>5, <2>9, <2>10, <2>11
    <3>2. n + 1 \in U /\ \A i \in U : i <= n + 1
      BY <1>4, <2>2, <2>11
    <3>3. QED
      BY <2>5, <2>9, <3>1, <3>2 DEF TrimmedAt, o
  <2>12. CASE n + 1 \notin Initialized(fs)
    <3>1. w[n + 1].fileOffset = file
      BY <2>9, <2>10, <2>12
    <3>2. U = T
      <4>1. ASSUME NEW i \in Initialized(fs)
            PROVE  i <= n + 1 <=> i <= n
        <5>1. i \in Nat /\ i # n + 1
          BY <1>1, <1>4, <2>12
        <5>2. QED
          BY <2>2, <5>1
      <4>2. QED
        BY <4>1
    <3>3. QED
      BY <2>3, <2>5, <2>9, <3>1, <3>2 DEF TrimmedAt
  <2>13. QED
    BY <2>11, <2>12
<1>7. S = Nat
  <2> HIDE DEF S
  <2>1. S \subseteq Nat
    BY DEF S
  <2>2. QED
    BY <1>5, <1>6, <2>1, NatSet
<1>8. k \in S /\ k <= Len(fs)
  BY <1>1, <1>7
<1>9. QED
  BY <1>8 DEF w

LEMMA WalkEndsAtSize ==
  ASSUME NEW fs, AllSized(fs)
  PROVE  Walk(fs, 0, StartOfRegion)[Len(fs)] =
           [offset |-> LogicalSize(fs), fileOffset |-> FileSize(fs)]
<1> DEFINE c == Walk(fs, 0, StartOfRegion)[Len(fs)]
           T == {i \in Initialized(fs) : i <= Len(fs)}
<1>1. Len(fs) \in Nat /\ 0 \in 0 .. Len(fs) /\ Len(fs) \in 0 .. Len(fs)
  BY DEF AllSized
<1>2. c \in CursorType
  BY <1>1, WalkDef, StartIsCursor
<1>3. c.offset = LogicalSize(fs) /\ TrimmedAt(fs, Len(fs), c.fileOffset)
  BY <1>1, WalkIsLayout DEF LogicalSize
<1> HIDE DEF c
<1>4. T = Initialized(fs) /\ Initialized(fs) \in SUBSET (1 .. Len(fs))
  BY <1>1 DEF Initialized
<1>5. c.fileOffset = FileSize(fs)
  <2>1. CASE Initialized(fs) = {}
    BY <1>3, <1>4, <2>1 DEF TrimmedAt, FileSize
  <2>2. CASE Initialized(fs) # {}
    <3> DEFINE I == Initialized(fs)
               x == Max(I)
    <3>1. x \in I /\ \A y \in I : y <= x
      BY <1>1, <1>4, <2>2, MaxOfPositions
    <3>2. PICK m \in I : (\A i \in I : i <= m) /\ c.fileOffset = Offsets(fs)[m]
      BY <1>3, <1>4, <2>2 DEF TrimmedAt
    <3>3. FileSize(fs) = Offsets(fs)[x]
      BY <2>2 DEF FileSize
    <3> HIDE DEF x
    <3>4. m <= x /\ x <= m /\ m \in Nat /\ x \in Nat
      BY <1>1, <1>4, <3>1, <3>2
    <3>5. m = x
      <4> HIDE DEF I
      <4>1. QED
        BY <3>4
    <3>6. QED
      BY <3>2, <3>3, <3>5
  <2>3. QED
    BY <2>1, <2>2
<1>6. c = [offset |-> c.offset, fileOffset |-> c.fileOffset]
  BY <1>2 DEF CursorType
<1>7. QED
  BY <1>3, <1>5, <1>6 DEF c

-----------------------------------------------------------------------------
(* What the functions on modules keep.                                     *)

LabelType == [section : Nat, offset : Nat, position : Nat]

ModuleType(m) ==
  /\ m \in [section : Seq(SectionType), fragment : Seq(FragmentType),
            label : [Labels -> LabelType], fixup : {m.fixup}, watermark : Nat]
  /\ m.watermark <= Len(m.fragment)

\* The size of a fragment fits its kind, and an instruction keeps its text.
FragmentOK(f) ==
  /\ Sized(f)
  /\ f.kind = "isa" =>
       /\ f.text \in Texts
       /\ f.data # <<>> => f.n = Len(Encoding[f.text])

\* A fragment as the calls append it: an instruction is not encoded yet.
Fresh(f) == FragmentOK(f) /\ (f.kind = "isa" => f.data = <<>>)

FragmentsOK(m) ==
  \A i \in 1 .. Len(m.fragment) :
    /\ m.fragment[i].section \in 1 .. Len(m.section)
    /\ FragmentOK(m.fragment[i])

\* The ids of a section's fragments exist and increase.
SectionOK(m, s) ==
  /\ \A k \in 1 .. Len(m.section[s].frags) :
       m.section[s].frags[k] \in 1 .. Len(m.fragment)
  /\ \A j, k \in 1 .. Len(m.section[s].frags) :
       j < k => m.section[s].frags[j] < m.section[s].frags[k]
  /\ m.section[s].folded <= Len(m.section[s].frags)

SectionsOK(m) == \A s \in 1 .. Len(m.section) : SectionOK(m, s)

AnchorOK(m, b) ==
  b # Undefined =>
    /\ b.section \in 1 .. Len(m.section)
    /\ b.position <= Len(m.section[b.section].frags)

LabelsOK(m) == \A l \in Labels : AnchorOK(m, m.label[l])

WellFormed(m) ==
  ModuleType(m) /\ FragmentsOK(m) /\ SectionsOK(m) /\ LabelsOK(m)

\* The memo of s is the walk of a prefix that cannot change any more.
MemoAt(m, s) ==
  /\ \A k \in 1 .. m.section[s].folded : m.section[s].frags[k] <= m.watermark
  /\ m.section[s].memo =
       Walk(FragmentsOf(m, s), 0, StartOfRegion)[m.section[s].folded]

MemoOK(m) == \A s \in 1 .. Len(m.section) : MemoAt(m, s)

\* A fragment is listed by its own section, and by no other.
HomesOK(m) ==
  /\ \A i \in 1 .. Len(m.fragment) :
       \E k \in 1 .. Len(m.section[m.fragment[i].section].frags) :
         m.section[m.fragment[i].section].frags[k] = i
  /\ \A s \in 1 .. Len(m.section) :
       \A k \in 1 .. Len(m.section[s].frags) :
         m.fragment[m.section[s].frags[k]].section = s

\* Below the watermark every instruction has its bytes.
Settled(m) ==
  \A i \in 1 .. m.watermark :
    m.fragment[i].kind = "isa" => m.fragment[i].data # <<>>

\* An entry of the fixup store: a field inside a fragment that has bytes.
FixupOK(m, x) ==
  /\ m.fixup[x] = 1
  /\ x.fragment \in 1 .. Len(m.fragment)
  /\ x = [fragment |-> x.fragment, ref |-> x.ref]
  /\ x.ref.label \in Labels
  /\ x.ref.kind \in {"absolute", "pc_relative"}
  /\ LET f == m.fragment[x.fragment]
     IN  /\ f.kind \in {"bytes", "isa"}
         /\ f.data # <<>>
         /\ x.ref.at \in 0 .. f.n - 1
         /\ f.kind = "isa" => x.ref \in References[f.text]

\* The store holds every reference of every encoded instruction, once.
FixupsOK(m) ==
  /\ \A x \in DOMAIN m.fixup : FixupOK(m, x)
  /\ \A i \in 1 .. Len(m.fragment) :
       m.fragment[i].kind = "isa" /\ m.fragment[i].data # <<>> =>
         \A r \in References[m.fragment[i].text] :
           [fragment |-> i, ref |-> r] \in DOMAIN m.fixup

StoresOK(m) == HomesOK(m) /\ Settled(m) /\ FixupsOK(m)

ModuleOK(m) == WellFormed(m) /\ MemoOK(m) /\ StoresOK(m)

\* The size of a fragment cannot change any more: it has its bytes.
HasSize(f) == f.kind = "isa" => f.data # <<>>

\* Fragments keep their sections, and those of known size their shapes.
Frozen(m, m2) ==
  \A i \in 1 .. Len(m.fragment) :
    /\ i <= Len(m2.fragment)
    /\ m2.fragment[i].section = m.fragment[i].section
    /\ HasSize(m.fragment[i]) =>
         SameShape(m.fragment[i], m2.fragment[i]) /\ HasSize(m2.fragment[i])

\* Sections and their lists of fragments only become longer.
Grows(m, m2) ==
  /\ Len(m.section) <= Len(m2.section)
  /\ \A s \in 1 .. Len(m.section) :
       /\ Len(m.section[s].frags) <= Len(m2.section[s].frags)
       /\ \A k \in 1 .. Len(m.section[s].frags) :
            m2.section[s].frags[k] = m.section[s].frags[k]

\* A label that has its final address: everything before it has its size.
Known(m, l) ==
  LET b == m.label[l]
  IN  /\ b # Undefined
      /\ \A k \in 1 .. b.position :
           HasSize(m.fragment[m.section[b.section].frags[k]])
      /\ b.offset = LabelOffset(m, b)

\* m2 is a well-formed module the code can turn m into.
Later(m, m2) ==
  /\ ModuleOK(m2)
  /\ Frozen(m, m2)
  /\ Grows(m, m2)
  /\ m.watermark <= m2.watermark
  /\ \A l \in Labels : Known(m, l) => Known(m2, l)

\* Only the label call defines labels.
NoNewLabels(m, m2) ==
  \A l \in Labels : m.label[l] = Undefined => m2.label[l] = Undefined

\* The anchor of a label stays; its offset too, or it is made current.
Follows(m, m2, l) ==
  /\ m2.label[l].section = m.label[l].section
  /\ m2.label[l].position = m.label[l].position
  /\ \/ m2.label[l].offset = m.label[l].offset
     \/ m2.label[l].offset = LabelOffset(m2, m2.label[l])

\* The sections of m2 are those of m, but for what a memo holds.
SameSections(m, m2) ==
  /\ Len(m2.section) = Len(m.section)
  /\ \A s \in 1 .. Len(m.section) :
       /\ m2.section[s].frags = m.section[s].frags
       /\ m2.section[s].closed = m.section[s].closed
       /\ m2.section[s].kind = m.section[s].kind

-----------------------------------------------------------------------------
(* Fragments and memos.                                                    *)

LEMMA SectionFacts ==
  ASSUME NEW m, ModuleType(m), NEW s \in 1 .. Len(m.section)
  PROVE  /\ Len(m.section) \in Nat /\ Len(m.fragment) \in Nat
         /\ m.section[s] \in SectionType
         /\ m.section[s].frags \in Seq(Nat)
         /\ Len(m.section[s].frags) \in Nat
         /\ m.section[s].folded \in Nat
         /\ m.section[s].memo \in CursorType
         /\ m.section[s].sizeAlign \in Nat
         /\ m.section[s].sizeAlign # 0
<1>1. Len(m.section) \in Nat /\ Len(m.fragment) \in Nat
  BY DEF ModuleType
<1>2. m.section[s] \in SectionType
  BY DEF ModuleType
<1>3. \A x \in SectionType :
        /\ x.frags \in Seq(Nat) /\ x.folded \in Nat /\ x.memo \in CursorType
        /\ x.sizeAlign \in Nat /\ x.sizeAlign # 0
  BY DEF SectionType, CursorType
<1>4. \A q \in Seq(Nat) : Len(q) \in Nat
  OBVIOUS
<1>5. QED
  BY <1>1, <1>2, <1>3, <1>4

LEMMA FragmentsOfSection ==
  ASSUME NEW m, WellFormed(m), NEW s \in 1 .. Len(m.section)
  PROVE  /\ Len(FragmentsOf(m, s)) = Len(m.section[s].frags)
         /\ \A k \in 1 .. Len(m.section[s].frags) :
              FragmentsOf(m, s)[k] = m.fragment[m.section[s].frags[k]]
         /\ AllSized(FragmentsOf(m, s))
<1>1. Len(m.section[s].frags) \in Nat
  BY SectionFacts DEF WellFormed
<1>2. Len(FragmentsOf(m, s)) = Len(m.section[s].frags)
  BY <1>1 DEF FragmentsOf
<1>3. ASSUME NEW k \in 1 .. Len(m.section[s].frags)
      PROVE  FragmentsOf(m, s)[k] = m.fragment[m.section[s].frags[k]]
  BY DEF FragmentsOf
<1>4. ASSUME NEW k \in 1 .. Len(m.section[s].frags)
      PROVE  Sized(FragmentsOf(m, s)[k])
  <2>1. m.section[s].frags[k] \in 1 .. Len(m.fragment)
    BY DEF WellFormed, SectionsOK, SectionOK
  <2>2. QED
    BY <1>3, <2>1 DEF WellFormed, FragmentsOK, FragmentOK
<1>5. QED
  BY <1>1, <1>2, <1>3, <1>4 DEF AllSized

(* A memo stays right as long as its prefix and the shapes below the       *)
(* watermark stay the same.                                                *)
LEMMA MemoKept ==
  ASSUME NEW m, ModuleOK(m), NEW m2, WellFormed(m2),
         NEW s \in 1 .. Len(m.section), s <= Len(m2.section),
         Frozen(m, m2), m.watermark <= m2.watermark,
         m2.section[s].folded = m.section[s].folded,
         m2.section[s].memo = m.section[s].memo,
         \A k \in 1 .. m.section[s].folded :
           m2.section[s].frags[k] = m.section[s].frags[k]
  PROVE  MemoAt(m2, s)
<1> DEFINE n == m.section[s].folded
<1>1. s \in 1 .. Len(m2.section)
  BY SectionFacts DEF ModuleOK, WellFormed
<1>2. /\ n \in Nat
      /\ n <= Len(m.section[s].frags) /\ Len(m.section[s].frags) \in Nat
      /\ n <= Len(m2.section[s].frags) /\ Len(m2.section[s].frags) \in Nat
  BY <1>1, SectionFacts
     DEF ModuleOK, WellFormed, SectionsOK, SectionOK
<1>3. ASSUME NEW k \in 1 .. n
      PROVE  m.section[s].frags[k] \in 1 .. m.watermark
  <2>1. m.section[s].frags[k] <= m.watermark
    BY DEF ModuleOK, MemoOK, MemoAt
  <2>2. m.section[s].frags[k] \in 1 .. Len(m.fragment)
    BY <1>2 DEF ModuleOK, WellFormed, SectionsOK, SectionOK
  <2>3. m.watermark \in Nat /\ Len(m.fragment) \in Nat
    BY DEF ModuleOK, WellFormed, ModuleType
  <2>4. QED
    BY <2>1, <2>2, <2>3
<1>4. ASSUME NEW k \in 1 .. n
      PROVE  SameShape(FragmentsOf(m, s)[k], FragmentsOf(m2, s)[k])
  <2>1. FragmentsOf(m, s)[k] = m.fragment[m.section[s].frags[k]]
    BY <1>2, FragmentsOfSection, SMTT(30) DEF ModuleOK
  <2>2. FragmentsOf(m2, s)[k] = m2.fragment[m.section[s].frags[k]]
    BY <1>1, <1>2, FragmentsOfSection, SMTT(30)
  <2>3. m.section[s].frags[k] \in 1 .. Len(m.fragment)
    BY <1>2 DEF ModuleOK, WellFormed, SectionsOK, SectionOK
  <2>4. HasSize(m.fragment[m.section[s].frags[k]])
    BY <1>3 DEF ModuleOK, StoresOK, Settled, HasSize
  <2>5. QED
    BY <2>1, <2>2, <2>3, <2>4 DEF Frozen
<1>5. Walk(FragmentsOf(m, s), 0, StartOfRegion)[n] =
        Walk(FragmentsOf(m2, s), 0, StartOfRegion)[n]
  <2>1. /\ AllSized(FragmentsOf(m, s)) /\ AllSized(FragmentsOf(m2, s))
        /\ Len(FragmentsOf(m, s)) = Len(m.section[s].frags)
        /\ Len(FragmentsOf(m2, s)) = Len(m2.section[s].frags)
    BY <1>1, FragmentsOfSection DEF ModuleOK
  <2> HIDE DEF n
  <2>2. QED
    BY <1>2, <1>4, <2>1, WalkOfPrefix
<1>6. \A k \in 1 .. n : m2.section[s].frags[k] <= m2.watermark
  <2>1. m.watermark \in Nat /\ m2.watermark \in Nat
    BY DEF ModuleOK, WellFormed, ModuleType
  <2>2. QED
    BY <1>3, <2>1
<1>7. m.section[s].memo = Walk(FragmentsOf(m, s), 0, StartOfRegion)[n]
  BY DEF ModuleOK, MemoOK, MemoAt
<1>8. QED
  BY <1>5, <1>6, <1>7 DEF MemoAt

LEMMA LeqTransitive == \A a, b, c \in Nat : a <= b /\ b <= c => a <= c
OBVIOUS

LEMMA FrozenReflexive ==
  ASSUME NEW m, WellFormed(m)
  PROVE  Frozen(m, m)
BY DEF Frozen, SameShape, WellFormed, ModuleType

LEMMA LaterReflexive ==
  ASSUME NEW m, ModuleOK(m)
  PROVE  Later(m, m) /\ NoNewLabels(m, m)
<1>1. ModuleType(m) /\ Len(m.section) \in Nat /\ m.watermark \in Nat
  BY DEF ModuleOK, WellFormed, ModuleType
<1>2. \A s \in 1 .. Len(m.section) : Len(m.section[s].frags) \in Nat
  BY <1>1, SectionFacts
<1>3. QED
  BY <1>1, <1>2, FrozenReflexive
     DEF Later, Grows, NoNewLabels, ModuleOK

LEMMA LaterTransitive ==
  ASSUME NEW m, NEW m2, NEW m3, ModuleOK(m), Later(m, m2), Later(m2, m3)
  PROVE  /\ Later(m, m3)
         /\ NoNewLabels(m, m2) /\ NoNewLabels(m2, m3) => NoNewLabels(m, m3)
<1>1. /\ m.watermark \in Nat /\ m2.watermark \in Nat /\ m3.watermark \in Nat
      /\ Len(m.section) \in Nat /\ Len(m2.section) \in Nat
      /\ Len(m3.section) \in Nat
      /\ Len(m2.fragment) \in Nat
      /\ ModuleType(m) /\ ModuleType(m2) /\ ModuleType(m3)
  BY DEF Later, ModuleOK, WellFormed, ModuleType
<1>2. Frozen(m, m3)
  <2>1. ASSUME NEW i \in 1 .. Len(m.fragment)
        PROVE  /\ i <= Len(m3.fragment)
               /\ m3.fragment[i].section = m.fragment[i].section
               /\ HasSize(m.fragment[i]) =>
                    /\ SameShape(m.fragment[i], m3.fragment[i])
                    /\ HasSize(m3.fragment[i])
    <3>1. i \in 1 .. Len(m2.fragment)
      BY <1>1 DEF Later, Frozen
    <3>2. QED
      BY <3>1 DEF Later, Frozen, SameShape
  <2>2. QED
    BY <2>1 DEF Frozen
<1>3. Grows(m, m3)
  <2>1. ASSUME NEW s \in 1 .. Len(m.section)
        PROVE  /\ Len(m.section[s].frags) <= Len(m3.section[s].frags)
               /\ \A k \in 1 .. Len(m.section[s].frags) :
                    m3.section[s].frags[k] = m.section[s].frags[k]
    <3>1. s \in 1 .. Len(m2.section) /\ s \in 1 .. Len(m3.section)
      BY <1>1 DEF Later, Grows
    <3>2. /\ Len(m.section[s].frags) \in Nat
          /\ Len(m2.section[s].frags) \in Nat
          /\ Len(m3.section[s].frags) \in Nat
      BY <1>1, <3>1, SectionFacts
    <3>3. /\ Len(m.section[s].frags) <= Len(m2.section[s].frags)
          /\ Len(m2.section[s].frags) <= Len(m3.section[s].frags)
          /\ \A k \in 1 .. Len(m.section[s].frags) :
               m2.section[s].frags[k] = m.section[s].frags[k]
          /\ \A k \in 1 .. Len(m2.section[s].frags) :
               m3.section[s].frags[k] = m2.section[s].frags[k]
      BY <3>1 DEF Later, Grows
    <3>4. \A k \in 1 .. Len(m.section[s].frags) :
            k \in 1 .. Len(m2.section[s].frags)
      BY <3>2, <3>3
    <3>5. Len(m.section[s].frags) <= Len(m3.section[s].frags)
      BY <3>2, <3>3, LeqTransitive, Zenon
    <3>6. QED
      BY <3>3, <3>4, <3>5
  <2>2. QED
    BY <1>1, <2>1 DEF Later, Grows
<1>4. QED
  BY <1>1, <1>2, <1>3 DEF Later, NoNewLabels

(* A label with its final address keeps it while fragments of known size   *)
(* keep their shapes and places.                                           *)
LEMMA KnownStays ==
  ASSUME NEW m, ModuleOK(m), NEW m2, WellFormed(m2),
         Frozen(m, m2), Grows(m, m2),
         \A l \in Labels : m.label[l] # Undefined => Follows(m, m2, l)
  PROVE  \A l \in Labels : Known(m, l) => Known(m2, l)
<1> SUFFICES ASSUME NEW l \in Labels, Known(m, l)
             PROVE  Known(m2, l)
  OBVIOUS
<1> DEFINE b == m.label[l]
           c == m2.label[l]
           s == b.section
           q == m.section[s].frags
<1>1. WellFormed(m) /\ ModuleType(m) /\ b \in LabelType /\ b # Undefined
  BY DEF ModuleOK, WellFormed, ModuleType, Known
<1>2. s \in 1 .. Len(m.section) /\ b.position \in Nat /\ b.position <= Len(q)
  BY <1>1 DEF WellFormed, LabelsOK, AnchorOK, LabelType
<1>3. s \in 1 .. Len(m2.section)
  BY <1>1, <1>2, SMTT(30) DEF Grows, ModuleType, WellFormed
<1>4. /\ c.section = s /\ c.position = b.position
      /\ \/ c.offset = b.offset
         \/ c.offset = LabelOffset(m2, c)
  BY <1>1 DEF Follows
<1>5. /\ Len(q) \in Nat /\ Len(m2.section[s].frags) \in Nat
      /\ Len(q) <= Len(m2.section[s].frags)
      /\ \A k \in 1 .. Len(q) : /\ m2.section[s].frags[k] = q[k]
                                /\ q[k] \in 1 .. Len(m.fragment)
  BY <1>1, <1>2, <1>3, SectionFacts
     DEF Grows, WellFormed, SectionsOK, SectionOK
<1>6. /\ AllSized(FragmentsOf(m, s)) /\ AllSized(FragmentsOf(m2, s))
      /\ Len(FragmentsOf(m, s)) = Len(q)
      /\ Len(FragmentsOf(m2, s)) = Len(m2.section[s].frags)
      /\ \A k \in 1 .. Len(q) : FragmentsOf(m, s)[k] = m.fragment[q[k]]
      /\ \A k \in 1 .. Len(m2.section[s].frags) :
           FragmentsOf(m2, s)[k] = m2.fragment[m2.section[s].frags[k]]
  <2>1. s \in 1 .. Len(m.section) /\ s \in 1 .. Len(m2.section)
          /\ q = m.section[s].frags
    BY <1>2, <1>3
  <2> HIDE DEF s, q
  <2>2. QED
    BY <1>1, <2>1, FragmentsOfSection
<1>7. /\ \A k \in 1 .. b.position : HasSize(m.fragment[q[k]])
      /\ b.offset = LabelOffset(m, b)
  BY DEF Known
<1>8. /\ LabelOffset(m, b) = Offsets(FragmentsOf(m, s))[b.position]
      /\ LabelOffset(m2, c) = Offsets(FragmentsOf(m2, s))[b.position]
  BY <1>4 DEF LabelOffset
<1>9. c # Undefined
  BY <1>2, <1>4 DEF Undefined
<1>10. Known(m2, l) <=>
         /\ c # Undefined
         /\ \A k \in 1 .. c.position :
              HasSize(m2.fragment[m2.section[c.section].frags[k]])
         /\ c.offset = LabelOffset(m2, c)
  BY DEF Known
<1> HIDE DEF b, c, q, s
<1>11. \A k \in 1 .. b.position :
         k \in 1 .. Len(q) /\ k \in 1 .. Len(m2.section[s].frags)
  BY <1>2, <1>5
<1>12. ASSUME NEW k \in 1 .. b.position
       PROVE  /\ HasSize(m2.fragment[m2.section[s].frags[k]])
              /\ SameShape(FragmentsOf(m, s)[k], FragmentsOf(m2, s)[k])
  <2>1. k \in 1 .. Len(q) /\ k \in 1 .. Len(m2.section[s].frags)
    BY <1>11
  <2>2. HasSize(m.fragment[q[k]]) /\ q[k] \in 1 .. Len(m.fragment)
    BY <1>5, <1>7, <2>1
  <2>3. QED
    BY <1>5, <1>6, <2>1, <2>2 DEF Frozen
<1>13. LabelOffset(m, b) = LabelOffset(m2, c)
  <2> DEFINE fs == FragmentsOf(m, s)
             hs == FragmentsOf(m2, s)
             n  == b.position
  <2>1. /\ AllSized(fs) /\ AllSized(hs) /\ n \in Nat
        /\ n <= Len(fs) /\ n <= Len(hs)
    BY <1>2, <1>5, <1>6, LeqTransitive, Zenon
  <2>2. \A k \in 1 .. n : SameShape(fs[k], hs[k])
    BY <1>12
  <2> HIDE DEF fs, hs, n
  <2>3. n \in 0 .. n
    BY <2>1
  <2>4. Offsets(fs)[n] = Offsets(hs)[n]
    BY <2>1, <2>2, <2>3, OffsetsOfPrefix
  <2>5. QED
    BY <1>8, <2>4 DEF fs, hs, n
<1>14. QED
  BY <1>4, <1>7, <1>9, <1>10, <1>12, <1>13

-----------------------------------------------------------------------------
(* The stores.                                                             *)

\* h is f, or what a store of one byte makes of f.
Retains(f, h) ==
  \/ h = f
  \/ /\ f.kind \in {"bytes", "isa"} /\ h.kind = "bytes"
     /\ h.n = f.n /\ h.section = f.section
     /\ f.data # <<>> => h.data # <<>>

(* The fixups stay right while fragments are appended and stored into.     *)
LEMMA FixupsKept ==
  ASSUME NEW m, FixupsOK(m), NEW m2, m2.fixup = m.fixup,
         Len(m.fragment) \in Nat, Len(m2.fragment) \in Nat,
         Len(m.fragment) <= Len(m2.fragment),
         \A i \in 1 .. Len(m.fragment) :
           Retains(m.fragment[i], m2.fragment[i]),
         \A i \in 1 .. Len(m2.fragment) :
           i > Len(m.fragment) => Fresh(m2.fragment[i])
  PROVE  FixupsOK(m2)
<1>1. ASSUME NEW x \in DOMAIN m.fixup
      PROVE  FixupOK(m2, x)
  <2> DEFINE i == x.fragment
             f == m.fragment[i]
             h == m2.fragment[i]
  <2>1. FixupOK(m, x)
    BY DEF FixupsOK
  <2>2. i \in 1 .. Len(m2.fragment) /\ Retains(f, h)
    BY <2>1 DEF FixupOK
  <2>3. /\ h.kind \in {"bytes", "isa"} /\ h.data # <<>> /\ h.n = f.n
        /\ h.kind = "isa" => f.kind = "isa" /\ h.text = f.text
    BY <2>1, <2>2 DEF FixupOK, Retains
  <2>4. QED
    BY <2>1, <2>2, <2>3 DEF FixupOK
<1>2. ASSUME NEW i \in 1 .. Len(m2.fragment),
             m2.fragment[i].kind = "isa", m2.fragment[i].data # <<>>,
             NEW r \in References[m2.fragment[i].text]
      PROVE  [fragment |-> i, ref |-> r] \in DOMAIN m2.fixup
  <2>1. i \in 1 .. Len(m.fragment)
    BY <1>2 DEF Fresh
  <2>2. m2.fragment[i] = m.fragment[i]
    BY <1>2, <2>1 DEF Retains
  <2>3. QED
    BY <1>2, <2>1, <2>2 DEF FixupsOK
<1>3. QED
  BY <1>1, <1>2 DEF FixupsOK

(* Nothing that keeps the lists of fragments disturbs who lists them.      *)
LEMMA HomesKept ==
  ASSUME NEW m, WellFormed(m), HomesOK(m), NEW m2,
         Len(m2.fragment) = Len(m.fragment),
         Len(m.section) <= Len(m2.section), Len(m2.section) \in Nat,
         \A i \in 1 .. Len(m.fragment) :
           m2.fragment[i].section = m.fragment[i].section,
         \A s \in 1 .. Len(m.section) :
           m2.section[s].frags = m.section[s].frags,
         \A s \in 1 .. Len(m2.section) :
           s > Len(m.section) => m2.section[s].frags = <<>>
  PROVE  HomesOK(m2)
<1>1. ASSUME NEW i \in 1 .. Len(m2.fragment)
      PROVE  \E k \in 1 .. Len(m2.section[m2.fragment[i].section].frags) :
               m2.section[m2.fragment[i].section].frags[k] = i
  <2>1. m.fragment[i].section \in 1 .. Len(m.section)
    BY DEF WellFormed, FragmentsOK
  <2>2. m2.section[m2.fragment[i].section].frags =
          m.section[m.fragment[i].section].frags
    BY <2>1
  <2>3. \E k \in 1 .. Len(m.section[m.fragment[i].section].frags) :
          m.section[m.fragment[i].section].frags[k] = i
    BY DEF HomesOK
  <2>4. QED
    BY <2>2, <2>3
<1>2. ASSUME NEW s \in 1 .. Len(m2.section),
             NEW k \in 1 .. Len(m2.section[s].frags)
      PROVE  m2.fragment[m2.section[s].frags[k]].section = s
  <2>1. Len(m.section) \in Nat
    BY DEF WellFormed, ModuleType
  <2>2. CASE s \in 1 .. Len(m.section)
    <3>1. m2.section[s].frags = m.section[s].frags
      BY <2>2
    <3>2. m.section[s].frags[k] \in 1 .. Len(m.fragment)
      BY <2>2, <3>1 DEF WellFormed, SectionsOK, SectionOK
    <3>3. m.fragment[m.section[s].frags[k]].section = s
      BY <2>2, <3>1 DEF HomesOK
    <3>4. QED
      BY <3>1, <3>2, <3>3
  <2>3. CASE s \notin 1 .. Len(m.section)
    <3>1. m2.section[s].frags = <<>>
      BY <2>1, <2>3
    <3>2. QED
      BY <3>1
  <2>4. QED
    BY <2>2, <2>3
<1>3. QED
  BY <1>1, <1>2 DEF HomesOK

(* The stores of a module whose fragments are those of another one.        *)
LEMMA StoresKept ==
  ASSUME NEW m, WellFormed(m), StoresOK(m), NEW m2,
         m2.fragment = m.fragment, m2.fixup = m.fixup,
         m2.watermark = m.watermark,
         Len(m.section) <= Len(m2.section), Len(m2.section) \in Nat,
         \A s \in 1 .. Len(m.section) :
           m2.section[s].frags = m.section[s].frags,
         \A s \in 1 .. Len(m2.section) :
           s > Len(m.section) => m2.section[s].frags = <<>>
  PROVE  StoresOK(m2)
<1>1. HomesOK(m2)
  BY HomesKept DEF StoresOK
<1>2. FixupsOK(m2)
  <2>1. Len(m.fragment) \in Nat
    BY DEF WellFormed, ModuleType
  <2>2. QED
    BY <2>1, FixupsKept DEF StoresOK, Retains
<1>3. QED
  BY <1>1, <1>2 DEF StoresOK, Settled

-----------------------------------------------------------------------------
(* Functions on modules.                                                   *)

(* Replacing one section of a module.                                      *)
LEMMA ReplaceSection ==
  ASSUME NEW m, ModuleType(m), NEW s \in 1 .. Len(m.section),
         NEW x \in SectionType
  PROVE  LET m2 == [m EXCEPT !.section[s] = x]
         IN  /\ ModuleType(m2)
             /\ m2.fragment = m.fragment /\ m2.label = m.label
             /\ m2.watermark = m.watermark /\ m2.fixup = m.fixup
             /\ Len(m2.section) = Len(m.section)
             /\ m2.section[s] = x
             /\ \A t \in 1 .. Len(m.section) :
                  t # s => m2.section[t] = m.section[t]
<1> DEFINE m2 == [m EXCEPT !.section[s] = x]
           q  == [m.section EXCEPT ![s] = x]
<1>1. /\ m2.section = q /\ m2.fragment = m.fragment /\ m2.label = m.label
      /\ m2.watermark = m.watermark /\ m2.fixup = m.fixup
  BY DEF ModuleType
<1>2. /\ q \in Seq(SectionType)
      /\ Len(q) = Len(m.section)
      /\ q[s] = x
      /\ \A t \in 1 .. Len(m.section) : t # s => q[t] = m.section[t]
  BY DEF ModuleType
<1>3. m2 \in [section : Seq(SectionType), fragment : Seq(FragmentType),
              label : [Labels -> LabelType], fixup : {m.fixup},
              watermark : Nat]
  BY <1>2 DEF ModuleType
<1> HIDE DEF q, m2
<1>4. ModuleType(m2)
  BY <1>1, <1>3 DEF ModuleType
<1>5. QED
  BY <1>1, <1>2, <1>4 DEF m2

(* Attributes of a section can change; its fragments and its memo stay.    *)
LEMMA SetSection ==
  ASSUME NEW m, ModuleOK(m), NEW s \in 1 .. Len(m.section),
         NEW x \in SectionType,
         x.frags = m.section[s].frags,
         x.folded = m.section[s].folded,
         x.memo = m.section[s].memo
  PROVE  LET m2 == [m EXCEPT !.section[s] = x]
         IN  Later(m, m2) /\ NoNewLabels(m, m2)
<1> DEFINE m2 == [m EXCEPT !.section[s] = x]
<1>1. /\ ModuleType(m2)
      /\ m2.fragment = m.fragment /\ m2.label = m.label
      /\ m2.watermark = m.watermark /\ m2.fixup = m.fixup
      /\ Len(m2.section) = Len(m.section)
      /\ m2.section[s] = x
      /\ \A t \in 1 .. Len(m.section) : t # s => m2.section[t] = m.section[t]
  BY ReplaceSection DEF ModuleOK, WellFormed
<1> HIDE DEF m2
<1>2. \A t \in 1 .. Len(m.section) :
        /\ m2.section[t].frags = m.section[t].frags
        /\ m2.section[t].folded = m.section[t].folded
        /\ m2.section[t].memo = m.section[t].memo
  BY <1>1
<1>3. FragmentsOK(m2)
  BY <1>1 DEF ModuleOK, WellFormed, FragmentsOK
<1>4. SectionsOK(m2)
  BY <1>1, <1>2 DEF ModuleOK, WellFormed, SectionsOK, SectionOK
<1>5. LabelsOK(m2)
  BY <1>1, <1>2 DEF ModuleOK, WellFormed, LabelsOK, AnchorOK
<1>6. WellFormed(m2)
  BY <1>1, <1>3, <1>4, <1>5 DEF WellFormed
<1>7. Frozen(m, m2) /\ m.watermark <= m2.watermark
  <2>1. Frozen(m, m) /\ m.watermark \in Nat
    BY FrozenReflexive DEF ModuleOK, WellFormed, ModuleType
  <2>2. QED
    BY <1>1, <2>1 DEF Frozen
<1>8. MemoOK(m2)
  <2>1. ASSUME NEW t \in 1 .. Len(m2.section)
        PROVE  MemoAt(m2, t)
    <3>1. t \in 1 .. Len(m.section) /\ t <= Len(m2.section)
      BY <1>1 DEF ModuleOK, WellFormed, ModuleType
    <3>2. QED
      BY <1>2, <1>6, <1>7, <3>1, MemoKept
  <2>2. QED
    BY <2>1 DEF MemoOK
<1>9. Len(m.section) <= Len(m2.section) /\ Len(m2.section) \in Nat
  BY <1>1 DEF ModuleOK, WellFormed, ModuleType
<1>10. StoresOK(m2)
  <2>1. \A t \in 1 .. Len(m2.section) : ~ (t > Len(m.section))
    BY <1>1, <1>9
  <2>2. QED
    BY <1>1, <1>2, <1>9, <2>1, StoresKept DEF ModuleOK
<1>11. Grows(m, m2)
  <2>1. \A t \in 1 .. Len(m.section) : Len(m.section[t].frags) \in Nat
    BY SectionFacts DEF ModuleOK, WellFormed
  <2>2. QED
    BY <1>2, <1>9, <2>1 DEF Grows
<1>12. \A l \in Labels : Known(m, l) => Known(m2, l)
  <2>1. \A l \in Labels : Follows(m, m2, l)
    BY <1>1 DEF Follows
  <2>2. QED
    BY <1>6, <1>7, <1>11, <2>1, KnownStays
<1>13. NoNewLabels(m, m2)
  BY <1>1 DEF NoNewLabels
<1>14. QED
  BY <1>6, <1>7, <1>8, <1>10, <1>11, <1>12, <1>13 DEF Later, ModuleOK, m2

(* Appending a fragment.                                                   *)
LEMMA AddFragmentLater ==
  ASSUME NEW m, ModuleOK(m), NEW f \in FragmentType, Fresh(f),
         f.section \in 1 .. Len(m.section)
  PROVE  /\ Later(m, AddFragment(m, f))
         /\ NoNewLabels(m, AddFragment(m, f))
         /\ Len(AddFragment(m, f).section) = Len(m.section)
         /\ \A t \in 1 .. Len(m.section) :
              /\ AddFragment(m, f).section[t].closed = m.section[t].closed
              /\ t # f.section =>
                   AddFragment(m, f).section[t].frags = m.section[t].frags
<1> DEFINE m2 == AddFragment(m, f)
           n  == Len(m.fragment) + 1
           s  == f.section
           x  == [m.section[s] EXCEPT !.frags = Append(@, n)]
           l  == Len(m.section[s].frags)
<1>1. /\ ModuleType(m) /\ WellFormed(m)
      /\ m.section \in Seq(SectionType) /\ m.fragment \in Seq(FragmentType)
      /\ Len(m.section) \in Nat /\ Len(m.fragment) \in Nat
      /\ m.watermark \in 0 .. Len(m.fragment)
      /\ n \in Nat
  BY DEF ModuleOK, WellFormed, ModuleType
<1>2. /\ m.section[s] \in SectionType
      /\ m.section[s].frags \in Seq(Nat)
      /\ l \in Nat
      /\ m.section[s].folded \in Nat
  BY <1>1, SectionFacts
<1>3. /\ Append(m.section[s].frags, n) \in Seq(Nat)
      /\ Len(Append(m.section[s].frags, n)) = l + 1
      /\ \A k \in 1 .. l :
           Append(m.section[s].frags, n)[k] = m.section[s].frags[k]
      /\ Append(m.section[s].frags, n)[l + 1] = n
  <2>1. \A q \in Seq(Nat), e \in Nat :
          /\ Append(q, e) \in Seq(Nat)
          /\ Len(Append(q, e)) = Len(q) + 1
          /\ \A k \in 1 .. Len(q) : Append(q, e)[k] = q[k]
          /\ Append(q, e)[Len(q) + 1] = e
    BY AppendFacts
  <2> HIDE DEF n
  <2>2. QED
    BY <1>1, <1>2, <2>1
<1>4. /\ x \in SectionType
      /\ x.frags = Append(m.section[s].frags, n)
      /\ x.folded = m.section[s].folded
      /\ x.memo = m.section[s].memo
      /\ x.closed = m.section[s].closed
  <2>1. \A y \in SectionType, e \in Seq(Nat) :
          /\ [y EXCEPT !.frags = e] \in SectionType
          /\ [y EXCEPT !.frags = e].frags = e
          /\ [y EXCEPT !.frags = e].folded = y.folded
          /\ [y EXCEPT !.frags = e].memo = y.memo
          /\ [y EXCEPT !.frags = e].closed = y.closed
    BY DEF SectionType
  <2>2. QED
    BY <1>2, <1>3, <2>1
<1>5. /\ m2.section = [m.section EXCEPT ![s] = x]
      /\ m2.fragment = Append(m.fragment, f)
      /\ m2.label = m.label /\ m2.watermark = m.watermark
      /\ m2.fixup = m.fixup
  BY <1>1 DEF AddFragment, ModuleType
<1> HIDE DEF x, l, n
<1>6. /\ m2.section \in Seq(SectionType)
      /\ Len(m2.section) = Len(m.section)
      /\ m2.section[s] = x
      /\ \A t \in 1 .. Len(m.section) :
           t # s => m2.section[t] = m.section[t]
  BY <1>1, <1>4, <1>5, ReplaceFacts
<1>7. /\ m2.fragment \in Seq(FragmentType)
      /\ Len(m2.fragment) = n
      /\ \A i \in 1 .. Len(m.fragment) : m2.fragment[i] = m.fragment[i]
      /\ m2.fragment[n] = f
  BY <1>1, <1>5, AppendFacts DEF n
<1>8. n = Len(m.fragment) + 1
  BY DEF n
<1>9. ModuleType(m2)
  <2>1. m2 \in [section : Seq(SectionType), fragment : Seq(FragmentType),
                label : [Labels -> LabelType], fixup : {m2.fixup},
                watermark : Nat]
    BY <1>1, <1>5, <1>6, <1>7 DEF AddFragment, ModuleType
  <2> HIDE DEF m2
  <2>2. QED
    BY <1>1, <1>5, <1>7, <1>8, <2>1 DEF ModuleType
<1> HIDE DEF m2
<1>10. FragmentsOK(m2)
  <2>1. ASSUME NEW i \in 1 .. n
        PROVE  /\ m2.fragment[i].section \in 1 .. Len(m2.section)
               /\ FragmentOK(m2.fragment[i])
    <3>1. CASE i = n
      BY <1>6, <1>7, <3>1 DEF Fresh
    <3>2. CASE i # n
      <4>1. i \in 1 .. Len(m.fragment)
        BY <1>1, <1>8, <3>2
      <4>2. QED
        BY <1>1, <1>6, <1>7, <4>1 DEF WellFormed, FragmentsOK
    <3>3. QED
      BY <3>1, <3>2
  <2>2. QED
    BY <1>7, <2>1 DEF FragmentsOK
<1>11. ASSUME NEW t \in 1 .. Len(m.section)
       PROVE  SectionOK(m2, t)
  <2>1. SectionOK(m, t)
    BY <1>1 DEF WellFormed, SectionsOK
  <2>2. CASE t # s
    <3>1. m2.section[t] = m.section[t]
      BY <1>6, <2>2
    <3>2. QED
      BY <1>1, <1>7, <1>8, <2>1, <3>1 DEF SectionOK
  <2>3. CASE t = s
    <3>1. m2.section[t] = x /\ Len(x.frags) = l + 1
      BY <1>3, <1>4, <1>6, <2>3
    <3>2. \A k \in 1 .. l : /\ x.frags[k] = m.section[s].frags[k]
                            /\ x.frags[k] \in 1 .. Len(m.fragment)
      BY <1>3, <1>4, <2>1, <2>3 DEF SectionOK, l
    <3>3. x.frags[l + 1] = n
      BY <1>3, <1>4
    <3>4. \A k \in 1 .. l + 1 : x.frags[k] \in 1 .. n
      BY <1>1, <1>2, <1>8, <3>2, <3>3
    <3>5. ASSUME NEW j \in 1 .. l + 1, NEW k \in 1 .. l + 1, j < k
          PROVE  x.frags[j] < x.frags[k]
      <4>1. j \in 1 .. l
        BY <1>2, <3>5
      <4>2. CASE k = l + 1
        BY <1>1, <1>8, <3>2, <3>3, <4>1, <4>2
      <4>3. CASE k # l + 1
        <5>1. k \in 1 .. l
          BY <1>2, <4>3
        <5>2. m.section[s].frags[j] < m.section[s].frags[k]
          BY <2>1, <2>3, <3>5, <4>1, <5>1 DEF SectionOK, l
        <5>3. QED
          BY <3>2, <4>1, <5>1, <5>2
      <4>4. QED
        BY <4>2, <4>3
    <3>6. x.folded <= l + 1
      <4>1. m.section[s].folded <= l
        BY <2>1, <2>3 DEF SectionOK, l
      <4>2. QED
        BY <1>2, <1>4, <4>1
    <3>7. QED
      BY <1>7, <3>1, <3>4, <3>5, <3>6 DEF SectionOK
  <2>4. QED
    BY <2>2, <2>3
<1>12. SectionsOK(m2)
  BY <1>6, <1>11 DEF SectionsOK
<1>13. LabelsOK(m2)
  <2>1. ASSUME NEW t \in 1 .. Len(m.section)
        PROVE  /\ Len(m.section[t].frags) <= Len(m2.section[t].frags)
               /\ Len(m.section[t].frags) \in Nat
               /\ Len(m2.section[t].frags) \in Nat
    <3>1. Len(m.section[t].frags) \in Nat
      BY <1>1, SectionFacts
    <3>2. CASE t # s
      BY <1>6, <3>1, <3>2
    <3>3. CASE t = s
      BY <1>2, <1>3, <1>4, <1>6, <3>1, <3>3 DEF l
    <3>4. QED
      BY <3>2, <3>3
  <2>2. ASSUME NEW k \in Labels
        PROVE  AnchorOK(m2, m2.label[k])
    <3>1. AnchorOK(m, m.label[k]) /\ m2.label[k] = m.label[k]
      BY <1>1, <1>5 DEF WellFormed, LabelsOK
    <3>2. m.label[k].position \in Nat
      BY <1>1 DEF ModuleType, LabelType
    <3>3. CASE m.label[k] # Undefined
      <4>1. /\ m.label[k].section \in 1 .. Len(m.section)
            /\ m.label[k].position <= Len(m.section[m.label[k].section].frags)
        BY <3>1, <3>3 DEF AnchorOK
      <4> DEFINE home == m.label[k].section
      <4> HIDE DEF home
      <4>2. home \in 1 .. Len(m.section)
        BY <4>1 DEF home
      <4>3. /\ Len(m.section[home].frags) <= Len(m2.section[home].frags)
            /\ Len(m.section[home].frags) \in Nat
            /\ Len(m2.section[home].frags) \in Nat
        BY <2>1, <4>2
      <4>4. m.label[k].position <= Len(m2.section[home].frags)
        <5>1. m.label[k].position <= Len(m.section[home].frags)
          BY <4>1 DEF home
        <5>2. QED
          BY <3>2, <4>3, <5>1, LeqTransitive, Zenon
      <4>5. QED
        BY <1>6, <3>1, <4>1, <4>4 DEF AnchorOK, home
    <3>4. QED
      BY <3>1, <3>3 DEF AnchorOK
  <2>3. QED
    BY <2>2 DEF LabelsOK
<1>14. WellFormed(m2)
  BY <1>9, <1>10, <1>12, <1>13 DEF WellFormed
<1>15. Frozen(m, m2) /\ m.watermark <= m2.watermark
  BY <1>1, <1>5, <1>7, <1>8 DEF Frozen, SameShape, HasSize
<1>16. ASSUME NEW t \in 1 .. Len(m.section)
       PROVE  /\ m2.section[t].folded = m.section[t].folded
              /\ m2.section[t].memo = m.section[t].memo
              /\ m2.section[t].closed = m.section[t].closed
              /\ \A k \in 1 .. Len(m.section[t].frags) :
                   m2.section[t].frags[k] = m.section[t].frags[k]
              /\ t # s => m2.section[t].frags = m.section[t].frags
  BY <1>3, <1>4, <1>6 DEF l
<1>17. MemoOK(m2)
  <2>1. ASSUME NEW t \in 1 .. Len(m.section)
        PROVE  MemoAt(m2, t)
    <3>1. t <= Len(m2.section)
      BY <1>1, <1>6
    <3>2. \A k \in 1 .. m.section[t].folded :
            m2.section[t].frags[k] = m.section[t].frags[k]
      <4>1. /\ m.section[t].folded \in Nat
            /\ m.section[t].folded <= Len(m.section[t].frags)
            /\ Len(m.section[t].frags) \in Nat
        BY <1>1, SectionFacts DEF WellFormed, SectionsOK, SectionOK
      <4>2. QED
        BY <1>16, <4>1
    <3>3. QED
      BY <1>14, <1>15, <1>16, <3>1, <3>2, MemoKept
  <2>2. QED
    BY <1>6, <2>1 DEF MemoOK
<1>18. HomesOK(m2)
  <2>1. HomesOK(m)
    BY DEF ModuleOK, StoresOK
  <2>2. ASSUME NEW i \in 1 .. n
        PROVE  \E k \in 1 .. Len(m2.section[m2.fragment[i].section].frags) :
                 m2.section[m2.fragment[i].section].frags[k] = i
    <3>1. CASE i = n
      <4>1. l + 1 \in 1 .. Len(x.frags) /\ x.frags[l + 1] = i
        BY <1>2, <1>3, <1>4, <3>1
      <4>2. m2.section[m2.fragment[i].section] = x
        BY <1>6, <1>7, <3>1 DEF s
      <4>3. QED
        BY <4>1, <4>2
    <3>2. CASE i # n
      <4>1. i \in 1 .. Len(m.fragment)
        BY <1>1, <1>8, <3>2
      <4> DEFINE t == m.fragment[i].section
      <4>2. t \in 1 .. Len(m.section) /\ m2.fragment[i].section = t
        BY <1>1, <1>7, <4>1 DEF WellFormed, FragmentsOK
      <4>3. PICK k \in 1 .. Len(m.section[t].frags) : m.section[t].frags[k] = i
        BY <2>1, <4>1 DEF HomesOK
      <4> HIDE DEF t
      <4>4. m2.section[t].frags[k] = i
        BY <1>16, <4>2, <4>3
      <4>5. k \in 1 .. Len(m2.section[t].frags)
        <5>1. CASE t = s
          BY <1>2, <1>3, <1>4, <1>6, <4>3, <5>1, SMTT(30) DEF l
        <5>2. CASE t # s
          BY <1>16, <4>2, <4>3, <5>2
        <5>3. QED
          BY <5>1, <5>2
      <4>6. QED
        BY <4>2, <4>4, <4>5
    <3>3. QED
      BY <3>1, <3>2
  <2>3. ASSUME NEW t \in 1 .. Len(m.section),
               NEW k \in 1 .. Len(m2.section[t].frags)
        PROVE  m2.fragment[m2.section[t].frags[k]].section = t
    <3>1. CASE t = s /\ k = l + 1
      BY <1>3, <1>4, <1>6, <1>7, <3>1 DEF s
    <3>2. CASE ~ (t = s /\ k = l + 1)
      <4>1. k \in 1 .. Len(m.section[t].frags)
        <5>1. CASE t = s
          BY <1>2, <1>3, <1>4, <1>6, <3>2, <5>1, SMTT(30) DEF l
        <5>2. CASE t # s
          BY <1>16, <5>2
        <5>3. QED
          BY <5>1, <5>2
      <4>2. /\ m2.section[t].frags[k] = m.section[t].frags[k]
            /\ m.section[t].frags[k] \in 1 .. Len(m.fragment)
            /\ m.fragment[m.section[t].frags[k]].section = t
        BY <1>1, <1>16, <2>1, <4>1
           DEF HomesOK, WellFormed, SectionsOK, SectionOK
      <4>3. QED
        BY <1>7, <4>2
    <3>3. QED
      BY <3>1, <3>2
  <2>4. QED
    BY <1>6, <1>7, <2>2, <2>3 DEF HomesOK
<1>19. Settled(m2)
  BY <1>1, <1>5, <1>7 DEF ModuleOK, StoresOK, Settled
<1>20. FixupsOK(m2)
  <2>1. \A i \in 1 .. Len(m2.fragment) :
          i > Len(m.fragment) => Fresh(m2.fragment[i])
    BY <1>1, <1>7, <1>8
  <2>2. Len(m2.fragment) \in Nat /\ Len(m.fragment) <= Len(m2.fragment)
    BY <1>1, <1>7, <1>8
  <2>3. QED
    BY <1>1, <1>5, <1>7, <2>1, <2>2, FixupsKept
       DEF ModuleOK, StoresOK, Retains
<1>21. Grows(m, m2)
  <2>1. ASSUME NEW t \in 1 .. Len(m.section)
        PROVE  Len(m.section[t].frags) <= Len(m2.section[t].frags)
    <3>1. Len(m.section[t].frags) \in Nat
      BY <1>1, SectionFacts
    <3>2. CASE t = s
      BY <1>2, <1>3, <1>4, <1>6, <3>2 DEF l
    <3>3. CASE t # s
      BY <1>16, <3>1, <3>3
    <3>4. QED
      BY <3>2, <3>3
  <2>2. Len(m.section) <= Len(m2.section)
    BY <1>1, <1>6
  <2>3. QED
    BY <1>16, <2>1, <2>2 DEF Grows
<1>22. \A k \in Labels : Known(m, k) => Known(m2, k)
  <2>1. \A k \in Labels : Follows(m, m2, k)
    BY <1>5 DEF Follows
  <2>2. QED
    BY <1>14, <1>15, <1>21, <2>1, KnownStays
<1>23. NoNewLabels(m, m2)
  BY <1>5 DEF NoNewLabels
<1>24. QED
  BY <1>1, <1>6, <1>14, <1>15, <1>16, <1>17, <1>18, <1>19, <1>20, <1>21,
     <1>22, <1>23
     DEF Later, ModuleOK, StoresOK, m2

(* Changes that leave the sections alone.                                  *)
LEMMA SameSectionsLater ==
  ASSUME NEW m, ModuleOK(m), NEW m2, ModuleType(m2),
         m2.section = m.section,
         Len(m2.fragment) = Len(m.fragment),
         \A i \in 1 .. Len(m.fragment) :
           /\ m2.fragment[i].section = m.fragment[i].section
           /\ FragmentOK(m2.fragment[i])
           /\ HasSize(m.fragment[i]) =>
                /\ SameShape(m.fragment[i], m2.fragment[i])
                /\ HasSize(m2.fragment[i]),
         m.watermark <= m2.watermark,
         \A l \in Labels :
           /\ AnchorOK(m, m2.label[l])
           /\ m.label[l] # Undefined => Follows(m, m2, l),
         Settled(m2), FixupsOK(m2)
  PROVE  Later(m, m2) /\ SameSections(m, m2)
<1>1. /\ Len(m.section) \in Nat /\ Len(m.fragment) \in Nat
      /\ m.watermark \in Nat /\ m.watermark <= Len(m.fragment)
  BY DEF ModuleOK, WellFormed, ModuleType
<1>2. FragmentsOK(m2)
  BY DEF FragmentsOK, ModuleOK, WellFormed
<1>3. SectionsOK(m2)
  BY DEF SectionsOK, SectionOK, ModuleOK, WellFormed
<1>4. LabelsOK(m2)
  BY DEF LabelsOK, AnchorOK
<1>5. WellFormed(m2)
  BY <1>2, <1>3, <1>4 DEF WellFormed
<1>6. Frozen(m, m2)
  BY <1>1 DEF Frozen
<1>11. Grows(m, m2)
  <2>1. \A t \in 1 .. Len(m.section) : Len(m.section[t].frags) \in Nat
    BY SectionFacts DEF ModuleOK, WellFormed
  <2>2. QED
    BY <1>1, <2>1 DEF Grows
<1>12. \A l \in Labels : Known(m, l) => Known(m2, l)
  BY <1>5, <1>6, <1>11, KnownStays
<1>7. MemoOK(m2)
  <2>1. ASSUME NEW t \in 1 .. Len(m.section)
        PROVE  MemoAt(m2, t)
    <3>1. t <= Len(m2.section)
      BY <1>1
    <3>2. QED
      BY <1>5, <1>6, <3>1, MemoKept
  <2>2. QED
    BY <2>1 DEF MemoOK
<1>8. HomesOK(m2)
  <2>1. \A s \in 1 .. Len(m2.section) : ~ (s > Len(m.section))
    BY <1>1
  <2>2. \A s \in 1 .. Len(m.section) : m2.section[s].frags = m.section[s].frags
    OBVIOUS
  <2>3. WellFormed(m) /\ HomesOK(m)
    BY DEF ModuleOK, StoresOK
  <2>4. Len(m.section) <= Len(m2.section) /\ Len(m2.section) \in Nat
    BY <1>1
  <2>5. \A i \in 1 .. Len(m.fragment) :
          m2.fragment[i].section = m.fragment[i].section
    OBVIOUS
  <2>6. QED
    BY <2>1, <2>2, <2>3, <2>4, <2>5, HomesKept
<1>9. Later(m, m2)
  BY <1>1, <1>5, <1>6, <1>7, <1>8, <1>11, <1>12 DEF Later, ModuleOK, StoresOK
<1>10. QED
  BY <1>9 DEF SameSections

(* Appending an empty section.                                             *)
LEMMA AddSectionLater ==
  ASSUME NEW m, ModuleOK(m), NEW x \in SectionType,
         x.frags = <<>>, x.folded = 0, x.memo = StartOfRegion
  PROVE  LET m2 == AddSection(m, x)
         IN  /\ Later(m, m2) /\ NoNewLabels(m, m2)
             /\ Len(m2.section) = Len(m.section) + 1
             /\ m2.section[Len(m.section) + 1] = x
             /\ \A t \in 1 .. Len(m.section) : m2.section[t] = m.section[t]
<1> DEFINE m2 == AddSection(m, x)
           n  == Len(m.section) + 1
<1>1. /\ ModuleType(m) /\ WellFormed(m)
      /\ m.section \in Seq(SectionType)
      /\ Len(m.section) \in Nat /\ Len(m.fragment) \in Nat
      /\ m.watermark \in Nat
  BY DEF ModuleOK, WellFormed, ModuleType
<1>2. /\ m2.section = Append(m.section, x)
      /\ m2.fragment = m.fragment /\ m2.label = m.label
      /\ m2.watermark = m.watermark /\ m2.fixup = m.fixup
  BY <1>1 DEF AddSection, ModuleType
<1>3. /\ m2.section \in Seq(SectionType)
      /\ Len(m2.section) = n
      /\ \A t \in 1 .. Len(m.section) : m2.section[t] = m.section[t]
      /\ m2.section[n] = x
  BY <1>1, <1>2, AppendFacts
<1>4. ModuleType(m2)
  <2>1. m2 \in [section : Seq(SectionType), fragment : Seq(FragmentType),
                label : [Labels -> LabelType], fixup : {m2.fixup},
                watermark : Nat]
    BY <1>1, <1>2, <1>3 DEF AddSection, ModuleType
  <2> HIDE DEF m2
  <2>2. QED
    BY <1>1, <1>2, <2>1 DEF ModuleType
<1> HIDE DEF m2
<1>5. n \in Nat /\ Len(m.section) < n /\ n = Len(m.section) + 1
  BY <1>1
<1> HIDE DEF n
<1>6. FragmentsOK(m2)
  <2>1. ASSUME NEW i \in 1 .. Len(m.fragment)
        PROVE  /\ m2.fragment[i].section \in 1 .. n
               /\ FragmentOK(m2.fragment[i])
    <3>1. m.fragment[i].section \in 1 .. Len(m.section) /\ FragmentOK(m.fragment[i])
      BY <1>1 DEF WellFormed, FragmentsOK
    <3>2. QED
      BY <1>1, <1>2, <1>5, <3>1
  <2>2. QED
    BY <1>2, <1>3, <2>1 DEF FragmentsOK
<1>7. SectionsOK(m2)
  <2>1. ASSUME NEW t \in 1 .. n
        PROVE  SectionOK(m2, t)
    <3>1. CASE t = n
      <4>1. m2.section[t].frags = <<>> /\ m2.section[t].folded = 0
        BY <1>3, <3>1
      <4>2. QED
        BY <4>1 DEF SectionOK
    <3>2. CASE t # n
      <4>1. t \in 1 .. Len(m.section)
        BY <1>1, <1>5, <3>2
      <4>2. SectionOK(m, t) /\ m2.section[t] = m.section[t]
        BY <1>1, <1>3, <4>1 DEF WellFormed, SectionsOK
      <4>3. QED
        BY <1>2, <4>2 DEF SectionOK
    <3>3. QED
      BY <3>1, <3>2
  <2>2. QED
    BY <1>3, <2>1 DEF SectionsOK
<1>8. LabelsOK(m2)
  <2>1. ASSUME NEW l \in Labels
        PROVE  AnchorOK(m2, m.label[l])
    <3>1. AnchorOK(m, m.label[l])
      BY <1>1 DEF WellFormed, LabelsOK
    <3>2. QED
      BY <1>1, <1>3, <1>5, <3>1 DEF AnchorOK
  <2>2. QED
    BY <1>2, <2>1 DEF LabelsOK
<1>9. WellFormed(m2)
  BY <1>4, <1>6, <1>7, <1>8 DEF WellFormed
<1>10. Frozen(m, m2) /\ m.watermark <= m2.watermark
  <2>1. Frozen(m, m)
    BY <1>1, FrozenReflexive
  <2>2. QED
    BY <1>1, <1>2, <2>1 DEF Frozen
<1>11. MemoOK(m2)
  <2>1. ASSUME NEW t \in 1 .. n
        PROVE  MemoAt(m2, t)
    <3>1. CASE t = n
      <4>1. /\ m2.section[t].folded = 0
            /\ m2.section[t].memo = StartOfRegion
            /\ t \in 1 .. Len(m2.section)
        BY <1>3, <3>1
      <4>2. AllSized(FragmentsOf(m2, t))
        BY <1>9, <4>1, FragmentsOfSection
      <4>3. Walk(FragmentsOf(m2, t), 0, StartOfRegion)[0] = StartOfRegion
        <5>1. 0 \in 0 .. Len(FragmentsOf(m2, t))
          BY <4>2 DEF AllSized
        <5>2. QED
          BY <4>2, <5>1, StartIsCursor, WalkDef
      <4>4. QED
        BY <4>1, <4>3 DEF MemoAt
    <3>2. CASE t # n
      <4>1. t \in 1 .. Len(m.section) /\ t <= Len(m2.section)
        BY <1>1, <1>3, <1>5, <3>2
      <4>2. m2.section[t] = m.section[t]
        BY <1>3, <4>1
      <4>3. QED
        BY <1>9, <1>10, <4>1, <4>2, MemoKept
    <3>3. QED
      BY <3>1, <3>2
  <2>2. QED
    BY <1>3, <2>1 DEF MemoOK
<1>12. StoresOK(m2)
  <2>1. ASSUME NEW t \in 1 .. Len(m2.section), t > Len(m.section)
        PROVE  m2.section[t].frags = <<>>
    BY <1>1, <1>3, <1>5, <2>1
  <2>2. QED
    BY <1>1, <1>2, <1>3, <1>5, <2>1, StoresKept DEF ModuleOK
<1>13. Grows(m, m2)
  <2>1. \A t \in 1 .. Len(m.section) : Len(m.section[t].frags) \in Nat
    BY <1>1, SectionFacts
  <2>2. QED
    BY <1>1, <1>3, <1>5, <2>1 DEF Grows
<1>14. \A l \in Labels : Known(m, l) => Known(m2, l)
  <2>1. \A l \in Labels : Follows(m, m2, l)
    BY <1>2 DEF Follows
  <2>2. QED
    BY <1>9, <1>10, <1>13, <2>1, KnownStays
<1>15. NoNewLabels(m, m2)
  BY <1>2 DEF NoNewLabels
<1>16. QED
  BY <1>1, <1>3, <1>5, <1>9, <1>10, <1>11, <1>12, <1>13, <1>14, <1>15
     DEF Later, ModuleOK, m2

LEMMA NewSectionType ==
  ASSUME NEW k \in {"main", "virtual"}, NEW o \in Nat, NEW fo \in Nat
  PROVE  LET x == NewSection(k, o, fo)
         IN  /\ x \in SectionType /\ x.frags = <<>> /\ x.folded = 0
             /\ x.memo = StartOfRegion /\ x.closed = FALSE
BY DEF NewSection, SectionType, StartOfRegion

-----------------------------------------------------------------------------
(* Encoding on demand.                                                     *)

LEMMA LabelOffsetType ==
  ASSUME NEW m, WellFormed(m), NEW b \in LabelType, AnchorOK(m, b),
         b.section # 0
  PROVE  LabelOffset(m, b) \in Nat
<1>1. b # Undefined
  BY DEF Undefined
<1>2. /\ b.section \in 1 .. Len(m.section)
      /\ b.position <= Len(m.section[b.section].frags)
      /\ b.position \in Nat
  BY <1>1 DEF AnchorOK, LabelType
<1>3. /\ AllSized(FragmentsOf(m, b.section))
      /\ Len(FragmentsOf(m, b.section)) = Len(m.section[b.section].frags)
      /\ Len(FragmentsOf(m, b.section)) \in Nat
  BY <1>2, FragmentsOfSection DEF AllSized
<1>4. Offsets(FragmentsOf(m, b.section))
        \in [0 .. Len(FragmentsOf(m, b.section)) -> Nat]
  BY <1>3, OffsetsDef
<1>5. b.position \in 0 .. Len(FragmentsOf(m, b.section))
  BY <1>2, <1>3
<1>6. QED
  BY <1>4, <1>5 DEF LabelOffset

\* Every label has the offset of the place it is anchored at.
Current(m) ==
  \A l \in Labels :
    m.label[l] # Undefined => m.label[l].offset = LabelOffset(m, m.label[l])

LEMMA SyncLabelsLater ==
  ASSUME NEW m, ModuleOK(m)
  PROVE  LET m2 == SyncAnchoredLabels(m)
         IN  /\ Later(m, m2) /\ SameSections(m, m2) /\ NoNewLabels(m, m2)
             /\ m2.fragment = m.fragment
             /\ m2.watermark = m.watermark
             /\ Current(m2)
<1> DEFINE m2 == SyncAnchoredLabels(m)
           lab == [l \in Labels |->
                     IF m.label[l].section = 0 THEN m.label[l]
                     ELSE [m.label[l] EXCEPT !.offset =
                             LabelOffset(m, m.label[l])]]
<1>1. ModuleType(m) /\ WellFormed(m)
  BY DEF ModuleOK, WellFormed
<1>2. /\ m2.section = m.section /\ m2.fragment = m.fragment
      /\ m2.watermark = m.watermark /\ m2.fixup = m.fixup
      /\ m2.label = lab
  BY <1>1 DEF SyncAnchoredLabels, ModuleType
<1>3. ASSUME NEW l \in Labels
      PROVE  lab[l] \in LabelType /\ AnchorOK(m, lab[l])
  <2>1. m.label[l] \in LabelType /\ AnchorOK(m, m.label[l])
    BY <1>1 DEF ModuleType, WellFormed, LabelsOK
  <2>2. CASE m.label[l].section = 0
    BY <2>1, <2>2
  <2>3. CASE m.label[l].section # 0
    <3> DEFINE o == LabelOffset(m, m.label[l])
               b == [m.label[l] EXCEPT !.offset = o]
    <3>1. o \in Nat
      BY <1>1, <2>1, <2>3, LabelOffsetType
    <3>2. m.label[l] # Undefined
      BY <2>3 DEF Undefined
    <3>3. lab[l] = b
      BY <2>3
    <3> HIDE DEF o, lab
    <3>4. /\ b \in LabelType
          /\ b.section = m.label[l].section
          /\ b.position = m.label[l].position
      BY <2>1, <3>1 DEF LabelType
    <3>5. AnchorOK(m, b)
      BY <2>1, <3>2, <3>4 DEF AnchorOK
    <3>6. QED
      BY <3>3, <3>4, <3>5
  <2>4. QED
    BY <2>2, <2>3
<1>4. lab \in [Labels -> LabelType]
  BY <1>3
<1>12. ASSUME NEW l \in Labels
       PROVE  /\ m.label[l] = Undefined <=> m2.label[l] = Undefined
              /\ m.label[l] # Undefined =>
                   /\ m2.label[l].section = m.label[l].section
                   /\ m2.label[l].position = m.label[l].position
                   /\ m2.label[l].offset = LabelOffset(m2, m2.label[l])
  <2>1. m.label[l] \in LabelType /\ AnchorOK(m, m.label[l])
          /\ m2.label[l] = lab[l]
    BY <1>1, <1>2 DEF ModuleType, WellFormed, LabelsOK
  <2>2. CASE m.label[l].section = 0
    <3>1. m.label[l] = Undefined
      BY <2>1, <2>2 DEF AnchorOK
    <3>2. QED
      BY <2>1, <2>2, <3>1
  <2>3. CASE m.label[l].section # 0
    <3> DEFINE o == LabelOffset(m, m.label[l])
               b == [m.label[l] EXCEPT !.offset = o]
    <3>1. lab[l] = b
      BY <2>3
    <3> HIDE DEF o, lab
    <3>2. /\ b.section = m.label[l].section
          /\ b.position = m.label[l].position
          /\ b.offset = o
      BY <2>1 DEF LabelType
    <3>3. LabelOffset(m2, b) = o
      <4>1. LabelOffset(m2, b) = LabelOffset(m, b)
        BY <1>2 DEF LabelOffset, FragmentsOf
      <4>2. LabelOffset(m, b) = LabelOffset(m, m.label[l])
        BY <3>2 DEF LabelOffset
      <4>3. QED
        BY <4>1, <4>2 DEF o
    <3>4. b # Undefined /\ m.label[l] # Undefined
      BY <2>3, <3>2 DEF Undefined
    <3> HIDE DEF b
    <3>5. QED
      BY <2>1, <3>1, <3>2, <3>3, <3>4
  <2>4. QED
    BY <2>2, <2>3
<1>5. ModuleType(m2)
  <2>1. m2 \in [section : Seq(SectionType), fragment : Seq(FragmentType),
                label : [Labels -> LabelType], fixup : {m2.fixup},
                watermark : Nat]
    BY <1>1, <1>2, <1>4 DEF SyncAnchoredLabels, ModuleType
  <2> HIDE DEF m2
  <2>2. QED
    BY <1>1, <1>2, <2>1 DEF ModuleType
<1> HIDE DEF m2, lab
<1>6. \A i \in 1 .. Len(m.fragment) : FragmentOK(m.fragment[i])
  BY <1>1 DEF WellFormed, FragmentsOK
<1>7. m.watermark \in Nat /\ Len(m.fragment) \in Nat
        /\ Settled(m) /\ FixupsOK(m)
  BY <1>1 DEF ModuleType, ModuleOK, StoresOK
<1>8. Settled(m2)
  BY <1>2, <1>7 DEF Settled
<1>9. FixupsOK(m2)
  BY <1>2, <1>7, FixupsKept DEF Retains
<1>10. Later(m, m2) /\ SameSections(m, m2)
  <2>1. \A l \in Labels : /\ AnchorOK(m, m2.label[l])
                          /\ m.label[l] # Undefined => Follows(m, m2, l)
    BY <1>2, <1>3, <1>12 DEF Follows
  <2>2. \A i \in 1 .. Len(m.fragment) :
          SameShape(m.fragment[i], m2.fragment[i])
    BY <1>2 DEF SameShape
  <2>3. QED
    BY <1>2, <1>5, <1>6, <1>7, <1>8, <1>9, <2>1, <2>2, SameSectionsLater
<1>11. QED
  BY <1>2, <1>10, <1>12 DEF m2, Current, NoNewLabels

(* An encoded instruction has the size of its encoding and is no alignment. *)
LEMMA EncodedType ==
  ASSUME NEW f \in FragmentType, f.kind = "isa", f.text \in Texts
  PROVE  /\ Encoded(f) \in FragmentType /\ FragmentOK(Encoded(f))
         /\ Encoded(f).section = f.section
         /\ Encoded(f).kind = "isa" /\ Encoded(f).text = f.text
         /\ Encoded(f).data # <<>>
         /\ Encoded(f).n = Len(Encoding[f.text])
<1> DEFINE e == Encoding[f.text]
<1>1. e \in Seq(Nat) /\ Len(e) \in Nat /\ e # <<>>
  <2>1. Encoding \in [Texts -> Seq(Nat)] /\ Len(e) > 0
    BY EncodingAssumption
  <2>2. e \in Seq(Nat)
    BY <2>1
  <2> HIDE DEF e
  <2>3. QED
    BY <2>1, <2>2
<1> HIDE DEF e
<1>2. Encoded(f) = [f EXCEPT !.n = Len(e), !.data = e]
  BY DEF Encoded, e
<1> DEFINE h == [f EXCEPT !.n = Len(e), !.data = e]
<1>3. /\ h \in FragmentType
      /\ h.kind = f.kind /\ h.text = f.text /\ h.section = f.section
      /\ h.n = Len(e) /\ h.data = e
  BY <1>1 DEF FragmentType
<1> HIDE DEF h
<1>4. FragmentOK(h)
  BY <1>1, <1>3 DEF FragmentOK, Sized, e
<1>5. QED
  BY <1>1, <1>2, <1>3, <1>4 DEF h, e

\* A bag that holds everything once.
Once(B) == \A x \in DOMAIN B : B[x] = 1

(* Adding a set of new elements to a bag that holds everything once.       *)
LEMMA BagWithNew ==
  ASSUME NEW B, NEW S, DOMAIN B \cap S = {}, Once(B),
         NEW C, C = B (+) SetToBag(S)
  PROVE  DOMAIN C = DOMAIN B \cup S /\ Once(C)
<1>1. DOMAIN SetToBag(S) = S /\ \A x \in S : SetToBag(S)[x] = 1
  BY DEF SetToBag
<1>2. C = [x \in DOMAIN B \cup S |->
             (IF x \in DOMAIN B THEN B[x] ELSE 0)
               + (IF x \in S THEN SetToBag(S)[x] ELSE 0)]
  BY <1>1 DEF (+)
<1>3. DOMAIN C = DOMAIN B \cup S
  BY <1>2
<1>4. ASSUME NEW x \in DOMAIN C
      PROVE  C[x] = 1
  <2>1. C[x] = (IF x \in DOMAIN B THEN B[x] ELSE 0)
                 + (IF x \in S THEN SetToBag(S)[x] ELSE 0)
    BY <1>2, <1>3
  <2>2. CASE x \in DOMAIN B
    <3>1. x \notin S /\ B[x] = 1
      BY <2>2 DEF Once
    <3>2. QED
      BY <2>1, <2>2, <3>1
  <2>3. CASE x \in S
    <3>1. x \notin DOMAIN B /\ SetToBag(S)[x] = 1
      BY <1>1, <2>3
    <3>2. QED
      BY <2>1, <2>3, <3>1
  <2>4. QED
    BY <1>3, <2>2, <2>3
<1>5. QED
  BY <1>3, <1>4 DEF Once

\* Every instruction has its bytes.
AllEncoded(m) ==
  \A i \in 1 .. Len(m.fragment) :
    m.fragment[i].kind = "isa" => m.fragment[i].data # <<>>

(* What encoding a set of instructions adds to the fixup store.            *)
LEMMA EncodedFixups ==
  ASSUME NEW m, ModuleOK(m),
         NEW ids \in SUBSET (1 .. Len(m.fragment)),
         \A i \in ids : /\ m.fragment[i].kind = "isa"
                        /\ m.fragment[i].data = <<>>,
         NEW m2,
         Len(m2.fragment) = Len(m.fragment),
         \A i \in 1 .. Len(m.fragment) :
           m2.fragment[i] = IF i \in ids THEN Encoded(m.fragment[i])
                            ELSE m.fragment[i],
         m2.fixup = m.fixup (+) FixupsOf(m, ids)
  PROVE  FixupsOK(m2)
<1> DEFINE S == UNION {{[fragment |-> i, ref |-> r] :
                          r \in References[m.fragment[i].text]} : i \in ids}
<1>1. FixupsOK(m) /\ WellFormed(m) /\ ModuleType(m)
        /\ Len(m.fragment) \in Nat
  BY DEF ModuleOK, StoresOK, WellFormed, ModuleType
<1>2. ASSUME NEW x \in S
      PROVE  /\ x.fragment \in ids
             /\ x.ref \in References[m.fragment[x.fragment].text]
             /\ x = [fragment |-> x.fragment, ref |-> x.ref]
  <2>1. PICK i \in ids : \E r \in References[m.fragment[i].text] :
                           x = [fragment |-> i, ref |-> r]
    OBVIOUS
  <2>2. QED
    BY <2>1
<1>3. ASSUME NEW i \in ids, NEW r \in References[m.fragment[i].text]
      PROVE  [fragment |-> i, ref |-> r] \in S
  OBVIOUS
<1>4. m2.fixup = m.fixup (+) SetToBag(S)
  BY DEF FixupsOf
<1> HIDE DEF S
<1>5. DOMAIN m.fixup \cap S = {}
  BY <1>1, <1>2 DEF FixupsOK, FixupOK
<1>6. Once(m.fixup)
  BY <1>1 DEF FixupsOK, FixupOK, Once
<1>12. DOMAIN m2.fixup = DOMAIN m.fixup \cup S /\ Once(m2.fixup)
  BY <1>4, <1>5, <1>6, BagWithNew
<1>7. /\ DOMAIN m2.fixup = DOMAIN m.fixup \cup S
      /\ \A x \in DOMAIN m2.fixup : m2.fixup[x] = 1
  BY <1>12 DEF Once
<1>8. ASSUME NEW i \in ids
      PROVE  LET h == m2.fragment[i]
             IN  /\ h.kind = "isa" /\ h.text = m.fragment[i].text
                 /\ h.data # <<>> /\ h.n = Len(Encoding[h.text])
                 /\ h.text \in Texts
  <2>1. m.fragment[i] \in FragmentType /\ m.fragment[i].text \in Texts
    BY <1>1 DEF WellFormed, FragmentsOK, FragmentOK, ModuleType
  <2>2. QED
    BY <2>1, EncodedType
<1>9. ASSUME NEW x \in DOMAIN m2.fixup
      PROVE  FixupOK(m2, x)
  <2>1. CASE x \in DOMAIN m.fixup
    <3>1. FixupOK(m, x)
      BY <1>1, <2>1 DEF FixupsOK
    <3>2. m2.fragment[x.fragment] = m.fragment[x.fragment]
      BY <3>1 DEF FixupOK
    <3>3. QED
      BY <1>7, <3>1, <3>2 DEF FixupOK
  <2>2. CASE x \in S
    <3> DEFINE i == x.fragment
               h == m2.fragment[i]
    <3>1. i \in ids /\ x.ref \in References[m.fragment[i].text]
            /\ x = [fragment |-> i, ref |-> x.ref]
      BY <1>2, <2>2
    <3>2. /\ h.kind = "isa" /\ h.text = m.fragment[i].text
          /\ h.data # <<>> /\ h.n = Len(Encoding[h.text])
          /\ h.text \in Texts
      BY <1>8, <3>1
    <3>3. /\ x.ref.label \in Labels
          /\ x.ref.kind \in {"absolute", "pc_relative"}
          /\ x.ref.at \in 0 .. Len(Encoding[h.text]) - 1
      BY <3>1, <3>2, ReferencesAssumption
    <3>4. i \in 1 .. Len(m2.fragment)
      BY <3>1
    <3>5. QED
      BY <1>7, <3>1, <3>2, <3>3, <3>4 DEF FixupOK
  <2>3. QED
    BY <1>7, <2>1, <2>2
<1>10. ASSUME NEW i \in 1 .. Len(m2.fragment),
              m2.fragment[i].kind = "isa", m2.fragment[i].data # <<>>,
              NEW r \in References[m2.fragment[i].text]
       PROVE  [fragment |-> i, ref |-> r] \in DOMAIN m2.fixup
  <2>1. CASE i \in ids
    BY <1>3, <1>7, <1>8, <2>1
  <2>2. CASE i \notin ids
    <3>1. m2.fragment[i] = m.fragment[i] /\ i \in 1 .. Len(m.fragment)
      BY <2>2
    <3>2. [fragment |-> i, ref |-> r] \in DOMAIN m.fixup
      BY <1>1, <1>10, <3>1 DEF FixupsOK
    <3>3. QED
      BY <1>7, <3>2
  <2>3. QED
    BY <2>1, <2>2
<1>11. QED
  BY <1>9, <1>10 DEF FixupsOK

(* Encoding what has no bytes yet, from the watermark or from the start.   *)
LEMMA EncodeFromLater ==
  ASSUME NEW m, ModuleOK(m), NEW start \in 0 .. m.watermark
  PROVE  LET m2 == EncodeFrom(m, start)
         IN  /\ Later(m, m2) /\ SameSections(m, m2) /\ NoNewLabels(m, m2)
             /\ Len(m2.fragment) = Len(m.fragment)
             /\ m2.watermark = m.watermark
             /\ AllEncoded(m2) /\ Current(m2)
<1> DEFINE ids == Unencoded(m, start)
           frs == [i \in 1 .. Len(m.fragment) |->
                     IF i \in ids THEN Encoded(m.fragment[i])
                     ELSE m.fragment[i]]
           m1 == [m EXCEPT !.fragment = frs,
                           !.fixup = @ (+) FixupsOf(m, ids)]
<1>1. /\ ModuleType(m) /\ WellFormed(m)
      /\ m.fragment \in Seq(FragmentType) /\ Len(m.fragment) \in Nat
      /\ m.watermark \in Nat /\ m.watermark <= Len(m.fragment)
  BY DEF ModuleOK, WellFormed, ModuleType
<1>2. /\ ids \subseteq {i \in 1 .. Len(m.fragment) :
                          /\ i > m.watermark /\ m.fragment[i].kind = "isa"
                          /\ m.fragment[i].data = <<>>}
      /\ \A i \in (1 .. Len(m.fragment)) \ ids :
           m.fragment[i].kind = "isa" => m.fragment[i].data # <<>>
  BY <1>1 DEF Unencoded, ModuleOK, StoresOK, Settled
<1> HIDE DEF ids
<1>3. ASSUME NEW i \in 1 .. Len(m.fragment)
      PROVE  /\ frs[i] \in FragmentType /\ FragmentOK(frs[i])
             /\ frs[i].section = m.fragment[i].section
             /\ HasSize(m.fragment[i]) => frs[i] = m.fragment[i]
             /\ HasSize(frs[i])
  <2>1. m.fragment[i] \in FragmentType /\ FragmentOK(m.fragment[i])
    BY <1>1 DEF WellFormed, FragmentsOK
  <2>2. CASE i \in ids
    <3>1. /\ m.fragment[i].kind = "isa" /\ m.fragment[i].text \in Texts
          /\ ~HasSize(m.fragment[i])
      BY <1>2, <2>1, <2>2 DEF FragmentOK, HasSize
    <3>2. frs[i] = Encoded(m.fragment[i])
      BY <2>2
    <3> HIDE DEF frs
    <3>3. QED
      BY <2>1, <3>1, <3>2, EncodedType DEF HasSize
  <2>3. CASE i \notin ids
    BY <1>2, <2>1, <2>3 DEF HasSize
  <2>4. QED
    BY <2>2, <2>3
<1>4. frs \in Seq(FragmentType) /\ Len(frs) = Len(m.fragment)
  <2>1. frs \in [1 .. Len(m.fragment) -> FragmentType]
    BY <1>3
  <2> HIDE DEF frs
  <2>2. QED
    BY <1>1, <2>1, FunctionIsSequence
<1>5. /\ m1.section = m.section /\ m1.fragment = frs /\ m1.label = m.label
      /\ m1.watermark = m.watermark
      /\ m1.fixup = m.fixup (+) FixupsOf(m, ids)
  BY <1>1 DEF ModuleType
<1>6. ModuleType(m1)
  <2>1. m1 \in [section : Seq(SectionType), fragment : Seq(FragmentType),
                label : [Labels -> LabelType], fixup : {m1.fixup},
                watermark : Nat]
    BY <1>1, <1>4, <1>5 DEF ModuleType
  <2> HIDE DEF m1, frs
  <2>2. QED
    BY <1>1, <1>4, <1>5, <2>1 DEF ModuleType
<1>16. FixupsOK(m1)
  <2>1. \A i \in 1 .. Len(m.fragment) :
          m1.fragment[i] = IF i \in ids THEN Encoded(m.fragment[i])
                           ELSE m.fragment[i]
    BY <1>5
  <2>2. ids \in SUBSET (1 .. Len(m.fragment))
          /\ \A i \in ids : /\ m.fragment[i].kind = "isa"
                             /\ m.fragment[i].data = <<>>
    BY <1>2
  <2> HIDE DEF m1, frs
  <2>3. QED
    BY <1>4, <1>5, <2>1, <2>2, EncodedFixups
<1> HIDE DEF m1, frs
<1>7. \A i \in 1 .. Len(m.fragment) :
        HasSize(m.fragment[i]) => /\ SameShape(m.fragment[i], frs[i])
                                  /\ HasSize(frs[i])
  BY <1>3 DEF SameShape
<1>8. \A l \in Labels : /\ AnchorOK(m, m1.label[l])
                        /\ Follows(m, m1, l)
  BY <1>1, <1>5 DEF WellFormed, LabelsOK, Follows
<1>17. AllEncoded(m1) /\ Settled(m1)
  BY <1>1, <1>3, <1>4, <1>5 DEF AllEncoded, Settled, HasSize
<1>9. Later(m, m1) /\ SameSections(m, m1)
  BY <1>1, <1>3, <1>4, <1>5, <1>6, <1>7, <1>8, <1>16, <1>17,
     SameSectionsLater
<1>10. ModuleOK(m1)
  BY <1>9 DEF Later
<1> DEFINE m2 == SyncAnchoredLabels(m1)
<1>11. /\ Later(m1, m2) /\ SameSections(m1, m2) /\ NoNewLabels(m1, m2)
       /\ m2.fragment = m1.fragment /\ m2.watermark = m1.watermark
       /\ Current(m2)
  BY <1>10, SyncLabelsLater
<1>12. EncodeFrom(m, start) = m2
  BY DEF EncodeFrom, m1, frs, ids
<1> HIDE DEF m2
<1>13. Later(m, m2) /\ NoNewLabels(m, m2)
  <2>1. NoNewLabels(m, m1)
    BY <1>5 DEF NoNewLabels
  <2>2. QED
    BY <1>9, <1>11, <2>1, LaterTransitive
<1>14. SameSections(m, m2)
  BY <1>9, <1>11 DEF SameSections
<1>15. AllEncoded(m2)
  BY <1>11, <1>17 DEF AllEncoded
<1>18. QED
  BY <1>4, <1>5, <1>11, <1>12, <1>13, <1>14, <1>15

LEMMA ForOutputAccessLater ==
  ASSUME NEW m, ModuleOK(m)
  PROVE  LET m2 == ForOutputAccess(m)
         IN  /\ Later(m, m2) /\ SameSections(m, m2) /\ NoNewLabels(m, m2)
             /\ Len(m2.fragment) = Len(m.fragment)
             /\ m2.watermark = Len(m2.fragment)
<1>1. CASE m.watermark >= Len(m.fragment)
  <2>1. ForOutputAccess(m) = m
    BY <1>1 DEF ForOutputAccess
  <2>2. QED
    BY <1>1, <2>1, LaterReflexive
       DEF SameSections, ModuleOK, WellFormed, ModuleType
<1>2. CASE ~ (m.watermark >= Len(m.fragment))
  <2> DEFINE m1 == EncodeFrom(m, m.watermark)
             m2 == [m1 EXCEPT !.watermark = Len(m.fragment)]
  <2>1. ForOutputAccess(m) = m2
    BY <1>2 DEF ForOutputAccess
  <2>2. /\ Later(m, m1) /\ SameSections(m, m1) /\ NoNewLabels(m, m1)
        /\ Len(m1.fragment) = Len(m.fragment)
        /\ m1.watermark = m.watermark
        /\ AllEncoded(m1)
    <3>1. m.watermark \in 0 .. m.watermark
      BY DEF ModuleOK, WellFormed, ModuleType
    <3>2. QED
      BY <3>1, EncodeFromLater
  <2> HIDE DEF m1
  <2>3. ModuleType(m1) /\ WellFormed(m1) /\ ModuleOK(m1)
    BY <2>2 DEF Later, ModuleOK, WellFormed
  <2>4. /\ m2.section = m1.section /\ m2.fragment = m1.fragment
        /\ m2.label = m1.label /\ m2.fixup = m1.fixup
        /\ m2.watermark = Len(m.fragment)
    BY <2>3 DEF ModuleType
  <2>5. Len(m.fragment) \in Nat /\ m.watermark \in Nat
          /\ m.watermark <= Len(m.fragment)
    BY DEF ModuleOK, WellFormed, ModuleType
  <2>6. ModuleType(m2)
    <3>1. m2 \in [section : Seq(SectionType), fragment : Seq(FragmentType),
                  label : [Labels -> LabelType], fixup : {m2.fixup},
                  watermark : Nat]
      BY <2>3, <2>4, <2>5 DEF ModuleType
    <3> HIDE DEF m2
    <3>2. QED
      BY <2>2, <2>4, <2>5, <3>1 DEF ModuleType
  <2> HIDE DEF m2
  <2>7. \A i \in 1 .. Len(m1.fragment) : FragmentOK(m1.fragment[i])
    BY <2>3 DEF WellFormed, FragmentsOK
  <2>8. \A l \in Labels : AnchorOK(m1, m2.label[l]) /\ Follows(m1, m2, l)
    BY <2>3, <2>4 DEF WellFormed, LabelsOK, Follows
  <2>9. Later(m1, m2) /\ SameSections(m1, m2)
    <3>1. m1.watermark <= m2.watermark
      BY <2>2, <2>4, <2>5
    <3>2. \A i \in 1 .. Len(m1.fragment) :
            SameShape(m1.fragment[i], m2.fragment[i])
      BY <2>4 DEF SameShape
    <3>3. Settled(m2)
      BY <2>2, <2>4 DEF AllEncoded, Settled
    <3>4. FixupsOK(m2)
      BY <2>2, <2>3, <2>4, <2>5, FixupsKept DEF ModuleOK, StoresOK, Retains
    <3>5. QED
      BY <2>3, <2>4, <2>6, <2>7, <2>8, <3>1, <3>2, <3>3, <3>4,
         SameSectionsLater
  <2>10. Later(m, m2) /\ NoNewLabels(m, m2)
    <3>1. NoNewLabels(m1, m2)
      BY <2>4 DEF NoNewLabels
    <3>2. QED
      BY <2>2, <2>9, <3>1, LaterTransitive
  <2>11. SameSections(m, m2)
    BY <2>2, <2>9 DEF SameSections
  <2>12. QED
    BY <2>1, <2>2, <2>4, <2>10, <2>11
<1>3. QED
  BY <1>1, <1>2

-----------------------------------------------------------------------------
(* The cursor of a section and its memo.                                   *)

(* The walk from the memo is the whole walk.                               *)
LEMMA CursorWalkIsWalk ==
  ASSUME NEW m, ModuleOK(m), NEW s \in 1 .. Len(m.section),
         NEW k \in m.section[s].folded .. Len(m.section[s].frags)
  PROVE  /\ CursorWalk(m, s)[k] =
              Walk(FragmentsOf(m, s), 0, StartOfRegion)[k]
         /\ CursorWalk(m, s)[k] \in CursorType
<1> DEFINE fs == FragmentsOf(m, s)
           n  == m.section[s].folded
<1>1. WellFormed(m) /\ ModuleType(m)
  BY DEF ModuleOK, WellFormed
<1>2. AllSized(fs) /\ Len(fs) = Len(m.section[s].frags) /\ Len(fs) \in Nat
  BY <1>1, FragmentsOfSection DEF AllSized
<1>3. n \in Nat /\ n <= Len(fs)
  BY <1>1, <1>2, SectionFacts DEF WellFormed, SectionsOK, SectionOK
<1>4. m.section[s].memo = Walk(fs, 0, StartOfRegion)[n]
  BY DEF ModuleOK, MemoOK, MemoAt
<1>5. k \in n .. Len(fs)
  BY <1>2
<1>6. CursorWalk(m, s) = Walk(fs, n, Walk(fs, 0, StartOfRegion)[n])
  BY <1>4 DEF CursorWalk
<1> HIDE DEF fs, n
<1>7. n \in 0 .. Len(fs) /\ 0 \in 0 .. Len(fs) /\ k \in 0 .. Len(fs)
  BY <1>2, <1>3, <1>5
<1>8. CursorWalk(m, s)[k] = Walk(fs, 0, StartOfRegion)[k]
  BY <1>2, <1>5, <1>6, <1>7, WalkContinues
<1>9. Walk(fs, 0, StartOfRegion) \in [0 .. Len(fs) -> CursorType]
  BY <1>2, <1>7, StartIsCursor, WalkDef
<1>10. QED
  BY <1>7, <1>8, <1>9 DEF fs

(* The cursor of a section is its size, as layout.zig computes it.         *)
LEMMA CursorIsSize ==
  ASSUME NEW m, ModuleOK(m), NEW s \in 1 .. Len(m.section)
  PROVE  SectionCursor(m, s) =
           [offset     |-> LogicalSize(FragmentsOf(m, s)),
            fileOffset |-> FileSize(FragmentsOf(m, s))]
<1> DEFINE n == Len(m.section[s].frags)
<1>1. WellFormed(m) /\ ModuleType(m)
  BY DEF ModuleOK, WellFormed
<1>2. Len(FragmentsOf(m, s)) = n /\ AllSized(FragmentsOf(m, s))
  BY <1>1, FragmentsOfSection
<1>3. n \in m.section[s].folded .. n
  <2>1. m.section[s].folded \in Nat /\ n \in Nat
    BY <1>1, SectionFacts
  <2>2. m.section[s].folded <= n
    BY <1>1 DEF WellFormed, SectionsOK, SectionOK
  <2>3. QED
    BY <2>1, <2>2
<1>4. SectionCursor(m, s) = Walk(FragmentsOf(m, s), 0, StartOfRegion)[n]
  BY <1>3, CursorWalkIsWalk DEF SectionCursor
<1>5. QED
  BY <1>2, <1>4, WalkEndsAtSize

LEMMA FoldToBounds ==
  ASSUME NEW m, ModuleOK(m), NEW s \in 1 .. Len(m.section)
  PROVE  /\ FoldTo(m, s) \in m.section[s].folded .. Len(m.section[s].frags)
         /\ FoldTo(m, s) \in Nat
         /\ \A k \in 1 .. FoldTo(m, s) : m.section[s].frags[k] <= m.watermark
<1> DEFINE n == m.section[s].folded
           q == m.section[s].frags
           F == Foldable(m, s)
<1>1. WellFormed(m) /\ ModuleType(m) /\ m.watermark \in Nat
  BY DEF ModuleOK, WellFormed, ModuleType
<1>2. n \in Nat /\ Len(q) \in Nat /\ n <= Len(q) /\ q \in Seq(Nat)
  BY <1>1, SectionFacts DEF WellFormed, SectionsOK, SectionOK
<1>3. \A k \in 1 .. n : q[k] <= m.watermark
  BY DEF ModuleOK, MemoOK, MemoAt
<1>4. \A j, k \in 1 .. Len(q) : j < k => q[j] < q[k]
  BY <1>1 DEF WellFormed, SectionsOK, SectionOK
<1>5. F = {k \in n + 1 .. Len(q) : q[k] <= m.watermark}
  BY DEF Foldable
<1>6. FoldTo(m, s) = IF F = {} THEN n ELSE Max(F)
  BY DEF FoldTo
<1> HIDE DEF n, q, F
<1>7. CASE F = {}
  <2>1. FoldTo(m, s) = n
    BY <1>6, <1>7
  <2>2. QED
    BY <1>2, <1>3, <2>1 DEF n, q
<1>8. CASE F # {}
  <2> DEFINE x == Max(F)
  <2>1. F \in SUBSET (1 .. Len(q))
    BY <1>2, <1>5
  <2>2. x \in F
    BY <1>2, <1>8, <2>1, MaxOfPositions
  <2>3. FoldTo(m, s) = x
    BY <1>6, <1>8
  <2> HIDE DEF x
  <2>4. x \in n .. Len(q) /\ x \in 1 .. Len(q) /\ x \in Nat
          /\ q[x] <= m.watermark
    BY <1>2, <1>5, <2>2
  <2>5. ASSUME NEW k \in 1 .. x
        PROVE  q[k] <= m.watermark
    <3>1. k \in 1 .. Len(q) /\ q[k] \in Nat /\ q[x] \in Nat
      BY <1>2, <2>4
    <3>2. CASE k = x
      BY <2>4, <3>2
    <3>3. CASE k # x
      <4>1. q[k] < q[x]
        BY <1>4, <2>4, <3>1, <3>3
      <4>2. QED
        BY <1>1, <2>4, <3>1, <4>1
    <3>4. QED
      BY <3>2, <3>3
  <2>6. QED
    BY <2>3, <2>4, <2>5 DEF n, q
<1>9. QED
  BY <1>7, <1>8

(* Folding what lies below the watermark keeps the memos right.            *)
LEMMA FoldMemoLater ==
  ASSUME NEW m, ModuleOK(m), NEW s \in 1 .. Len(m.section)
  PROVE  LET m2 == FoldMemo(m, s)
         IN  /\ Later(m, m2) /\ SameSections(m, m2) /\ NoNewLabels(m, m2)
             /\ m2.fragment = m.fragment /\ m2.label = m.label
             /\ m2.watermark = m.watermark
             /\ \A t \in 1 .. Len(m.section) :
                  /\ m2.section[t].origin = m.section[t].origin
                  /\ m2.section[t].fileOffset = m.section[t].fileOffset
                  /\ m2.section[t].sizeAlign = m.section[t].sizeAlign
<1> DEFINE n  == FoldTo(m, s)
           c  == CursorWalk(m, s)[n]
           x  == [m.section[s] EXCEPT !.folded = n, !.memo = c]
           m2 == [m EXCEPT !.section[s] = x]
<1>1. WellFormed(m) /\ ModuleType(m) /\ m.watermark \in Nat
        /\ Len(m.section) \in Nat
  BY DEF ModuleOK, WellFormed, ModuleType
<1>2. /\ n \in m.section[s].folded .. Len(m.section[s].frags)
      /\ n \in Nat
      /\ \A k \in 1 .. n : m.section[s].frags[k] <= m.watermark
  BY FoldToBounds
<1>3. n <= Len(m.section[s].frags)
  BY <1>2
<1>4. /\ c = Walk(FragmentsOf(m, s), 0, StartOfRegion)[n]
      /\ c \in CursorType
  BY <1>2, CursorWalkIsWalk
<1>5. FoldMemo(m, s) = m2
  BY DEF FoldMemo
<1> HIDE DEF n, c
<1>6. /\ x \in SectionType
      /\ x.frags = m.section[s].frags /\ x.folded = n /\ x.memo = c
      /\ x.closed = m.section[s].closed /\ x.kind = m.section[s].kind
      /\ x.origin = m.section[s].origin
      /\ x.fileOffset = m.section[s].fileOffset
      /\ x.sizeAlign = m.section[s].sizeAlign
  <2>1. m.section[s] \in SectionType
    BY <1>1, SectionFacts
  <2>2. QED
    BY <1>2, <1>4, <2>1 DEF SectionType, CursorType
<1> HIDE DEF x
<1>7. /\ ModuleType(m2)
      /\ m2.fragment = m.fragment /\ m2.label = m.label
      /\ m2.watermark = m.watermark /\ m2.fixup = m.fixup
      /\ Len(m2.section) = Len(m.section)
      /\ m2.section[s] = x
      /\ \A t \in 1 .. Len(m.section) :
           t # s => m2.section[t] = m.section[t]
  BY <1>1, <1>6, ReplaceSection
<1> HIDE DEF m2
<1>8. \A t \in 1 .. Len(m.section) :
        /\ m2.section[t].frags = m.section[t].frags
        /\ m2.section[t].closed = m.section[t].closed
        /\ m2.section[t].kind = m.section[t].kind
        /\ m2.section[t].origin = m.section[t].origin
        /\ m2.section[t].fileOffset = m.section[t].fileOffset
        /\ m2.section[t].sizeAlign = m.section[t].sizeAlign
  BY <1>6, <1>7
<1>9. FragmentsOK(m2)
  BY <1>1, <1>7 DEF WellFormed, FragmentsOK
<1>10. SectionsOK(m2)
  <2>1. ASSUME NEW t \in 1 .. Len(m.section)
        PROVE  SectionOK(m2, t)
    <3>1. SectionOK(m, t)
      BY <1>1 DEF WellFormed, SectionsOK
    <3>2. m2.section[t].folded <= Len(m2.section[t].frags)
      <4>1. CASE t = s
        BY <1>3, <1>6, <1>7, <4>1
      <4>2. CASE t # s
        BY <1>7, <3>1, <4>2 DEF SectionOK
      <4>3. QED
        BY <4>1, <4>2
    <3>3. QED
      BY <1>7, <1>8, <3>1, <3>2 DEF SectionOK
  <2>2. QED
    BY <1>7, <2>1 DEF SectionsOK
<1>11. LabelsOK(m2)
  <2>1. ASSUME NEW l \in Labels
        PROVE  AnchorOK(m2, m.label[l])
    <3>1. AnchorOK(m, m.label[l])
      BY <1>1 DEF WellFormed, LabelsOK
    <3>2. QED
      BY <1>7, <1>8, <3>1 DEF AnchorOK
  <2>2. QED
    BY <1>7, <2>1 DEF LabelsOK
<1>12. WellFormed(m2)
  BY <1>7, <1>9, <1>10, <1>11 DEF WellFormed
<1>13. Frozen(m, m2) /\ m.watermark <= m2.watermark
  <2>1. Frozen(m, m)
    BY <1>1, FrozenReflexive
  <2>2. QED
    BY <1>1, <1>7, <2>1 DEF Frozen
<1>14. MemoOK(m2)
  <2>1. ASSUME NEW t \in 1 .. Len(m.section)
        PROVE  MemoAt(m2, t)
    <3>1. CASE t = s
      <4>1. FragmentsOf(m2, s) = FragmentsOf(m, s)
        BY <1>7, <1>8 DEF FragmentsOf
      <4>2. QED
        BY <1>2, <1>4, <1>6, <1>7, <3>1, <4>1 DEF MemoAt
    <3>2. CASE t # s
      <4>1. t <= Len(m2.section) /\ m2.section[t] = m.section[t]
        BY <1>1, <1>7, <3>2
      <4>2. QED
        BY <1>12, <1>13, <4>1, MemoKept
    <3>3. QED
      BY <3>1, <3>2
  <2>2. QED
    BY <1>7, <2>1 DEF MemoOK
<1>15. StoresOK(m2)
  <2>1. \A t \in 1 .. Len(m2.section) : ~ (t > Len(m.section))
    BY <1>1, <1>7
  <2>2. QED
    BY <1>1, <1>7, <1>8, <2>1, StoresKept DEF ModuleOK
<1>18. Grows(m, m2)
  <2>1. \A t \in 1 .. Len(m.section) : Len(m.section[t].frags) \in Nat
    BY <1>1, SectionFacts
  <2>2. QED
    BY <1>1, <1>7, <1>8, <2>1 DEF Grows
<1>19. \A l \in Labels : Known(m, l) => Known(m2, l)
  <2>1. \A l \in Labels : Follows(m, m2, l)
    BY <1>7 DEF Follows
  <2>2. QED
    BY <1>12, <1>13, <1>18, <2>1, KnownStays
<1>16. Later(m, m2) /\ SameSections(m, m2)
  BY <1>1, <1>7, <1>8, <1>12, <1>13, <1>14, <1>15, <1>18, <1>19
     DEF Later, ModuleOK, SameSections
<1>17. QED
  BY <1>5, <1>7, <1>8, <1>16 DEF NoNewLabels

(* A recomputed cursor stands on the section it was computed for.          *)
LEMMA ActiveOnType ==
  ASSUME NEW m, ModuleOK(m), NEW s \in 1 .. Len(m.section),
         NEW b \in BOOLEAN
  PROVE  /\ ActiveOn(m, s, b) \in ActiveType
         /\ ActiveOn(m, s, b).section = s
         /\ ActiveOn(m, s, b).closed = b
         /\ SectionCursor(m, s) \in CursorType
<1> DEFINE c == SectionCursor(m, s)
<1>1. WellFormed(m) /\ ModuleType(m)
  BY DEF ModuleOK, WellFormed
<1>2. /\ m.section[s].folded \in Nat /\ Len(m.section[s].frags) \in Nat
      /\ m.section[s].folded <= Len(m.section[s].frags)
      /\ m.section[s].sizeAlign \in Nat /\ m.section[s].sizeAlign # 0
  BY <1>1, SectionFacts DEF WellFormed, SectionsOK, SectionOK
<1>3. c \in CursorType
  <2>1. Len(m.section[s].frags)
          \in m.section[s].folded .. Len(m.section[s].frags)
    BY <1>2
  <2>2. QED
    BY <2>1, CursorWalkIsWalk DEF SectionCursor
<1>4. c.offset \in Nat /\ c.fileOffset \in Nat
  BY <1>3 DEF CursorType
<1> DEFINE x == AlignUp(c.fileOffset, m.section[s].sizeAlign)
<1>5. x \in Nat
  BY <1>2, <1>4, AlignUpBounds
<1>6. ActiveOn(m, s, b) = [section |-> s, offset |-> c.offset,
                           fileOffset |-> x, closed |-> b]
  BY DEF ActiveOn
<1> HIDE DEF c, x
<1>7. s \in Nat
  OBVIOUS
<1>8. QED
  BY <1>3, <1>4, <1>5, <1>6, <1>7 DEF ActiveType, c

-----------------------------------------------------------------------------
(* Synchronising, storing, and the fragments the calls append.             *)

LEMMA SyncedFacts ==
  ASSUME NEW m, ModuleOK(m), NEW a \in ActiveType,
         a.section \in 1 .. Len(m.section)
  PROVE  /\ Later(m, SyncedModule(m, a))
         /\ SameSections(m, SyncedModule(m, a))
         /\ NoNewLabels(m, SyncedModule(m, a))
         /\ SyncedActive(m, a) \in ActiveType
         /\ SyncedActive(m, a).section = a.section
         /\ SyncedActive(m, a).closed = a.closed
<1> DEFINE m1 == ForOutputAccess(m)
           m2 == FoldMemo(m1, a.section)
<1>1. Later(m, m1) /\ SameSections(m, m1) /\ NoNewLabels(m, m1)
  BY ForOutputAccessLater
<1>2. SyncedModule(m, a) = m2
          /\ SyncedActive(m, a) = ActiveOn(m1, a.section, a.closed)
  BY DEF SyncedModule, SyncedActive
<1> HIDE DEF m1
<1>3. ModuleOK(m1) /\ a.section \in 1 .. Len(m1.section)
  BY <1>1 DEF Later, SameSections
<1>4. Later(m1, m2) /\ SameSections(m1, m2) /\ NoNewLabels(m1, m2)
  BY <1>3, FoldMemoLater
<1> HIDE DEF m2
<1>5. Later(m, m2) /\ NoNewLabels(m, m2)
  BY <1>1, <1>4, LaterTransitive
<1>6. SameSections(m, m2)
  BY <1>1, <1>4 DEF SameSections
<1>7. a.closed \in BOOLEAN
  BY DEF ActiveType
<1>8. /\ ActiveOn(m1, a.section, a.closed) \in ActiveType
      /\ ActiveOn(m1, a.section, a.closed).section = a.section
      /\ ActiveOn(m1, a.section, a.closed).closed = a.closed
  BY <1>3, <1>7, ActiveOnType
<1>9. QED
  BY <1>2, <1>5, <1>6, <1>8

(* A store replaces a byte; it moves nothing.                              *)
LEMMA StoreByteLater ==
  ASSUME NEW m, ModuleOK(m), NEW s \in 1 .. Len(m.section), NEW t,
         HolderOf(m, s, t) # {}
  PROVE  /\ Later(m, StoreByte(m, s, t, Stored))
         /\ SameSections(m, StoreByte(m, s, t, Stored))
         /\ NoNewLabels(m, StoreByte(m, s, t, Stored))
<1> DEFINE k  == CHOOSE k \in HolderOf(m, s, t) : TRUE
           i  == m.section[s].frags[k]
           f  == m.fragment[i]
           j  == t - Offsets(FragmentsOf(m, s))[k - 1] + 1
           h  == [f EXCEPT !.kind = "bytes", !.text = "", !.data[j] = Stored]
           m2 == [m EXCEPT !.fragment[i] = h]
<1>1. WellFormed(m) /\ ModuleType(m) /\ m.watermark \in Nat
        /\ m.fragment \in Seq(FragmentType)
  BY DEF ModuleOK, WellFormed, ModuleType
<1>2. StoreByte(m, s, t, Stored) = m2
  BY DEF StoreByte
<1>3. k \in HolderOf(m, s, t)
  OBVIOUS
<1>4. k \in 1 .. Len(m.section[s].frags)
        /\ FragmentsOf(m, s)[k].kind \in {"bytes", "isa"}
  BY <1>3 DEF HolderOf
<1> HIDE DEF k
<1>5. i \in 1 .. Len(m.fragment) /\ FragmentsOf(m, s)[k] = f
  BY <1>1, <1>4, FragmentsOfSection DEF WellFormed, SectionsOK, SectionOK
<1>6. f \in FragmentType /\ FragmentOK(f) /\ f.kind \in {"bytes", "isa"}
        /\ f.section \in 1 .. Len(m.section)
  BY <1>1, <1>4, <1>5 DEF WellFormed, FragmentsOK
<1>7. Stored \in Nat
  BY ParameterAssumption
<1> HIDE DEF i, j, f
<1>8. \A d \in Seq(Nat) : /\ [d EXCEPT ![j] = Stored] \in Seq(Nat)
                          /\ d # <<>> => [d EXCEPT ![j] = Stored] # <<>>
  <2>1. ASSUME NEW d \in Seq(Nat)
        PROVE  [d EXCEPT ![j] = Stored] \in [1 .. Len(d) -> Nat]
    <3>1. d \in [1 .. Len(d) -> Nat]
      OBVIOUS
    <3>2. ASSUME NEW x \in 1 .. Len(d)
          PROVE  [d EXCEPT ![j] = Stored][x] \in Nat
      BY <1>7, <3>1
    <3>3. QED
      BY <3>1, <3>2, Zenon
  <2>2. \A d \in Seq(Nat) : Len(d) \in Nat
    OBVIOUS
  <2>3. ASSUME NEW d \in Seq(Nat), d # <<>>
        PROVE  [d EXCEPT ![j] = Stored] # <<>>
    <3>1. Len(d) \in Nat /\ Len(d) # 0
      BY <2>3
    <3>2. [d EXCEPT ![j] = Stored] \in Seq(Nat)
            /\ Len([d EXCEPT ![j] = Stored]) = Len(d)
      BY <2>1, <3>1, FunctionIsSequence
    <3>3. Len(<<>>) = 0
      OBVIOUS
    <3>4. QED
      BY <3>1, <3>2, <3>3
  <2>4. QED
    BY <2>1, <2>2, <2>3, FunctionIsSequence
<1>9. /\ h \in FragmentType /\ h.kind = "bytes"
      /\ h.n = f.n /\ h.section = f.section
      /\ f.data # <<>> => h.data # <<>>
  <2> DEFINE e == [f.data EXCEPT ![j] = Stored]
  <2>1. e \in Seq(Nat) /\ (f.data # <<>> => e # <<>>)
    BY <1>6, <1>8 DEF FragmentType
  <2>2. h = [f EXCEPT !.kind = "bytes", !.text = "", !.data = e]
    OBVIOUS
  <2> HIDE DEF e, h
  <2>3. QED
    BY <1>6, <2>1, <2>2 DEF FragmentType
<1> HIDE DEF h
<1>10. FragmentOK(h) /\ SameShape(f, h) /\ Retains(f, h)
  BY <1>6, <1>9 DEF FragmentOK, Sized, SameShape, Retains
<1> DEFINE q == [m.fragment EXCEPT ![i] = h]
<1>11. /\ m2.section = m.section /\ m2.fragment = q /\ m2.label = m.label
       /\ m2.watermark = m.watermark /\ m2.fixup = m.fixup
  BY <1>1 DEF ModuleType
<1>12. /\ q \in Seq(FragmentType) /\ Len(q) = Len(m.fragment)
       /\ q[i] = h
       /\ \A x \in 1 .. Len(m.fragment) : x # i => q[x] = m.fragment[x]
  BY <1>1, <1>5, <1>9, ReplaceFacts
<1>13. ModuleType(m2)
  <2>1. m2 \in [section : Seq(SectionType), fragment : Seq(FragmentType),
                label : [Labels -> LabelType], fixup : {m2.fixup},
                watermark : Nat]
    BY <1>1, <1>11, <1>12 DEF ModuleType
  <2> HIDE DEF m2, q
  <2>2. QED
    BY <1>1, <1>11, <1>12, <2>1 DEF ModuleType
<1> HIDE DEF m2, q
<1>14. ASSUME NEW x \in 1 .. Len(m.fragment)
       PROVE  /\ m2.fragment[x].section = m.fragment[x].section
              /\ FragmentOK(m2.fragment[x])
              /\ SameShape(m.fragment[x], m2.fragment[x])
              /\ Retains(m.fragment[x], m2.fragment[x])
  <2>1. CASE x = i
    BY <1>9, <1>10, <1>11, <1>12, <2>1 DEF f
  <2>2. CASE x # i
    <3>1. m2.fragment[x] = m.fragment[x]
      BY <1>11, <1>12, <2>2
    <3>2. FragmentOK(m.fragment[x])
      BY <1>1 DEF WellFormed, FragmentsOK
    <3>3. QED
      BY <3>1, <3>2 DEF SameShape, Retains
  <2>3. QED
    BY <2>1, <2>2
<1>15. ASSUME NEW x \in 1 .. Len(m.fragment), HasSize(m.fragment[x])
       PROVE  HasSize(m2.fragment[x])
  BY <1>14, <1>15 DEF Retains, HasSize
<1>16. \A l \in Labels : AnchorOK(m, m2.label[l]) /\ Follows(m, m2, l)
  BY <1>1, <1>11 DEF WellFormed, LabelsOK, Follows
<1>17. Len(m2.fragment) = Len(m.fragment) /\ m.watermark <= m2.watermark
  BY <1>1, <1>11, <1>12
<1>18. Settled(m2)
  <2>1. \A x \in 1 .. m.watermark : x \in 1 .. Len(m.fragment)
    BY <1>1 DEF ModuleType
  <2>2. QED
    BY <1>11, <1>14, <2>1 DEF Settled, Retains, ModuleOK, StoresOK
<1>19. FixupsOK(m2)
  <2>1. Len(m.fragment) \in Nat
    BY <1>1 DEF ModuleType
  <2>2. QED
    BY <1>11, <1>14, <1>17, <2>1, FixupsKept DEF ModuleOK, StoresOK
<1>20. Later(m, m2) /\ SameSections(m, m2)
  BY <1>11, <1>13, <1>14, <1>15, <1>16, <1>17, <1>18, <1>19,
     SameSectionsLater
<1>21. QED
  BY <1>2, <1>11, <1>20 DEF NoNewLabels

LEMMA BytesOK ==
  ASSUME NEW s \in Nat, NEW d \in Seq(Nat)
  PROVE  /\ Bytes(s, d) \in FragmentType /\ Fresh(Bytes(s, d))
         /\ Bytes(s, d).section = s
<1>1. Len(d) \in Nat
  OBVIOUS
<1>2. QED
  BY <1>1 DEF Bytes, FragmentType, Fresh, FragmentOK, Sized

LEMMA ReserveOK ==
  ASSUME NEW s \in Nat, NEW n \in Nat
  PROVE  /\ Reserve(s, n) \in FragmentType /\ Fresh(Reserve(s, n))
         /\ Reserve(s, n).section = s
BY DEF Reserve, FragmentType, Fresh, FragmentOK, Sized

LEMMA AlignmentOK ==
  ASSUME NEW s \in Nat, NEW n \in Nat, n # 0, NEW v \in Nat
  PROVE  /\ Alignment(s, n, v) \in FragmentType
         /\ Fresh(Alignment(s, n, v))
         /\ Alignment(s, n, v).section = s
BY DEF Alignment, FragmentType, Fresh, FragmentOK, Sized

LEMMA InstructionOK ==
  ASSUME NEW s \in Nat, NEW t \in Texts
  PROVE  /\ Instruction(s, t) \in FragmentType
         /\ Fresh(Instruction(s, t))
         /\ Instruction(s, t).section = s
<1> DEFINE f == Instruction(s, t)
<1>1. /\ f = [kind |-> "isa", section |-> s, n |-> 0, text |-> t,
              data |-> <<>>]
      /\ f.kind = "isa" /\ f.n = 0 /\ f.text = t /\ f.section = s
      /\ f.data = <<>>
  BY DEF Instruction
<1>2. t \in Texts \cup {""}
  BY Zenon
<1>3. f \in FragmentType
  <2> DEFINE T == Texts \cup {""}
  <2>1. t \in T
    BY <1>2
  <2> HIDE DEF T
  <2>2. f \in [kind : {"bytes", "reserve", "alignment", "isa"},
              section : Nat, n : Nat, text : T, data : Seq(Nat)]
    BY <1>1, <2>1
  <2>3. QED
    BY <2>2 DEF FragmentType, T
<1> HIDE DEF f
<1>4. Fresh(f)
  BY <1>1, <1>2 DEF Fresh, FragmentOK, Sized
<1>5. QED
  BY <1>1, <1>3, <1>4 DEF f

LEMMA PaddingType ==
  ASSUME NEW n \in Nat
  PROVE  Padding(n) \in Seq(Nat)
<1>1. Fill \in Nat
  BY ParameterAssumption
<1>2. Padding(n) \in [1 .. n -> Nat]
  BY <1>1 DEF Padding
<1>3. QED
  BY <1>2, FunctionIsSequence

(* Appending a fragment moves the cursor along, on the same section.       *)
LEMMA AdvancedType ==
  ASSUME NEW a \in ActiveType, NEW f, Sized(f)
  PROVE  /\ Advanced(a, f) \in ActiveType
         /\ Advanced(a, f).section = a.section
         /\ Advanced(a, f).closed = a.closed
<1> DEFINE c == [offset |-> a.offset, fileOffset |-> a.fileOffset]
           x == NextOffset(f, a.offset)
           y == NextFileOffset(f, a.offset, a.fileOffset)
<1>1. c \in CursorType /\ c.offset = a.offset /\ c.fileOffset = a.fileOffset
  BY DEF ActiveType, CursorType
<1> HIDE DEF c
<1>2. /\ CursorAfter(f, c) \in CursorType
      /\ CursorAfter(f, c).offset = x
      /\ CursorAfter(f, c).fileOffset = y
  BY <1>1, CursorAfterType
<1>3. x \in Nat /\ y \in Nat
  BY <1>2 DEF CursorType
<1>4. Advanced(a, f) = [a EXCEPT !.offset = x, !.fileOffset = y]
  BY DEF Advanced
<1> HIDE DEF x, y
<1>5. QED
  BY <1>3, <1>4 DEF ActiveType

(* Encoding, folding and storing leave the sections where they are.        *)
LEMMA EncodeKeepsSections ==
  ASSUME NEW m, ModuleOK(m), NEW start
  PROVE  /\ EncodeFrom(m, start).section = m.section
         /\ ForOutputAccess(m).section = m.section
<1>1. ModuleType(m)
  BY DEF ModuleOK, WellFormed
<1>2. \A n : EncodeFrom(m, n).section = m.section
  BY <1>1 DEF EncodeFrom, SyncAnchoredLabels, ModuleType
<1>3. /\ EncodeFrom(m, m.watermark).section = m.section
      /\ [EncodeFrom(m, m.watermark) EXCEPT
             !.watermark = Len(m.fragment)].section
           = EncodeFrom(m, m.watermark).section
  <2>1. [EncodeFrom(m, m.watermark) EXCEPT
             !.watermark = Len(m.fragment)].section
           = EncodeFrom(m, m.watermark).section
    BY <1>1 DEF EncodeFrom, SyncAnchoredLabels, ModuleType
  <2>2. QED
    BY <1>2, <2>1
<1>4. QED
  BY <1>2, <1>3 DEF ForOutputAccess

LEMMA StoreKeepsSections ==
  ASSUME NEW m, ModuleOK(m), NEW s, NEW t, NEW byte
  PROVE  StoreByte(m, s, t, byte).section = m.section
<1>1. ModuleType(m)
  BY DEF ModuleOK, WellFormed
<1>2. QED
  BY <1>1 DEF StoreByte, ModuleType
=============================================================================
