-------------------------- MODULE DocExamples_proofs --------------------------
(***************************************************************************)
(* Theorems about tools/doc_examples.py (DocTool), for every set of        *)
(* documents and texts, however they are edited and however `extract` is   *)
(* interrupted.                                                            *)
(*                                                                         *)
(* First what reading a document returns (DocText): its blocks, and the    *)
(* fixtures, which have different ids and different files.  Then the       *)
(* directory (DocExamples): the rows an extract has collected, and those   *)
(* of the manifest, name files that were written before them.  Last the    *)
(* document being written (DocWriting): the scan of parse_fences is        *)
(* followed line by line, in the same text, in a text with one line more   *)
(* and in one with other words on a fence line.                            *)
(***************************************************************************)
EXTENDS DocTool, Recursion_proofs, SequenceTheorems

-----------------------------------------------------------------------------
(* Sequences.                                                              *)

LEMMA Single ==
  ASSUME NEW S, NEW e \in S
  PROVE  <<e>> \in Seq(S) /\ Len(<<e>>) = 1
OBVIOUS

LEMMA FirstElement ==
  ASSUME NEW S, NEW q \in Seq(S), q # <<>>
  PROVE  Len(q) \in Nat /\ 1 \in 1 .. Len(q) /\ q[1] \in S /\ Head(q) = q[1]
<1>1. Len(q) \in Nat /\ Len(q) # 0
  BY LenProperties, EmptySeq
<1>2. 1 \in 1 .. Len(q)
  BY <1>1
<1> QED
  BY <1>1, <1>2, ElementOfSeq

LEMMA WiderSeq ==
  ASSUME NEW S, NEW T, S \subseteq T, NEW q \in Seq(S)
  PROVE  q \in Seq(T)
OBVIOUS

\* A position of a concatenation is one of the first or of the second list.
LEMMA ConcatFacts ==
  ASSUME NEW T, NEW x \in Seq(T), NEW y \in Seq(T)
  PROVE  /\ x \o y \in Seq(T)
         /\ \A p \in 1 .. Len(x) : p \in 1 .. Len(x \o y) /\ (x \o y)[p] = x[p]
         /\ \A k \in 1 .. Len(y) :
              Len(x) + k \in 1 .. Len(x \o y) /\ (x \o y)[Len(x) + k] = y[k]
         /\ \A p \in 1 .. Len(x \o y) :
              p \in 1 .. Len(x) \/ \E k \in 1 .. Len(y) : p = Len(x) + k
<1> DEFINE m == Len(x)
           n == Len(y)
           z == x \o y
<1>1. m \in Nat /\ n \in Nat
  BY LenProperties
<1>2. /\ z \in Seq(T) /\ Len(z) = m + n
      /\ \A i \in 1 .. m + n : z[i] = IF i <= m THEN x[i] ELSE y[i - m]
  BY ConcatProperties
<1> HIDE DEF m, n, z
<1>3. ASSUME NEW p \in 1 .. m PROVE p \in 1 .. Len(z) /\ z[p] = x[p]
  BY <1>1, <1>2
<1>4. ASSUME NEW k \in 1 .. n PROVE m + k \in 1 .. Len(z) /\ z[m + k] = y[k]
  <2> DEFINE i == m + k
  <2>1. i \in 1 .. m + n /\ ~(i <= m) /\ i - m = k
    BY <1>1
  <2> HIDE DEF i
  <2>2. z[i] = y[k] /\ i \in 1 .. Len(z)
    BY <1>2, <2>1
  <2> QED
    BY <2>2 DEF i
<1>5. ASSUME NEW p \in 1 .. Len(z) PROVE p \in 1 .. m \/ \E k \in 1 .. n : p = m + k
  <2>1. CASE p <= m
    BY <1>1, <1>2, <2>1
  <2>2. CASE ~(p <= m)
    <3>1. p - m \in 1 .. n /\ p = m + (p - m)
      BY <1>1, <1>2, <2>2
    <3> QED
      BY <3>1
  <2> QED
    BY <2>1, <2>2
<1> QED
  BY <1>2, <1>3, <1>4, <1>5 DEF m, n, z

-----------------------------------------------------------------------------
(* Positions in order.                                                     *)

\* The rank of a position is its place in the order.
LEMMA RankFacts ==
  ASSUME NEW S \in SUBSET Nat, IsFiniteSet(S)
  PROVE  /\ Cardinality(S) \in Nat
         /\ InOrder(S) \in [1 .. Cardinality(S) -> S]
         /\ \A j, k \in 1 .. Cardinality(S) : j < k => InOrder(S)[j] < InOrder(S)[k]
         /\ \A n \in S : /\ Cardinality({m \in S : m <= n}) \in 1 .. Cardinality(S)
                          /\ InOrder(S)[Cardinality({m \in S : m <= n})] = n
<1> DEFINE Upto(n) == {m \in S : m <= n}
           c == Cardinality(S)
           rank == [n \in S |-> Cardinality(Upto(n))]
<1>1. c \in Nat
  BY FS_CardinalityType
<1>2. ASSUME NEW n \in S
      PROVE  IsFiniteSet(Upto(n)) /\ rank[n] \in 1 .. c
  <2>1. Upto(n) \in SUBSET S /\ n \in Upto(n)
    OBVIOUS
  <2>2. IsFiniteSet(Upto(n)) /\ Cardinality(Upto(n)) <= c
    BY <2>1, FS_Subset
  <2>3. Cardinality(Upto(n)) \in Nat /\ Cardinality(Upto(n)) # 0
    BY <2>1, <2>2, FS_CardinalityType, FS_EmptySet
  <2> QED
    BY <1>1, <2>2, <2>3
<1>3. ASSUME NEW m \in S, NEW n \in S, m < n
      PROVE  rank[m] < rank[n]
  <2>0. m \in Nat /\ n \in Nat /\ \A i \in S : i \in Nat
    OBVIOUS
  <2>1. Upto(m) \in SUBSET Upto(n) /\ n \in Upto(n) /\ n \notin Upto(m)
    <3>1. \A i \in Upto(m) : i \in Upto(n)
      BY <1>3, <2>0
    <3>2. n \in Upto(n) /\ n \notin Upto(m)
      BY <1>3, <2>0
    <3> QED
      BY <3>1, <3>2
  <2>2. Cardinality(Upto(m)) <= Cardinality(Upto(n)) /\ Cardinality(Upto(m)) # Cardinality(Upto(n))
    BY <1>2, <2>1, FS_Subset
  <2>3. rank[m] \in 1 .. c /\ rank[n] \in 1 .. c
    BY <1>2
  <2> QED
    BY <1>1, <2>2, <2>3
<1>4. rank \in Surjection(S, 1 .. c)
  <2>1. rank \in [S -> 1 .. c]
    BY <1>2
  <2>2. ASSUME NEW m \in S, NEW n \in S, rank[m] = rank[n] PROVE m = n
    <3>1. m < n \/ n < m \/ m = n
      OBVIOUS
    <3>2. rank[m] \in Nat /\ rank[n] \in Nat
      BY <2>1
    <3> QED
      BY <1>3, <2>2, <3>1, <3>2
  <2> HIDE DEF rank
  <2>3. rank \in Injection(S, 1 .. c)
    BY <2>1, <2>2 DEF Injection, IsInjective
  <2>4. IsFiniteSet(1 .. c) /\ Cardinality(1 .. c) = c
    BY <1>1, FS_Interval
  <2> QED
    BY <2>3, <2>4, FS_Injection
<1>5. ASSUME NEW k \in 1 .. c
      PROVE  InOrder(S)[k] \in S /\ rank[InOrder(S)[k]] = k
  <2>1. InOrder(S)[k] = CHOOSE n \in S : Cardinality(Upto(n)) = k
    BY DEF InOrder
  <2>2. \E n \in S : Cardinality(Upto(n)) = k
    BY <1>4 DEF Surjection
  <2> QED
    BY <2>1, <2>2
<1>6. InOrder(S) \in [1 .. c -> S]
  <2>1. InOrder(S) = [k \in 1 .. c |-> CHOOSE n \in S : Cardinality({m \in S : m <= n}) = k]
    BY DEF InOrder
  <2> QED
    BY <1>5, <2>1
<1>7. ASSUME NEW j \in 1 .. c, NEW k \in 1 .. c, j < k
      PROVE  InOrder(S)[j] < InOrder(S)[k]
  <2> DEFINE a == InOrder(S)[j]
             b == InOrder(S)[k]
  <2>1. a \in S /\ b \in S /\ rank[a] = j /\ rank[b] = k
    BY <1>5
  <2>2. a \in Nat /\ b \in Nat
    BY <2>1
  <2> HIDE DEF a, b
  <2>3. a < b \/ b < a \/ a = b
    BY <2>2
  <2>4. CASE b < a
    <3>1. rank[b] < rank[a]
      BY <1>3, <2>1, <2>4
    <3> QED
      BY <1>1, <1>7, <2>1, <3>1
  <2>5. CASE a = b
    BY <1>1, <1>7, <2>1, <2>5
  <2> QED
    BY <2>3, <2>4, <2>5 DEF a, b
<1>8. ASSUME NEW n \in S
      PROVE  rank[n] \in 1 .. c /\ InOrder(S)[rank[n]] = n
  <2> DEFINE k == rank[n]
             a == InOrder(S)[k]
  <2>1. k \in 1 .. c
    BY <1>2
  <2>2. a \in S /\ rank[a] = rank[n]
    BY <1>5, <2>1
  <2>3. a \in Nat /\ n \in Nat
    BY <2>2
  <2>4. rank[a] \in Nat /\ rank[n] \in Nat
    BY <1>1, <1>2, <2>2
  <2> HIDE DEF a, rank
  <2>5. ~(a < n) /\ ~(n < a)
    BY <1>3, <2>2, <2>4
  <2>6. a = n
    BY <2>3, <2>5
  <2> QED
    BY <2>1, <2>6 DEF a
<1>9. \A n \in S : rank[n] = Cardinality(Upto(n))
  OBVIOUS
<1> HIDE DEF rank
<1> QED
  BY <1>1, <1>6, <1>7, <1>8, <1>9

\* InOrder enumerates a finite set of positions upwards.
LEMMA InOrderFacts ==
  ASSUME NEW S \in SUBSET Nat, IsFiniteSet(S)
  PROVE  /\ Cardinality(S) \in Nat
         /\ InOrder(S) \in [1 .. Cardinality(S) -> S]
         /\ \A j, k \in 1 .. Cardinality(S) : j < k => InOrder(S)[j] < InOrder(S)[k]
         /\ \A n \in S : \E k \in 1 .. Cardinality(S) : InOrder(S)[k] = n
BY RankFacts

\* A block of consecutive positions is enumerated from its first one.
LEMMA InOrderOfInterval ==
  ASSUME NEW a \in Nat, NEW n \in Nat
  PROVE  InOrder((a + 1) .. (a + n)) = [k \in 1 .. n |-> a + k]
<1> DEFINE S == (a + 1) .. (a + n)
<1>1. Cardinality(S) = n
  BY FS_Interval
<1>2. ASSUME NEW k \in 1 .. n
      PROVE  (CHOOSE m \in S : Cardinality({i \in S : i <= m}) = k) = a + k
  <2>1. ASSUME NEW m \in S PROVE Cardinality({i \in S : i <= m}) = m - a
    <3>1. {i \in S : i <= m} = (a + 1) .. m
      OBVIOUS
    <3>2. Cardinality((a + 1) .. m) = m - a
      BY FS_Interval
    <3> QED
      BY <3>1, <3>2
  <2>2. a + k \in S /\ \A m \in S : m - a = k <=> m = a + k
    OBVIOUS
  <2> HIDE DEF S
  <2>3. \A m \in S : Cardinality({i \in S : i <= m}) = k <=> m = a + k
    BY <2>1, <2>2
  <2> QED
    BY <2>2, <2>3
<1> QED
  BY <1>1, <1>2 DEF InOrder

\* The elements of a sequence at some of its positions.
LEMMA ElementsAtFacts ==
  ASSUME NEW T, NEW seq \in Seq(T), NEW S \in SUBSET (1 .. Len(seq))
  PROVE  /\ IsFiniteSet(S) /\ Cardinality(S) \in Nat
         /\ ElementsAt(seq, S) \in Seq(T)
         /\ Len(ElementsAt(seq, S)) = Cardinality(S)
         /\ \A k \in 1 .. Cardinality(S) :
              /\ InOrder(S)[k] \in S
              /\ ElementsAt(seq, S)[k] = seq[InOrder(S)[k]]
         /\ \A j, k \in 1 .. Cardinality(S) : j < k => InOrder(S)[j] < InOrder(S)[k]
         /\ \A n \in S : \E k \in 1 .. Cardinality(S) :
              InOrder(S)[k] = n /\ ElementsAt(seq, S)[k] = seq[n]
<1>1. Len(seq) \in Nat /\ IsFiniteSet(S) /\ S \in SUBSET Nat
  <2>1. Len(seq) \in Nat
    BY LenProperties
  <2>2. IsFiniteSet(1 .. Len(seq))
    BY <2>1, FS_Interval
  <2>3. IsFiniteSet(S)
    BY <2>2, FS_Subset
  <2> QED
    BY <2>1, <2>3
<1> DEFINE at == InOrder(S)
           c == Cardinality(S)
<1>2. /\ c \in Nat /\ at \in [1 .. c -> S]
      /\ \A j, k \in 1 .. c : j < k => at[j] < at[k]
      /\ \A n \in S : \E k \in 1 .. c : at[k] = n
  BY <1>1, InOrderFacts
<1>3. ElementsAt(seq, S) = [k \in 1 .. c |-> seq[at[k]]]
  BY <1>2 DEF ElementsAt
<1> HIDE DEF at, c
<1>4. \A n \in S : seq[n] \in T
  BY <1>1, ElementOfSeq
<1>5. ElementsAt(seq, S) \in [1 .. c -> T]
  BY <1>2, <1>3, <1>4
<1>6. ElementsAt(seq, S) \in Seq(T) /\ Len(ElementsAt(seq, S)) = c
  BY <1>2, <1>5, FunctionIsSequence
<1> QED
  BY <1>1, <1>2, <1>3, <1>6 DEF at, c

-----------------------------------------------------------------------------
(* What a document defines.                                                *)

\* The blocks a text may have.
BlocksOf(text) ==
  [index   : Nat,
   info    : {ParseInfo(text[n].tokens) : n \in 1 .. Len(text)},
   lines   : Seq({text[n] : n \in 1 .. Len(text)}),
   start   : Nat, end : Nat,
   section : {SectionFor(text, n) : n \in 1 .. Len(text)}]

\* The scan of parse_fences is defined by its first state and its step.
LEMMA ScanFacts ==
  ASSUME NEW text, text \in Seq(Range(text))
  PROVE  /\ ScanTo(text)[0] = [fences |-> <<>>, open |-> <<>>]
         /\ \A n \in 1 .. Len(text) : ScanTo(text)[n] = ScanLine(text, ScanTo(text)[n - 1], n)
         /\ \A n \in 0 .. Len(text) :
              /\ ScanTo(text)[n] \in [fences : Seq(BlocksOf(text)), open : Seq(BlocksOf(text))]
              /\ ScanTo(text)[n].fences \in Seq(BlocksOf(text))
              /\ ScanTo(text)[n].open \in Seq(BlocksOf(text))
<1> DEFINE N == Len(text)
           Block == BlocksOf(text)
           D == [fences : Seq(Block), open : Seq(Block)]
           start == [fences |-> <<>>, open |-> <<>>]
           g == [x \in (1 .. N) \X D |-> ScanLine(text, x[2], x[1])]
           Body(f) == [n \in 0 .. N |-> IF n = 0 THEN start ELSE ScanLine(text, f[n - 1], n)]
           scan == CHOOSE f : f = Body(f)
<1>1. N \in Nat
  BY LenProperties
<1>2. start \in D
  BY EmptySeq
<1>3. ASSUME NEW st \in D, NEW n \in 1 .. N
      PROVE  ScanLine(text, st, n) \in D
  <2> DEFINE line == text[n]
             fresh == [index |-> Len(st.fences) + 1, info |-> ParseInfo(line.tokens),
                       lines |-> <<>>, start |-> n, end |-> n, section |-> SectionFor(text, n)]
  <2>1. st.fences \in Seq(Block) /\ st.open \in Seq(Block) /\ n \in Nat
    BY <1>1
  <2>2. fresh \in Block
    <3>1. Len(st.fences) + 1 \in Nat
      BY <2>1, LenProperties
    <3>2. <<>> \in Seq({text[i] : i \in 1 .. N})
      BY EmptySeq
    <3> QED
      BY <1>1, <2>1, <3>1, <3>2 DEF BlocksOf
  <2> HIDE DEF fresh, Block
  <2>3. <<fresh>> \in Seq(Block)
    BY <2>2, Single
  <2>4. CASE st.open = <<>>
    <3>1. [st EXCEPT !.open = <<fresh>>] \in D
      BY <2>3
    <3> QED
      BY <2>4, <3>1 DEF ScanLine, fresh
  <2>5. CASE st.open # <<>>
    <3> DEFINE b == st.open[1]
    <3>1. 1 \in 1 .. Len(st.open) /\ b \in Block
      BY <2>1, <2>5, FirstElement
    <3>2. [b EXCEPT !.end = n] \in Block
      BY <2>1, <3>1 DEF Block, BlocksOf
    <3>3. Append(st.fences, [b EXCEPT !.end = n]) \in Seq(Block)
      BY <2>1, <3>2, AppendProperties
    <3>4. [b EXCEPT !.lines = Append(@, line)] \in Block
      <4>1. b.lines \in Seq({text[i] : i \in 1 .. N}) /\ line \in {text[i] : i \in 1 .. N}
        BY <3>1 DEF Block, BlocksOf
      <4>2. Append(b.lines, line) \in Seq({text[i] : i \in 1 .. N})
        BY <4>1, AppendProperties
      <4> QED
        BY <3>1, <4>2 DEF Block, BlocksOf
    <3> DEFINE longer == [b EXCEPT !.lines = Append(@, line)]
    <3>5. [st.open EXCEPT ![1] = longer] \in Seq(Block)
      <4> HIDE DEF longer
      <4> QED
        BY <2>1, <3>1, <3>4, ReplaceFacts DEF longer
    <3>6. [st EXCEPT !.open[1].lines = Append(@, line)]
            = [st EXCEPT !.open = [st.open EXCEPT ![1] = longer]]
      OBVIOUS
    <3>7. [st EXCEPT !.open[1].lines = Append(@, line)] \in D
      BY <3>5, <3>6
    <3>8. [open |-> <<>>, fences |-> Append(st.fences, [b EXCEPT !.end = n])] \in D
      BY <3>3, EmptySeq
    <3> QED
      BY <2>5, <3>7, <3>8 DEF ScanLine
  <2> QED
    BY <2>4, <2>5
<1> HIDE DEF D
<1>4. \E f : f = Body(f)
  <2>1. g \in [((0 + 1) .. N) \X D -> D]
    BY <1>3
  <2> HIDE DEF g, start
  <2>2. \E f : Recurses(f, 0, N, D, start, g)
    <3>1. 0 \in Nat /\ 0 <= N
      BY <1>1
    <3> QED
      BY <1>1, <1>2, <2>1, <3>1, RecursionExists
  <2>3. PICK f \in [0 .. N -> D] :
          f[0] = start /\ \A k \in 1 .. N : f[k] = g[<<k, f[k - 1]>>]
    BY <2>2 DEF Recurses
  <2>4. ASSUME NEW k \in 1 .. N PROVE f[k] = ScanLine(text, f[k - 1], k)
    <3>1. k - 1 \in 0 .. N
      BY <1>1
    <3>2. <<k, f[k - 1]>> \in (1 .. N) \X D
      BY <2>3, <3>1
    <3> QED
      BY <2>3, <3>2 DEF g
  <2>5. ASSUME NEW k \in 0 .. N
        PROVE  f[k] = IF k = 0 THEN start ELSE ScanLine(text, f[k - 1], k)
    BY <1>1, <2>3, <2>4
  <2>6. f = Body(f)
    BY <2>3, <2>5
  <2> QED
    BY <2>6
<1>5. scan = Body(scan)
  <2> HIDE DEF Body
  <2> QED
    BY <1>4
<1> HIDE DEF scan
<1> DEFINE S == {n \in Nat : n <= N => scan[n] \in D}
<1>6. 0 \in S
  BY <1>1, <1>2, <1>5
<1>7. ASSUME NEW n \in S PROVE n + 1 \in S
  <2> SUFFICES ASSUME n + 1 <= N PROVE scan[n + 1] \in D
    OBVIOUS
  <2>1. n \in Nat /\ n + 1 \in 1 .. N /\ n + 1 \in 0 .. N /\ n + 1 # 0 /\ (n + 1) - 1 = n /\ n <= N
    BY <1>1
  <2>2. scan[n] \in D
    BY <2>1
  <2>3. scan[n + 1] = ScanLine(text, scan[n], n + 1)
    BY <1>5, <2>1
  <2> QED
    BY <1>3, <2>1, <2>2, <2>3
<1>8. \A n \in 0 .. N : scan[n] \in D
  <2> HIDE DEF S
  <2>1. S = Nat
    <3>1. S \in SUBSET Nat
      BY DEF S
    <3> QED
      BY <1>6, <1>7, <3>1, NatSet
  <2>2. \A n \in 0 .. N : n \in Nat /\ n <= N
    BY <1>1
  <2> QED
    BY <2>1, <2>2 DEF S
<1>9. ScanTo(text) = scan
  BY DEF ScanTo, scan
<1>10. scan[0] = start
  BY <1>1, <1>5
<1>11. \A n \in 1 .. N : scan[n] = ScanLine(text, scan[n - 1], n)
  <2>1. \A n \in 1 .. N : n \in 0 .. N /\ n # 0
    BY <1>1
  <2> QED
    BY <1>5, <2>1
<1>12. \A n \in 0 .. N : scan[n].fences \in Seq(Block) /\ scan[n].open \in Seq(Block)
  BY <1>8 DEF D
<1> QED
  BY <1>8, <1>9, <1>10, <1>11, <1>12 DEF D

\* parse_fences returns a list of blocks.
LEMMA ParseFencesType ==
  ASSUME NEW text, text \in Seq(Range(text))
  PROVE  ParseFences(text) \in Seq(BlocksOf(text))
<1> DEFINE N == Len(text)
           Block == BlocksOf(text)
           end == ScanTo(text)[N]
<1>1. N \in Nat /\ N \in 0 .. N
  BY LenProperties
<1>2. end.fences \in Seq(Block) /\ end.open \in Seq(Block)
  BY <1>1, ScanFacts
<1>3. ParseFences(text) = IF end.open = <<>> THEN end.fences
                          ELSE Append(end.fences, [end.open[1] EXCEPT !.end = N])
  BY DEF ParseFences
<1> HIDE DEF end
<1>4. CASE end.open = <<>>
  BY <1>2, <1>3, <1>4
<1>5. CASE end.open # <<>>
  <2> HIDE DEF Block
  <2>1. end.open[1] \in Block
    BY <1>2, <1>5, FirstElement
  <2>2. [end.open[1] EXCEPT !.end = N] \in Block
    BY <1>1, <2>1 DEF Block, BlocksOf
  <2>3. Append(end.fences, [end.open[1] EXCEPT !.end = N]) \in Seq(Block)
    BY <1>2, <2>2, AppendProperties
  <2> QED
    BY <1>3, <1>5, <2>3 DEF Block
<1> QED
  BY <1>4, <1>5

\* The last name of the path of a fixture is its id.
LEMMA RelpathEnds ==
  ASSUME NEW doc, doc.dirs \in Seq(Range(doc.dirs)), doc.dirs # <<>>, NEW id, NEW negative \in BOOLEAN
  PROVE  LET path == FixtureRelpath(doc, id, negative) IN path[Len(path)] = id
<1> DEFINE U == Range(doc.dirs) \cup {doc.stem, "negative", id}
           middle == IF negative THEN <<"negative">> ELSE <<>>
           p == Tail(doc.dirs) \o <<doc.stem>> \o middle
<1>1. Tail(doc.dirs) \in Seq(Range(doc.dirs))
  BY HeadTailProperties
<1>2. Tail(doc.dirs) \in Seq(U) /\ <<doc.stem>> \in Seq(U) /\ middle \in Seq(U) /\ <<id>> \in Seq(U)
  <2>1. Range(doc.dirs) \subseteq U /\ doc.stem \in U /\ "negative" \in U /\ id \in U
    OBVIOUS
  <2> HIDE DEF U
  <2> QED
    BY <1>1, <2>1, WiderSeq, Single, EmptySeq
<1>3. p \in Seq(U)
  BY <1>2, ConcatProperties
<1> HIDE DEF p, U
<1>4. Len(<<id>>) = 1 /\ <<id>>[1] = id
  OBVIOUS
<1>5. Len(p) \in Nat /\ Len(p \o <<id>>) = Len(p) + 1 /\ (p \o <<id>>)[Len(p) + 1] = id
  <2>1. Len(p) \in Nat /\ Len(p) + 1 \in 1 .. Len(p) + Len(<<id>>) /\ ~(Len(p) + 1 <= Len(p))
        /\ Len(p) + 1 - Len(p) = 1
    BY <1>3, <1>4, LenProperties
  <2> QED
    BY <1>2, <1>3, <1>4, <2>1, ConcatProperties
<1>6. FixtureRelpath(doc, id, negative) = p \o <<id>>
  BY DEF FixtureRelpath, p
<1> QED
  BY <1>5, <1>6

\* The fixtures of a document are those of that document, and no two of them
\* have the same id or the same file (collect_fixtures).
LEMMA CollectFacts ==
  ASSUME NEW doc, doc.dirs \in Seq(Range(doc.dirs)), NEW text, text \in Seq(Range(text))
  PROVE  LET found == CollectFixtures(doc, text)
         IN  /\ found.usable \in BOOLEAN
             /\ found.fixtures \in Seq(Range(found.fixtures))
             /\ \A f \in Range(found.fixtures) : f.doc = doc
             /\ \A j, k \in 1 .. Len(found.fixtures) :
                  j # k => /\ found.fixtures[j].id # found.fixtures[k].id
                           /\ found.fixtures[j].source # found.fixtures[k].source
<1> DEFINE fences == ParseFences(text)
           S == {n \in DOMAIN fences : Annotated(fences[n]) /\ ~Skipped(fences[n])}
           kept == InOrder(S)
           c == Cardinality(S)
           found == CollectFixtures(doc, text)
           refused == \E n \in DOMAIN fences : Unusable(doc, fences, n)
<1>1. found = IF refused THEN [usable |-> FALSE, fixtures |-> <<>>]
              ELSE [usable |-> TRUE, fixtures |-> [n \in DOMAIN kept |-> FixtureOf(doc, fences, kept[n])]]
  BY DEF CollectFixtures, FixturesOf
<1>2. CASE refused
  <2>1. found.usable = FALSE /\ found.fixtures = <<>>
    BY <1>1, <1>2
  <2>2. Len(found.fixtures) = 0 /\ DOMAIN found.fixtures = {}
    BY <2>1
  <2>3. found.fixtures \in Seq(Range(found.fixtures)) /\ Range(found.fixtures) = {}
    BY <2>1, <2>2, EmptySeq DEF Range
  <2> HIDE DEF found
  <2>4. 1 .. Len(found.fixtures) = {}
    BY <2>2
  <2> QED
    BY <2>1, <2>3, <2>4 DEF found
<1>3. CASE ~refused
  <2>1. PICK B : fences \in Seq(B)
    BY ParseFencesType
  <2>2. DOMAIN fences = 1 .. Len(fences) /\ Len(fences) \in Nat
    BY <2>1, LenProperties
  <2>3. S \in SUBSET Nat /\ IsFiniteSet(S)
    <3>1. S \in SUBSET (1 .. Len(fences))
      BY <2>2
    <3>2. IsFiniteSet(1 .. Len(fences))
      BY <2>2, FS_Interval
    <3>3. IsFiniteSet(S)
      BY <3>1, <3>2, FS_Subset
    <3> QED
      BY <3>1, <3>3
  <2>4. /\ c \in Nat /\ kept \in [1 .. c -> S]
        /\ \A j, k \in 1 .. c : j < k => kept[j] < kept[k]
    BY <2>3, InOrderFacts
  <2>5. /\ found.usable = TRUE
        /\ found.fixtures = [n \in 1 .. c |-> FixtureOf(doc, fences, kept[n])]
    BY <1>1, <1>3, <2>4
  <2>6. \A n \in S : n \in DOMAIN fences /\ Annotated(fences[n]) /\ ~Skipped(fences[n])
                      /\ ~Unusable(doc, fences, n)
    BY <1>3
  <2> HIDE DEF found, kept, c, S, refused, fences
  <2>7. Len(found.fixtures) = c /\ DOMAIN found.fixtures = 1 .. c
    BY <2>4, <2>5
  <2>8. ASSUME NEW k \in 1 .. c
        PROVE  /\ kept[k] \in S
               /\ found.fixtures[k].doc = doc /\ found.fixtures[k].id = Id(fences[kept[k]])
               /\ found.fixtures[k].source[Len(found.fixtures[k].source)] = Id(fences[kept[k]])
    <3>1. kept[k] \in S
      BY <2>4
    <3>2. UnderDocRoot(doc)
      BY <2>6, <3>1 DEF Unusable
    <3>3. found.fixtures[k] = FixtureOf(doc, fences, kept[k])
      BY <2>5
    <3> DEFINE e == ExpectedFor(fences, kept[k])
    <3>4. found.fixtures[k] = Fixture(doc, fences[kept[k]], e)
      BY <3>3 DEF FixtureOf
    <3> HIDE DEF e
    <3>5. /\ found.fixtures[k].doc = doc /\ found.fixtures[k].id = Id(fences[kept[k]])
          /\ found.fixtures[k].source = FixtureRelpath(doc, Id(fences[kept[k]]), e.tag = "error")
      BY <3>4 DEF Fixture
    <3>6. doc.dirs # <<>> /\ (e.tag = "error") \in BOOLEAN
      BY <3>2 DEF UnderDocRoot
    <3> DEFINE id == Id(fences[kept[k]])
               negative == e.tag = "error"
    <3> HIDE DEF id, negative
    <3>7. FixtureRelpath(doc, id, negative)[Len(FixtureRelpath(doc, id, negative))] = id
      BY <3>6, RelpathEnds DEF negative
    <3> QED
      BY <3>1, <3>5, <3>7 DEF id, negative
  <2>9. ASSUME NEW j \in 1 .. c, NEW k \in 1 .. c, j < k
        PROVE  Id(fences[kept[j]]) # Id(fences[kept[k]])
    <3>1. kept[j] \in S /\ kept[k] \in S /\ kept[j] < kept[k]
      BY <2>4, <2>9
    <3>2. kept[j] \in 1 .. kept[k] - 1
      BY <2>2, <2>6, <3>1
    <3> QED
      BY <2>6, <3>1, <3>2 DEF Unusable
  <2>10. ASSUME NEW j \in 1 .. c, NEW k \in 1 .. c, j # k
         PROVE  Id(fences[kept[j]]) # Id(fences[kept[k]])
    <3>1. j < k \/ k < j
      BY <2>4, <2>10
    <3> QED
      BY <2>9, <3>1
  <2>11. \A j, k \in 1 .. c :
           j # k => /\ found.fixtures[j].id # found.fixtures[k].id
                    /\ found.fixtures[j].source # found.fixtures[k].source
    BY <2>8, <2>10
  <2>12. found.fixtures \in Seq(Range(found.fixtures))
    <3>1. found.fixtures \in [1 .. c -> Range(found.fixtures)]
      BY <2>5 DEF Range
    <3> QED
      BY <2>4, <3>1, FunctionIsSequence
  <2>13. \A f \in Range(found.fixtures) : f.doc = doc
    BY <2>7, <2>8 DEF Range
  <2> QED
    BY <2>5, <2>7, <2>11, <2>12, <2>13 DEF found
<1> QED
  BY <1>2, <1>3

-----------------------------------------------------------------------------
(* Lists of rows.                                                          *)

\* Where the elements of a flattened list come from: off[i - 1] is where its
\* part i begins.
Flattened(seqs, flat, off) ==
  /\ off \in [0 .. Len(seqs) -> Nat]
  /\ \A i \in 1 .. Len(seqs) : \A k \in 1 .. Len(seqs[i]) :
       off[i - 1] + k \in 1 .. Len(flat) /\ flat[off[i - 1] + k] = seqs[i][k]
  /\ \A p \in 1 .. Len(flat) : \E i \in 1 .. Len(seqs) : \E k \in 1 .. Len(seqs[i]) :
       p = off[i - 1] + k

Adjacent(seqs, flat, off) ==
  /\ off[0] = 0 /\ off[Len(seqs)] = Len(flat)
  /\ \A i \in 1 .. Len(seqs) : off[i] = off[i - 1] + Len(seqs[i])

LEMMA FlattenFacts ==
  ASSUME NEW T, NEW seqs \in Seq(Seq(T))
  PROVE  /\ FlattenSeq(seqs) \in Seq(T)
         /\ \E off : Flattened(seqs, FlattenSeq(seqs), off) /\ Adjacent(seqs, FlattenSeq(seqs), off)
<1> DEFINE N == Len(seqs)
           flat == FlattenSeq(seqs)
<1>1. N \in Nat /\ \A i \in 1 .. N : seqs[i] \in Seq(T)
  BY LenProperties, ElementOfSeq
<1>2. CASE N = 0
  <2>1. flat = seqs /\ seqs = <<>>
    BY <1>2, EmptySeq DEF FlattenSeq
  <2>2. flat \in Seq(T) /\ Len(flat) = 0
    BY <1>2, <2>1, EmptySeq
  <2>3. Flattened(seqs, flat, [i \in 0 .. N |-> 0]) /\ Adjacent(seqs, flat, [i \in 0 .. N |-> 0])
    BY <1>2, <2>2 DEF Flattened, Adjacent
  <2> QED
    BY <2>2, <2>3
<1>3. CASE N # 0
  <2> DEFINE Body(f) == [i \in 1 .. N |-> IF i = 1 THEN seqs[i] ELSE f[i - 1] \o seqs[i]]
             h == CHOOSE f : f = Body(f)
             g == [x \in ((1 + 1) .. N) \X Seq(T) |-> x[2] \o seqs[x[1]]]
             first == seqs[1]
  <2>1. 1 \in Nat /\ 1 <= N /\ first \in Seq(T) /\ 1 \in 1 .. N
    BY <1>1, <1>3
  <2>2. \E f : f = Body(f)
    <3>1. ASSUME NEW x \in ((1 + 1) .. N) \X Seq(T) PROVE x[2] \o seqs[x[1]] \in Seq(T)
      <4>1. x[1] \in 1 .. N /\ x[2] \in Seq(T)
        BY <1>1
      <4> QED
        BY <1>1, <4>1, ConcatProperties
    <3>2. g \in [((1 + 1) .. N) \X Seq(T) -> Seq(T)]
      BY <3>1
    <3> HIDE DEF g, first
    <3>3. \E f : Recurses(f, 1, N, Seq(T), first, g)
      BY <1>1, <2>1, <3>2, RecursionExists
    <3>4. PICK f \in [1 .. N -> Seq(T)] :
            f[1] = first /\ \A k \in (1 + 1) .. N : f[k] = g[<<k, f[k - 1]>>]
      BY <3>3 DEF Recurses
    <3>5. ASSUME NEW k \in (1 + 1) .. N PROVE f[k] = f[k - 1] \o seqs[k]
      <4>1. k - 1 \in 1 .. N
        BY <1>1
      <4>2. <<k, f[k - 1]>> \in ((1 + 1) .. N) \X Seq(T)
        BY <3>4, <4>1
      <4> QED
        BY <3>4, <4>2 DEF g
    <3>6. ASSUME NEW k \in 1 .. N PROVE f[k] = IF k = 1 THEN seqs[k] ELSE f[k - 1] \o seqs[k]
      <4>1. k = 1 \/ k \in (1 + 1) .. N
        BY <1>1
      <4> QED
        BY <3>4, <3>5, <4>1 DEF first
    <3>7. f = Body(f)
      BY <3>4, <3>6
    <3> QED
      BY <3>7
  <2>3. h = Body(h)
    <3> HIDE DEF Body
    <3> QED
      BY <2>2
  <2>4. flat = h[N]
    BY <1>3 DEF FlattenSeq
  <2> HIDE DEF h, flat
  <2>5. h[1] = seqs[1] /\ \A i \in 1 .. N : i # 1 => h[i] = h[i - 1] \o seqs[i]
    BY <2>1, <2>3
  <2> HIDE DEF Body
  <2> DEFINE off == [i \in 0 .. N |-> IF i = 0 THEN 0 ELSE Len(h[i])]
             Part(n) == /\ h[n] \in Seq(T)
                        /\ \A i \in 1 .. n : \A k \in 1 .. Len(seqs[i]) :
                             off[i - 1] + k \in 1 .. Len(h[n]) /\ h[n][off[i - 1] + k] = seqs[i][k]
                        /\ \A p \in 1 .. Len(h[n]) : \E i \in 1 .. n : \E k \in 1 .. Len(seqs[i]) :
                             p = off[i - 1] + k
             S == {n \in Nat : n \in 1 .. N => Part(n)}
  <2>6. Part(1)
    <3>1. off[0] = 0
      BY <1>1
    <3> HIDE DEF off
    <3>2. h[1] \in Seq(T) /\ Len(h[1]) \in Nat
      BY <2>1, <2>5, LenProperties
    <3>3. \A i \in 1 .. 1 : i = 1 /\ i - 1 = 0
      OBVIOUS
    <3> QED
      BY <2>5, <3>1, <3>2, <3>3
  <2>7. ASSUME NEW a \in 1 .. N, NEW b \in 1 .. N, b - 1 = a, Part(a)
        PROVE  Part(b)
    <3>1. a \in Nat /\ b \in Nat /\ b # 1 /\ a \in 0 .. N /\ a # 0 /\ b = a + 1
      BY <1>1, <2>7
    <3>2. h[b] = h[a] \o seqs[b] /\ off[b - 1] = Len(h[a])
      BY <2>5, <2>7, <3>1
    <3>3. seqs[b] \in Seq(T) /\ h[a] \in Seq(T)
      BY <1>1, <2>7
    <3>4. /\ h[b] \in Seq(T)
          /\ \A p \in 1 .. Len(h[a]) : p \in 1 .. Len(h[b]) /\ h[b][p] = h[a][p]
          /\ \A k \in 1 .. Len(seqs[b]) :
               Len(h[a]) + k \in 1 .. Len(h[b]) /\ h[b][Len(h[a]) + k] = seqs[b][k]
          /\ \A p \in 1 .. Len(h[b]) :
               p \in 1 .. Len(h[a]) \/ \E k \in 1 .. Len(seqs[b]) : p = Len(h[a]) + k
      <4> DEFINE x == h[a]
                 y == seqs[b]
      <4> HIDE DEF x, y
      <4>1. x \in Seq(T) /\ y \in Seq(T) /\ h[b] = x \o y
        BY <3>2, <3>3 DEF x, y
      <4>2. /\ x \o y \in Seq(T)
            /\ \A p \in 1 .. Len(x) : p \in 1 .. Len(x \o y) /\ (x \o y)[p] = x[p]
            /\ \A k \in 1 .. Len(y) :
                 Len(x) + k \in 1 .. Len(x \o y) /\ (x \o y)[Len(x) + k] = y[k]
            /\ \A p \in 1 .. Len(x \o y) :
                 p \in 1 .. Len(x) \/ \E k \in 1 .. Len(y) : p = Len(x) + k
        BY <4>1, ConcatFacts
      <4> QED
        BY <4>1, <4>2 DEF x, y
    <3>5. \A i \in 1 .. b : i \in 1 .. a \/ i = b
      BY <3>1
    <3> HIDE DEF off
    <3>6. ASSUME NEW i \in 1 .. b, NEW k \in 1 .. Len(seqs[i])
          PROVE  off[i - 1] + k \in 1 .. Len(h[b]) /\ h[b][off[i - 1] + k] = seqs[i][k]
      <4>1. CASE i \in 1 .. a
        <5>1. off[i - 1] + k \in 1 .. Len(h[a]) /\ h[a][off[i - 1] + k] = seqs[i][k]
          BY <2>7, <4>1
        <5> QED
          BY <3>4, <5>1
      <4>2. CASE i = b
        BY <3>2, <3>4, <4>2
      <4> QED
        BY <3>5, <4>1, <4>2
    <3>7. ASSUME NEW p \in 1 .. Len(h[b])
          PROVE  \E i \in 1 .. b : \E k \in 1 .. Len(seqs[i]) : p = off[i - 1] + k
      <4>1. CASE p \in 1 .. Len(h[a])
        <5>1. PICK i \in 1 .. a : \E k \in 1 .. Len(seqs[i]) : p = off[i - 1] + k
          BY <2>7, <4>1
        <5>2. i \in 1 .. b
          BY <3>1
        <5> QED
          BY <5>1, <5>2
      <4>2. CASE \E k \in 1 .. Len(seqs[b]) : p = Len(h[a]) + k
        <5>1. b \in 1 .. b
          BY <3>1
        <5> QED
          BY <3>2, <4>2, <5>1
      <4> QED
        BY <3>4, <4>1, <4>2
    <3> QED
      BY <3>4, <3>6, <3>7
  <2>8. \A n \in 1 .. N : Part(n)
    <3> HIDE DEF Part
    <3>1. 0 \in S
      OBVIOUS
    <3>2. ASSUME NEW n \in S PROVE n + 1 \in S
      <4> SUFFICES ASSUME n + 1 \in 1 .. N PROVE Part(n + 1)
        OBVIOUS
      <4>1. CASE n = 0
        BY <2>6, <4>1
      <4>2. CASE n # 0
        <5>1. n \in 1 .. N /\ n + 1 - 1 = n
          BY <1>1, <4>2
        <5>2. Part(n)
          BY <5>1
        <5> QED
          BY <2>7, <5>1, <5>2
      <4> QED
        BY <4>1, <4>2
    <3> HIDE DEF S
    <3>3. S = Nat
      <4>1. S \in SUBSET Nat
        BY DEF S
      <4> QED
        BY <3>1, <3>2, <4>1, NatSet
    <3> QED
      BY <1>1, <3>3 DEF S
  <2>9. off \in [0 .. N -> Nat]
    <3>1. \A i \in 1 .. N : h[i] \in Seq(T)
      BY <2>8
    <3>2. \A i \in 1 .. N : Len(h[i]) \in Nat
      BY <3>1, LenProperties
    <3> QED
      BY <1>1, <3>2
  <2>10. off[0] = 0 /\ off[N] = Len(h[N]) /\ \A i \in 1 .. N : off[i] = Len(h[i])
    BY <1>1, <1>3
  <2>11. ASSUME NEW i \in 1 .. N PROVE off[i] = off[i - 1] + Len(seqs[i])
    <3>1. CASE i = 1
      <4>1. off[1] = Len(seqs[1]) /\ i - 1 = 0 /\ Len(seqs[1]) \in Nat
        BY <1>1, <2>1, <2>5, <2>10, <3>1, LenProperties
      <4> HIDE DEF off
      <4> QED
        BY <2>10, <3>1, <4>1
    <3>2. CASE i # 1
      <4>1. i - 1 \in 1 .. N
        BY <1>1, <3>2
      <4>2. h[i] = h[i - 1] \o seqs[i] /\ h[i - 1] \in Seq(T) /\ seqs[i] \in Seq(T)
        BY <1>1, <2>5, <2>8, <3>2, <4>1
      <4>3. off[i] = Len(h[i]) /\ off[i - 1] = Len(h[i - 1])
        BY <2>10, <4>1
      <4> HIDE DEF off
      <4>4. Len(h[i - 1] \o seqs[i]) = Len(h[i - 1]) + Len(seqs[i])
        BY <4>2, ConcatProperties
      <4> QED
        BY <4>2, <4>3, <4>4
    <3> QED
      BY <3>1, <3>2
  <2> HIDE DEF off
  <2>12. flat \in Seq(T) /\ Flattened(seqs, flat, off) /\ Adjacent(seqs, flat, off)
    <3> HIDE DEF Part
    <3>1. Part(N)
      <4>1. N \in 1 .. N
        BY <1>1, <1>3
      <4> QED
        BY <2>8, <4>1
    <3> USE DEF Part
    <3> QED
      BY <2>4, <2>9, <2>10, <2>11, <3>1 DEF Flattened, Adjacent
  <2> QED
    BY <2>12 DEF flat
<1> QED
  BY <1>2, <1>3

\* The rows of one document.
LEMMA RowsOfFacts ==
  ASSUME NEW T, NEW rows \in Seq(T), NEW d
  PROVE  /\ RowsOf(rows, d) \in Seq(T)
         /\ \A f \in Range(RowsOf(rows, d)) : f.doc = d /\ f \in Range(rows)
<1> DEFINE S == {n \in DOMAIN rows : rows[n].doc = d}
<1>1. DOMAIN rows = 1 .. Len(rows)
  OBVIOUS
<1>2. S \in SUBSET (1 .. Len(rows)) /\ \A n \in S : rows[n].doc = d /\ rows[n] \in Range(rows)
  BY <1>1 DEF Range
<1>3. RowsOf(rows, d) = ElementsAt(rows, S)
  BY DEF RowsOf
<1> HIDE DEF S
<1>4. /\ ElementsAt(rows, S) \in Seq(T) /\ Len(ElementsAt(rows, S)) = Cardinality(S)
      /\ \A k \in 1 .. Cardinality(S) :
           InOrder(S)[k] \in S /\ ElementsAt(rows, S)[k] = rows[InOrder(S)[k]]
  BY <1>2, ElementsAtFacts
<1>5. Range(ElementsAt(rows, S)) = {ElementsAt(rows, S)[k] : k \in 1 .. Cardinality(S)}
  BY <1>4, RangeEquality
<1>6. ASSUME NEW f \in Range(ElementsAt(rows, S)) PROVE f.doc = d /\ f \in Range(rows)
  <2>1. PICK k \in 1 .. Cardinality(S) : f = ElementsAt(rows, S)[k]
    BY <1>5
  <2>2. InOrder(S)[k] \in S /\ f = rows[InOrder(S)[k]]
    BY <1>4, <2>1
  <2> QED
    BY <1>2, <2>2
<1> QED
  BY <1>3, <1>4, <1>6

\* A list in which nothing occurs twice.
Distinct(q) == \A j, k \in 1 .. Len(q) : q[j] = q[k] => j = k

\* ordered_docs lists the documents of the rows, each once.
LEMMA OrderedDocsFacts ==
  ASSUME NEW T, NEW rows \in Seq(T), \A f \in T : f.doc \in Docs
  PROVE  /\ OrderedDocs(rows) \in Seq(Docs)
         /\ Distinct(OrderedDocs(rows))
         /\ \A f \in Range(rows) : Contains(OrderedDocs(rows), f.doc)
<1> DEFINE S == {n \in DOMAIN rows : \A m \in 1 .. n - 1 : rows[m].doc # rows[n].doc}
           c == Cardinality(S)
           at == InOrder(S)
           firsts == ElementsAt(rows, S)
           list == OrderedDocs(rows)
<1>1. DOMAIN rows = 1 .. Len(rows) /\ Len(rows) \in Nat /\ \A n \in 1 .. Len(rows) : rows[n] \in T
  BY LenProperties, ElementOfSeq
<1>2. S \in SUBSET (1 .. Len(rows))
  BY <1>1
<1>3. /\ c \in Nat /\ firsts \in Seq(T) /\ Len(firsts) = c
      /\ \A k \in 1 .. c : at[k] \in S /\ firsts[k] = rows[at[k]]
      /\ \A j, k \in 1 .. c : j < k => at[j] < at[k]
      /\ \A n \in S : \E k \in 1 .. c : at[k] = n /\ firsts[k] = rows[n]
  <2> HIDE DEF S
  <2> QED
    BY <1>2, ElementsAtFacts
<1>4. list = [k \in 1 .. c |-> firsts[k].doc]
  <2>1. list = [k \in DOMAIN firsts |-> firsts[k].doc]
    BY DEF OrderedDocs
  <2> HIDE DEF firsts, c, list
  <2>2. DOMAIN firsts = 1 .. c
    BY <1>3
  <2> QED
    BY <2>1, <2>2
<1>5. ASSUME NEW n \in S, NEW m \in S, m < n PROVE rows[m].doc # rows[n].doc
  <2>1. m \in 1 .. n - 1
    BY <1>1, <1>2, <1>5
  <2> QED
    BY <2>1
<1>6. ASSUME NEW n \in 1 .. Len(rows) PROVE \E m \in S : rows[m].doc = rows[n].doc
  <2> DEFINE Same == {m \in 1 .. Len(rows) : rows[m].doc = rows[n].doc}
  <2>1. Same \in SUBSET Nat /\ Same # {}
    BY <1>1
  <2> HIDE DEF Same
  <2>2. PICK m \in Same : \A k \in Same : m <= k
    BY <2>1, LeastNat
  <2>3. m \in 1 .. Len(rows) /\ rows[m].doc = rows[n].doc
    BY DEF Same
  <2>4. ASSUME NEW k \in 1 .. m - 1 PROVE rows[k].doc # rows[m].doc
    <3>1. k \in 1 .. Len(rows) /\ ~(m <= k)
      BY <1>1, <2>3
    <3> QED
      BY <2>2, <2>3, <3>1 DEF Same
  <2>5. m \in S
    BY <1>1, <2>3, <2>4
  <2> QED
    BY <2>3, <2>5
<1> HIDE DEF S, c, at, firsts, list
<1>7. \A k \in 1 .. c : firsts[k].doc \in Docs
  BY <1>3, ElementOfSeq
<1>8. list \in Seq(Docs) /\ Len(list) = c
  <2>1. list \in [1 .. c -> Docs]
    BY <1>4, <1>7
  <2> QED
    BY <1>3, <2>1, FunctionIsSequence
<1>9. ASSUME NEW j \in 1 .. c, NEW k \in 1 .. c, list[j] = list[k] PROVE j = k
  <2>1. rows[at[j]].doc = rows[at[k]].doc /\ at[j] \in S /\ at[k] \in S
    BY <1>3, <1>4, <1>9
  <2>2. ~(at[j] < at[k]) /\ ~(at[k] < at[j])
    BY <1>5, <2>1
  <2>3. ~(j < k) /\ ~(k < j)
    BY <1>3, <2>2
  <2> QED
    BY <2>3
<1>10. ASSUME NEW f \in Range(rows) PROVE \E k \in 1 .. c : list[k] = f.doc
  <2>1. PICK n \in 1 .. Len(rows) : f = rows[n]
    BY <1>1 DEF Range
  <2>2. PICK m \in S : rows[m].doc = rows[n].doc
    BY <1>6
  <2>3. PICK k \in 1 .. c : firsts[k] = rows[m]
    BY <1>3
  <2> QED
    BY <1>4, <2>1, <2>2, <2>3
<1> QED
  BY <1>8, <1>9, <1>10 DEF Distinct, Contains, list

\* The order an extract writes the documents in: none twice, none forgotten.
LEMMA OrderFacts ==
  ASSUME NEW known \in Seq(Docs), Distinct(known),
         NEW requested \in Seq(Docs), Distinct(requested)
  PROVE  LET order == known \o Unlisted(requested, known)
         IN  /\ order \in Seq(Docs)
             /\ Distinct(order)
             /\ \A d : Contains(known, d) => Contains(order, d)
<1> DEFINE S == {n \in DOMAIN requested : ~Contains(known, requested[n])}
           c == Cardinality(S)
           at == InOrder(S)
           more == Unlisted(requested, known)
           order == known \o more
<1>1. DOMAIN requested = 1 .. Len(requested)
  OBVIOUS
<1>2. S \in SUBSET (1 .. Len(requested)) /\ \A n \in S : ~Contains(known, requested[n])
  BY <1>1
<1>3. more = ElementsAt(requested, S)
  BY DEF Unlisted
<1> HIDE DEF S, more
<1>4. /\ c \in Nat /\ more \in Seq(Docs) /\ Len(more) = c
      /\ \A k \in 1 .. c : at[k] \in S /\ more[k] = requested[at[k]]
      /\ \A j, k \in 1 .. c : j < k => at[j] < at[k]
  BY <1>2, <1>3, ElementsAtFacts
<1> HIDE DEF c, at
<1>5. ASSUME NEW j \in 1 .. c, NEW k \in 1 .. c, more[j] = more[k] PROVE j = k
  <2>0. at[j] \in 1 .. Len(requested) /\ at[k] \in 1 .. Len(requested)
    BY <1>2, <1>4
  <2>1. at[j] = at[k] /\ at[j] \in Nat
    BY <1>4, <1>5, <2>0 DEF Distinct
  <2>2. ~(at[j] < at[k]) /\ ~(at[k] < at[j])
    BY <2>1
  <2>3. ~(j < k) /\ ~(k < j)
    BY <1>4, <2>2
  <2> QED
    BY <2>3
<1>6. \A j \in 1 .. Len(known) : \A k \in 1 .. c : known[j] # more[k]
  BY <1>2, <1>4 DEF Contains
<1>7. Len(known) \in Nat
  BY LenProperties
<1>8. /\ order \in Seq(Docs)
      /\ \A p \in 1 .. Len(known) : p \in 1 .. Len(order) /\ order[p] = known[p]
      /\ \A k \in 1 .. c : Len(known) + k \in 1 .. Len(order) /\ order[Len(known) + k] = more[k]
      /\ \A p \in 1 .. Len(order) :
           p \in 1 .. Len(known) \/ \E k \in 1 .. c : p = Len(known) + k
  <2> HIDE DEF order
  <2>1. order = known \o more
    BY DEF order
  <2>2. /\ known \o more \in Seq(Docs)
        /\ \A p \in 1 .. Len(known) : p \in 1 .. Len(known \o more) /\ (known \o more)[p] = known[p]
        /\ \A k \in 1 .. Len(more) :
             Len(known) + k \in 1 .. Len(known \o more) /\ (known \o more)[Len(known) + k] = more[k]
        /\ \A p \in 1 .. Len(known \o more) :
             p \in 1 .. Len(known) \/ \E k \in 1 .. Len(more) : p = Len(known) + k
    BY <1>4, ConcatFacts, ZenonT(60)
  <2> QED
    BY <1>4, <2>1, <2>2
<1> HIDE DEF order
<1>9. ASSUME NEW p \in 1 .. Len(order), NEW q \in 1 .. Len(order), order[p] = order[q] PROVE p = q
  <2>1. CASE p \in 1 .. Len(known) /\ q \in 1 .. Len(known)
    BY <1>8, <1>9, <2>1 DEF Distinct
  <2>2. CASE p \in 1 .. Len(known) /\ \E k \in 1 .. c : q = Len(known) + k
    BY <1>6, <1>8, <1>9, <2>2
  <2>3. CASE q \in 1 .. Len(known) /\ \E k \in 1 .. c : p = Len(known) + k
    BY <1>6, <1>8, <1>9, <2>3
  <2>4. ASSUME NEW j \in 1 .. c, NEW k \in 1 .. c, p = Len(known) + j, q = Len(known) + k
        PROVE  p = q
    BY <1>5, <1>8, <1>9, <2>4
  <2> QED
    BY <1>8, <2>1, <2>2, <2>3, <2>4
<1>10. \A d : Contains(known, d) => Contains(order, d)
  BY <1>8 DEF Contains
<1> QED
  BY <1>8, <1>9, <1>10 DEF Distinct, order, more

-----------------------------------------------------------------------------
(* The directory: what holds whatever happens.                             *)

Jobs ==
  [step : {"collect", "fixtures", "module"}, requested : Seq(Docs), todo : Seq(Docs),
   order : Seq(Docs), rows : [Docs -> Seq(AllRows)], fixtures : Seq(AllFixtures),
   status : {0, 1}, fresh : BOOLEAN]

\* A fixture file is there, or somebody removed it.
Present(s) == files[s] # NoFile \/ s \in removed

\* A fixture that is collected and not yet written.
Awaited(f) == job.step = "fixtures" /\ f \in Range(job.fixtures)

Typed ==
  /\ \A d \in Docs : docs[d] \in Texts[d] \cup {NoDocument}
  /\ files \in [Sources -> Contents]
  /\ manifest \in [rows : Seq(AllRows), cut : BOOLEAN]
  /\ job = Idle \/ job \in Jobs

\* The rows of the manifest and the entries of the module name fixture files
\* that are there; so do the rows an extract holds, but for those it is about
\* to write.
Named ==
  /\ \A f \in Range(manifest.rows) : Present(f.source)
  /\ \A entry \in Listed : entry.source \in Sources /\ Present(entry.source)
  /\ job # Idle => \A d \in Docs : \A f \in Range(job.rows[d]) :
                     f.doc = d /\ (Present(f.source) \/ Awaited(f))

\* Nothing is reported while an extract runs; a check that passes reported
\* the state that is still there.
Reported ==
  /\ job # Idle => last = NoCommand
  /\ Passed("check") => Errors = {}

DirInv == Typed /\ Named /\ Reported

\* What the documents define is typed.
LEMMA FixtureType ==
  ASSUME NEW f \in AllFixtures
  PROVE  /\ f.doc \in Docs /\ f.source \in Sources
         /\ f.sha256 \in Contents /\ f.sha256 # NoFile
<1>1. PICK d \in Docs : \E t \in Texts[d] : f \in Range(Read[d][t].fixtures)
  BY DEF AllFixtures
<1>2. PICK t \in Texts[d] : f \in Range(Read[d][t].fixtures)
  BY <1>1
<1>3. Read[d][t] = CollectFixtures(d, t)
  BY DEF Read
<1>4. d.dirs \in Seq(Range(d.dirs)) /\ t \in Seq(Range(t))
  BY DocumentsAssumption
<1>5. f.doc = d
  BY <1>2, <1>3, <1>4, CollectFacts
<1> QED
  BY <1>5, DocumentsAssumption DEF Sources, Contents

\* So is what the manifest keeps of it.
LEMMA RowType ==
  /\ AllFixtures \subseteq AllRows
  /\ \A row \in AllRows : HalfRow(row) \in AllRows /\ HalfRow(row).source = row.source
  /\ \A row \in AllRows : row.doc \in Docs /\ row.source \in Sources
<1>1. \A f \in AllFixtures : HalfRow(f).doc = f.doc /\ HalfRow(f).source = f.source
  BY DEF HalfRow
<1>2. \A f \in AllFixtures : f.doc \in Docs /\ f.source \in Sources
  BY FixtureType
<1>3. \A row : HalfRow(row).source = row.source
  BY DEF HalfRow
<1>4. ASSUME NEW f \in AllFixtures PROVE HalfRow(HalfRow(f)) = HalfRow(f)
  <2>1. ErrorOf(Cut).of[1] = Cut /\ Cut \notin Tabbed
    BY DocumentsAssumption DEF ErrorOf
  <2>2. ~Splits(HalfRow(f))
    BY <2>1 DEF HalfRow, Splits
  <2> QED
    BY <2>2 DEF HalfRow
<1>5. \A f \in AllFixtures : HalfRow(f) \in AllRows
  BY DEF AllRows
<1>6. \A row \in AllRows : HalfRow(row) \in AllRows
  BY <1>4, <1>5 DEF AllRows
<1> QED
  BY <1>1, <1>2, <1>3, <1>6 DEF AllRows

LEMMA CollectType ==
  ASSUME Typed, NEW d \in Docs, Collect(d).usable
  PROVE  LET fs == Collect(d).fixtures
         IN  /\ fs \in Seq(AllFixtures)
             /\ \A f \in Range(fs) : f.doc = d /\ f \in AllFixtures
             /\ \A j, k \in 1 .. Len(fs) :
                  j # k => fs[j].id # fs[k].id /\ fs[j].source # fs[k].source
<1> DEFINE t == docs[d]
           fs == Collect(d).fixtures
<1>1. t \in Texts[d] /\ Collect(d) = Read[d][t]
  BY DEF Typed, Collect
<1>2. Read[d][t] = CollectFixtures(d, t)
  BY <1>1 DEF Read
<1>3. d.dirs \in Seq(Range(d.dirs)) /\ t \in Seq(Range(t))
  BY <1>1, DocumentsAssumption
<1> HIDE DEF t
<1>4. /\ fs \in Seq(Range(fs))
      /\ \A f \in Range(fs) : f.doc = d
      /\ \A j, k \in 1 .. Len(fs) :
           j # k => fs[j].id # fs[k].id /\ fs[j].source # fs[k].source
  BY <1>1, <1>2, <1>3, CollectFacts, SMTT(40)
<1>5. Range(fs) \subseteq AllFixtures
  BY <1>1 DEF AllFixtures
<1> HIDE DEF fs
<1>6. fs \in Seq(AllFixtures)
  BY <1>4, <1>5, WiderSeq
<1> QED
  BY <1>4, <1>5, <1>6 DEF fs

\* The rows that extract writes are those it holds, document by document.
LEMMA MergedFacts ==
  ASSUME job \in Jobs
  PROVE  /\ Merged \in Seq(AllRows)
         /\ \E off \in [0 .. Len(job.order) -> Nat] :
              /\ \A i \in 1 .. Len(job.order) : \A k \in 1 .. Len(job.rows[job.order[i]]) :
                   /\ off[i - 1] + k \in 1 .. Len(Merged)
                   /\ Merged[off[i - 1] + k] = job.rows[job.order[i]][k]
              /\ \A p \in 1 .. Len(Merged) : \E i \in 1 .. Len(job.order) :
                   \E k \in 1 .. Len(job.rows[job.order[i]]) : p = off[i - 1] + k
<1> DEFINE N == Len(job.order)
           seqs == [n \in 1 .. N |-> job.rows[job.order[n]]]
<1>1. job.order \in Seq(Docs) /\ job.rows \in [Docs -> Seq(AllRows)]
  BY DEF Jobs
<1>2. DOMAIN job.order = 1 .. N /\ N \in Nat /\ \A n \in 1 .. N : job.order[n] \in Docs
  BY <1>1, LenProperties, ElementOfSeq
<1>3. Merged = FlattenSeq(seqs)
  BY <1>2 DEF Merged
<1>4. seqs \in Seq(Seq(AllRows)) /\ Len(seqs) = N
  <2>1. seqs \in [1 .. N -> Seq(AllRows)]
    BY <1>1, <1>2
  <2> HIDE DEF seqs, N
  <2> QED
    BY <1>2, <2>1, FunctionIsSequence
<1>5. \A n \in 1 .. N : seqs[n] = job.rows[job.order[n]]
  OBVIOUS
<1> HIDE DEF seqs, N
<1>6. Merged \in Seq(AllRows) /\ \E off : Flattened(seqs, Merged, off)
  BY <1>3, <1>4, FlattenFacts
<1>7. PICK off : Flattened(seqs, Merged, off)
  BY <1>6
<1>8. off \in [0 .. N -> Nat]
  BY <1>4, <1>7 DEF Flattened
<1>9. \A i \in 1 .. N : \A k \in 1 .. Len(job.rows[job.order[i]]) :
        off[i - 1] + k \in 1 .. Len(Merged) /\ Merged[off[i - 1] + k] = job.rows[job.order[i]][k]
  BY <1>4, <1>5, <1>7 DEF Flattened
<1>10. \A p \in 1 .. Len(Merged) : \E i \in 1 .. N : \E k \in 1 .. Len(job.rows[job.order[i]]) :
         p = off[i - 1] + k
  <2> SUFFICES ASSUME NEW p \in 1 .. Len(Merged)
               PROVE  \E i \in 1 .. N : \E k \in 1 .. Len(job.rows[job.order[i]]) :
                        p = off[i - 1] + k
    OBVIOUS
  <2>1. PICK i \in 1 .. N : \E k \in 1 .. Len(seqs[i]) : p = off[i - 1] + k
    BY <1>4, <1>7 DEF Flattened
  <2>2. PICK k \in 1 .. Len(seqs[i]) : p = off[i - 1] + k
    BY <2>1
  <2>3. k \in 1 .. Len(job.rows[job.order[i]])
    BY <1>5, <2>2
  <2> QED
    BY <2>2, <2>3
<1> QED
  BY <1>6, <1>8, <1>9, <1>10 DEF N

LEMMA MergedRange ==
  ASSUME job \in Jobs, NEW f \in Range(Merged)
  PROVE  \E d \in Docs : f \in Range(job.rows[d])
<1>1. PICK off \in [0 .. Len(job.order) -> Nat] :
        /\ \A i \in 1 .. Len(job.order) : \A k \in 1 .. Len(job.rows[job.order[i]]) :
             /\ off[i - 1] + k \in 1 .. Len(Merged)
             /\ Merged[off[i - 1] + k] = job.rows[job.order[i]][k]
        /\ \A p \in 1 .. Len(Merged) : \E i \in 1 .. Len(job.order) :
             \E k \in 1 .. Len(job.rows[job.order[i]]) : p = off[i - 1] + k
  BY MergedFacts
<1>2. DOMAIN Merged = 1 .. Len(Merged)
  BY MergedFacts
<1>3. PICK p \in 1 .. Len(Merged) : f = Merged[p]
  BY <1>2 DEF Range
<1>4. PICK i \in 1 .. Len(job.order) : \E k \in 1 .. Len(job.rows[job.order[i]]) :
        f = job.rows[job.order[i]][k]
  <2>1. PICK i \in 1 .. Len(job.order) : \E k \in 1 .. Len(job.rows[job.order[i]]) :
          p = off[i - 1] + k
    BY <1>1
  <2>2. PICK k \in 1 .. Len(job.rows[job.order[i]]) : p = off[i - 1] + k
    BY <2>1
  <2>3. Merged[off[i - 1] + k] = job.rows[job.order[i]][k]
    BY <1>1
  <2>4. f = job.rows[job.order[i]][k]
    BY <1>3, <2>2, <2>3
  <2> QED
    BY <2>4
<1>5. job.order[i] \in Docs
  BY ElementOfSeq DEF Jobs
<1>6. job.rows[job.order[i]] \in Seq(AllRows)
  BY <1>5 DEF Jobs
<1>7. DOMAIN job.rows[job.order[i]] = 1 .. Len(job.rows[job.order[i]])
  BY <1>6
<1> QED
  BY <1>4, <1>5, <1>7 DEF Range

\* What check reports depends on the files it reads only.
LEMMA SameReadings ==
  ASSUME UNCHANGED <<docs, files, manifest>>
  PROVE  /\ RowSet' = RowSet /\ RepeatsAPair' = RepeatsAPair /\ Rows' = Rows
         /\ \A row : RowErrors(row)' = RowErrors(row)
<1>1. \A d : Collect(d)' = Collect(d)
  BY DEF Collect
<1>2. Rows' = Rows /\ RowSet' = RowSet /\ RepeatsAPair' = RepeatsAPair
  BY DEF Rows, RowSet, RepeatsAPair
<1>3. \A d, id : FixturesNamed(d, id)' = FixturesNamed(d, id)
  BY <1>1 DEF FixturesNamed
<1>4. \A row : RowErrors(row)' = RowErrors(row)
  BY <1>1, <1>3, ZenonT(60) DEF RowErrors
<1> QED
  BY <1>2, <1>4

LEMMA SameErrors ==
  ASSUME UNCHANGED <<docs, files, manifest, zig>>
  PROVE  Errors' = Errors
<1>1. (UNION {RowErrors(row) : row \in RowSet})' = UNION {RowErrors(row) : row \in RowSet}
  BY SameReadings
<1>2. Rows' = Rows /\ RepeatsAPair' = RepeatsAPair
  BY SameReadings
<1> QED
  BY <1>1, <1>2 DEF Errors

\* A job is idle or knows what it does.
LEMMA JobFacts ==
  ASSUME Typed
  PROVE  /\ job.step \in {"collect", "fixtures", "module"} <=> job # Idle
         /\ job # Idle => job \in Jobs
BY DEF Typed, Jobs, Idle

\* What is written stays there, and so does everything else.
LEMMA PutKeeps ==
  ASSUME Typed, job \in Jobs, job.fixtures # <<>>,
         NEW content \in Contents, content # NoFile, PutFixture(content)
  PROVE  LET f == Head(job.fixtures)
         IN  /\ f \in AllFixtures /\ f \in Range(job.fixtures) /\ f.source \in Sources
             /\ files' \in [Sources -> Contents]
             /\ files' = [files EXCEPT ![f.source] = content]
             /\ files'[f.source] = content
             /\ \A s \in Sources : Present(s) => Present(s)'
<1> DEFINE f == Head(job.fixtures)
<1>1. job.fixtures \in Seq(AllFixtures)
  BY DEF Jobs
<1>2. f \in AllFixtures /\ f \in Range(job.fixtures)
  BY <1>1, FirstElement DEF Range
<1>3. f.source \in Sources
  BY <1>2, FixtureType
<1>4. files' = [files EXCEPT ![f.source] = content] /\ removed' = removed \ {f.source}
  BY DEF PutFixture
<1>5. files \in [Sources -> Contents]
  BY DEF Typed
<1> HIDE DEF f
<1>6. files' \in [Sources -> Contents]
  BY <1>3, <1>4, <1>5
<1>7. files'[f.source] = content
  BY <1>3, <1>4, <1>5
<1>8. ASSUME NEW s \in Sources, Present(s) PROVE Present(s)'
  <2>1. CASE s = f.source
    BY <1>7, <2>1 DEF Present
  <2>2. CASE s # f.source
    <3>1. files'[s] = files[s]
      BY <1>4, <1>5, <2>2
    <3> QED
      BY <1>4, <1>8, <2>2, <3>1 DEF Present
  <2> QED
    BY <2>1, <2>2
<1> QED
  BY <1>2, <1>3, <1>4, <1>6, <1>7, <1>8 DEF f

\* The rest of a list.
LEMMA TailFacts ==
  ASSUME NEW T, NEW q \in Seq(T), q # <<>>
  PROVE  /\ Tail(q) \in Seq(T)
         /\ \A e \in Range(q) : e = Head(q) \/ e \in Range(Tail(q))
         /\ \A e \in Range(Tail(q)) : e \in Range(q)
<1>1. Len(q) \in Nat /\ Len(q) # 0 /\ DOMAIN q = 1 .. Len(q) /\ Head(q) = q[1]
  BY FirstElement, LenProperties, EmptySeq
<1>2. /\ Tail(q) \in Seq(T) /\ Len(Tail(q)) = Len(q) - 1
      /\ \A i \in 1 .. Len(q) - 1 : Tail(q)[i] = q[i + 1]
  BY HeadTailProperties
<1>3. DOMAIN Tail(q) = 1 .. Len(q) - 1
  BY <1>2
<1>4. ASSUME NEW i \in 1 .. Len(q), i # 1 PROVE q[i] \in Range(Tail(q))
  <2>1. i - 1 \in 1 .. Len(q) - 1 /\ (i - 1) + 1 = i
    BY <1>1, <1>4
  <2>2. Tail(q)[i - 1] = q[i]
    BY <1>2, <2>1
  <2> QED
    BY <1>3, <2>1, <2>2 DEF Range
<1>5. ASSUME NEW i \in 1 .. Len(q) - 1 PROVE Tail(q)[i] \in Range(q)
  <2>1. i + 1 \in 1 .. Len(q)
    BY <1>1
  <2> QED
    BY <1>1, <1>2, <2>1 DEF Range
<1> QED
  BY <1>1, <1>2, <1>3, <1>4, <1>5 DEF Range

LEMMA DirInitial == Init => DirInv
<1> SUFFICES ASSUME Init PROVE DirInv
  OBVIOUS
<1>1. Typed
  <2>1. files \in [Sources -> Contents]
    BY DEF Init, Contents
  <2>2. manifest \in [rows : Seq(AllRows), cut : BOOLEAN]
    BY DEF Init
  <2> QED
    BY <2>1, <2>2 DEF Init, Typed
<1>2. Named
  <2>1. manifest.rows = <<>> /\ zig = NoFile /\ job = Idle
    BY DEF Init
  <2>2. Range(manifest.rows) = {} /\ Listed = {}
    BY <2>1 DEF Range, Listed
  <2> QED
    BY <2>1, <2>2 DEF Named
<1>3. Reported
  BY DEF Init, Reported, Passed, NoCommand
<1> QED
  BY <1>1, <1>2, <1>3 DEF DirInv

\* The requests are lists of documents, none twice.
LEMMA RequestType ==
  ASSUME NEW requested \in Requests
  PROVE  requested \in Seq(Docs) /\ Distinct(requested)
<1>1. PICK n \in 1 .. Cardinality(Docs) : requested \in [1 .. n -> Docs]
  BY DEF Requests
<1>2. n \in Nat
  BY DocumentsAssumption, FS_CardinalityType
<1>3. requested \in Seq(Docs) /\ Len(requested) = n
  BY <1>1, <1>2, FunctionIsSequence
<1>4. IsInjective(requested)
  BY DEF Requests
<1>5. Distinct(requested)
  BY <1>1, <1>3, <1>4 DEF IsInjective, Distinct
<1> QED
  BY <1>3, <1>5

LEMMA DirCheck ==
  ASSUME DirInv, NEW strict \in BOOLEAN, Check(strict)
  PROVE  DirInv'
<1>1. /\ UNCHANGED <<docs, files, manifest, zig, job, removed>> /\ job = Idle
      /\ last' = [command |-> "check", strict |-> strict,
                  status |-> IF Errors # {} \/ (strict /\ Warnings) THEN 1 ELSE 0]
  BY DEF Check
<1>2. Typed'
  BY <1>1 DEF DirInv, Typed
<1>3. Named'
  BY <1>1 DEF DirInv, Named, Listed, Present, Awaited
<1>4. Passed("check")' => Errors' = {}
  BY <1>1, SameErrors DEF Passed
<1> QED
  BY <1>1, <1>2, <1>3, <1>4 DEF DirInv, Reported

LEMMA DirExtract ==
  ASSUME DirInv, NEW requested \in Requests, Extract(requested)
  PROVE  DirInv'
<1>1. UNCHANGED <<docs, files, manifest, zig, removed>> /\ job = Idle
  BY DEF Extract
<1>2. CASE ~Loads(manifest)
  <2>1. job' = job /\ last'.command = "extract"
    BY <1>2 DEF Extract
  <2>2. Typed' /\ Named'
    BY <1>1, <2>1 DEF DirInv, Typed, Named, Listed, Present, Awaited
  <2> QED
    BY <1>1, <2>1, <2>2 DEF DirInv, Reported, Passed
<1>3. CASE Loads(manifest)
  <2> DEFINE known == OrderedDocs(Rows)
             order == known \o Unlisted(requested, known)
  <2>1. /\ last' = NoCommand
        /\ job' = [step |-> "collect", requested |-> requested, todo |-> requested,
                   order |-> order, rows |-> ByDoc(Rows), fixtures |-> <<>>, status |-> 0,
                   fresh |-> TRUE]
    BY <1>3 DEF Extract
  <2>2. requested \in Seq(Docs) /\ Distinct(requested)
    BY RequestType
  <2>3. Rows \in Seq(AllRows) /\ \A f \in AllRows : f.doc \in Docs
    BY RowType DEF DirInv, Typed, Rows
  <2>4. known \in Seq(Docs) /\ Distinct(known)
    BY <2>3, OrderedDocsFacts
  <2>5. order \in Seq(Docs)
    BY <2>2, <2>4, OrderFacts
  <2>6. ByDoc(Rows) \in [Docs -> Seq(AllRows)]
    BY <2>3, RowsOfFacts DEF ByDoc
  <2>7. <<>> \in Seq(AllRows)
    OBVIOUS
  <2> HIDE DEF known, order
  <2>8. job' \in Jobs /\ job' # Idle
    BY <2>1, <2>2, <2>5, <2>6, <2>7 DEF Jobs, Idle
  <2>9. Typed'
    BY <1>1, <2>8 DEF DirInv, Typed
  <2>10. ASSUME NEW d \in Docs, NEW f \in Range(job'.rows[d])
         PROVE  f.doc = d /\ Present(f.source)'
    <3>1. job'.rows[d] = RowsOf(Rows, d)
      BY <2>1 DEF ByDoc
    <3>2. f.doc = d /\ f \in Range(Rows)
      BY <2>3, <2>10, <3>1, RowsOfFacts
    <3>3. Present(f.source)
      BY <3>2 DEF DirInv, Named, Rows
    <3> QED
      BY <1>1, <3>2, <3>3 DEF Present
  <2>11. Named'
    <3>1. (\A f \in Range(manifest.rows) : Present(f.source))'
      BY <1>1 DEF DirInv, Named, Present
    <3>2. (\A entry \in Listed : entry.source \in Sources /\ Present(entry.source))'
      BY <1>1 DEF DirInv, Named, Listed, Present
    <3> QED
      BY <2>10, <3>1, <3>2 DEF Named
  <2> QED
    BY <2>1, <2>9, <2>11 DEF DirInv, Reported, Passed, NoCommand
<1> QED
  BY <1>2, <1>3

\* A step of an extract reports nothing until it ends, and its end is not the
\* end of a check.
LEMMA StillUnreported ==
  ASSUME Reported, job # Idle,
         \/ UNCHANGED last
         \/ last' = NoCommand
         \/ job' = Idle /\ last'.command = "extract"
  PROVE  Reported'
BY DEF Reported, Passed, NoCommand

LEMMA DirCollect ==
  ASSUME DirInv, CollectDocument
  PROVE  DirInv'
<1> DEFINE d == Head(job.todo)
           found == Collect(d)
<1>1. /\ UNCHANGED <<docs, files, manifest, zig, last, removed>>
      /\ job.step = "collect" /\ job.todo # <<>>
      /\ job' = IF found.usable
                THEN [job EXCEPT !.todo = Tail(@), !.rows[d] = found.fixtures,
                                 !.fixtures = found.fixtures, !.step = "fixtures"]
                ELSE [job EXCEPT !.todo = Tail(@), !.status = 1]
  BY DEF CollectDocument
<1>2. job \in Jobs /\ job # Idle
  BY <1>1, JobFacts DEF DirInv
<1>3. d \in Docs /\ Tail(job.todo) \in Seq(Docs)
  <2>1. job.todo \in Seq(Docs)
    BY <1>2 DEF Jobs
  <2> QED
    BY <1>1, <2>1, HeadTailProperties
<1>4. found.usable => /\ found.fixtures \in Seq(AllFixtures) /\ found.fixtures \in Seq(AllRows)
                      /\ \A f \in Range(found.fixtures) : f.doc = d /\ f \in AllFixtures
  <2> SUFFICES ASSUME found.usable
               PROVE  /\ found.fixtures \in Seq(AllFixtures) /\ found.fixtures \in Seq(AllRows)
                      /\ \A f \in Range(found.fixtures) : f.doc = d /\ f \in AllFixtures
    OBVIOUS
  <2>1. /\ found.fixtures \in Seq(AllFixtures)
        /\ \A f \in Range(found.fixtures) : f.doc = d /\ f \in AllFixtures
    BY <1>3, CollectType DEF DirInv
  <2> HIDE DEF found
  <2>2. found.fixtures \in Seq(AllRows)
    BY <2>1, RowType, WiderSeq
  <2> QED
    BY <2>1, <2>2
<1> HIDE DEF d, found
<1>5. Reported'
  BY <1>1, <1>2, StillUnreported DEF DirInv
<1>6. (\A f \in Range(manifest.rows) : Present(f.source))'
  BY <1>1 DEF DirInv, Named, Present
<1>7. (\A entry \in Listed : entry.source \in Sources /\ Present(entry.source))'
  BY <1>1 DEF DirInv, Named, Listed, Present
<1>8. CASE found.usable
  <2>1. job' = [job EXCEPT !.todo = Tail(@), !.rows[d] = found.fixtures,
                           !.fixtures = found.fixtures, !.step = "fixtures"]
    BY <1>1, <1>8
  <2>2. job' \in Jobs
    BY <1>2, <1>3, <1>4, <1>8, <2>1 DEF Jobs
  <2>3. Typed'
    BY <1>1, <2>2 DEF DirInv, Typed
  <2>4. /\ job'.step = "fixtures" /\ job'.fixtures = found.fixtures
        /\ job'.rows = [job.rows EXCEPT ![d] = found.fixtures]
    BY <1>2, <2>1 DEF Jobs
  <2>5. job.rows \in [Docs -> Seq(AllRows)]
    BY <1>2 DEF Jobs
  <2>6. ASSUME NEW e \in Docs, NEW f \in Range(job'.rows[e])
        PROVE  f.doc = e /\ (Present(f.source)' \/ Awaited(f)')
    <3>1. CASE e = d
      BY <1>3, <1>4, <1>8, <2>4, <2>5, <2>6, <3>1 DEF Awaited
    <3>2. CASE e # d
      <4>1. f \in Range(job.rows[e])
        BY <2>4, <2>5, <2>6, <3>2
      <4>2. f.doc = e /\ (Present(f.source) \/ Awaited(f))
        BY <1>2, <4>1 DEF DirInv, Named
      <4> QED
        BY <1>1, <4>2 DEF Present, Awaited
    <3> QED
      BY <3>1, <3>2
  <2> QED
    BY <1>5, <1>6, <1>7, <2>3, <2>6 DEF DirInv, Named
<1>9. CASE ~found.usable
  <2>1. job' = [job EXCEPT !.todo = Tail(@), !.status = 1]
    BY <1>1, <1>9
  <2>2. job' \in Jobs /\ job'.rows = job.rows
    BY <1>2, <1>3, <2>1 DEF Jobs
  <2>3. Typed'
    BY <1>1, <2>2 DEF DirInv, Typed
  <2>4. ASSUME NEW e \in Docs, NEW f \in Range(job'.rows[e])
        PROVE  f.doc = e /\ Present(f.source)'
    <3>1. f.doc = e /\ (Present(f.source) \/ Awaited(f))
      BY <1>2, <2>2, <2>4 DEF DirInv, Named
    <3> QED
      BY <1>1, <3>1 DEF Present, Awaited
  <2> QED
    BY <1>5, <1>6, <1>7, <2>3, <2>4 DEF DirInv, Named
<1> QED
  BY <1>8, <1>9

\* A fixture file that is written, whole or not, takes no name away.
LEMMA NamesStay ==
  ASSUME Typed, Named, \A s \in Sources : Present(s) => Present(s)', UNCHANGED <<manifest, zig>>
  PROVE  /\ (\A f \in Range(manifest.rows) : Present(f.source))'
         /\ (\A entry \in Listed : entry.source \in Sources /\ Present(entry.source))'
<1>1. ASSUME NEW f \in Range(manifest.rows) PROVE Present(f.source)'
  <2>1. manifest.rows \in Seq(AllRows)
    BY DEF Typed
  <2>2. f \in AllRows
    BY <1>1, <2>1, RangeEquality, ElementOfSeq
  <2>3. f.source \in Sources /\ Present(f.source)
    BY <1>1, <2>2, RowType DEF Named
  <2> QED
    BY <2>3
<1>2. ASSUME NEW entry \in Listed PROVE entry.source \in Sources /\ Present(entry.source)'
  <2>1. entry.source \in Sources /\ Present(entry.source)
    BY <1>2 DEF Named
  <2> QED
    BY <2>1
<1>3. Listed' = Listed
  BY DEF Listed
<1> QED
  BY <1>1, <1>2, <1>3

LEMMA DirWriteFixture ==
  ASSUME DirInv, WriteFixture
  PROVE  DirInv'
<1>1. UNCHANGED <<docs, manifest, zig, last>> /\ job.step = "fixtures"
  BY DEF WriteFixture
<1>2. job \in Jobs /\ job # Idle
  BY <1>1, JobFacts DEF DirInv
<1>3. Reported'
  BY <1>1, <1>2, StillUnreported DEF DirInv
<1>4. CASE job.fixtures = <<>>
  <2>1. job' = [job EXCEPT !.step = "collect"] /\ UNCHANGED <<files, removed>>
    BY <1>4 DEF WriteFixture
  <2>2. job' \in Jobs /\ job'.rows = job.rows
    BY <1>2, <2>1 DEF Jobs
  <2>3. Typed'
    BY <1>1, <2>1, <2>2 DEF DirInv, Typed
  <2>4. Range(job.fixtures) = {}
    BY <1>4 DEF Range
  <2>5. ASSUME NEW e \in Docs, NEW f \in Range(job'.rows[e])
        PROVE  f.doc = e /\ Present(f.source)'
    <3>1. f.doc = e /\ (Present(f.source) \/ Awaited(f))
      BY <1>2, <2>2, <2>5 DEF DirInv, Named
    <3> QED
      BY <2>1, <2>4, <3>1 DEF Present, Awaited
  <2>6. \A s \in Sources : Present(s) => Present(s)'
    BY <2>1 DEF Present
  <2> QED
    BY <1>1, <1>3, <2>3, <2>5, <2>6, NamesStay DEF DirInv, Named
<1>5. CASE job.fixtures # <<>>
  <2> DEFINE g == Head(job.fixtures)
  <2>1. PutFixture(g.sha256) /\ job' = [job EXCEPT !.fixtures = Tail(@)]
    BY <1>5 DEF WriteFixture
  <2>2. job.fixtures \in Seq(AllFixtures)
    BY <1>2 DEF Jobs
  <2>3. g \in AllFixtures
    BY <1>5, <2>2, HeadTailProperties
  <2>4. g.sha256 \in Contents /\ g.sha256 # NoFile
    BY <2>3, FixtureType
  <2>5. /\ files' \in [Sources -> Contents] /\ files'[g.source] = g.sha256
        /\ \A s \in Sources : Present(s) => Present(s)'
    BY <1>2, <1>5, <2>1, <2>4, PutKeeps DEF DirInv
  <2>6. /\ Tail(job.fixtures) \in Seq(AllFixtures)
        /\ \A f \in Range(job.fixtures) : f = g \/ f \in Range(Tail(job.fixtures))
    BY <1>5, <2>2, TailFacts
  <2> HIDE DEF g
  <2>7. /\ job' \in Jobs /\ job'.rows = job.rows
        /\ job'.fixtures = Tail(job.fixtures) /\ job'.step = "fixtures"
    BY <1>1, <1>2, <2>1, <2>6 DEF Jobs
  <2>8. Typed'
    BY <1>1, <2>5, <2>7 DEF DirInv, Typed
  <2>9. ASSUME NEW e \in Docs, NEW f \in Range(job'.rows[e])
        PROVE  f.doc = e /\ (Present(f.source)' \/ Awaited(f)')
    <3>1. f.doc = e /\ (Present(f.source) \/ Awaited(f))
      BY <1>2, <2>7, <2>9 DEF DirInv, Named
    <3>2. CASE f = g
      BY <2>4, <2>5, <3>1, <3>2 DEF Present
    <3>3. CASE Awaited(f) /\ f # g
      BY <2>6, <2>7, <3>1, <3>3 DEF Awaited
    <3>4. CASE Present(f.source)
      <4>1. job.rows[e] \in Seq(AllRows)
        BY <1>2, <2>9 DEF Jobs
      <4>2. f \in AllRows
        BY <2>7, <2>9, <4>1, RangeEquality, ElementOfSeq
      <4> QED
        BY <2>5, <3>1, <3>4, <4>2, RowType
    <3> QED
      BY <3>1, <3>2, <3>3, <3>4
  <2> QED
    BY <1>1, <1>3, <2>5, <2>8, <2>9, NamesStay DEF DirInv, Named
<1> QED
  BY <1>4, <1>5

\* The end of an extract, on time or not.
LEMMA EndsIdle ==
  ASSUME DirInv, job # Idle, job' = Idle, last' = NoCommand \/ last'.command = "extract",
         UNCHANGED docs,
         files' \in [Sources -> Contents],
         manifest' \in [rows : Seq(AllRows), cut : BOOLEAN],
         (\A f \in Range(manifest.rows) : Present(f.source))',
         (\A entry \in Listed : entry.source \in Sources /\ Present(entry.source))'
  PROVE  DirInv'
<1>1. Typed'
  BY DEF DirInv, Typed
<1>2. Named'
  BY DEF Named
<1>3. Reported'
  BY StillUnreported DEF DirInv
<1> QED
  BY <1>1, <1>2, <1>3 DEF DirInv

\* The rows an extract writes, when there is no fixture it still has to write.
LEMMA MergedArePresent ==
  ASSUME DirInv, job \in Jobs, job.step = "collect", NEW f \in Range(Merged)
  PROVE  f \in AllRows /\ Present(f.source)
<1>1. PICK d \in Docs : f \in Range(job.rows[d])
  BY MergedRange
<1>2. f \in AllRows
  <2>1. job.rows[d] \in Seq(AllRows)
    BY <1>1 DEF Jobs
  <2> QED
    BY <1>1, <2>1, RangeEquality, ElementOfSeq
<1>3. job # Idle /\ ~Awaited(f)
  BY DEF Idle, Awaited
<1> QED
  BY <1>1, <1>2, <1>3 DEF DirInv, Named

LEMMA DirWriteManifest ==
  ASSUME DirInv, WriteManifest
  PROVE  DirInv'
<1>1. /\ UNCHANGED <<docs, files, zig, removed>>
      /\ job.step = "collect" /\ job.todo = <<>>
  BY DEF WriteManifest
<1>2. job \in Jobs /\ job # Idle
  BY <1>1, JobFacts DEF DirInv
<1>3. (\A entry \in Listed : entry.source \in Sources /\ Present(entry.source))'
  BY <1>1 DEF DirInv, Named, Listed, Present
<1>4. CASE job.status # 0
  <2>1. Ended(job.status) /\ UNCHANGED manifest
    BY <1>4 DEF WriteManifest
  <2>2. job' = Idle /\ (last' = NoCommand \/ last'.command = "extract")
    BY <2>1 DEF Ended
  <2>3. (\A f \in Range(manifest.rows) : Present(f.source))'
    BY <1>1, <2>1 DEF DirInv, Named, Present
  <2>4. files' \in [Sources -> Contents] /\ manifest' \in [rows : Seq(AllRows), cut : BOOLEAN]
    BY <1>1, <2>1 DEF DirInv, Typed
  <2> QED
    BY <1>1, <1>2, <1>3, <2>2, <2>3, <2>4, EndsIdle
<1>5. CASE job.status = 0
  <2>1. /\ manifest' = [rows |-> Merged, cut |-> FALSE]
        /\ job' = [job EXCEPT !.step = "module"] /\ UNCHANGED last
    BY <1>5 DEF WriteManifest
  <2>2. Merged \in Seq(AllRows)
    BY <1>2, MergedFacts
  <2>3. job' \in Jobs /\ job'.rows = job.rows
    BY <1>2, <2>1 DEF Jobs
  <2>4. \A f \in Range(Merged) : Present(f.source)
    BY <1>1, <1>2, MergedArePresent
  <2> HIDE DEF Merged
  <2>5. Typed'
    BY <1>1, <2>1, <2>2, <2>3 DEF DirInv, Typed
  <2>6. (\A f \in Range(manifest.rows) : Present(f.source))'
    BY <1>1, <2>1, <2>4 DEF Present
  <2>7. ASSUME NEW e \in Docs, NEW f \in Range(job'.rows[e])
        PROVE  f.doc = e /\ Present(f.source)'
    <3>1. f.doc = e /\ (Present(f.source) \/ Awaited(f))
      BY <1>2, <2>3, <2>7 DEF DirInv, Named
    <3> QED
      BY <1>1, <3>1 DEF Present, Awaited
  <2>8. Reported'
    BY <1>2, <2>1, StillUnreported DEF DirInv
  <2> QED
    BY <1>3, <2>5, <2>6, <2>7, <2>8 DEF DirInv, Named
<1> QED
  BY <1>4, <1>5

\* The entries of a module built from rows name the files of the rows.
LEMMA RenderedEntries ==
  ASSUME NEW rows \in Seq(AllRows), zig' = RenderZig(rows), NEW entry, entry \in Listed'
  PROVE  \E f \in Range(rows) : f \in AllRows /\ entry.source = f.source
<1>1. PICK n \in DOMAIN rows : entry = RenderZig(rows)[n]
  BY DEF Listed, RenderZig
<1>2. entry = [id |-> rows[n].id, source |-> rows[n].source,
               target |-> rows[n].target, expected |-> rows[n].expected]
  BY <1>1 DEF RenderZig
<1>3. rows[n] \in Range(rows) /\ rows[n] \in AllRows
  <2>1. n \in 1 .. Len(rows)
    BY <1>1
  <2>2. rows[n] \in AllRows
    BY <2>1, ElementOfSeq
  <2> QED
    BY <1>1, <2>2 DEF Range
<1> QED
  BY <1>2, <1>3

LEMMA DirWriteModule ==
  ASSUME DirInv, WriteModule
  PROVE  DirInv'
<1>1. /\ UNCHANGED <<docs, files, manifest, removed>>
      /\ job.step = "module" /\ zig' = RenderZig(manifest.rows) /\ Ended(0)
  BY DEF WriteModule, Rows
<1>2. job # Idle
  BY <1>1 DEF Idle
<1>3. job' = Idle /\ (last' = NoCommand \/ last'.command = "extract")
  BY <1>1 DEF Ended
<1>4. files' \in [Sources -> Contents] /\ manifest' \in [rows : Seq(AllRows), cut : BOOLEAN]
  BY <1>1 DEF DirInv, Typed
<1>5. (\A f \in Range(manifest.rows) : Present(f.source))'
  BY <1>1 DEF DirInv, Named, Present
<1>6. ASSUME NEW entry, entry \in Listed'
      PROVE  entry.source \in Sources /\ Present(entry.source)'
  <2>1. manifest.rows \in Seq(AllRows)
    BY DEF DirInv, Typed
  <2>2. PICK f \in Range(manifest.rows) : f \in AllRows /\ entry.source = f.source
    BY <1>1, <1>6, <2>1, RenderedEntries
  <2>3. f.source \in Sources /\ Present(f.source)
    BY <2>2, RowType DEF DirInv, Named
  <2> QED
    BY <1>1, <2>2, <2>3 DEF Present
<1> QED
  BY <1>1, <1>2, <1>3, <1>4, <1>5, <1>6, EndsIdle

\* The rows at the beginning of a list.
LEMMA FirstRows ==
  ASSUME NEW rows \in Seq(AllRows), NEW l \in 0 .. Len(rows)
  PROVE  /\ SubSeq(rows, 1, l) \in Seq(AllRows) /\ Len(SubSeq(rows, 1, l)) = l
         /\ \A n \in 1 .. l : SubSeq(rows, 1, l)[n] = rows[n] /\ rows[n] \in Range(rows)
<1>1. DOMAIN rows = 1 .. Len(rows) /\ Len(rows) \in Nat /\ l \in Nat
  BY LenProperties
<1>2. \A n \in 1 .. l : n \in 1 .. Len(rows)
  BY <1>1
<1>3. SubSeq(rows, 1, l) = [n \in 1 .. l |-> rows[n]]
  BY <1>1
<1>4. SubSeq(rows, 1, l) \in [1 .. l -> AllRows]
  BY <1>2, <1>3, ElementOfSeq
<1>5. SubSeq(rows, 1, l) \in Seq(AllRows) /\ Len(SubSeq(rows, 1, l)) = l
  BY <1>1, <1>4, FunctionIsSequence
<1> QED
  BY <1>1, <1>2, <1>3, <1>5 DEF Range

\* What an interrupted write leaves names files that the rows name.
LEMMA CutManifestFacts ==
  ASSUME NEW rows \in Seq(AllRows), NEW m \in CutManifests(rows)
  PROVE  /\ m \in [rows : Seq(AllRows), cut : BOOLEAN]
         /\ \A f \in Range(m.rows) : \E g \in Range(rows) : f.source = g.source
<1>1. DOMAIN rows = 1 .. Len(rows) /\ Len(rows) \in Nat
  BY LenProperties
<1>2. ASSUME NEW l \in 0 .. Len(rows), NEW cut \in BOOLEAN,
             m = [rows |-> SubSeq(rows, 1, l), cut |-> cut]
      PROVE  /\ m \in [rows : Seq(AllRows), cut : BOOLEAN]
             /\ \A f \in Range(m.rows) : \E g \in Range(rows) : f.source = g.source
  <2> DEFINE q == SubSeq(rows, 1, l)
  <2>1. /\ q \in Seq(AllRows) /\ Len(q) = l
        /\ \A n \in 1 .. l : q[n] = rows[n] /\ rows[n] \in Range(rows)
    BY FirstRows
  <2>2. m = [rows |-> q, cut |-> cut]
    BY <1>2
  <2> HIDE DEF q
  <2>3. \A f \in Range(q) : f \in Range(rows)
    BY <2>1 DEF Range
  <2> QED
    BY <2>1, <2>2, <2>3
<1>3. ASSUME NEW l \in 1 .. Len(rows),
             m = [rows |-> [SubSeq(rows, 1, l) EXCEPT ![l] = HalfRow(rows[l])], cut |-> FALSE]
      PROVE  /\ m \in [rows : Seq(AllRows), cut : BOOLEAN]
             /\ \A f \in Range(m.rows) : \E g \in Range(rows) : f.source = g.source
  <2> DEFINE q == SubSeq(rows, 1, l)
             half == HalfRow(rows[l])
  <2>1. l \in 0 .. Len(rows) /\ rows[l] \in AllRows
    BY <1>1, ElementOfSeq
  <2>2. /\ q \in Seq(AllRows) /\ Len(q) = l
        /\ \A n \in 1 .. l : q[n] = rows[n] /\ rows[n] \in Range(rows)
    BY <2>1, FirstRows
  <2>3. half \in AllRows /\ half.source = rows[l].source
    BY <2>1, RowType
  <2>4. m = [rows |-> [q EXCEPT ![l] = half], cut |-> FALSE]
    BY <1>3
  <2> HIDE DEF q, half
  <2>5. [q EXCEPT ![l] = half] \in Seq(AllRows) /\ DOMAIN [q EXCEPT ![l] = half] = 1 .. l
    BY <2>2, <2>3
  <2>6. ASSUME NEW f \in Range([q EXCEPT ![l] = half])
        PROVE  \E g \in Range(rows) : f.source = g.source
    <3>1. PICK n \in 1 .. l : f = [q EXCEPT ![l] = half][n]
      BY <2>5, <2>6 DEF Range
    <3>2. rows[n] \in Range(rows) /\ f.source = rows[n].source
      BY <2>2, <2>3, <3>1
    <3> QED
      BY <3>2
  <2> QED
    BY <2>4, <2>5, <2>6
<1>4. \/ \E l \in 0 .. Len(rows) : m = [rows |-> SubSeq(rows, 1, l), cut |-> FALSE]
      \/ \E n \in {1} \cup DOMAIN rows : m = [rows |-> SubSeq(rows, 1, n - 1), cut |-> TRUE]
      \/ \E l \in DOMAIN rows :
           m = [rows |-> [SubSeq(rows, 1, l) EXCEPT ![l] = HalfRow(rows[l])], cut |-> FALSE]
  BY DEF CutManifests, Prefixes
<1>5. ASSUME NEW n \in {1} \cup DOMAIN rows PROVE n - 1 \in 0 .. Len(rows)
  BY <1>1
<1> QED
  BY <1>1, <1>2, <1>3, <1>4, <1>5

LEMMA DirInterrupt ==
  ASSUME DirInv, Interrupt
  PROVE  DirInv'
<1>1. job # Idle /\ job' = Idle /\ last' = NoCommand /\ UNCHANGED docs
  BY DEF Interrupt
<1>2. job \in Jobs
  BY <1>1, JobFacts DEF DirInv
<1>3. files \in [Sources -> Contents] /\ manifest \in [rows : Seq(AllRows), cut : BOOLEAN]
  BY DEF DirInv, Typed
<1>4. ASSUME \A s \in Sources : Present(s) => Present(s)', files' \in [Sources -> Contents],
             UNCHANGED <<manifest, zig>>
      PROVE  DirInv'
  <2>1. /\ (\A f \in Range(manifest.rows) : Present(f.source))'
        /\ (\A entry \in Listed : entry.source \in Sources /\ Present(entry.source))'
    BY <1>4, NamesStay DEF DirInv
  <2> QED
    BY <1>1, <1>3, <1>4, <2>1, EndsIdle
<1>5. CASE UNCHANGED <<files, manifest, zig, removed>>
  BY <1>3, <1>4, <1>5 DEF Present
<1>6. CASE job.fixtures # <<>> /\ PutFixture(Cut) /\ UNCHANGED <<manifest, zig>>
  <2>1. Cut \in Contents /\ Cut # NoFile
    BY DocumentsAssumption DEF Contents
  <2>2. files' \in [Sources -> Contents] /\ \A s \in Sources : Present(s) => Present(s)'
    BY <1>2, <1>6, <2>1, PutKeeps DEF DirInv
  <2> QED
    BY <1>4, <1>6, <2>2
<1>7. CASE /\ job.step = "collect" /\ manifest' \in CutManifests(Merged)
           /\ UNCHANGED <<files, zig, removed>>
  <2>1. Merged \in Seq(AllRows)
    BY <1>2, MergedFacts
  <2>2. \A f \in Range(Merged) : Present(f.source)
    BY <1>2, <1>7, MergedArePresent
  <2> HIDE DEF Merged
  <2>3. /\ manifest' \in [rows : Seq(AllRows), cut : BOOLEAN]
        /\ \A f \in Range(manifest'.rows) : \E g \in Range(Merged) : f.source = g.source
    BY <1>7, <2>1, CutManifestFacts
  <2>4. (\A f \in Range(manifest.rows) : Present(f.source))'
    BY <1>7, <2>2, <2>3 DEF Present
  <2>5. (\A entry \in Listed : entry.source \in Sources /\ Present(entry.source))'
    BY <1>7 DEF DirInv, Named, Listed, Present
  <2> QED
    BY <1>1, <1>3, <1>7, <2>3, <2>4, <2>5, EndsIdle
<1>8. CASE zig' = Cut /\ UNCHANGED <<files, manifest, removed>>
  <2>1. (\A f \in Range(manifest.rows) : Present(f.source))'
    BY <1>8 DEF DirInv, Named, Present
  <2>2. Listed' = {}
    BY <1>8 DEF Listed
  <2> QED
    BY <1>1, <1>3, <1>8, <2>1, <2>2, EndsIdle
<1>9. \/ UNCHANGED <<files, manifest, zig, removed>>
      \/ job.fixtures # <<>> /\ PutFixture(Cut) /\ UNCHANGED <<manifest, zig>>
      \/ /\ job.step = "collect"
         /\ manifest' \in CutManifests(Merged)
         /\ UNCHANGED <<files, zig, removed>>
      \/ zig' = Cut /\ UNCHANGED <<files, manifest, removed>>
  BY DEF Interrupt
<1> QED
  BY <1>5, <1>6, <1>7, <1>8, <1>9

\* An edit or a removal while an extract may be running.
LEMMA Noticed ==
  ASSUME Typed, NoticeEdit
  PROVE  /\ last' = NoCommand
         /\ (job' = Idle /\ job = Idle) \/ (job' \in Jobs /\ job' # Idle /\ job # Idle)
         /\ job # Idle => /\ job'.rows = job.rows /\ job'.step = job.step
                          /\ job'.fixtures = job.fixtures /\ job'.fresh = FALSE
                          /\ job'.order = job.order /\ job'.todo = job.todo
                          /\ job'.requested = job.requested /\ job'.status = job.status
<1>1. CASE job = Idle
  BY <1>1 DEF NoticeEdit
<1>2. CASE job # Idle
  <2>1. job \in Jobs /\ job' = [job EXCEPT !.fresh = FALSE] /\ last' = NoCommand
    BY <1>2 DEF NoticeEdit, Typed
  <2>2. job' \in Jobs
    BY <2>1 DEF Jobs
  <2>3. job' # Idle
    BY <2>2 DEF Jobs, Idle
  <2> QED
    BY <1>2, <2>1, <2>2, <2>3 DEF Jobs
<1> QED
  BY <1>1, <1>2

LEMMA DirEditDocument ==
  ASSUME DirInv, NEW d \in Docs, NEW text \in Texts[d] \cup {NoDocument}, EditDocument(d, text)
  PROVE  DirInv'
<1>1. /\ docs' = [docs EXCEPT ![d] = text] /\ NoticeEdit
      /\ UNCHANGED <<files, manifest, zig, removed>>
  BY DEF EditDocument
<1>2. /\ last' = NoCommand
      /\ (job' = Idle /\ job = Idle) \/ (job' \in Jobs /\ job' # Idle /\ job # Idle)
      /\ job # Idle => /\ job'.rows = job.rows /\ job'.step = job.step
                       /\ job'.fixtures = job.fixtures
  BY <1>1, Noticed DEF DirInv
<1>3. \A e \in Docs : docs'[e] \in Texts[e] \cup {NoDocument}
  BY <1>1 DEF DirInv, Typed
<1>4. Typed'
  BY <1>1, <1>2, <1>3 DEF DirInv, Typed
<1>5. Named'
  BY <1>1, <1>2 DEF DirInv, Named, Listed, Present, Awaited
<1>6. Reported'
  BY <1>2 DEF Reported, Passed, NoCommand
<1> QED
  BY <1>4, <1>5, <1>6 DEF DirInv

LEMMA DirRemoveFixture ==
  ASSUME DirInv, NEW s \in Sources, RemoveFixture(s)
  PROVE  DirInv'
<1>1. /\ files' = [files EXCEPT ![s] = NoFile] /\ removed' = removed \cup {s}
      /\ NoticeEdit /\ UNCHANGED <<docs, manifest, zig>>
  BY DEF RemoveFixture
<1>2. /\ last' = NoCommand
      /\ (job' = Idle /\ job = Idle) \/ (job' \in Jobs /\ job' # Idle /\ job # Idle)
      /\ job # Idle => /\ job'.rows = job.rows /\ job'.step = job.step
                       /\ job'.fixtures = job.fixtures
  BY <1>1, Noticed DEF DirInv
<1>3. files \in [Sources -> Contents] /\ NoFile \in Contents
  BY DEF DirInv, Typed, Contents
<1>4. files' \in [Sources -> Contents]
  BY <1>1, <1>3
<1>5. Typed'
  BY <1>1, <1>2, <1>4 DEF DirInv, Typed
<1>6. ASSUME NEW r \in Sources, Present(r) PROVE Present(r)'
  BY <1>1, <1>3, <1>6 DEF Present
<1>7. ASSUME NEW e \in Docs, job' # Idle, NEW f \in Range(job'.rows[e])
      PROVE  f.doc = e /\ (Present(f.source)' \/ Awaited(f)')
  <2>1. job # Idle /\ job \in Jobs /\ job'.rows = job.rows
    BY <1>2, <1>7, JobFacts DEF DirInv
  <2>2. f.doc = e /\ (Present(f.source) \/ Awaited(f))
    BY <1>7, <2>1 DEF DirInv, Named
  <2>3. job.rows[e] \in Seq(AllRows)
    BY <2>1 DEF Jobs
  <2>4. f \in AllRows
    BY <1>7, <2>1, <2>3, RangeEquality, ElementOfSeq
  <2>5. Present(f.source) => Present(f.source)'
    BY <1>6, <2>4, RowType
  <2>6. Awaited(f) => Awaited(f)'
    BY <1>2, <2>1 DEF Awaited
  <2> QED
    BY <2>2, <2>5, <2>6
<1>8. Named'
  BY <1>1, <1>6, <1>7, NamesStay DEF DirInv, Named
<1>9. Reported'
  BY <1>2 DEF Reported, Passed, NoCommand
<1> QED
  BY <1>5, <1>8, <1>9 DEF DirInv

LEMMA DirStep ==
  ASSUME DirInv, [Next]_vars
  PROVE  DirInv'
<1>1. CASE Next
  <2>1. CASE \E strict \in BOOLEAN : Check(strict)
    BY <2>1, DirCheck
  <2>2. CASE \E requested \in Requests : Extract(requested)
    BY <2>2, DirExtract
  <2>3. CASE CollectDocument
    BY <2>3, DirCollect
  <2>4. CASE WriteFixture
    BY <2>4, DirWriteFixture
  <2>5. CASE WriteManifest
    BY <2>5, DirWriteManifest
  <2>6. CASE WriteModule
    BY <2>6, DirWriteModule
  <2>7. CASE Interrupt
    BY <2>7, DirInterrupt
  <2>8. CASE \E d \in Docs : \E text \in Texts[d] \cup {NoDocument} : EditDocument(d, text)
    BY <2>8, DirEditDocument
  <2>9. CASE \E s \in Sources : RemoveFixture(s)
    BY <2>9, DirRemoveFixture
  <2> QED
    BY <1>1, <2>1, <2>2, <2>3, <2>4, <2>5, <2>6, <2>7, <2>8, <2>9 DEF Next
<1>2. CASE UNCHANGED vars
  <2>1. UNCHANGED <<docs, files, manifest, zig, job, last, removed>>
    BY <1>2 DEF vars
  <2>2. Errors' = Errors
    BY <2>1, SameErrors
  <2>3. Typed' /\ Named'
    BY <2>1 DEF DirInv, Typed, Named, Listed, Present, Awaited
  <2>4. Reported'
    BY <2>1, <2>2 DEF DirInv, Reported, Passed
  <2> QED
    BY <2>3, <2>4 DEF DirInv
<1> QED
  BY <1>1, <1>2

\* What a check that reports nothing says of the files it read.
LEMMA NothingReported ==
  ASSUME Typed, Errors = {}
  PROVE  CheckedFixturesAreTheManual
<1> SUFFICES ASSUME NEW entry \in Listed
             PROVE  \E d \in Docs : \E f \in FixturesNamed(d, entry.id) :
                      /\ Collect(d).usable
                      /\ [id |-> f.id, source |-> f.source, target |-> f.target,
                          expected |-> f.expected] = entry
                      /\ files[entry.source] = f.sha256
  BY DEF CheckedFixturesAreTheManual
<1>1. zig = RenderZig(Rows) /\ \A row \in RowSet : RowErrors(row) = {}
  <2>1. Loads(manifest)
    BY DEF Errors
  <2>2. /\ UNION {RowErrors(row) : row \in RowSet} = {}
        /\ (IF zig = RenderZig(Rows) THEN {} ELSE {"module"}) = {}
    BY <2>1 DEF Errors
  <2>3. \A row \in RowSet : RowErrors(row) = {}
    BY <2>2
  <2>4. zig = RenderZig(Rows)
    BY <2>2
  <2> QED
    BY <2>3, <2>4
<1>2. PICK n \in DOMAIN Rows : entry = RenderZig(Rows)[n]
  BY <1>1 DEF Listed, RenderZig
<1> DEFINE row == Rows[n]
           d == row.doc
           g == CHOOSE f \in FixturesNamed(d, row.id) : TRUE
<1>3. entry = [id |-> row.id, source |-> row.source, target |-> row.target,
               expected |-> row.expected]
  BY <1>2 DEF RenderZig
<1>4. row \in RowSet /\ row \in AllRows
  <2>1. Rows \in Seq(AllRows)
    BY DEF Typed, Rows
  <2>2. row \in AllRows
    BY <1>2, <2>1, ElementOfSeq
  <2> QED
    BY <1>2, <2>2 DEF RowSet
<1>5. d \in Docs
  BY <1>4, RowType
<1>6. RowErrors(row) = {}
  BY <1>1, <1>4
<1> HIDE DEF row
<1>7. Collect(d).usable /\ FixturesNamed(d, row.id) # {}
  BY <1>6 DEF RowErrors
<1>8. g \in FixturesNamed(d, row.id)
  BY <1>7
<1>9. /\ (IF row.source = g.source THEN {} ELSE {"moved"}) = {}
      /\ (IF row.target = g.target /\ row.case = g.case /\ row.expected = g.expected
         THEN {} ELSE {"declaration"}) = {}
      /\ (IF files[row.source] = NoFile THEN {"missing"}
         ELSE IF files[row.source] = g.sha256 THEN {} ELSE {"fixture file"}) = {}
  BY <1>6, <1>7 DEF RowErrors
<1>10. /\ row.source = g.source /\ row.target = g.target /\ row.expected = g.expected
       /\ files[row.source] = g.sha256
  BY <1>9
<1>11. g.id = row.id
  BY <1>8 DEF FixturesNamed
<1> HIDE DEF g
<1>12. /\ [id |-> g.id, source |-> g.source, target |-> g.target, expected |-> g.expected] = entry
       /\ files[entry.source] = g.sha256 /\ entry.id = row.id
  BY <1>3, <1>10, <1>11
<1> QED
  BY <1>5, <1>7, <1>8, <1>12

-----------------------------------------------------------------------------
(* The order of the documents, and the rows that nobody asked to extract.  *)

Collecting == job # Idle /\ job.step # "module"

\* An extract writes every document of the manifest once, and holds for the
\* documents it was not asked for the rows the manifest has.
OrderInv ==
  /\ job # Idle => Distinct(job.order)
  /\ Collecting =>
       /\ Range(job.todo) \subseteq Range(job.requested)
       /\ \A f \in Range(manifest.rows) : Contains(job.order, f.doc)
       /\ \A d \in Docs \ Range(job.requested) : job.rows[d] = RowsOf(manifest.rows, d)

\* The rows of a document in what is written are those that were held for it.
LEMMA RowsOfMerged ==
  ASSUME job \in Jobs, Distinct(job.order),
         \A e \in Docs : \A f \in Range(job.rows[e]) : f.doc = e,
         NEW d \in Docs
  PROVE  RowsOf(Merged, d) = IF Contains(job.order, d) THEN job.rows[d] ELSE <<>>
<1> DEFINE N == Len(job.order)
           S == {n \in DOMAIN Merged : Merged[n].doc = d}
           kept == job.rows[d]
           L == Len(kept)
<1>1. PICK off \in [0 .. N -> Nat] :
        /\ \A i \in 1 .. N : \A k \in 1 .. Len(job.rows[job.order[i]]) :
             /\ off[i - 1] + k \in 1 .. Len(Merged)
             /\ Merged[off[i - 1] + k] = job.rows[job.order[i]][k]
        /\ \A p \in 1 .. Len(Merged) : \E i \in 1 .. N :
             \E k \in 1 .. Len(job.rows[job.order[i]]) : p = off[i - 1] + k
  BY MergedFacts
<1>2. DOMAIN Merged = 1 .. Len(Merged)
  BY MergedFacts
<1>3. \A i \in 1 .. N : job.order[i] \in Docs
  BY ElementOfSeq DEF Jobs
<1>4. \A e \in Docs : job.rows[e] \in Seq(AllRows)
  BY DEF Jobs
<1>5. \A e \in Docs : DOMAIN job.rows[e] = 1 .. Len(job.rows[e]) /\ Len(job.rows[e]) \in Nat
  BY <1>4, LenProperties
<1>6. \A e \in Docs : \A k \in 1 .. Len(job.rows[e]) : job.rows[e][k].doc = e
  BY <1>5 DEF Range
<1>7. RowsOf(Merged, d) = ElementsAt(Merged, S)
  BY DEF RowsOf
<1>8. ASSUME NEW p \in S
      PROVE  \E i \in 1 .. N : job.order[i] = d /\ \E k \in 1 .. L : p = off[i - 1] + k
  <2>1. p \in 1 .. Len(Merged) /\ Merged[p].doc = d
    BY <1>2
  <2>2. PICK i \in 1 .. N : \E k \in 1 .. Len(job.rows[job.order[i]]) : p = off[i - 1] + k
    BY <1>1, <2>1
  <2>3. PICK k \in 1 .. Len(job.rows[job.order[i]]) : p = off[i - 1] + k
    BY <2>2
  <2>4. Merged[p] = job.rows[job.order[i]][k]
    BY <1>1, <2>3
  <2>5. job.order[i] = d
    BY <1>3, <1>6, <2>1, <2>4
  <2> QED
    BY <2>3, <2>5
<1>9. CASE ~Contains(job.order, d)
  <2>1. S = {}
    BY <1>8, <1>9 DEF Contains
  <2> HIDE DEF S, Merged
  <2>2. InOrder(S) = [k \in 1 .. 0 |-> 0 + k]
    <3>1. S = (0 + 1) .. (0 + 0)
      BY <2>1
    <3> QED
      BY <3>1, InOrderOfInterval
  <2>3. ElementsAt(Merged, S) = <<>>
    BY <2>2 DEF ElementsAt
  <2> QED
    BY <1>7, <1>9, <2>3
<1>10. CASE Contains(job.order, d)
  <2>1. PICK i \in 1 .. N : job.order[i] = d
    BY <1>10 DEF Contains
  <2>2. i - 1 \in 0 .. N
    BY LenProperties DEF Jobs
  <2> DEFINE a == off[i - 1]
  <2>3. a \in Nat /\ L \in Nat
    BY <1>5, <2>2
  <2>4. \A k \in 1 .. L : a + k \in 1 .. Len(Merged) /\ Merged[a + k] = kept[k]
    BY <1>1, <2>1
  <2>5. S = (a + 1) .. (a + L)
    <3>1. ASSUME NEW p \in S PROVE p \in (a + 1) .. (a + L)
      <4>1. PICK j \in 1 .. N : job.order[j] = d /\ \E k \in 1 .. L : p = off[j - 1] + k
        BY <1>8
      <4>2. j = i
        BY <2>1, <4>1 DEF Distinct
      <4>3. PICK k \in 1 .. L : p = a + k
        BY <4>1, <4>2
      <4> QED
        BY <2>3, <4>3
    <3>2. ASSUME NEW p \in (a + 1) .. (a + L) PROVE p \in S
      <4>1. p - a \in 1 .. L /\ p = a + (p - a)
        BY <2>3
      <4>2. p \in DOMAIN Merged /\ Merged[p] = kept[p - a]
        BY <1>2, <2>4, <4>1
      <4>3. kept[p - a].doc = d
        BY <1>6, <4>1
      <4> QED
        BY <4>2, <4>3
    <3> QED
      BY <3>1, <3>2
  <2>6. kept \in Seq(AllRows) /\ DOMAIN kept = 1 .. L
    BY <1>4, <1>5
  <2> HIDE DEF S, a, Merged, kept, L
  <2>7. InOrder(S) = [k \in 1 .. L |-> a + k]
    BY <2>3, <2>5, InOrderOfInterval
  <2>8. ElementsAt(Merged, S) = [k \in 1 .. L |-> Merged[a + k]]
    BY <2>7 DEF ElementsAt
  <2>9. ElementsAt(Merged, S) = [k \in 1 .. L |-> kept[k]]
    BY <2>4, <2>8
  <2>10. kept = [k \in 1 .. L |-> kept[k]]
    BY <2>6
  <2> QED
    BY <1>7, <1>10, <2>9, <2>10 DEF kept
<1> QED
  BY <1>9, <1>10

\* The documents without a row.
LEMMA NoRows ==
  ASSUME NEW rows \in Seq(AllRows), NEW d, \A f \in Range(rows) : f.doc # d
  PROVE  RowsOf(rows, d) = <<>>
<1>1. Range(RowsOf(rows, d)) = {}
  BY RowsOfFacts
<1>2. RowsOf(rows, d) \in Seq(AllRows)
  BY RowsOfFacts
<1> DEFINE q == RowsOf(rows, d)
<1>3. q \in Seq(AllRows) /\ Range(q) = {}
  BY <1>1, <1>2
<1> HIDE DEF q
<1>4. q = <<>>
  <2> SUFFICES ASSUME q # <<>> PROVE FALSE
    OBVIOUS
  <2>1. Len(q) \in Nat /\ 1 \in 1 .. Len(q) /\ DOMAIN q = 1 .. Len(q)
    BY <1>3, FirstElement
  <2>2. q[1] \in Range(q)
    BY <2>1 DEF Range
  <2> QED
    BY <1>3, <2>2
<1> QED
  BY <1>4 DEF q

LEMMA OrderExtract ==
  ASSUME DirInv, OrderInv, NEW requested \in Requests, Extract(requested)
  PROVE  OrderInv'
<1>1. job = Idle /\ UNCHANGED manifest
  BY DEF Extract
<1>2. CASE ~Loads(manifest)
  <2>1. job' = Idle
    BY <1>1, <1>2 DEF Extract
  <2> QED
    BY <2>1 DEF OrderInv, Collecting
<1>3. CASE Loads(manifest)
  <2> DEFINE known == OrderedDocs(Rows)
             order == known \o Unlisted(requested, known)
  <2>1. job' = [step |-> "collect", requested |-> requested, todo |-> requested,
                order |-> order, rows |-> ByDoc(Rows), fixtures |-> <<>>, status |-> 0,
                fresh |-> TRUE]
    BY <1>3 DEF Extract
  <2>2. requested \in Seq(Docs) /\ Distinct(requested)
    BY RequestType
  <2>3. Rows \in Seq(AllRows) /\ \A f \in AllRows : f.doc \in Docs
    BY RowType DEF DirInv, Typed, Rows
  <2>4. /\ known \in Seq(Docs) /\ Distinct(known)
        /\ \A f \in Range(Rows) : Contains(known, f.doc)
    BY <2>3, OrderedDocsFacts
  <2>5. Distinct(order) /\ \A d : Contains(known, d) => Contains(order, d)
    BY <2>2, <2>4, OrderFacts
  <2> HIDE DEF known, order
  <2>6. \A d \in Docs : job'.rows[d] = RowsOf(Rows, d)
    BY <2>1 DEF ByDoc
  <2>7. Rows = manifest.rows /\ Rows = manifest'.rows
    BY <1>1 DEF Rows
  <2>8. \A f \in Range(manifest'.rows) : Contains(order, f.doc)
    BY <2>4, <2>5, <2>7
  <2> QED
    BY <2>1, <2>5, <2>6, <2>7, <2>8 DEF OrderInv
<1> QED
  BY <1>2, <1>3

\* A step that keeps the manifest and the plan of the job keeps the order.
LEMMA OrderKept ==
  ASSUME OrderInv, job # Idle, UNCHANGED manifest, job'.order = job.order,
         job'.requested = job.requested, Collecting' => Collecting,
         Range(job'.todo) \subseteq Range(job.todo),
         \A d \in Docs \ Range(job.requested) : job'.rows[d] = job.rows[d]
  PROVE  OrderInv'
<1>1. Distinct(job'.order)
  BY DEF OrderInv
<1>2. CASE Collecting'
  BY <1>1, <1>2 DEF OrderInv
<1>3. CASE ~Collecting'
  BY <1>1, <1>3 DEF OrderInv
<1> QED
  BY <1>2, <1>3

LEMMA OrderCollect ==
  ASSUME DirInv, OrderInv, CollectDocument
  PROVE  OrderInv'
<1> DEFINE d == Head(job.todo)
           found == Collect(d)
<1>1. /\ UNCHANGED manifest /\ job.step = "collect" /\ job.todo # <<>>
      /\ job' = IF found.usable
                THEN [job EXCEPT !.todo = Tail(@), !.rows[d] = found.fixtures,
                                 !.fixtures = found.fixtures, !.step = "fixtures"]
                ELSE [job EXCEPT !.todo = Tail(@), !.status = 1]
  BY DEF CollectDocument
<1>2. job \in Jobs /\ job # Idle /\ Collecting
  BY <1>1, JobFacts DEF DirInv, Collecting
<1>3. job.todo \in Seq(Docs)
  BY <1>2 DEF Jobs
<1>4. d \in Range(job.todo) /\ Range(Tail(job.todo)) \subseteq Range(job.todo)
  <2>1. 1 \in DOMAIN job.todo /\ d = job.todo[1]
    BY <1>1, <1>3, FirstElement
  <2>2. Range(Tail(job.todo)) \subseteq Range(job.todo)
    BY <1>1, <1>3, TailFacts
  <2> QED
    BY <2>1, <2>2 DEF Range
<1>5. d \in Range(job.requested)
  BY <1>2, <1>4 DEF OrderInv
<1> HIDE DEF d, found
<1>6. /\ job'.todo = Tail(job.todo) /\ job'.order = job.order /\ job'.requested = job.requested
      /\ job'.rows = IF found.usable THEN [job.rows EXCEPT ![d] = found.fixtures] ELSE job.rows
  BY <1>1, <1>2 DEF Jobs
<1>7. \A e \in Docs \ Range(job.requested) : job'.rows[e] = job.rows[e]
  BY <1>2, <1>5, <1>6 DEF Jobs
<1> QED
  BY <1>1, <1>2, <1>4, <1>6, <1>7, OrderKept

LEMMA OrderStep ==
  ASSUME DirInv, OrderInv, [Next]_vars
  PROVE  OrderInv'
<1>1. ASSUME job' = Idle PROVE OrderInv'
  BY <1>1 DEF OrderInv, Collecting
<1>2. ASSUME UNCHANGED <<manifest, job>> PROVE OrderInv'
  BY <1>2 DEF OrderInv, Collecting
<1>3. CASE \E strict \in BOOLEAN : Check(strict)
  BY <1>2, <1>3 DEF Check
<1>4. CASE \E requested \in Requests : Extract(requested)
  BY <1>4, OrderExtract
<1>5. CASE CollectDocument
  BY <1>5, OrderCollect
<1>6. CASE WriteFixture
  <2>1. job.step = "fixtures" /\ UNCHANGED manifest
    BY <1>6 DEF WriteFixture
  <2>2. job \in Jobs /\ job # Idle /\ Collecting
    BY <2>1, JobFacts DEF DirInv, Collecting
  <2>3. job' = [job EXCEPT !.step = "collect"] \/ job' = [job EXCEPT !.fixtures = Tail(@)]
    BY <1>6 DEF WriteFixture
  <2>4. /\ job'.order = job.order /\ job'.requested = job.requested
        /\ job'.todo = job.todo /\ job'.rows = job.rows
    BY <2>2, <2>3 DEF Jobs
  <2> QED
    BY <2>1, <2>2, <2>4, OrderKept
<1>7. CASE WriteManifest
  <2>1. job.step = "collect"
    BY <1>7 DEF WriteManifest
  <2>2. job \in Jobs /\ job # Idle
    BY <2>1, JobFacts DEF DirInv
  <2>3. job' = Idle \/ job' = [job EXCEPT !.step = "module"]
    BY <1>7 DEF WriteManifest, Ended
  <2>4. ASSUME job' = [job EXCEPT !.step = "module"] PROVE OrderInv'
    <3>1. job'.order = job.order /\ job'.step = "module"
      BY <2>2, <2>4 DEF Jobs
    <3> QED
      BY <2>2, <3>1 DEF OrderInv, Collecting
  <2> QED
    BY <1>1, <2>3, <2>4
<1>8. CASE WriteModule
  BY <1>1, <1>8 DEF WriteModule, Ended
<1>9. CASE Interrupt
  BY <1>1, <1>9 DEF Interrupt
<1>10. CASE \/ \E d \in Docs : \E text \in Texts[d] \cup {NoDocument} : EditDocument(d, text)
            \/ \E s \in Sources : RemoveFixture(s)
  <2>1. NoticeEdit /\ UNCHANGED manifest
    BY <1>10 DEF EditDocument, RemoveFixture
  <2>2. \/ job' = Idle
        \/ /\ job # Idle /\ job'.order = job.order /\ job'.requested = job.requested
           /\ job'.todo = job.todo /\ job'.rows = job.rows /\ job'.step = job.step
    BY <2>1, Noticed DEF DirInv
  <2> QED
    BY <1>1, <2>1, <2>2, OrderKept DEF Collecting
<1>11. CASE UNCHANGED vars
  BY <1>2, <1>11 DEF vars
<1> QED
  BY <1>3, <1>4, <1>5, <1>6, <1>7, <1>8, <1>9, <1>10, <1>11 DEF Next

\* The step that writes the manifest.
LEMMA OthersKept ==
  ASSUME DirInv, OrderInv, WriteManifest, job' # Idle,
         NEW d \in Docs, ~Contains(job.requested, d)
  PROVE  RowsOf(manifest'.rows, d) = RowsOf(manifest.rows, d)
<1>1. job.step = "collect" /\ manifest' = [rows |-> Merged, cut |-> FALSE]
  BY DEF WriteManifest, Ended
<1>2. job \in Jobs /\ job # Idle /\ Collecting
  BY <1>1, JobFacts DEF DirInv, Collecting
<1>3. d \notin Range(job.requested)
  <2>1. job.requested \in Seq(Docs)
    BY <1>2 DEF Jobs
  <2>2. DOMAIN job.requested = 1 .. Len(job.requested)
    BY <2>1
  <2> QED
    BY <2>2 DEF Contains, Range
<1>4. job.rows[d] = RowsOf(manifest.rows, d)
  BY <1>2, <1>3 DEF OrderInv
<1>5. RowsOf(Merged, d) = IF Contains(job.order, d) THEN job.rows[d] ELSE <<>>
  <2>1. Distinct(job.order)
    BY <1>2 DEF OrderInv
  <2>2. \A e \in Docs : \A f \in Range(job.rows[e]) : f.doc = e
    BY <1>2 DEF DirInv, Named
  <2> QED
    BY <1>2, <2>1, <2>2, RowsOfMerged
<1>6. ASSUME ~Contains(job.order, d) PROVE RowsOf(manifest.rows, d) = <<>>
  <2>1. manifest.rows \in Seq(AllRows)
    BY DEF DirInv, Typed
  <2>2. \A f \in Range(manifest.rows) : f.doc # d
    BY <1>2, <1>6 DEF OrderInv
  <2> QED
    BY <2>1, <2>2, NoRows
<1> QED
  BY <1>1, <1>4, <1>5, <1>6

LEMMA OnlyTheManifestStep ==
  ASSUME DirInv, Next, job # Idle, job' # Idle
  PROVE  WriteManifest \/ UNCHANGED manifest
<1>1. CASE (\E strict \in BOOLEAN : Check(strict)) \/ (\E requested \in Requests : Extract(requested))
  BY <1>1 DEF Check, Extract
<1>2. CASE CollectDocument \/ WriteFixture
  BY <1>2 DEF CollectDocument, WriteFixture
<1>3. CASE WriteModule \/ Interrupt
  BY <1>3 DEF WriteModule, Interrupt, Ended
<1>4. CASE \/ \E d \in Docs : \E text \in Texts[d] \cup {NoDocument} : EditDocument(d, text)
           \/ \E s \in Sources : RemoveFixture(s)
  BY <1>4 DEF EditDocument, RemoveFixture
<1> QED
  BY <1>1, <1>2, <1>3, <1>4 DEF Next

-----------------------------------------------------------------------------
(* An extract that nobody disturbs.                                        *)

\* A document the extract has dealt with, with nothing refused or edited yet.
Collected(d) ==
  /\ job # Idle /\ job.fresh /\ job.status = 0
  /\ d \in Range(job.requested) /\ d \notin Range(job.todo)

\* The rows held for it are those it defines, and its files have been written
\* or are about to be.
Settled(d) ==
  /\ Collect(d).usable /\ job.rows[d] = Collect(d).fixtures
  /\ \A f \in Range(Collect(d).fixtures) : files[f.source] = f.sha256 \/ Awaited(f)

Defined(f) == Collect(f.doc).usable /\ f \in Range(Collect(f.doc).fixtures)

FreshInv ==
  /\ \A d \in Docs : Collected(d) => Settled(d)
  /\ job # Idle /\ job.fresh => \A f \in Range(job.fixtures) : Defined(f)
  /\ job # Idle /\ job.step = "module" => /\ job.todo = <<>> /\ job.status = 0
                                          /\ manifest = [rows |-> Merged, cut |-> FALSE]

\* Two examples defined now that have the same file are the same example.
LEMMA OneFile ==
  ASSUME Typed, DocumentsHaveTheirOwnFiles, NEW f, NEW g, Defined(f), Defined(g),
         f \in AllFixtures, g \in AllFixtures, f.source = g.source
  PROVE  f = g
<1>1. f.doc = g.doc /\ f.doc \in Docs
  BY FixtureType DEF DocumentsHaveTheirOwnFiles
<1> DEFINE fs == Collect(f.doc).fixtures
<1>2. f \in Range(fs) /\ g \in Range(fs) /\ Collect(f.doc).usable
  BY <1>1 DEF Defined
<1>3. /\ fs \in Seq(AllFixtures)
      /\ \A j, k \in 1 .. Len(fs) : j # k => fs[j].source # fs[k].source
  BY <1>1, <1>2, CollectType
<1> HIDE DEF fs
<1>4. DOMAIN fs = 1 .. Len(fs)
  BY <1>3
<1>5. PICK j \in 1 .. Len(fs) : f = fs[j]
  BY <1>2, <1>4 DEF Range
<1>6. PICK k \in 1 .. Len(fs) : g = fs[k]
  BY <1>2, <1>4 DEF Range
<1> QED
  BY <1>3, <1>5, <1>6

\* The fixtures of a document are defined.
LEMMA CollectedAreDefined ==
  ASSUME Typed, NEW d \in Docs, Collect(d).usable, NEW f \in Range(Collect(d).fixtures)
  PROVE  Defined(f) /\ f \in AllFixtures
<1>1. f.doc = d /\ f \in AllFixtures
  BY CollectType
<1> QED
  BY <1>1 DEF Defined

LEMMA FreshExtract ==
  ASSUME NEW requested \in Requests, Extract(requested)
  PROVE  FreshInv'
<1>1. CASE job' = Idle
  BY <1>1 DEF FreshInv, Collected
<1>2. CASE job' # Idle
  <2>1. /\ job'.step = "collect" /\ job'.todo = requested /\ job'.requested = requested
        /\ job'.fixtures = <<>>
    BY <1>2 DEF Extract
  <2>2. Range(job'.fixtures) = {}
    BY <2>1 DEF Range
  <2> QED
    BY <2>1, <2>2 DEF FreshInv, Collected
<1> QED
  BY <1>1, <1>2

LEMMA FreshCollect ==
  ASSUME DirInv, FreshInv, CollectDocument
  PROVE  FreshInv'
<1> DEFINE d == Head(job.todo)
           found == Collect(d)
<1>1. /\ UNCHANGED <<docs, files, manifest>> /\ job.step = "collect" /\ job.todo # <<>>
      /\ job' = IF found.usable
                THEN [job EXCEPT !.todo = Tail(@), !.rows[d] = found.fixtures,
                                 !.fixtures = found.fixtures, !.step = "fixtures"]
                ELSE [job EXCEPT !.todo = Tail(@), !.status = 1]
  BY DEF CollectDocument
<1>2. job \in Jobs /\ job # Idle
  BY <1>1, JobFacts DEF DirInv
<1>3. job.todo \in Seq(Docs)
  BY <1>2 DEF Jobs
<1>4. d \in Docs /\ \A e \in Range(job.todo) : e = d \/ e \in Range(Tail(job.todo))
  BY <1>1, <1>3, TailFacts, HeadTailProperties
<1>5. d \in Range(job.todo)
  <2>1. 1 \in DOMAIN job.todo /\ d = job.todo[1]
    BY <1>1, <1>3, FirstElement
  <2> QED
    BY <2>1 DEF Range
<1>6. \A e : Collect(e)' = Collect(e)
  BY <1>1 DEF Collect
<1>7. job.rows \in [Docs -> Seq(AllRows)]
  BY <1>2 DEF Jobs
<1> HIDE DEF d
<1>8. CASE found.usable
  <2>1. \A f \in Range(found.fixtures) : f.doc = d
    BY <1>4, <1>8, CollectType DEF DirInv
  <2> HIDE DEF found
  <2>2. /\ job'.todo = Tail(job.todo) /\ job'.requested = job.requested
        /\ job'.rows = [job.rows EXCEPT ![d] = found.fixtures]
        /\ job'.fixtures = found.fixtures /\ job'.step = "fixtures"
        /\ job'.status = job.status /\ job'.fresh = job.fresh
    BY <1>1, <1>2, <1>8 DEF Jobs
  <2>3. ASSUME NEW e \in Docs, Collected(e)' PROVE Settled(e)'
    <3>1. CASE e = d
      <4>1. /\ found = Collect(e)' /\ job'.rows[e] = found.fixtures
            /\ \A f \in Range(found.fixtures) : Awaited(f)'
        BY <1>4, <1>6, <1>7, <2>2, <3>1 DEF Awaited, found
      <4> QED
        BY <1>8, <4>1 DEF Settled
    <3>2. CASE e # d
      <4>1. Collected(e)
        BY <1>2, <1>4, <2>2, <2>3, <3>2 DEF Collected
      <4>2. Settled(e) /\ \A f : ~Awaited(f)
        BY <1>1, <4>1 DEF FreshInv, Awaited
      <4>3. job'.rows[e] = job.rows[e] /\ Collect(e)' = Collect(e) /\ files' = files
        BY <1>1, <1>6, <1>7, <2>2, <3>2
      <4> QED
        BY <4>2, <4>3 DEF Settled
    <3> QED
      BY <3>1, <3>2
  <2>4. \A f \in Range(job'.fixtures) : Defined(f)'
    BY <1>6, <1>8, <2>1, <2>2 DEF Defined, found
  <2> QED
    BY <2>2, <2>3, <2>4 DEF FreshInv
<1>9. CASE ~found.usable
  <2>1. /\ job'.status = 1 /\ job'.step = "collect" /\ job'.fixtures = job.fixtures
        /\ job'.fresh = job.fresh
    BY <1>1, <1>2, <1>9 DEF Jobs
  <2>2. ASSUME job'.fresh, NEW f \in Range(job'.fixtures) PROVE Defined(f)'
    BY <1>2, <1>6, <2>1, <2>2 DEF FreshInv, Defined
  <2> QED
    BY <2>1, <2>2 DEF FreshInv, Collected
<1> QED
  BY <1>8, <1>9

LEMMA FreshWriteFixture ==
  ASSUME DirInv, FreshInv, DocumentsHaveTheirOwnFiles, WriteFixture
  PROVE  FreshInv'
<1>1. UNCHANGED <<docs, manifest>> /\ job.step = "fixtures"
  BY DEF WriteFixture
<1>2. job \in Jobs /\ job # Idle
  BY <1>1, JobFacts DEF DirInv
<1>3. \A e : Collect(e)' = Collect(e)
  BY <1>1 DEF Collect
<1>4. \A f : Defined(f)' = Defined(f)
  BY <1>3 DEF Defined
<1>5. job' = [job EXCEPT !.step = "collect"] \/ job' = [job EXCEPT !.fixtures = Tail(@)]
  BY DEF WriteFixture
<1>6. /\ job'.todo = job.todo /\ job'.requested = job.requested /\ job'.rows = job.rows
      /\ job'.status = job.status /\ job'.fresh = job.fresh /\ job'.step # "module"
  BY <1>1, <1>2, <1>5 DEF Jobs
<1>7. \A e \in Docs : Collected(e)' => Collected(e)
  BY <1>2, <1>6 DEF Collected
<1>8. CASE job.fixtures = <<>>
  <2>1. job' = [job EXCEPT !.step = "collect"] /\ UNCHANGED files
    BY <1>8 DEF WriteFixture
  <2>2. job'.fixtures = job.fixtures /\ Range(job.fixtures) = {}
    BY <1>2, <1>8, <2>1 DEF Jobs, Range
  <2>3. ASSUME NEW e \in Docs, Collected(e)' PROVE Settled(e)'
    <3>1. Settled(e) /\ \A f : ~Awaited(f)
      BY <1>7, <2>2, <2>3 DEF FreshInv, Awaited
    <3> QED
      BY <1>3, <1>6, <2>1, <3>1 DEF Settled
  <2> QED
    BY <1>6, <2>2, <2>3 DEF FreshInv
<1>9. CASE job.fixtures # <<>>
  <2> DEFINE g == Head(job.fixtures)
  <2>1. PutFixture(g.sha256) /\ job' = [job EXCEPT !.fixtures = Tail(@)]
    BY <1>9 DEF WriteFixture
  <2>2. job.fixtures \in Seq(AllFixtures)
    BY <1>2 DEF Jobs
  <2>3. g \in AllFixtures
    BY <1>9, <2>2, HeadTailProperties
  <2>4. g.sha256 \in Contents /\ g.sha256 # NoFile
    BY <2>3, FixtureType
  <2>5. g \in Range(job.fixtures) /\ files' = [files EXCEPT ![g.source] = g.sha256]
        /\ files'[g.source] = g.sha256
    BY <1>2, <1>9, <2>1, <2>4, PutKeeps DEF DirInv
  <2>6. /\ \A f \in Range(job.fixtures) : f = g \/ f \in Range(Tail(job.fixtures))
        /\ \A f \in Range(Tail(job.fixtures)) : f \in Range(job.fixtures)
    BY <1>9, <2>2, TailFacts
  <2> HIDE DEF g
  <2>7. job'.fixtures = Tail(job.fixtures) /\ job'.step = "fixtures"
    BY <1>1, <1>2, <2>1 DEF Jobs
  <2>8. ASSUME NEW e \in Docs, Collected(e)', NEW f \in Range(Collect(e).fixtures)
        PROVE  files'[f.source] = f.sha256 \/ Awaited(f)'
    <3>1. Settled(e) /\ Collected(e)
      BY <1>7, <2>8 DEF FreshInv
    <3>2. Defined(g)
      BY <1>2, <2>5, <3>1 DEF FreshInv, Collected
    <3>3. Defined(f) /\ f \in AllFixtures
      BY <2>8, <3>1, CollectedAreDefined DEF DirInv, Settled
    <3>4. CASE f = g
      BY <2>5, <3>4
    <3>5. CASE f # g
      <4>1. f.source # g.source
        BY <2>3, <3>2, <3>3, <3>5, OneFile DEF DirInv
      <4>2. files'[f.source] = files[f.source]
        BY <2>5, <4>1
      <4>3. files[f.source] = f.sha256 \/ Awaited(f)
        BY <2>8, <3>1 DEF Settled
      <4> QED
        BY <2>6, <2>7, <3>5, <4>2, <4>3 DEF Awaited
    <3> QED
      BY <3>4, <3>5
  <2>9. ASSUME NEW e \in Docs, Collected(e)' PROVE Settled(e)'
    <3>1. Settled(e)
      BY <1>7, <2>9 DEF FreshInv
    <3> QED
      BY <1>3, <1>6, <2>8, <2>9, <3>1 DEF Settled
  <2>10. ASSUME job'.fresh, NEW f \in Range(job'.fixtures) PROVE Defined(f)'
    BY <1>2, <1>4, <1>6, <2>6, <2>7, <2>10 DEF FreshInv
  <2> QED
    BY <1>6, <2>9, <2>10 DEF FreshInv
<1> QED
  BY <1>8, <1>9

LEMMA FreshWriteManifest ==
  ASSUME DirInv, FreshInv, WriteManifest
  PROVE  FreshInv'
<1>1. CASE job' = Idle
  BY <1>1 DEF FreshInv, Collected
<1>2. CASE job' # Idle
  <2>1. /\ job.step = "collect" /\ job.todo = <<>> /\ job.status = 0 /\ UNCHANGED <<docs, files>>
        /\ manifest' = [rows |-> Merged, cut |-> FALSE]
        /\ job' = [job EXCEPT !.step = "module"]
    BY <1>2 DEF WriteManifest, Ended
  <2>2. job \in Jobs /\ job # Idle
    BY <2>1, JobFacts DEF DirInv
  <2>3. /\ job'.todo = job.todo /\ job'.requested = job.requested /\ job'.rows = job.rows
        /\ job'.status = job.status /\ job'.fresh = job.fresh /\ job'.order = job.order
        /\ job'.fixtures = job.fixtures
    BY <2>1, <2>2 DEF Jobs
  <2>4. Merged' = Merged
    BY <2>3 DEF Merged
  <2>5. \A e : Collect(e)' = Collect(e)
    BY <2>1 DEF Collect
  <2>6. ASSUME NEW e \in Docs, Collected(e)' PROVE Settled(e)'
    <3>1. Collected(e)
      BY <2>2, <2>3, <2>6 DEF Collected
    <3>2. Settled(e) /\ \A f : ~Awaited(f)
      BY <2>1, <3>1 DEF FreshInv, Awaited
    <3> QED
      BY <2>1, <2>3, <2>5, <3>2 DEF Settled
  <2>7. ASSUME job'.fresh, NEW f \in Range(job'.fixtures) PROVE Defined(f)'
    BY <2>2, <2>3, <2>5, <2>7 DEF FreshInv, Defined
  <2> QED
    BY <2>1, <2>3, <2>4, <2>6, <2>7 DEF FreshInv
<1> QED
  BY <1>1, <1>2

\* An edit or a removal: the extract is no longer undisturbed.
LEMMA FreshNoticed ==
  ASSUME DirInv, FreshInv, NoticeEdit, UNCHANGED manifest
  PROVE  FreshInv'
<1>1. CASE job' = Idle
  BY <1>1 DEF FreshInv, Collected
<1>2. CASE job' # Idle
  <2>1. /\ job # Idle /\ job'.fresh = FALSE /\ job'.step = job.step
        /\ job'.rows = job.rows /\ job'.order = job.order /\ job'.todo = job.todo
        /\ job'.status = job.status
    BY <1>2, Noticed DEF DirInv
  <2>2. Merged' = Merged
    BY <2>1 DEF Merged
  <2> QED
    BY <2>1, <2>2 DEF FreshInv, Collected
<1> QED
  BY <1>1, <1>2

LEMMA FreshStep ==
  ASSUME DirInv, FreshInv, DocumentsHaveTheirOwnFiles, [Next]_vars
  PROVE  FreshInv'
<1>1. ASSUME job' = Idle PROVE FreshInv'
  BY <1>1 DEF FreshInv, Collected
<1>2. ASSUME UNCHANGED <<docs, files, manifest, job>> PROVE FreshInv'
  <2>1. \A e : Collect(e)' = Collect(e)
    BY <1>2 DEF Collect
  <2>2. Merged' = Merged
    BY <1>2 DEF Merged
  <2>3. \A e \in Docs : Collected(e)' => Settled(e)'
    BY <1>2, <2>1 DEF FreshInv, Collected, Settled, Awaited
  <2>4. \A f : Defined(f)' = Defined(f)
    BY <2>1 DEF Defined
  <2> QED
    BY <1>2, <2>2, <2>3, <2>4 DEF FreshInv
<1>3. CASE \E strict \in BOOLEAN : Check(strict)
  BY <1>2, <1>3 DEF Check
<1>4. CASE \E requested \in Requests : Extract(requested)
  BY <1>4, FreshExtract
<1>5. CASE CollectDocument
  BY <1>5, FreshCollect
<1>6. CASE WriteFixture
  BY <1>6, FreshWriteFixture
<1>7. CASE WriteManifest
  BY <1>7, FreshWriteManifest
<1>8. CASE WriteModule
  BY <1>1, <1>8 DEF WriteModule, Ended
<1>9. CASE Interrupt
  BY <1>1, <1>9 DEF Interrupt
<1>10. CASE \/ \E d \in Docs : \E text \in Texts[d] \cup {NoDocument} : EditDocument(d, text)
            \/ \E s \in Sources : RemoveFixture(s)
  BY <1>10, FreshNoticed DEF EditDocument, RemoveFixture
<1>11. CASE UNCHANGED vars
  BY <1>2, <1>11 DEF vars
<1> QED
  BY <1>3, <1>4, <1>5, <1>6, <1>7, <1>8, <1>9, <1>10, <1>11 DEF Next

\* What an undisturbed extract of all the documents of the manifest leaves.
LEMMA Repaired ==
  ASSUME DirInv, OrderInv, FreshInv, RowsReadBack,
         job.step = "module", job.fresh, {Rows[n].doc : n \in DOMAIN Rows} \subseteq Range(job.requested)
  PROVE  Loads(manifest) /\ ~RepeatsAPair /\ \A row \in RowSet : RowErrors(row) = {}
<1>1. job \in Jobs /\ job # Idle
  BY JobFacts DEF DirInv
<1>2. job.todo = <<>> /\ job.status = 0 /\ manifest = [rows |-> Merged, cut |-> FALSE]
  BY <1>1 DEF FreshInv
<1>3. Rows = Merged /\ Rows \in Seq(AllRows)
  BY <1>2 DEF DirInv, Typed, Rows
<1>4. DOMAIN Rows = 1 .. Len(Rows) /\ \A n \in 1 .. Len(Rows) : Rows[n].doc \in Docs
  BY <1>3, ElementOfSeq, RowType
<1>5. ASSUME NEW d \in Docs, d \in {Rows[n].doc : n \in DOMAIN Rows}
      PROVE  Settled(d) /\ \A f : ~Awaited(f)
  <2>1. Range(job.todo) = {}
    BY <1>2 DEF Range
  <2>2. Collected(d)
    BY <1>1, <1>2, <1>5, <2>1 DEF Collected
  <2> QED
    BY <2>2 DEF FreshInv, Awaited
<1>6. ASSUME NEW n \in DOMAIN Rows
      PROVE  /\ Rows[n] \in AllFixtures
             /\ Rows[n] \in Range(Collect(Rows[n].doc).fixtures)
  <2>1. Rows[n] \in Range(Merged)
    BY <1>3, <1>6 DEF Range
  <2>2. PICK e \in Docs : Rows[n] \in Range(job.rows[e])
    BY <1>1, <2>1, MergedRange
  <2>3. e = Rows[n].doc
    BY <1>1, <2>2 DEF DirInv, Named
  <2>4. Settled(e)
    BY <1>5, <1>6, <2>3
  <2>5. Rows[n] \in Range(Collect(e).fixtures)
    BY <2>2, <2>4 DEF Settled
  <2> QED
    BY <2>3, <2>4, <2>5, CollectType DEF DirInv, Settled
<1>7. Loads(manifest)
  BY <1>2, <1>3, <1>6 DEF Loads, RowsReadBack
<1>8. ASSUME NEW m \in DOMAIN Rows, NEW n \in DOMAIN Rows,
             Rows[m].doc = Rows[n].doc, Rows[m].id = Rows[n].id
      PROVE  m = n
  <2>1. PICK off \in [0 .. Len(job.order) -> Nat] :
          /\ \A i \in 1 .. Len(job.order) : \A k \in 1 .. Len(job.rows[job.order[i]]) :
               Merged[off[i - 1] + k] = job.rows[job.order[i]][k]
          /\ \A p \in 1 .. Len(Merged) : \E i \in 1 .. Len(job.order) :
               \E k \in 1 .. Len(job.rows[job.order[i]]) : p = off[i - 1] + k
    BY <1>1, MergedFacts
  <2>2. ASSUME NEW p \in DOMAIN Rows
        PROVE  \E i \in 1 .. Len(job.order) : \E k \in 1 .. Len(job.rows[job.order[i]]) :
                 /\ p = off[i - 1] + k /\ Rows[p] = job.rows[job.order[i]][k]
                 /\ Rows[p].doc = job.order[i] /\ job.order[i] \in Docs
    <3>1. PICK i \in 1 .. Len(job.order) :
            \E k \in 1 .. Len(job.rows[job.order[i]]) : p = off[i - 1] + k
      BY <1>3, <1>4, <2>1
    <3>2. PICK k \in 1 .. Len(job.rows[job.order[i]]) : p = off[i - 1] + k
      BY <3>1
    <3>3. Rows[p] = job.rows[job.order[i]][k]
      BY <1>3, <2>1, <3>2
    <3>4. job.order[i] \in Docs
      BY <1>1, ElementOfSeq DEF Jobs
    <3>5. job.rows[job.order[i]] \in Seq(AllRows)
      BY <1>1, <3>4 DEF Jobs
    <3>6. Rows[p] \in Range(job.rows[job.order[i]])
      BY <3>2, <3>3, <3>5 DEF Range
    <3>7. Rows[p].doc = job.order[i]
      BY <1>1, <3>4, <3>6 DEF DirInv, Named
    <3> QED
      BY <3>2, <3>3, <3>4, <3>7
  <2>3. PICK i \in 1 .. Len(job.order) : \E k \in 1 .. Len(job.rows[job.order[i]]) :
          /\ m = off[i - 1] + k /\ Rows[m] = job.rows[job.order[i]][k]
          /\ Rows[m].doc = job.order[i] /\ job.order[i] \in Docs
    BY <2>2
  <2>4. PICK j \in 1 .. Len(job.order) : \E k \in 1 .. Len(job.rows[job.order[j]]) :
          /\ n = off[j - 1] + k /\ Rows[n] = job.rows[job.order[j]][k]
          /\ Rows[n].doc = job.order[j] /\ job.order[j] \in Docs
    BY <2>2
  <2>5. i = j
    <3>1. Distinct(job.order)
      BY <1>1 DEF OrderInv
    <3> QED
      BY <1>8, <2>3, <2>4, <3>1 DEF Distinct
  <2> DEFINE d == job.order[i]
             fs == Collect(d).fixtures
  <2>6. d \in Docs /\ d = Rows[m].doc
    BY <2>3
  <2>7. Settled(d)
    BY <1>5, <2>6
  <2>8. job.rows[d] = fs /\ \A x, y \in 1 .. Len(fs) : x # y => fs[x].id # fs[y].id
    BY <2>6, <2>7, CollectType DEF DirInv, Settled
  <2> HIDE DEF d, fs
  <2>9. PICK x \in 1 .. Len(fs) : m = off[i - 1] + x /\ Rows[m] = fs[x]
    BY <2>3, <2>8 DEF d
  <2>10. PICK y \in 1 .. Len(fs) : n = off[i - 1] + y /\ Rows[n] = fs[y]
    BY <2>4, <2>5, <2>8 DEF d
  <2> QED
    BY <1>8, <2>8, <2>9, <2>10
<1>9. ~RepeatsAPair
  BY <1>8 DEF RepeatsAPair
<1>10. ASSUME NEW row \in RowSet PROVE RowErrors(row) = {}
  <2> DEFINE d == row.doc
             fs == Collect(d).fixtures
             named == FixturesNamed(d, row.id)
             g == CHOOSE f \in named : TRUE
  <2>1. PICK n \in DOMAIN Rows : row = Rows[n]
    BY <1>10 DEF RowSet
  <2>2. row \in AllFixtures /\ d \in Docs
    BY <1>6, <2>1, FixtureType
  <2>3. Settled(d) /\ \A f : ~Awaited(f)
    BY <1>5, <2>1, <2>2
  <2>4. row \in Range(fs)
    BY <1>6, <2>1
  <2>5. /\ Collect(d).usable /\ files[row.source] = row.sha256
    BY <2>3, <2>4 DEF Settled
  <2>6. /\ fs \in Seq(AllFixtures)
        /\ \A x, y \in 1 .. Len(fs) : x # y => fs[x].id # fs[y].id
    BY <2>2, <2>5, CollectType DEF DirInv
  <2>7. named = {row}
    <3>1. DOMAIN fs = 1 .. Len(fs)
      BY <2>6
    <3>2. PICK x \in 1 .. Len(fs) : row = fs[x]
      BY <2>4, <3>1 DEF Range
    <3> HIDE DEF fs
    <3>3. named = {fs[i] : i \in {k \in DOMAIN fs : fs[k].id = row.id}}
      BY DEF FixturesNamed, fs
    <3> QED
      BY <2>6, <3>1, <3>2, <3>3
  <2>8. g = row
    BY <2>7
  <2>9. files[row.source] # NoFile
    BY <2>2, <2>5, FixtureType
  <2> HIDE DEF g
  <2>10. named # {} /\ g = CHOOSE f \in FixturesNamed(row.doc, row.id) : TRUE
    BY <2>7 DEF g
  <2> QED
    BY <2>5, <2>8, <2>9, <2>10 DEF RowErrors
<1> QED
  BY <1>7, <1>9, <1>10

LEMMA RepairStep ==
  ASSUME DirInv, OrderInv, FreshInv, ExtractRepairs, RowsReadBack, [Next]_vars
  PROVE  ExtractRepairs'
<1> SUFFICES ASSUME Passed("extract")',
                    ({Rows[n].doc : n \in DOMAIN Rows} \subseteq Range(last.requested))'
             PROVE  Errors' = {}
  BY DEF ExtractRepairs
<1>1. last'.command = "extract" /\ last'.status = 0
  BY DEF Passed
<1>2. CASE WriteModule
  <2>1. /\ UNCHANGED <<docs, files, manifest>> /\ job.step = "module" /\ zig' = RenderZig(Rows)
        /\ job.fresh /\ last'.requested = job.requested
    BY <1>1, <1>2 DEF WriteModule, Ended, NoCommand
  <2>2. Rows' = Rows /\ RowSet' = RowSet /\ RepeatsAPair' = RepeatsAPair
    BY <2>1, SameReadings
  <2>3. {Rows[n].doc : n \in DOMAIN Rows} \subseteq Range(job.requested)
    BY <2>1, <2>2
  <2>4. Loads(manifest) /\ ~RepeatsAPair /\ \A row \in RowSet : RowErrors(row) = {}
    BY <2>1, <2>3, Repaired
  <2>5. \A row : RowErrors(row)' = RowErrors(row)
    BY <2>1, SameReadings
  <2>6. (UNION {RowErrors(row) : row \in RowSet})' = {}
    BY <2>2, <2>4, <2>5
  <2>7. Loads(manifest)' /\ ~RepeatsAPair' /\ zig' = RenderZig(Rows)'
    <3>1. Loads(manifest)'
      BY <2>1, <2>4 DEF Loads
    <3>2. zig' = RenderZig(Rows)'
      BY <2>1, <2>2 DEF RenderZig
    <3> QED
      BY <2>2, <2>4, <3>1, <3>2
  <2> QED
    BY <2>6, <2>7 DEF Errors
<1>3. CASE UNCHANGED <<docs, files, manifest, zig, last>>
  <2>1. Errors' = Errors /\ Rows' = Rows
    BY <1>3, SameErrors, SameReadings
  <2>2. Passed("extract") /\ {Rows[n].doc : n \in DOMAIN Rows} \subseteq Range(last.requested)
    BY <1>1, <1>3, <2>1 DEF Passed
  <2> QED
    BY <2>1, <2>2 DEF ExtractRepairs
<1>4. ASSUME last = NoCommand, UNCHANGED last PROVE FALSE
  BY <1>1, <1>4 DEF NoCommand
<1>5. ~(\E strict \in BOOLEAN : Check(strict))
  BY <1>1 DEF Check
<1>6. ~(\E requested \in Requests : Extract(requested))
  BY <1>1 DEF Extract, NoCommand
<1>7. ~CollectDocument /\ ~WriteFixture
  <2>1. ASSUME CollectDocument \/ WriteFixture PROVE FALSE
    <3>1. job # Idle /\ UNCHANGED last
      BY <2>1 DEF CollectDocument, WriteFixture, Idle
    <3> QED
      BY <1>4, <3>1 DEF DirInv, Reported
  <2> QED
    BY <2>1
<1>8. ~WriteManifest
  <2>1. ASSUME WriteManifest PROVE FALSE
    <3>1. job.step = "collect" /\ job # Idle
      BY <2>1 DEF WriteManifest, Idle
    <3>2. CASE job.status = 0
      BY <1>4, <2>1, <3>1, <3>2 DEF WriteManifest, DirInv, Reported
    <3>3. CASE job.status # 0
      BY <1>1, <2>1, <3>3 DEF WriteManifest, Ended, NoCommand
    <3> QED
      BY <3>2, <3>3
  <2> QED
    BY <2>1
<1>9. ~Interrupt
  BY <1>1 DEF Interrupt, NoCommand
<1>10. /\ ~(\E d \in Docs : \E text \in Texts[d] \cup {NoDocument} : EditDocument(d, text))
       /\ ~(\E s \in Sources : RemoveFixture(s))
  BY <1>1 DEF EditDocument, RemoveFixture, NoticeEdit, NoCommand
<1>11. ASSUME UNCHANGED vars PROVE UNCHANGED <<docs, files, manifest, zig, last>>
  BY <1>11 DEF vars
<1> QED
  BY <1>2, <1>3, <1>5, <1>6, <1>7, <1>8, <1>9, <1>10, <1>11 DEF Next

\* tools/doc_examples.py writes the fixtures of a document before the manifest
\* and the manifest before the module: at every moment of every behaviour, the
\* interruptions included, every fixture file the build lists has been written,
\* and is gone only when somebody removed it.
THEOREM ListedFixtures == Spec => []ListedFixturesExist
<1>1. Init => DirInv
  BY DirInitial
<1>2. DirInv /\ [Next]_vars => DirInv'
  BY DirStep
<1>3. DirInv => ListedFixturesExist
  BY DEF DirInv, Named, Present, ListedFixturesExist
<1> QED
  BY <1>1, <1>2, <1>3, PTL DEF Spec

\* command_check: while nothing has changed since a check that passed, every
\* entry the build assembles is an example its document defines now, with the
\* text, the target and the expectation the document gives it.
THEOREM CheckedAreTheManual == Spec => []CheckedFixturesAreTheManual
<1>1. Init => DirInv
  BY DirInitial
<1>2. DirInv /\ [Next]_vars => DirInv'
  BY DirStep
<1>3. DirInv => CheckedFixturesAreTheManual
  <2>1. CASE Passed("check")
    BY <2>1, NothingReported DEF DirInv, Reported
  <2>2. CASE ~Passed("check")
    BY <2>2 DEF CheckedFixturesAreTheManual
  <2> QED
    BY <2>1, <2>2
<1> QED
  BY <1>1, <1>2, <1>3, PTL DEF Spec

\* command_extract merges by document: a manifest written whole has, for every
\* document that was not asked for, the rows it had, in their order.
THEOREM OthersKeepTheirRows == Spec => OtherDocumentsKeepTheirRows
<1> DEFINE Kept == (job # Idle /\ job' # Idle) =>
                     \A d \in Docs : ~Contains(job.requested, d)
                                       => RowsOf(manifest'.rows, d) = RowsOf(manifest.rows, d)
<1>1. Init => DirInv /\ OrderInv
  BY DirInitial DEF Init, OrderInv, Collecting
<1>2. DirInv /\ OrderInv /\ [Next]_vars => (DirInv /\ OrderInv)'
  BY DirStep, OrderStep
<1>3. DirInv /\ OrderInv /\ [Next]_vars => [Kept]_vars
  <2> SUFFICES ASSUME DirInv, OrderInv, Next, job # Idle, job' # Idle,
                      NEW d \in Docs, ~Contains(job.requested, d)
               PROVE  RowsOf(manifest'.rows, d) = RowsOf(manifest.rows, d)
    OBVIOUS
  <2> QED
    BY OthersKept, OnlyTheManifestStep
<1>4. (DirInv /\ OrderInv) /\ [][Next]_vars => [](DirInv /\ OrderInv)
  BY <1>2, PTL
<1> QED
  BY <1>1, <1>3, <1>4, PTL DEF Spec, OtherDocumentsKeepTheirRows

\* command_extract repairs what command_check reports: when an extract of every
\* document the manifest lists has ended well and nothing was edited, a check
\* reports nothing, whatever failed or interrupted runs were before it.  The
\* two hypotheses are on the documents, and are what the tool relies on: that
\* their rows can be read back, and that no two of them share a fixture file.
THEOREM ExtractsRepair ==
  ASSUME RowsReadBack, DocumentsHaveTheirOwnFiles
  PROVE  Spec => []ExtractRepairs
<1> DEFINE Inv == DirInv /\ OrderInv /\ FreshInv /\ ExtractRepairs
<1>1. Init => Inv
  <2> SUFFICES ASSUME Init PROVE Inv
    OBVIOUS
  <2>1. job = Idle /\ last = NoCommand
    BY DEF Init
  <2> QED
    BY <2>1, DirInitial DEF OrderInv, Collecting, FreshInv, Collected, ExtractRepairs, Passed, NoCommand
<1>2. Inv /\ [Next]_vars => Inv'
  BY DirStep, OrderStep, FreshStep, RepairStep, RowsReadBack, DocumentsHaveTheirOwnFiles
<1>3. Inv => ExtractRepairs
  OBVIOUS
<1> QED
  BY <1>1, <1>2, <1>3, PTL DEF Spec

-----------------------------------------------------------------------------
(* What one document defines.                                              *)

\* The fence lines up to one.
Rank(text, n) == Cardinality({m \in FenceLines(text) : m <= n})

LEMMA RankOf ==
  ASSUME NEW text, text \in Seq(Range(text))
  PROVE  /\ Len(text) \in Nat
         /\ FenceLines(text) \in SUBSET (1 .. Len(text))
         /\ IsFiniteSet(FenceLines(text))
         /\ Cardinality(FenceLines(text)) = Rank(text, Len(text))
         /\ Rank(text, 0) = 0
         /\ \A n \in 1 .. Len(text) :
              Rank(text, n) = Rank(text, n - 1) + (IF text[n].kind = "fence" THEN 1 ELSE 0)
         /\ \A n \in 0 .. Len(text) : Rank(text, n) \in Nat
         /\ \A n \in FenceLines(text) : FenceLine(text, Rank(text, n)) = n
<1> DEFINE S == FenceLines(text)
           N == Len(text)
           Upto(n) == {m \in S : m <= n}
<1>1. N \in Nat /\ S \in SUBSET (1 .. N) /\ IsFiniteSet(S) /\ S \in SUBSET Nat
  <2>1. N \in Nat /\ DOMAIN text = 1 .. N
    BY LenProperties
  <2>2. S \in SUBSET (1 .. N)
    BY <2>1 DEF FenceLines
  <2>3. IsFiniteSet(1 .. N)
    BY <2>1, FS_Interval
  <2>4. IsFiniteSet(S)
    BY <2>2, <2>3, FS_Subset
  <2>5. S \in SUBSET Nat
    BY <2>1, <2>2
  <2> QED
    BY <2>1, <2>2, <2>4, <2>5
<1>2. \A n \in 1 .. N : n \in S <=> text[n].kind = "fence"
  <2>1. DOMAIN text = 1 .. N
    BY LenProperties
  <2> QED
    BY <2>1 DEF FenceLines
<1> HIDE DEF S, N
<1>3. Upto(N) = S /\ Upto(0) = {}
  <2>1. \A m \in S : m <= N /\ ~(m <= 0)
    BY <1>1
  <2> QED
    BY <2>1, Zenon
<1>4. ASSUME NEW n \in 0 .. N PROVE IsFiniteSet(Upto(n)) /\ Cardinality(Upto(n)) \in Nat
  <2>1. Upto(n) \in SUBSET S
    OBVIOUS
  <2>2. IsFiniteSet(Upto(n))
    BY <1>1, <2>1, FS_Subset
  <2> QED
    BY <2>2, FS_CardinalityType
<1>5. ASSUME NEW n \in 1 .. N
      PROVE  Cardinality(Upto(n)) = Cardinality(Upto(n - 1)) + (IF n \in S THEN 1 ELSE 0)
  <2>1. n - 1 \in 0 .. N /\ \A m \in S : m <= n <=> m <= n - 1 \/ m = n
    BY <1>1
  <2>2. n \notin Upto(n - 1) /\ Upto(n) = IF n \in S THEN Upto(n - 1) \cup {n} ELSE Upto(n - 1)
    <3>1. ~(n <= n - 1) /\ n <= n
      BY <1>1
    <3>2. CASE n \in S
      <4>1. \A m : m \in Upto(n) <=> m \in Upto(n - 1) \/ m = n
        BY <2>1, <3>1, <3>2, Zenon
      <4>2. n \notin Upto(n - 1)
        BY <3>1
      <4> HIDE DEF Upto
      <4> QED
        BY <3>2, <4>1, <4>2
    <3>3. CASE n \notin S
      <4>1. \A m : m \in Upto(n) <=> m \in Upto(n - 1)
        BY <2>1, <3>3, Zenon
      <4>2. n \notin Upto(n - 1)
        BY <3>1
      <4> HIDE DEF Upto
      <4> QED
        BY <3>3, <4>1, <4>2
    <3> QED
      BY <3>2, <3>3
  <2>3. IsFiniteSet(Upto(n - 1)) /\ Cardinality(Upto(n - 1)) \in Nat
    BY <1>4, <2>1
  <2> HIDE DEF Upto
  <2>4. Cardinality(Upto(n - 1) \cup {n}) = Cardinality(Upto(n - 1)) + 1
    BY <2>2, <2>3, FS_AddElement
  <2> QED
    BY <2>2, <2>3, <2>4
<1>6. \A n \in S : InOrder(S)[Cardinality(Upto(n))] = n
  BY <1>1, RankFacts
<1>7. Cardinality({}) = 0
  BY FS_EmptySet
<1>8. \A n : Rank(text, n) = Cardinality(Upto(n))
  BY DEF Rank, S
<1>9. \A k : FenceLine(text, k) = InOrder(S)[k]
  BY DEF FenceLine, S
<1> HIDE DEF Upto
<1>10. Cardinality(S) = Rank(text, N) /\ Rank(text, 0) = 0
  BY <1>3, <1>7, <1>8
<1>11. \A n \in 1 .. N : Rank(text, n) = Rank(text, n - 1) + (IF text[n].kind = "fence" THEN 1 ELSE 0)
  BY <1>2, <1>5, <1>8
<1>12. \A n \in 0 .. N : Rank(text, n) \in Nat
  BY <1>4, <1>8
<1>13. \A n \in S : FenceLine(text, Rank(text, n)) = n
  BY <1>6, <1>8, <1>9
<1> QED
  BY <1>1, <1>10, <1>11, <1>12, <1>13 DEF S, N

\* The block of an opening fence line, of the lines between two others.
Opened(text, b, k) ==
  /\ b.index = k
  /\ b.start \in FenceLines(text) /\ Rank(text, b.start) = 2 * k - 1
  /\ b.info = ParseInfo(text[b.start].tokens)

Between(text, lines, a, z) ==
  /\ Len(lines) = z - a - 1
  /\ \A i \in 1 .. Len(lines) : lines[i] = text[a + i]

Closed(text, b, k) ==
  /\ Opened(text, b, k)
  /\ b.end \in FenceLines(text) /\ Rank(text, b.end) = 2 * k
  /\ b.start < b.end /\ Between(text, b.lines, b.start, b.end)

\* What the scan has read after n lines.
Scanned(text, st, n) ==
  /\ \A k \in 1 .. Len(st.fences) : Closed(text, st.fences[k], k)
  /\ st.open = <<>> => Rank(text, n) = 2 * Len(st.fences)
  /\ st.open # <<>> =>
       /\ Rank(text, n) = 2 * Len(st.fences) + 1
       /\ Opened(text, st.open[1], Len(st.fences) + 1)
       /\ st.open[1].start <= n
       /\ Between(text, st.open[1].lines, st.open[1].start, n + 1)

LEMMA ScanStep ==
  ASSUME NEW text, text \in Seq(Range(text)), NEW n \in 1 .. Len(text), NEW st,
         st \in [fences : Seq(BlocksOf(text)), open : Seq(BlocksOf(text))],
         Scanned(text, st, n - 1)
  PROVE  Scanned(text, ScanLine(text, st, n), n)
<1> DEFINE Block == BlocksOf(text)
           L == Len(st.fences)
           q == Rank(text, n)
           p == Rank(text, n - 1)
           next == ScanLine(text, st, n)
           b == st.open[1]
<1>1. Len(text) \in Nat /\ n \in Nat /\ n - 1 \in 0 .. Len(text) /\ n \in 0 .. Len(text)
  BY RankOf
<1>2. p \in Nat /\ q \in Nat /\ q = p + (IF text[n].kind = "fence" THEN 1 ELSE 0)
  BY <1>1, RankOf
<1>3. st.fences \in Seq(Block) /\ st.open \in Seq(Block) /\ L \in Nat
  BY LenProperties
<1>4. text[n].kind = "fence" => n \in FenceLines(text)
  <2>1. DOMAIN text = 1 .. Len(text)
    BY LenProperties
  <2> QED
    BY <2>1 DEF FenceLines
<1>5. \A k \in 1 .. L : Closed(text, st.fences[k], k)
  BY DEF Scanned
<1>6. st.open = <<>> => p = 2 * L
  BY DEF Scanned
<1>7. st.open # <<>> =>
        /\ p = 2 * L + 1
        /\ Opened(text, b, L + 1)
        /\ b.start <= n - 1
        /\ Between(text, b.lines, b.start, n - 1 + 1)
  BY DEF Scanned
<1>8. st.open # <<>> => b \in Block /\ b.start \in Nat
  <2>1. st.open # <<>> => b \in Block
    BY <1>3, FirstElement
  <2> QED
    BY <2>1 DEF BlocksOf
<1>9. st = [fences |-> st.fences, open |-> st.open]
  OBVIOUS
<1> HIDE DEF Block
<1>10. CASE st.open = <<>> /\ text[n].kind # "fence"
  <2>1. next = st
    BY <1>10 DEF ScanLine
  <2>2. q = 2 * L
    BY <1>2, <1>6, <1>10
  <2> HIDE DEF next, q, L
  <2>3. Rank(text, n) = 2 * Len(next.fences) /\ next.open = <<>> /\ next.fences = st.fences
    BY <2>1, <2>2, <1>10 DEF q, L
  <2> QED
    BY <1>5, <2>3 DEF Scanned, next, L
<1>11. CASE st.open = <<>> /\ text[n].kind = "fence"
  <2> DEFINE fresh == [index |-> L + 1, info |-> ParseInfo(text[n].tokens), lines |-> <<>>,
                       start |-> n, end |-> n, section |-> SectionFor(text, n)]
  <2>1. next = [st EXCEPT !.open = <<fresh>>]
    BY <1>11 DEF ScanLine
  <2>2. next.fences = st.fences /\ next.open = <<fresh>>
    BY <1>9, <2>1
  <2>3. q = 2 * L + 1 /\ q = 2 * (L + 1) - 1
    BY <1>2, <1>3, <1>6, <1>11
  <2>4. Opened(text, fresh, L + 1)
    BY <1>4, <1>11, <2>3 DEF Opened
  <2>5. Between(text, fresh.lines, n, n + 1)
    <3>1. Len(<<>>) = 0 /\ n + 1 - n - 1 = 0 /\ 1 .. 0 = {}
      BY <1>1
    <3> QED
      BY <3>1 DEF Between
  <2>6. fresh.start = n /\ <<fresh>>[1] = fresh /\ <<fresh>> # <<>> /\ n <= n
    BY <1>1
  <2> HIDE DEF fresh, next
  <2> QED
    BY <1>5, <2>2, <2>3, <2>4, <2>5, <2>6 DEF Scanned, next
<1>12. CASE st.open # <<>> /\ text[n].kind = "fence"
  <2> DEFINE done == [b EXCEPT !.end = n]
  <2>1. next = [open |-> <<>>, fences |-> Append(st.fences, done)]
    BY <1>12 DEF ScanLine
  <2>2. /\ done \in Block /\ done.end = n /\ done.index = b.index /\ done.start = b.start
        /\ done.info = b.info /\ done.lines = b.lines
    BY <1>1, <1>8, <1>12 DEF Block, BlocksOf
  <2>3. q = 2 * (L + 1)
    BY <1>2, <1>3, <1>7, <1>12
  <2> HIDE DEF done
  <2>4. Closed(text, done, L + 1)
    <3>1. n - 1 + 1 = n /\ (b.start <= n - 1 => b.start < n)
      BY <1>1, <1>8, <1>12
    <3>2. Opened(text, done, L + 1)
      BY <1>7, <1>12, <2>2 DEF Opened
    <3>3. Between(text, done.lines, done.start, done.end) /\ done.start < done.end
      BY <1>7, <1>12, <2>2, <3>1
    <3> QED
      BY <1>4, <1>12, <2>2, <2>3, <3>2, <3>3 DEF Closed
  <2>5. /\ Len(Append(st.fences, done)) = L + 1
        /\ \A k \in 1 .. L : Append(st.fences, done)[k] = st.fences[k]
        /\ Append(st.fences, done)[L + 1] = done
    BY <1>3, <2>2, AppendFacts
  <2>6. next.fences = Append(st.fences, done) /\ next.open = <<>>
    BY <2>1
  <2> DEFINE longer == Append(st.fences, done)
  <2> HIDE DEF longer, next, L
  <2>7. \A k \in 1 .. L + 1 : k \in 1 .. L \/ k = L + 1
    BY <1>3
  <2>8. \A k \in 1 .. L + 1 : Closed(text, longer[k], k)
    BY <1>5, <2>4, <2>5, <2>7 DEF longer, L
  <2>9. Rank(text, n) = 2 * Len(longer) /\ Len(longer) = L + 1
    BY <2>3, <2>5 DEF longer
  <2>10. next.fences = longer
    BY <2>6 DEF longer
  <2> QED
    BY <2>6, <2>8, <2>9, <2>10 DEF Scanned, next
<1>13. CASE st.open # <<>> /\ text[n].kind # "fence"
  <2> DEFINE longer == [b EXCEPT !.lines = Append(@, text[n])]
  <2>1. next = [st EXCEPT !.open[1].lines = Append(@, text[n])]
    BY <1>13 DEF ScanLine
  <2>2. [st EXCEPT !.open[1].lines = Append(@, text[n])] = [st EXCEPT !.open = [st.open EXCEPT ![1] = longer]]
    OBVIOUS
  <2>3. next.fences = st.fences /\ next.open = [st.open EXCEPT ![1] = longer]
    BY <1>9, <2>1, <2>2
  <2> DEFINE LL == {text[i] : i \in 1 .. Len(text)}
  <2>4. b.lines \in Seq(LL) /\ text[n] \in LL
    BY <1>8, <1>13 DEF Block, BlocksOf
  <2>5. Append(b.lines, text[n]) \in Seq(LL)
    BY <2>4, AppendProperties
  <2>6. /\ longer \in Block /\ longer.index = b.index /\ longer.start = b.start
        /\ longer.info = b.info /\ longer.lines = Append(b.lines, text[n])
    BY <1>8, <1>13, <2>5 DEF Block, BlocksOf
  <2> HIDE DEF longer, next
  <2>7. 1 \in 1 .. Len(st.open)
    BY <1>3, <1>13, FirstElement
  <2>8. Len(next.open) = Len(st.open) /\ next.open[1] = longer /\ next.open # <<>>
    <3>1. /\ Len([st.open EXCEPT ![1] = longer]) = Len(st.open)
          /\ [st.open EXCEPT ![1] = longer][1] = longer
      BY <1>3, <2>6, <2>7, ReplaceFacts
    <3>2. Len(st.open) # 0
      BY <1>3, <1>13, EmptySeq
    <3>3. Len(<<>>) = 0
      OBVIOUS
    <3> QED
      BY <2>3, <3>1, <3>2, <3>3
  <2>9. q = 2 * L + 1
    BY <1>2, <1>7, <1>13
  <2>10. Opened(text, longer, L + 1)
    BY <1>7, <1>13, <2>6 DEF Opened
  <2>11. longer.start <= n
    BY <1>1, <1>7, <1>8, <1>13, <2>6
  <2>12. Between(text, longer.lines, longer.start, n + 1)
    <3> DEFINE m == Len(b.lines)
               a == b.start
    <3>1. /\ m \in Nat /\ Len(Append(b.lines, text[n])) = m + 1
          /\ \A k \in 1 .. m : Append(b.lines, text[n])[k] = b.lines[k]
          /\ Append(b.lines, text[n])[m + 1] = text[n]
      BY <2>4, AppendFacts
    <3>2. m = ((n - 1) + 1) - a - 1 /\ \A i \in 1 .. m : b.lines[i] = text[a + i]
      <4> DEFINE z == n - 1 + 1
      <4> HIDE DEF z
      <4>1. Between(text, b.lines, a, z)
        BY <1>7, <1>13 DEF z
      <4> HIDE DEF b, a
      <4>2. m = z - a - 1 /\ \A i \in 1 .. m : b.lines[i] = text[a + i]
        BY <4>1 DEF Between
      <4> QED
        BY <4>2 DEF z
    <3>3. a \in Nat
      BY <1>8, <1>13
    <3> HIDE DEF m, a
    <3>4. m + 1 = (n + 1) - a - 1 /\ a + (m + 1) = n /\ \A i \in 1 .. m + 1 : i \in 1 .. m \/ i = m + 1
      BY <1>1, <3>1, <3>2, <3>3
    <3>5. \A i \in 1 .. m + 1 : Append(b.lines, text[n])[i] = text[a + i]
      BY <3>1, <3>2, <3>4
    <3> DEFINE app == Append(b.lines, text[n])
    <3> HIDE DEF app
    <3>6. Len(app) = (n + 1) - a - 1 /\ \A i \in 1 .. Len(app) : app[i] = text[a + i]
      BY <3>1, <3>4, <3>5 DEF app
    <3>7. Between(text, app, a, n + 1)
      BY <3>6 DEF Between
    <3> QED
      BY <2>6, <3>7 DEF app, a
  <2> QED
    BY <1>5, <2>3, <2>8, <2>9, <2>10, <2>11, <2>12 DEF Scanned, next
<1> QED
  BY <1>10, <1>11, <1>12, <1>13

LEMMA ScanToFacts ==
  ASSUME NEW text, text \in Seq(Range(text))
  PROVE  \A n \in 0 .. Len(text) : Scanned(text, ScanTo(text)[n], n)
<1> DEFINE N == Len(text)
           S == {n \in Nat : n <= N => Scanned(text, ScanTo(text)[n], n)}
<1>1. N \in Nat /\ Rank(text, 0) = 0
  BY RankOf
<1>2. Scanned(text, ScanTo(text)[0], 0)
  <2> DEFINE st == ScanTo(text)[0]
  <2>1. st.fences = <<>> /\ st.open = <<>>
    BY ScanFacts
  <2> HIDE DEF st
  <2>2. Len(<<>>) = 0 /\ 1 .. 0 = {} /\ 0 = 2 * 0
    OBVIOUS
  <2> QED
    BY <1>1, <2>1, <2>2 DEF Scanned, st
<1>3. ASSUME NEW n \in S PROVE n + 1 \in S
  <2> SUFFICES ASSUME n + 1 <= N PROVE Scanned(text, ScanTo(text)[n + 1], n + 1)
    OBVIOUS
  <2>1. n \in Nat /\ n + 1 \in 1 .. N /\ n \in 0 .. N /\ (n + 1) - 1 = n /\ n <= N
    BY <1>1
  <2> DEFINE st == ScanTo(text)[n]
             m == n + 1
  <2>2. st \in [fences : Seq(BlocksOf(text)), open : Seq(BlocksOf(text))]
    BY <2>1, ScanFacts
  <2>3. Scanned(text, st, m - 1) /\ ScanTo(text)[m] = ScanLine(text, st, m) /\ m \in 1 .. Len(text)
    BY <2>1, ScanFacts
  <2> HIDE DEF st, m
  <2>4. Scanned(text, ScanTo(text)[m], m)
    BY <2>2, <2>3, ScanStep
  <2> QED
    BY <2>4 DEF m
<1>4. S = Nat
  <2>1. S \in SUBSET Nat /\ 0 \in S
    BY <1>2
  <2> HIDE DEF S
  <2> QED
    BY <1>3, <2>1, NatSet
<1>5. \A n \in 0 .. N : n \in Nat /\ n <= N
  BY <1>1
<1> QED
  BY <1>4, <1>5

\* parse_fences: every block was opened by a fence line of odd rank; it is
\* closed by the next one, or ends with the document.
LEMMA BlockFacts ==
  ASSUME NEW text, text \in Seq(Range(text))
  PROVE  LET fences == ParseFences(text)
             marks  == Cardinality(FenceLines(text))
         IN  /\ fences \in Seq(BlocksOf(text)) /\ marks \in Nat
             /\ Len(fences) = (marks + 1) \div 2
             /\ \A k \in 1 .. Len(fences) :
                  /\ Opened(text, fences[k], k)
                  /\ 2 * k <= marks => Closed(text, fences[k], k)
                  /\ ~(2 * k <= marks) => /\ fences[k].start <= Len(text)
                                          /\ Between(text, fences[k].lines, fences[k].start, Len(text) + 1)
<1> DEFINE N == Len(text)
           Block == BlocksOf(text)
           fences == ParseFences(text)
           marks == Cardinality(FenceLines(text))
           end == ScanTo(text)[N]
           L == Len(end.fences)
           b == end.open[1]
           Holds(k, f) == /\ Opened(text, f, k)
                          /\ 2 * k <= marks => Closed(text, f, k)
                          /\ ~(2 * k <= marks) => f.start <= N /\ Between(text, f.lines, f.start, N + 1)
<1>1. N \in Nat /\ N \in 0 .. N
  BY RankOf
<1>2. Rank(text, N) = marks /\ marks \in Nat
  BY <1>1, RankOf
<1>3. end.fences \in Seq(Block) /\ end.open \in Seq(Block) /\ L \in Nat
  <2>1. end.fences \in Seq(Block) /\ end.open \in Seq(Block)
    BY <1>1, ScanFacts
  <2> HIDE DEF end
  <2> QED
    BY <2>1, LenProperties
<1>4. Scanned(text, end, N)
  BY <1>1, ScanToFacts
<1>5. fences = IF end.open = <<>> THEN end.fences ELSE Append(end.fences, [b EXCEPT !.end = N])
  BY DEF ParseFences
<1>6. fences \in Seq(Block)
  BY ParseFencesType
<1> HIDE DEF end, fences, marks, Block, N
<1>7. \A k \in 1 .. L : Closed(text, end.fences[k], k)
  BY <1>4 DEF Scanned
<1>8. CASE end.open = <<>>
  <2>1. fences = end.fences /\ marks = 2 * L
    BY <1>2, <1>4, <1>5, <1>8 DEF Scanned
  <2>2. (2 * L + 1) \div 2 = L
    <3>1. \A m \in Nat : (2 * m + 1) \div 2 = m
      OBVIOUS
    <3> HIDE DEF L
    <3> QED
      BY <1>3, <3>1
  <2>3. ASSUME NEW k \in 1 .. L PROVE Holds(k, end.fences[k])
    <3>1. 2 * k <= 2 * L
      BY <1>3
    <3> QED
      BY <1>7, <2>1, <3>1 DEF Closed
  <2> HIDE DEF Holds
  <2>4. Len(fences) = (marks + 1) \div 2 /\ \A k \in 1 .. Len(fences) : Holds(k, fences[k])
    BY <2>1, <2>2, <2>3
  <2> QED
    BY <1>2, <1>6, <2>4 DEF fences, marks, Block, N, Holds
<1>9. CASE end.open # <<>>
  <2> DEFINE ending == [b EXCEPT !.end = N]
  <2>1. /\ marks = 2 * L + 1 /\ Opened(text, b, L + 1) /\ b.start <= N
        /\ Between(text, b.lines, b.start, N + 1)
    BY <1>2, <1>4, <1>9 DEF Scanned
  <2>2. b \in Block
    BY <1>3, <1>9, FirstElement
  <2>3. /\ ending \in Block /\ ending.index = b.index /\ ending.start = b.start
        /\ ending.info = b.info /\ ending.lines = b.lines
    BY <1>1, <2>2 DEF Block, BlocksOf
  <2> HIDE DEF ending
  <2>4. fences = Append(end.fences, ending)
    BY <1>5, <1>9 DEF ending
  <2>5. /\ Len(fences) = L + 1 /\ fences[L + 1] = ending
        /\ \A k \in 1 .. L : fences[k] = end.fences[k]
    BY <1>3, <2>3, <2>4, AppendFacts
  <2>6. (marks + 1) \div 2 = L + 1
    <3>1. marks + 1 = 2 * (L + 1)
      BY <1>3, <2>1
    <3>2. \A m \in Nat : (2 * m) \div 2 = m
      OBVIOUS
    <3> QED
      BY <1>3, <3>1, <3>2
  <2>7. ASSUME NEW k \in 1 .. L PROVE Holds(k, fences[k])
    <3>1. 2 * k <= 2 * L + 1
      BY <1>3
    <3> QED
      BY <1>7, <2>1, <2>5, <3>1 DEF Closed
  <2>8. Holds(L + 1, fences[L + 1])
    <3>1. ~(2 * (L + 1) <= marks)
      BY <1>3, <2>1
    <3>2. Opened(text, ending, L + 1)
      BY <2>1, <2>3 DEF Opened
    <3> QED
      BY <2>1, <2>3, <2>5, <3>1, <3>2
  <2> HIDE DEF Holds
  <2>9. \A k \in 1 .. L + 1 : k \in 1 .. L \/ k = L + 1
    BY <1>3
  <2>10. Len(fences) = (marks + 1) \div 2 /\ \A k \in 1 .. Len(fences) : Holds(k, fences[k])
    BY <2>5, <2>6, <2>7, <2>8, <2>9
  <2> QED
    BY <1>2, <1>6, <2>10 DEF fences, marks, Block, N, Holds
<1> QED
  BY <1>8, <1>9

LEMMA BetweenIsSubSeq ==
  ASSUME NEW T, NEW text \in Seq(T), NEW lines \in Seq(T), NEW a \in Nat, NEW z \in Nat,
         a < z, z <= Len(text) + 1, Between(text, lines, a, z)
  PROVE  lines = SubSeq(text, a + 1, z - 1)
<1> DEFINE sub == SubSeq(text, a + 1, z - 1)
           m == Len(lines)
<1>1. Len(text) \in Nat /\ m \in Nat
  BY LenProperties
<1>2. m = z - a - 1 /\ \A i \in 1 .. m : lines[i] = text[a + i]
  BY DEF Between
<1>3. a + 1 \in Int /\ z - 1 \in Int /\ \A i \in (a + 1) .. (z - 1) : text[i] \in T
  <2>1. \A i \in (a + 1) .. (z - 1) : i \in 1 .. Len(text)
    BY <1>1
  <2> QED
    BY <2>1, ElementOfSeq
<1>4. /\ sub \in Seq(T)
      /\ Len(sub) = IF a + 1 <= z - 1 THEN (z - 1) - (a + 1) + 1 ELSE 0
      /\ \A i \in 1 .. (z - 1) - (a + 1) + 1 : sub[i] = text[(a + 1) + i - 1]
  BY <1>3, SubSeqProperties
<1> HIDE DEF sub
<1>5. /\ (z - 1) - (a + 1) + 1 = m /\ (a + 1 <= z - 1 \/ m = 0)
      /\ \A i \in 1 .. m : (a + 1) + i - 1 = a + i
  BY <1>1, <1>2
<1>6. Len(sub) = m /\ \A i \in 1 .. m : lines[i] = sub[i]
  BY <1>2, <1>4, <1>5
<1> QED
  BY <1>4, <1>6, SeqEqual DEF sub

\* A draft is a list of lines, whose blocks are paired.
LEMMA DraftIsText ==
  ASSUME NEW t \in Seq(Lines)
  PROVE  t \in Seq(Range(t)) /\ \A n \in 1 .. Len(t) : t[n] \in Lines
<1>1. DOMAIN t = 1 .. Len(t) /\ Len(t) \in Nat
  BY LenProperties
<1>2. t \in [1 .. Len(t) -> Range(t)]
  BY <1>1 DEF Range
<1> QED
  BY <1>1, <1>2, FunctionIsSequence, ElementOfSeq

LEMMA DraftBlocksArePaired == draft \in Seq(Lines) => BlocksArePaired
<1> SUFFICES ASSUME draft \in Seq(Lines) PROVE BlocksArePaired
  OBVIOUS
<1> DEFINE N == Len(draft)
           blocks == ParseFences(draft)
           marks == Cardinality(FenceLines(draft))
           T == {draft[n] : n \in 1 .. Len(draft)}
<1>1. draft \in Seq(Range(draft))
  BY DraftIsText
<1>2. /\ blocks \in Seq(BlocksOf(draft)) /\ marks \in Nat
      /\ Len(blocks) = (marks + 1) \div 2
      /\ \A k \in 1 .. Len(blocks) :
           /\ Opened(draft, blocks[k], k)
           /\ 2 * k <= marks => Closed(draft, blocks[k], k)
           /\ ~(2 * k <= marks) => /\ blocks[k].start <= N
                                   /\ Between(draft, blocks[k].lines, blocks[k].start, N + 1)
  BY <1>1, BlockFacts
<1>3. /\ N \in Nat /\ FenceLines(draft) \in SUBSET (1 .. N)
      /\ \A n \in FenceLines(draft) : FenceLine(draft, Rank(draft, n)) = n
  BY <1>1, RankOf
<1>4. draft \in Seq(T)
  <2>1. draft \in [1 .. N -> T]
    BY <1>1
  <2> QED
    BY <1>3, <2>1, FunctionIsSequence
<1> HIDE DEF blocks, marks
<1>5. ASSUME NEW k \in 1 .. Len(blocks)
      PROVE  LET upto == IF 2 * k <= marks THEN FenceLine(draft, 2 * k) ELSE Len(draft) + 1
             IN  /\ blocks[k].start = FenceLine(draft, 2 * k - 1)
                 /\ blocks[k].lines = SubSeq(draft, blocks[k].start + 1, upto - 1)
  <2> DEFINE b == blocks[k]
             upto == IF 2 * k <= marks THEN FenceLine(draft, 2 * k) ELSE Len(draft) + 1
  <2>1. b \in BlocksOf(draft)
    BY <1>2, ElementOfSeq
  <2>2. b.lines \in Seq(T) /\ b.start \in Nat
    BY <2>1 DEF BlocksOf
  <2>3. b.start = FenceLine(draft, 2 * k - 1)
    BY <1>2, <1>3 DEF Opened
  <2>4. /\ upto \in Nat /\ b.start < upto /\ upto <= N + 1
        /\ Between(draft, b.lines, b.start, upto)
    <3>1. CASE 2 * k <= marks
      <4>1. Closed(draft, b, k)
        BY <1>2, <3>1
      <4>2. b.end \in 1 .. N /\ upto = b.end
        BY <1>3, <3>1, <4>1 DEF Closed
      <4> QED
        BY <1>3, <4>1, <4>2 DEF Closed
    <3>2. CASE ~(2 * k <= marks)
      <4>1. b.start <= N /\ Between(draft, b.lines, b.start, N + 1) /\ upto = N + 1
        BY <1>2, <3>2
      <4> QED
        BY <1>3, <2>2, <4>1
    <3> QED
      BY <3>1, <3>2
  <2> HIDE DEF T, upto, b, N
  <2>5. b.lines = SubSeq(draft, b.start + 1, upto - 1)
    BY <1>4, <2>2, <2>4, BetweenIsSubSeq DEF N
  <2> QED
    BY <2>3, <2>5 DEF upto, b
<1>6. DOMAIN blocks = 1 .. Len(blocks)
  BY <1>2, LenProperties
<1> QED
  BY <1>2, <1>5, <1>6 DEF BlocksArePaired, Paired, blocks, marks

-----------------------------------------------------------------------------
(* Later lines.                                                            *)

LEMMA GreatestNat ==
  ASSUME NEW T \in SUBSET Nat, T # {}, NEW M \in Nat, \A y \in T : y <= M
  PROVE  \E x \in T : \A y \in T : y <= x
<1> DEFINE U == {M - y : y \in T}
<1>1. U \in SUBSET Nat /\ U # {}
  <2>1. \A y \in T : M - y \in Nat
    OBVIOUS
  <2>2. U \in SUBSET Nat
    BY <2>1
  <2>3. PICK y \in T : TRUE
    OBVIOUS
  <2>4. M - y \in U
    BY <2>3
  <2> QED
    BY <2>2, <2>4
<1>2. PICK u \in U : \A v \in U : u <= v
  <2> HIDE DEF U
  <2> QED
    BY <1>1, LeastNat
<1>3. PICK x \in T : u = M - x
  BY <1>2
<1>4. \A y \in T : M - x <= M - y
  BY <1>2, <1>3
<1>5. x \in Nat /\ \A y \in T : y \in Nat
  BY <1>3
<1>6. \A y \in T : y <= x
  BY <1>4, <1>5
<1> QED
  BY <1>3, <1>6

\* The section of a line depends on what is above it only.
LEMMA SectionSame ==
  ASSUME NEW text, NEW more, NEW n \in Nat,
         \A m \in 1 .. n - 1 : more[m].kind = text[m].kind,
         \A m \in 1 .. n - 1 : text[m].kind = "heading" => more[m].title = text[m].title
  PROVE  SectionFor(more, n) = SectionFor(text, n)
<1> DEFINE above == {m \in 1 .. n - 1 : text[m].kind = "heading"}
           also  == {m \in 1 .. n - 1 : more[m].kind = "heading"}
           nearest == CHOOSE m \in above : \A k \in above : k <= m
<1>1. also = above
  OBVIOUS
<1>2. SectionFor(text, n) = IF above = {} THEN "" ELSE text[nearest].title
  BY DEF SectionFor
<1>3. SectionFor(more, n) = IF above = {} THEN "" ELSE more[nearest].title
  <2>1. SectionFor(more, n) = IF also = {} THEN ""
                              ELSE more[CHOOSE m \in also : \A k \in also : k <= m].title
    BY DEF SectionFor
  <2> HIDE DEF also, above
  <2> QED
    BY <1>1, <2>1
<1>4. above # {} => nearest \in above
  <2>1. above \in SUBSET Nat /\ \A y \in above : y <= n
    OBVIOUS
  <2> HIDE DEF above
  <2>2. above # {} => \E x \in above : \A y \in above : y <= x
    BY <2>1, GreatestNat
  <2> QED
    BY <2>2
<1>5. above # {} => nearest \in 1 .. n - 1 /\ text[nearest].kind = "heading"
  <2>1. \A m \in above : m \in 1 .. n - 1 /\ text[m].kind = "heading"
    OBVIOUS
  <2> HIDE DEF above, nearest
  <2> QED
    BY <1>4, <2>1
<1>6. above # {} => more[nearest].title = text[nearest].title
  <2> HIDE DEF above, nearest
  <2> QED
    BY <1>5
<1> HIDE DEF above, nearest
<1>7. CASE above = {}
  BY <1>2, <1>3, <1>7
<1>8. CASE above # {}
  <2>1. SectionFor(text, n) = text[nearest].title
    BY <1>2, <1>8
  <2>2. SectionFor(more, n) = more[nearest].title
    BY <1>3, <1>8
  <2> QED
    BY <1>6, <1>8, <2>1, <2>2
<1> QED
  BY <1>7, <1>8

\* A scan reads a longer document as it read the shorter one.
LEMMA ScanSame ==
  ASSUME NEW text, text \in Seq(Range(text)), NEW more, more \in Seq(Range(more)),
         Len(text) <= Len(more), \A n \in 1 .. Len(text) : more[n] = text[n]
  PROVE  \A n \in 0 .. Len(text) : ScanTo(more)[n] = ScanTo(text)[n]
<1> DEFINE N == Len(text)
           S == {n \in Nat : n <= N => ScanTo(more)[n] = ScanTo(text)[n]}
<1>1. N \in Nat /\ Len(more) \in Nat
  BY LenProperties
<1>2. 0 \in S
  BY ScanFacts
<1>3. ASSUME NEW n \in S PROVE n + 1 \in S
  <2> SUFFICES ASSUME n + 1 <= N PROVE ScanTo(more)[n + 1] = ScanTo(text)[n + 1]
    OBVIOUS
  <2> DEFINE p == n + 1
             st == ScanTo(text)[n]
  <2>1. n \in Nat /\ p \in 1 .. N /\ p \in 1 .. Len(more) /\ p - 1 = n /\ n <= N
    BY <1>1
  <2>2. ScanTo(more)[n] = st
    BY <2>1
  <2>3. ScanTo(text)[p] = ScanLine(text, st, p) /\ ScanTo(more)[p] = ScanLine(more, st, p)
    <3> HIDE DEF p
    <3>1. ScanTo(text)[p] = ScanLine(text, ScanTo(text)[p - 1], p)
      BY <2>1, ScanFacts
    <3>2. ScanTo(more)[p] = ScanLine(more, ScanTo(more)[p - 1], p)
      BY <2>1, ScanFacts
    <3> QED
      BY <2>1, <2>2, <3>1, <3>2
  <2> HIDE DEF p, st
  <2>4. p \in Nat /\ more[p] = text[p] /\ \A m \in 1 .. p - 1 : more[m] = text[m]
    BY <1>1, <2>1
  <2>5. SectionFor(more, p) = SectionFor(text, p)
    BY <2>4, SectionSame
  <2>6. ScanLine(more, st, p) = ScanLine(text, st, p)
    BY <2>4, <2>5 DEF ScanLine
  <2> QED
    BY <2>3, <2>6 DEF p
<1>4. S = Nat
  <2>1. S \in SUBSET Nat
    OBVIOUS
  <2> HIDE DEF S
  <2> QED
    BY <1>2, <1>3, <2>1, NatSet
<1>5. \A n \in 0 .. N : n \in Nat /\ n <= N
  BY <1>1
<1> QED
  BY <1>4, <1>5

LEMMA AppendIsText ==
  ASSUME NEW text, text \in Seq(Range(text)), NEW line
  PROVE  /\ Len(text) \in Nat
         /\ Append(text, line) \in Seq(Range(Append(text, line)))
         /\ Len(Append(text, line)) = Len(text) + 1
         /\ \A n \in 1 .. Len(text) : Append(text, line)[n] = text[n]
<1> DEFINE T == Range(text) \cup {line}
           more == Append(text, line)
<1>1. text \in Seq(T) /\ line \in T
  <2>1. Range(text) \subseteq T
    OBVIOUS
  <2> HIDE DEF T
  <2> QED
    BY <2>1, WiderSeq DEF T
<1> HIDE DEF T
<1>2. /\ more \in Seq(T) /\ Len(text) \in Nat /\ Len(more) = Len(text) + 1
      /\ \A n \in 1 .. Len(text) : more[n] = text[n]
  BY <1>1, AppendFacts
<1> HIDE DEF more
<1>3. DOMAIN more = 1 .. Len(more) /\ Len(more) \in Nat /\ more \in [1 .. Len(more) -> T]
  BY <1>2, LenProperties
<1>4. more \in [1 .. Len(more) -> Range(more)]
  BY <1>3 DEF Range
<1>5. more \in Seq(Range(more))
  BY <1>3, <1>4, FunctionIsSequence
<1> QED
  BY <1>2, <1>5 DEF more

\* A line added to a document can only change its last block, or begin a new
\* one; no block gets another info string.
LEMMA BlocksKept ==
  ASSUME NEW text, text \in Seq(Range(text)), NEW line
  PROVE  LET now   == ParseFences(text)
             later == ParseFences(Append(text, line))
         IN  /\ Len(now) \in Nat
             /\ Len(later) \in {Len(now), Len(now) + 1}
             /\ \A k \in 1 .. Len(now) : later[k].info = now[k].info
             /\ \A k \in 1 .. Len(now) - 1 : later[k] = now[k]
<1> DEFINE N == Len(text)
           more == Append(text, line)
           Block == BlocksOf(more)
           st == ScanTo(text)[N]
           next == ScanLine(more, st, N + 1)
           now == ParseFences(text)
           later == ParseFences(more)
           L == Len(st.fences)
           b == st.open[1]
<1>1. /\ N \in Nat /\ N \in 0 .. N /\ more \in Seq(Range(more)) /\ Len(more) = N + 1
      /\ \A n \in 1 .. N : more[n] = text[n]
      /\ N + 1 \in 1 .. Len(more) /\ N \in 0 .. Len(more) /\ N + 1 \in 0 .. Len(more) /\ (N + 1) - 1 = N
  BY AppendIsText
<1> HIDE DEF more
<1>2. ScanTo(more)[N] = st
  BY <1>1, ScanSame
<1>3. st.fences \in Seq(Block) /\ st.open \in Seq(Block)
  BY <1>1, <1>2, ScanFacts
<1>4. ScanTo(more)[N + 1] = next /\ next.open \in Seq(Block) /\ next.fences \in Seq(Block)
      /\ st = [fences |-> st.fences, open |-> st.open]
  <2> DEFINE p == N + 1
  <2> HIDE DEF p
  <2>1. p \in 1 .. Len(more) /\ p \in 0 .. Len(more) /\ p - 1 = N
    BY <1>1 DEF p
  <2>2. /\ ScanTo(more)[p] = ScanLine(more, ScanTo(more)[p - 1], p)
        /\ ScanTo(more)[p].open \in Seq(Block) /\ ScanTo(more)[p].fences \in Seq(Block)
    BY <1>1, <2>1, ScanFacts
  <2>3. ScanTo(more)[N] \in [fences : Seq(BlocksOf(more)), open : Seq(BlocksOf(more))]
    BY <1>1, ScanFacts
  <2>4. st = [fences |-> st.fences, open |-> st.open]
    BY <1>2, <2>3
  <2> QED
    BY <1>2, <2>1, <2>2, <2>4 DEF p
<1>5. now = IF st.open = <<>> THEN st.fences ELSE Append(st.fences, [b EXCEPT !.end = N])
  BY DEF ParseFences
<1>6. later = IF next.open = <<>> THEN next.fences
              ELSE Append(next.fences, [next.open[1] EXCEPT !.end = N + 1])
  BY <1>1, <1>4 DEF ParseFences
<1>7. L \in Nat
  BY <1>3, LenProperties
<1>8. ASSUME NEW x \in Block, NEW m \in Nat
      PROVE  [x EXCEPT !.end = m] \in Block /\ [x EXCEPT !.end = m].info = x.info
  BY DEF Block, BlocksOf
<1>9. ASSUME NEW x \in Block
      PROVE  /\ [x EXCEPT !.end = N] \in Block /\ [x EXCEPT !.end = N].info = x.info
             /\ [x EXCEPT !.end = N + 1] \in Block /\ [x EXCEPT !.end = N + 1].info = x.info
  <2> DEFINE p == N + 1
  <2>1. p \in Nat
    BY <1>1
  <2> HIDE DEF p, Block
  <2>2. [x EXCEPT !.end = p] \in Block /\ [x EXCEPT !.end = p].info = x.info
    BY <1>8, <2>1
  <2> QED
    BY <1>1, <1>8, <2>2 DEF p
<1> HIDE DEF st, now, later, next
<1>10. CASE st.open = <<>>
  <2>1. now = st.fences
    BY <1>5, <1>10
  <2>2. next.fences = st.fences
    <3>1. CASE more[N + 1].kind = "fence"
      BY <1>4, <1>10, <3>1 DEF next, ScanLine
    <3>2. CASE more[N + 1].kind # "fence"
      BY <1>10, <3>2 DEF next, ScanLine
    <3> QED
      BY <3>1, <3>2
  <2>3. Len(later) \in {L, L + 1} /\ \A k \in 1 .. L : later[k] = st.fences[k]
    <3>1. CASE next.open = <<>>
      BY <1>6, <2>2, <3>1
    <3>2. CASE next.open # <<>>
      <4>1. next.open[1] \in Block
        BY <1>4, <3>2, FirstElement
      <4> DEFINE e == [next.open[1] EXCEPT !.end = N + 1]
      <4>2. e \in Block
        BY <1>9, <4>1
      <4> HIDE DEF e
      <4>3. later = Append(st.fences, e)
        BY <1>6, <2>2, <3>2 DEF e
      <4> QED
        BY <1>3, <4>2, <4>3, AppendFacts
    <3> QED
      BY <3>1, <3>2
  <2>4. \A k \in 1 .. L - 1 : k \in 1 .. L
    BY <1>7
  <2> QED
    BY <1>7, <2>1, <2>3, <2>4 DEF now, later, more
<1>11. CASE st.open # <<>>
  <2>1. b \in Block /\ 1 \in 1 .. Len(st.open)
    BY <1>3, <1>11, FirstElement
  <2> DEFINE e == [b EXCEPT !.end = N]
  <2>2. e \in Block /\ e.info = b.info
    BY <1>9, <2>1
  <2> HIDE DEF e
  <2>3. now = Append(st.fences, e)
    BY <1>5, <1>11 DEF e
  <2>4. /\ Len(now) = L + 1 /\ now[L + 1] = e
        /\ \A k \in 1 .. L : now[k] = st.fences[k]
    BY <1>3, <2>2, <2>3, AppendFacts
  <2>5. \E x \in Block : later = Append(st.fences, x) /\ x.info = b.info
    <3>1. CASE more[N + 1].kind = "fence"
      <4>1. next = [open |-> <<>>, fences |-> Append(st.fences, [b EXCEPT !.end = N + 1])]
        BY <1>11, <3>1 DEF next, ScanLine
      <4> DEFINE x == [b EXCEPT !.end = N + 1]
      <4>2. x \in Block /\ x.info = b.info
        BY <1>9, <2>1
      <4> HIDE DEF x
      <4>3. next.open = <<>> /\ next.fences = Append(st.fences, x)
        BY <4>1 DEF x
      <4>4. later = Append(st.fences, x)
        BY <1>6, <4>3
      <4> QED
        BY <4>2, <4>4
    <3>2. CASE more[N + 1].kind # "fence"
      <4> DEFINE longer == [b EXCEPT !.lines = Append(@, more[N + 1])]
      <4>1. next = [st EXCEPT !.open[1].lines = Append(@, more[N + 1])]
        BY <1>11, <3>2 DEF next, ScanLine
      <4>2. [st EXCEPT !.open[1].lines = Append(@, more[N + 1])]
              = [st EXCEPT !.open = [st.open EXCEPT ![1] = longer]]
        OBVIOUS
      <4>3. next.fences = st.fences /\ next.open = [st.open EXCEPT ![1] = longer]
        BY <1>4, <4>1, <4>2
      <4>4. next.open[1] = longer /\ next.open # <<>>
        <5>1. DOMAIN next.open = DOMAIN st.open /\ next.open[1] = longer
          <6>1. 1 \in DOMAIN st.open
            BY <1>3, <2>1, LenProperties
          <6> QED
            BY <4>3, <6>1
        <5>2. 1 \in DOMAIN st.open
          BY <1>3, <2>1, LenProperties
        <5>3. DOMAIN <<>> = {}
          OBVIOUS
        <5> QED
          BY <5>1, <5>2, <5>3
      <4>5. longer \in Block /\ longer.info = b.info
        <5>1. longer.info = b.info
          BY <2>1 DEF Block, BlocksOf
        <5>2. next.open[1] \in Block
          BY <1>4, <4>4, FirstElement
        <5> QED
          BY <4>4, <5>1, <5>2
      <4> DEFINE x == [longer EXCEPT !.end = N + 1]
      <4> HIDE DEF longer
      <4>6. x \in Block /\ x.info = b.info
        BY <1>9, <4>5
      <4>7. later = Append(st.fences, x)
        BY <1>6, <4>3, <4>4
      <4> QED
        BY <4>6, <4>7
    <3> QED
      BY <3>1, <3>2
  <2>6. PICK x \in Block : later = Append(st.fences, x) /\ x.info = b.info
    BY <2>5
  <2>7. /\ Len(later) = L + 1 /\ later[L + 1] = x
        /\ \A k \in 1 .. L : later[k] = st.fences[k]
    BY <1>3, <2>6, AppendFacts
  <2>8. L + 1 \in Nat /\ (\A k \in 1 .. L + 1 : k \in 1 .. L \/ k = L + 1) /\ (L + 1) - 1 = L
    BY <1>7
  <2>9. \A k \in 1 .. L + 1 : later[k].info = now[k].info
    BY <2>2, <2>4, <2>6, <2>7, <2>8
  <2>10. \A k \in 1 .. L : later[k] = now[k]
    BY <2>4, <2>7
  <2> QED
    BY <2>4, <2>7, <2>8, <2>9, <2>10 DEF now, later, more
<1> QED
  BY <1>10, <1>11

\* The examples a document defines fixtures with.
KeptBlocks(fences) == {n \in DOMAIN fences : Annotated(fences[n]) /\ ~Skipped(fences[n])}

LEMMA KeptFacts ==
  ASSUME NEW doc, NEW T, NEW fences \in Seq(T)
  PROVE  LET found == FixturesOf(doc, fences)
             c     == Cardinality(KeptBlocks(fences))
             at    == InOrder(KeptBlocks(fences))
         IN  /\ KeptBlocks(fences) \in SUBSET (1 .. Len(fences)) /\ KeptBlocks(fences) \in SUBSET Nat
             /\ IsFiniteSet(KeptBlocks(fences)) /\ c \in Nat
             /\ at \in [1 .. c -> KeptBlocks(fences)]
             /\ \A j, k \in 1 .. c : j < k => at[j] < at[k]
             /\ ~found.usable => found.fixtures = <<>>
             /\ found.usable => /\ \A n \in 1 .. Len(fences) : ~Unusable(doc, fences, n)
                                /\ Len(found.fixtures) = c /\ DOMAIN found.fixtures = 1 .. c
                                /\ \A n \in 1 .. c : found.fixtures[n] = FixtureOf(doc, fences, at[n])
<1> DEFINE found == FixturesOf(doc, fences)
           c     == Cardinality(KeptBlocks(fences))
           at    == InOrder(KeptBlocks(fences))
           refused == \E n \in DOMAIN fences : Unusable(doc, fences, n)
<1>1. DOMAIN fences = 1 .. Len(fences) /\ Len(fences) \in Nat
  BY LenProperties
<1>2. KeptBlocks(fences) \in SUBSET (1 .. Len(fences)) /\ IsFiniteSet(KeptBlocks(fences)) /\ KeptBlocks(fences) \in SUBSET Nat
  <2>1. KeptBlocks(fences) \in SUBSET (1 .. Len(fences))
    BY <1>1 DEF KeptBlocks
  <2>2. IsFiniteSet(1 .. Len(fences))
    BY <1>1, FS_Interval
  <2>3. IsFiniteSet(KeptBlocks(fences))
    BY <2>1, <2>2, FS_Subset
  <2>4. KeptBlocks(fences) \in SUBSET Nat
    BY <1>1, <2>1
  <2> QED
    BY <2>1, <2>3, <2>4
<1>3. /\ c \in Nat /\ at \in [1 .. c -> KeptBlocks(fences)]
      /\ \A j, k \in 1 .. c : j < k => at[j] < at[k]
  BY <1>2, InOrderFacts
<1>4. found = IF refused THEN [usable |-> FALSE, fixtures |-> <<>>]
              ELSE [usable |-> TRUE, fixtures |-> [n \in DOMAIN at |-> FixtureOf(doc, fences, at[n])]]
  BY DEF FixturesOf, KeptBlocks
<1> HIDE DEF found, at, c
<1>5. CASE refused
  <2>1. found.usable = FALSE /\ found.fixtures = <<>>
    BY <1>4, <1>5
  <2> QED
    BY <1>2, <1>3, <2>1 DEF found, at, c
<1>6. CASE ~refused
  <2>1. found.usable = TRUE /\ found.fixtures = [n \in 1 .. c |-> FixtureOf(doc, fences, at[n])]
    BY <1>3, <1>4, <1>6
  <2>2. DOMAIN found.fixtures = 1 .. c /\ Len(found.fixtures) = c
    BY <1>3, <2>1
  <2>3. \A n \in 1 .. c : found.fixtures[n] = FixtureOf(doc, fences, at[n])
    BY <2>1
  <2>4. \A n \in 1 .. Len(fences) : ~Unusable(doc, fences, n)
    BY <1>1, <1>6
  <2> HIDE DEF refused
  <2> QED
    BY <1>2, <1>3, <2>1, <2>2, <2>3, <2>4 DEF found, at, c
<1> QED
  BY <1>5, <1>6

\* Positions behind all the others do not change the order of these.
LEMMA InOrderExtends ==
  ASSUME NEW U \in SUBSET Nat, IsFiniteSet(U), NEW S \in SUBSET U,
         \A n \in U \ S : \A m \in S : m < n
  PROVE  /\ Cardinality(S) <= Cardinality(U)
         /\ \A k \in 1 .. Cardinality(S) : InOrder(U)[k] = InOrder(S)[k]
<1> DEFINE c == Cardinality(S)
           R(n) == Cardinality({m \in S : m <= n})
<1>1. IsFiniteSet(S) /\ S \in SUBSET Nat /\ c <= Cardinality(U)
  BY FS_Subset
<1>2. /\ c \in Nat /\ InOrder(S) \in [1 .. c -> S]
      /\ \A j, k \in 1 .. c : j < k => InOrder(S)[j] < InOrder(S)[k]
      /\ \A n \in S : R(n) \in 1 .. c /\ InOrder(S)[R(n)] = n
  BY <1>1, RankFacts
<1>3. \A n \in S : {m \in S : m <= n} = {m \in U : m <= n}
  <2> SUFFICES ASSUME NEW n \in S, NEW m \in U \ S PROVE ~(m <= n)
    OBVIOUS
  <2>1. n < m /\ n \in Nat /\ m \in Nat
    OBVIOUS
  <2> QED
    BY <2>1
<1>4. \A n \in S : InOrder(U)[R(n)] = n
  <2>1. \A n \in U : InOrder(U)[Cardinality({m \in U : m <= n})] = n
    BY RankFacts
  <2> QED
    BY <1>3, <2>1
<1> HIDE DEF c, R
<1>5. ASSUME NEW k \in 1 .. c PROVE InOrder(U)[k] = InOrder(S)[k]
  <2> DEFINE n == InOrder(S)[k]
             r == R(n)
  <2>1. n \in S /\ r \in 1 .. c /\ InOrder(S)[r] = n
    BY <1>2
  <2>2. r = k
    <3>1. n \in Nat /\ r \in Nat /\ k \in Nat
      <4> HIDE DEF n, r
      <4>1. n \in Nat
        BY <1>1, <2>1
      <4>2. r \in Nat /\ k \in Nat
        BY <1>2, <2>1
      <4> QED
        BY <4>1, <4>2
    <3>2. r < k => InOrder(S)[r] < InOrder(S)[k]
      BY <1>2, <2>1
    <3>3. k < r => InOrder(S)[k] < InOrder(S)[r]
      BY <1>2, <2>1
    <3> HIDE DEF r
    <3>4. ~(r < k) /\ ~(k < r)
      BY <2>1, <3>1, <3>2, <3>3
    <3> QED
      BY <3>1, <3>4
  <2>3. InOrder(U)[r] = n
    BY <1>4, <2>1
  <2> QED
    BY <2>2, <2>3
<1> QED
  BY <1>1, <1>5 DEF c

\* A later line keeps all the fixtures but the last one.
LEMMA LaterLine ==
  ASSUME NEW doc, NEW text, text \in Seq(Range(text)), NEW line,
         CollectFixtures(doc, Append(text, line)).usable,
         NEW n \in DOMAIN CollectFixtures(doc, text).fixtures,
         n < Len(CollectFixtures(doc, text).fixtures)
  PROVE  /\ n \in DOMAIN CollectFixtures(doc, Append(text, line)).fixtures
         /\ CollectFixtures(doc, Append(text, line)).fixtures[n] = CollectFixtures(doc, text).fixtures[n]
<1> DEFINE more == Append(text, line)
           now == ParseFences(text)
           later == ParseFences(more)
           L == Len(now)
           S == KeptBlocks(now)
           U == KeptBlocks(later)
           c == Cardinality(S)
           d == Cardinality(U)
           at == InOrder(S)
           also == InOrder(U)
           before == FixturesOf(doc, now)
           after == FixturesOf(doc, later)
<1>1. more \in Seq(Range(more))
  BY AppendIsText
<1>2. PICK T : now \in Seq(T)
  BY ParseFencesType
<1>3. PICK V : later \in Seq(V)
  BY <1>1, ParseFencesType
<1>4. /\ L \in Nat /\ Len(later) \in {L, L + 1}
      /\ \A k \in 1 .. L : later[k].info = now[k].info
      /\ \A k \in 1 .. L - 1 : later[k] = now[k]
  BY BlocksKept
<1>5. CollectFixtures(doc, text) = before /\ CollectFixtures(doc, more) = after
  BY DEF CollectFixtures
<1> HIDE DEF now, later, more, before, after, S, U
<1>6. DOMAIN now = 1 .. L /\ DOMAIN later = 1 .. Len(later) /\ \A m \in 1 .. L : m \in 1 .. Len(later)
  <2>1. DOMAIN now = 1 .. L /\ DOMAIN later = 1 .. Len(later)
    BY <1>2, <1>3, LenProperties
  <2> DEFINE M == Len(later)
  <2>2. M = L \/ M = L + 1
    BY <1>4
  <2> HIDE DEF L, M
  <2>3. \A m \in 1 .. L : m \in 1 .. M
    BY <1>4, <2>2
  <2> QED
    BY <2>1, <2>3 DEF M
<1>7. before.usable /\ after.usable /\ n < Len(before.fixtures) /\ n \in DOMAIN before.fixtures
  <2>1. after.usable /\ n < Len(before.fixtures) /\ n \in DOMAIN before.fixtures
    BY <1>5 DEF more
  <2>2. ~before.usable => before.fixtures = <<>>
    BY <1>2, KeptFacts DEF before
  <2>3. DOMAIN <<>> = {}
    OBVIOUS
  <2> QED
    BY <2>1, <2>2, <2>3
<1>8. /\ S \in SUBSET (1 .. L) /\ S \in SUBSET Nat /\ IsFiniteSet(S) /\ c \in Nat
      /\ at \in [1 .. c -> S] /\ \A j, k \in 1 .. c : j < k => at[j] < at[k]
      /\ \A k \in 1 .. L : ~Unusable(doc, now, k)
      /\ Len(before.fixtures) = c /\ DOMAIN before.fixtures = 1 .. c
      /\ \A k \in 1 .. c : before.fixtures[k] = FixtureOf(doc, now, at[k])
  BY <1>2, <1>7, KeptFacts DEF before, S
<1>9. /\ U \in SUBSET (1 .. Len(later)) /\ U \in SUBSET Nat /\ IsFiniteSet(U)
      /\ DOMAIN after.fixtures = 1 .. d
      /\ \A k \in 1 .. d : after.fixtures[k] = FixtureOf(doc, later, also[k])
  BY <1>3, <1>7, KeptFacts DEF after, U
<1>10. S \in SUBSET U /\ \A m \in U \ S : \A k \in S : k < m
  <2>1. ASSUME NEW m \in 1 .. L PROVE m \in S <=> m \in U
    <3>1. m \in DOMAIN now /\ m \in DOMAIN later
      BY <1>4, <1>6
    <3>2. later[m].info = now[m].info
      BY <1>4
    <3> QED
      BY <3>1, <3>2 DEF S, U, KeptBlocks, Annotated, Skipped
  <2>2. \A m \in U : m \notin 1 .. L => m = L + 1
    BY <1>4, <1>9
  <2>3. \A k \in S : k \in 1 .. L
    BY <1>8
  <2>4. \A m \in U \ S : m = L + 1
    BY <2>1, <2>2
  <2>5. \A k \in S : k < L + 1
    BY <1>4, <2>3
  <2>6. S \in SUBSET U
    BY <2>1, <2>3
  <2> QED
    BY <2>4, <2>5, <2>6
<1>11. d \in Nat /\ c <= d /\ \A k \in 1 .. c : also[k] = at[k]
  BY <1>9, <1>10, InOrderExtends, FS_CardinalityType
<1>12. n \in 1 .. c /\ n \in 1 .. d /\ n + 1 \in 1 .. c /\ n < n + 1
  BY <1>7, <1>8, <1>11
<1> DEFINE p == at[n]
           q == at[n + 1]
<1>13. p \in S /\ q \in S /\ p < q /\ p \in 1 .. L /\ q \in 1 .. L /\ p \in 1 .. L - 1
  <2>1. p \in S /\ q \in S /\ p < q
    BY <1>8, <1>12
  <2>2. p \in 1 .. L /\ q \in 1 .. L
    BY <1>8, <2>1
  <2> HIDE DEF p, q
  <2>3. p \in 1 .. L - 1
    BY <1>4, <2>1, <2>2
  <2> QED
    BY <2>1, <2>2, <2>3
<1> HIDE DEF p, q, L, c, d
<1>14. now[p] = later[p]
  BY <1>4, <1>13
\* The block after p is closed, or it is an example itself.
<1>15. ExpectedFor(later, p) = ExpectedFor(now, p)
  <2> DEFINE r == p + 1
  <2>1. r \in 1 .. L /\ r \in 1 .. Len(later) /\ (r <= L <=> r <= Len(later))
    BY <1>4, <1>13
  <2>2. CASE r \in 1 .. L - 1
    <3>1. later[r] = now[r]
      BY <1>4, <2>2
    <3> HIDE DEF r
    <3>2. Following(later, p) <=> Following(now, p)
      BY <1>14, <2>1, <3>1 DEF Following, r, L
    <3> QED
      BY <1>14, <3>1, <3>2 DEF ExpectedFor, r
  <2>3. CASE r \notin 1 .. L - 1
    <3>1. r = q
      BY <1>4, <1>13, <2>1, <2>3
    <3>2. Annotated(now[q]) /\ ~Unusable(doc, now, q)
      BY <1>8, <1>13 DEF S, KeptBlocks
    <3>3. now[q].info.lang \in SourceLangs
      BY <3>2 DEF Unusable
    <3>4. now[r].info.lang \notin OutputLangs /\ later[r].info.lang \notin OutputLangs
      <4>1. later[r].info = now[r].info
        BY <1>4, <2>1
      <4> QED
        BY <3>1, <3>3, <4>1, LinesAssumption
    <3> HIDE DEF r
    <3>5. ~Following(later, p) /\ ~Following(now, p)
      BY <3>4 DEF Following, r
    <3> QED
      BY <1>14, <3>5 DEF ExpectedFor
  <2> QED
    BY <2>2, <2>3
<1>16. FixtureOf(doc, later, p) = FixtureOf(doc, now, p)
  BY <1>14, <1>15 DEF FixtureOf
<1>17. after.fixtures[n] = before.fixtures[n] /\ n \in DOMAIN after.fixtures
  BY <1>8, <1>9, <1>11, <1>12, <1>16 DEF p
<1> QED
  BY <1>5, <1>17 DEF more

\* The document is a list of lines.
WritingInv == draft \in Seq(Lines) /\ added \in 0 .. MaxLines

LEMMA WritingStep == WritingInv /\ [WritingNext]_writingVars => WritingInv'
<1> SUFFICES ASSUME WritingInv, [WritingNext]_writingVars PROVE WritingInv'
  OBVIOUS
<1>1. CASE WritingNext
  <2>1. PICK line \in Lines : Write(line)
    BY <1>1 DEF WritingNext
  <2>2. draft' \in Seq(Lines)
    BY <2>1, AppendProperties DEF Write, WritingInv
  <2>3. added' \in 0 .. MaxLines
    BY <2>1, LinesAssumption DEF Write, WritingInv
  <2> QED
    BY <2>2, <2>3 DEF WritingInv
<1>2. CASE UNCHANGED writingVars
  BY <1>2 DEF writingVars, WritingInv
<1> QED
  BY <1>1, <1>2

LEMMA WritingInvariant == WritingSpec => []WritingInv
<1>1. WritingInit => WritingInv
  BY LinesAssumption DEF WritingInit, WritingInv
<1> QED
  BY <1>1, WritingStep, PTL DEF WritingSpec

\* What is written after an example cannot change the fixtures before it: a
\* line at the end of a document changes its last fixture at most (parse_fences
\* and expected_for, which looks one block ahead).
THEOREM LaterTextKeepsEarlierFixtures == WritingSpec => LaterTextKeepsFixtures
<1> DEFINE Keeps == KeepsAllButTheLast(Fixtures, CollectFixtures(Doc, draft'))
<1>1. WritingInv /\ [WritingNext]_writingVars => [Keeps]_writingVars
  <2> SUFFICES ASSUME WritingInv, WritingNext PROVE Keeps
    OBVIOUS
  <2>1. PICK line \in Lines : draft' = Append(draft, line)
    BY DEF WritingNext, Write
  <2>2. draft \in Seq(Range(draft))
    BY DraftIsText DEF WritingInv
  <2> DEFINE before == CollectFixtures(Doc, draft).fixtures
             after == CollectFixtures(Doc, Append(draft, line))
  <2>3. ASSUME after.usable, NEW n \in DOMAIN before, n < Len(before)
        PROVE  n \in DOMAIN after.fixtures /\ after.fixtures[n] = before[n]
    BY <2>2, <2>3, LaterLine
  <2>4. Fixtures = before /\ CollectFixtures(Doc, draft') = after
    BY <2>1 DEF Fixtures
  <2> HIDE DEF before, after
  <2> QED
    BY <2>3, <2>4 DEF KeepsAllButTheLast
<1>2. WritingSpec => []WritingInv
  BY WritingInvariant
<1> QED
  BY <1>1, <1>2, PTL DEF WritingSpec, LaterTextKeepsFixtures

-----------------------------------------------------------------------------
(* Expectations.                                                           *)

\* The block of a fixture.
LEMMA FixtureFacts ==
  ASSUME NEW doc, NEW text, text \in Seq(Range(text)),
         NEW f \in Range(CollectFixtures(doc, text).fixtures)
  PROVE  \E p \in 1 .. Len(ParseFences(text)) :
           /\ f = FixtureOf(doc, ParseFences(text), p) /\ f.block = p
           /\ Annotated(ParseFences(text)[p]) /\ ~Unusable(doc, ParseFences(text), p)
<1> DEFINE fences == ParseFences(text)
           found == FixturesOf(doc, fences)
           S == KeptBlocks(fences)
           c == Cardinality(S)
           at == InOrder(S)
<1>1. CollectFixtures(doc, text) = found
  BY DEF CollectFixtures
<1>2. fences \in Seq(BlocksOf(text)) /\ \A k \in 1 .. Len(fences) : Opened(text, fences[k], k)
  BY BlockFacts
<1> HIDE DEF fences, found
<1>3. PICK T : fences \in Seq(T)
  BY <1>2
<1>4. /\ S \in SUBSET (1 .. Len(fences)) /\ at \in [1 .. c -> S]
      /\ ~found.usable => found.fixtures = <<>>
      /\ found.usable => /\ \A n \in 1 .. Len(fences) : ~Unusable(doc, fences, n)
                         /\ DOMAIN found.fixtures = 1 .. c
                         /\ \A n \in 1 .. c : found.fixtures[n] = FixtureOf(doc, fences, at[n])
  BY <1>3, KeptFacts DEF found
<1>5. PICK n \in DOMAIN found.fixtures : f = found.fixtures[n]
  BY <1>1 DEF Range
<1>6. found.usable
  <2>1. DOMAIN <<>> = {}
    OBVIOUS
  <2> QED
    BY <1>4, <1>5, <2>1
<1> DEFINE p == at[n]
<1>7. p \in S /\ p \in 1 .. Len(fences) /\ f = FixtureOf(doc, fences, p)
  BY <1>4, <1>5, <1>6
<1> HIDE DEF p
<1>8. Annotated(fences[p]) /\ ~Unusable(doc, fences, p)
  BY <1>4, <1>6, <1>7 DEF KeptBlocks
<1>9. f.block = p
  <2> DEFINE e == ExpectedFor(fences, p)
  <2>1. f = Fixture(doc, fences[p], e)
    BY <1>7 DEF FixtureOf
  <2> HIDE DEF e
  <2>2. f.block = fences[p].index
    BY <2>1 DEF Fixture
  <2> QED
    BY <1>2, <1>7, <2>2 DEF Opened
<1> QED
  BY <1>7, <1>8, <1>9 DEF fences

LEMMA FixtureExpects ==
  ASSUME NEW doc, NEW fences, NEW p
  PROVE  FixtureOf(doc, fences, p).expected = ExpectedFor(fences, p)
<1> DEFINE e == ExpectedFor(fences, p)
<1>1. FixtureOf(doc, fences, p) = Fixture(doc, fences[p], e)
  BY DEF FixtureOf
<1> HIDE DEF e
<1>2. Fixture(doc, fences[p], e).expected = e
  BY DEF Fixture
<1> QED
  BY <1>1, <1>2 DEF e

LEMMA DeclaredFirst == draft \in Seq(Lines) => DeclaredOverridesDerived
<1> SUFFICES ASSUME draft \in Seq(Lines), NEW f \in Range(Fixtures)
             PROVE  Declared(ParseFences(draft)[f.block].info.meta, f.expected)
  BY DEF DeclaredOverridesDerived
<1> DEFINE fences == ParseFences(draft)
<1>1. PICK p \in 1 .. Len(fences) : f = FixtureOf(Doc, fences, p) /\ f.block = p
  BY DraftIsText, FixtureFacts DEF Fixtures
<1>2. f.expected = ExpectedFor(fences, p)
  BY <1>1, FixtureExpects
<1> HIDE DEF fences
<1> DEFINE meta == fences[p].info.meta
<1>3. "bytes" \in DOMAIN meta => f.expected = NormaliseHex(meta["bytes"])
  BY <1>2 DEF ExpectedFor
<1>4. "error" \in DOMAIN meta /\ "bytes" \notin DOMAIN meta => f.expected = ErrorOf(meta["error"])
  BY <1>2 DEF ExpectedFor
<1> QED
  BY <1>1, <1>3, <1>4 DEF Declared, fences

\* Two readings of a block that differ in the words of the line that opens it.
Renamed(b, c, line, info) ==
  /\ c.start = b.start /\ c.end = b.end /\ c.lines = b.lines
  /\ c.info = IF b.start = line THEN info ELSE b.info

Similar(st, su, line, info) ==
  /\ Len(su.fences) = Len(st.fences)
  /\ \A k \in 1 .. Len(st.fences) : Renamed(st.fences[k], su.fences[k], line, info)
  /\ su.open = <<>> <=> st.open = <<>>
  /\ st.open # <<>> => Renamed(st.open[1], su.open[1], line, info)

\* Other words on a fence line.
Reworded(text, other, line) ==
  /\ Len(other) = Len(text)
  /\ other[line].kind = "fence" /\ text[line].kind = "fence"
  /\ \A n \in 1 .. Len(text) : n # line => other[n] = text[n]

LEMMA SimilarStep ==
  ASSUME NEW text, NEW other, NEW line, Reworded(text, other, line), NEW n \in 1 .. Len(text),
         Len(text) \in Nat,
         NEW st, st \in [fences : Seq(BlocksOf(text)), open : Seq(BlocksOf(text))],
         NEW su, su \in [fences : Seq(BlocksOf(other)), open : Seq(BlocksOf(other))],
         Similar(st, su, line, ParseInfo(other[line].tokens))
  PROVE  Similar(ScanLine(text, st, n), ScanLine(other, su, n), line, ParseInfo(other[line].tokens))
<1> DEFINE info == ParseInfo(other[line].tokens)
           L == Len(st.fences)
           ta == ScanLine(text, st, n)
           ua == ScanLine(other, su, n)
           B == BlocksOf(text)
           C == BlocksOf(other)
<1>1. n \in Nat /\ other[n].kind = text[n].kind /\ (n # line => other[n] = text[n])
  BY DEF Reworded
<1>2. SectionFor(other, n) = SectionFor(text, n)
  <2>1. \A m \in 1 .. n - 1 : m \in 1 .. Len(text)
    OBVIOUS
  <2>2. \A m \in 1 .. n - 1 : other[m].kind = text[m].kind
    BY <2>1 DEF Reworded
  <2>3. \A m \in 1 .. n - 1 : text[m].kind = "heading" => other[m].title = text[m].title
    <3>1. \A m \in 1 .. n - 1 : text[m].kind = "heading" => m # line
      BY DEF Reworded
    <3> QED
      BY <2>1, <3>1 DEF Reworded
  <2> QED
    BY <1>1, <2>2, <2>3, SectionSame
<1>3. /\ st.fences \in Seq(B) /\ st.open \in Seq(B) /\ su.fences \in Seq(C) /\ su.open \in Seq(C)
      /\ st = [fences |-> st.fences, open |-> st.open] /\ su = [fences |-> su.fences, open |-> su.open]
      /\ L \in Nat
  BY LenProperties
<1>4. /\ Len(su.fences) = L /\ \A k \in 1 .. L : Renamed(st.fences[k], su.fences[k], line, info)
      /\ su.open = <<>> <=> st.open = <<>>
      /\ st.open # <<>> => Renamed(st.open[1], su.open[1], line, info)
  BY DEF Similar
<1> HIDE DEF B, C, info, ta, ua
<1>5. CASE st.open = <<>> /\ text[n].kind # "fence"
  <2>1. ta = st /\ ua = su
    BY <1>1, <1>4, <1>5 DEF ScanLine, ta, ua
  <2> QED
    BY <2>1 DEF Similar, ta, ua, info
<1>6. CASE st.open = <<>> /\ text[n].kind = "fence"
  <2> DEFINE x == [index |-> L + 1, info |-> ParseInfo(text[n].tokens), lines |-> <<>>,
                   start |-> n, end |-> n, section |-> SectionFor(text, n)]
             y == [index |-> L + 1, info |-> ParseInfo(other[n].tokens), lines |-> <<>>,
                   start |-> n, end |-> n, section |-> SectionFor(other, n)]
  <2>1. ta = [st EXCEPT !.open = <<x>>]
    BY <1>6 DEF ScanLine, ta
  <2>2. ua = [su EXCEPT !.open = <<y>>]
    BY <1>1, <1>4, <1>6 DEF ScanLine, ua
  <2>3. Renamed(x, y, line, info)
    BY <1>1, <1>2 DEF Renamed, info
  <2>4. /\ ta.fences = st.fences /\ ta.open = <<x>> /\ ua.fences = su.fences /\ ua.open = <<y>>
        /\ <<x>>[1] = x /\ <<y>>[1] = y /\ <<x>> # <<>> /\ <<y>> # <<>>
    BY <1>3, <2>1, <2>2
  <2> HIDE DEF x, y
  <2> QED
    BY <1>4, <2>3, <2>4 DEF Similar, ta, ua, info
<1>7. CASE st.open # <<>> /\ text[n].kind = "fence"
  <2> DEFINE x == [st.open[1] EXCEPT !.end = n]
             y == [su.open[1] EXCEPT !.end = n]
  <2>1. ta = [open |-> <<>>, fences |-> Append(st.fences, x)]
    BY <1>7 DEF ScanLine, ta
  <2>2. ua = [open |-> <<>>, fences |-> Append(su.fences, y)]
    BY <1>1, <1>4, <1>7 DEF ScanLine, ua
  <2>3. st.open[1] \in B /\ su.open[1] \in C
    BY <1>3, <1>4, <1>7, FirstElement
  <2>4. /\ x \in B /\ x.start = st.open[1].start /\ x.end = n /\ x.lines = st.open[1].lines
        /\ x.info = st.open[1].info
    BY <1>1, <2>3 DEF B, BlocksOf
  <2>5. /\ y \in C /\ y.start = su.open[1].start /\ y.end = n /\ y.lines = su.open[1].lines
        /\ y.info = su.open[1].info
    BY <1>1, <2>3 DEF C, BlocksOf
  <2> HIDE DEF x, y
  <2>6. Renamed(x, y, line, info)
    BY <1>4, <1>7, <2>4, <2>5 DEF Renamed
  <2> DEFINE p == Append(st.fences, x)
             q == Append(su.fences, y)
  <2>7. /\ Len(p) = L + 1 /\ p[L + 1] = x /\ \A k \in 1 .. L : p[k] = st.fences[k]
    BY <1>3, <2>4, AppendFacts
  <2>8. /\ Len(q) = L + 1 /\ q[L + 1] = y /\ \A k \in 1 .. L : q[k] = su.fences[k]
    BY <1>3, <1>4, <2>5, AppendFacts
  <2>9. ta.open = <<>> /\ ua.open = <<>> /\ ta.fences = p /\ ua.fences = q
    BY <2>1, <2>2
  <2> HIDE DEF p, q, L
  <2>10. \A k \in 1 .. L + 1 : k \in 1 .. L \/ k = L + 1
    BY <1>3
  <2>11. \A k \in 1 .. L + 1 : Renamed(p[k], q[k], line, info)
    BY <1>4, <2>6, <2>7, <2>8, <2>10
  <2> QED
    BY <2>7, <2>8, <2>9, <2>11 DEF Similar, ta, ua, info
<1>8. CASE st.open # <<>> /\ text[n].kind # "fence"
  <2> DEFINE x == [st.open[1] EXCEPT !.lines = Append(@, text[n])]
             y == [su.open[1] EXCEPT !.lines = Append(@, text[n])]
  <2>1. other[n] = text[n]
    <3>1. n # line
      BY <1>8 DEF Reworded
    <3> QED
      BY <1>1, <3>1
  <2>2. ta = [st EXCEPT !.open[1].lines = Append(@, text[n])]
    BY <1>8 DEF ScanLine, ta
  <2>3. ua = [su EXCEPT !.open[1].lines = Append(@, text[n])]
    BY <1>4, <1>8, <2>1 DEF ScanLine, ua
  <2>4. /\ [st EXCEPT !.open[1].lines = Append(@, text[n])] = [st EXCEPT !.open = [st.open EXCEPT ![1] = x]]
        /\ [su EXCEPT !.open[1].lines = Append(@, text[n])] = [su EXCEPT !.open = [su.open EXCEPT ![1] = y]]
    OBVIOUS
  <2>5. /\ ta.fences = st.fences /\ ta.open = [st.open EXCEPT ![1] = x]
        /\ ua.fences = su.fences /\ ua.open = [su.open EXCEPT ![1] = y]
    BY <1>3, <2>2, <2>3, <2>4
  <2>6. st.open[1] \in B /\ su.open[1] \in C /\ 1 \in 1 .. Len(st.open) /\ 1 \in 1 .. Len(su.open)
    BY <1>3, <1>4, <1>8, FirstElement
  <2>7. /\ x.start = st.open[1].start /\ x.end = st.open[1].end
        /\ x.lines = Append(st.open[1].lines, text[n]) /\ x.info = st.open[1].info
    BY <2>6 DEF B, BlocksOf
  <2>8. /\ y.start = su.open[1].start /\ y.end = su.open[1].end
        /\ y.lines = Append(su.open[1].lines, text[n]) /\ y.info = su.open[1].info
    BY <2>6 DEF C, BlocksOf
  <2> HIDE DEF x, y
  <2>9. Renamed(x, y, line, info)
    BY <1>4, <1>8, <2>7, <2>8 DEF Renamed
  <2>10. ta.open[1] = x /\ ua.open[1] = y /\ ta.open # <<>> /\ ua.open # <<>>
    <3>1. 1 \in DOMAIN st.open /\ 1 \in DOMAIN su.open
      BY <1>3, <2>6, LenProperties
    <3>2. ta.open[1] = x /\ ua.open[1] = y /\ 1 \in DOMAIN ta.open /\ 1 \in DOMAIN ua.open
      BY <2>5, <3>1
    <3>3. DOMAIN <<>> = {}
      OBVIOUS
    <3> QED
      BY <3>2, <3>3
  <2> QED
    BY <1>4, <2>5, <2>9, <2>10 DEF Similar, ta, ua, info
<1> QED
  BY <1>5, <1>6, <1>7, <1>8 DEF ta, ua, info

LEMMA RewordedBlocks ==
  ASSUME NEW text, text \in Seq(Range(text)), NEW other, other \in Seq(Range(other)),
         NEW line, Reworded(text, other, line)
  PROVE  /\ Len(ParseFences(other)) = Len(ParseFences(text))
         /\ \A k \in 1 .. Len(ParseFences(text)) :
              Renamed(ParseFences(text)[k], ParseFences(other)[k], line, ParseInfo(other[line].tokens))
<1> DEFINE N == Len(text)
           info == ParseInfo(other[line].tokens)
           Alike(n) == Similar(ScanTo(text)[n], ScanTo(other)[n], line, info)
           S == {n \in Nat : n <= N => Alike(n)}
<1>1. N \in Nat /\ Len(other) = N /\ N \in 0 .. N
  BY LenProperties DEF Reworded
<1>2. Alike(0)
  <2>1. ScanTo(text)[0] = [fences |-> <<>>, open |-> <<>>] /\ ScanTo(other)[0] = [fences |-> <<>>, open |-> <<>>]
    BY ScanFacts
  <2>2. Len(<<>>) = 0 /\ 1 .. 0 = {}
    OBVIOUS
  <2> QED
    BY <2>1, <2>2 DEF Similar
<1>3. ASSUME NEW n \in S PROVE n + 1 \in S
  <2> SUFFICES ASSUME n + 1 <= N PROVE Alike(n + 1)
    OBVIOUS
  <2> DEFINE p == n + 1
             st == ScanTo(text)[n]
             su == ScanTo(other)[n]
  <2>1. n \in Nat /\ p \in 1 .. N /\ p \in 1 .. Len(other) /\ p - 1 = n /\ n <= N
        /\ n \in 0 .. N /\ n \in 0 .. Len(other)
    BY <1>1
  <2>2. st \in [fences : Seq(BlocksOf(text)), open : Seq(BlocksOf(text))]
    BY <2>1, ScanFacts
  <2>3. su \in [fences : Seq(BlocksOf(other)), open : Seq(BlocksOf(other))]
    BY <2>1, ScanFacts
  <2>4. Similar(st, su, line, ParseInfo(other[line].tokens))
    BY <2>1
  <2> HIDE DEF p
  <2>5. ScanTo(text)[p] = ScanLine(text, st, p)
    BY <2>1, ScanFacts
  <2>6. ScanTo(other)[p] = ScanLine(other, su, p)
    BY <2>1, ScanFacts
  <2> HIDE DEF st, su
  <2>7. Alike(p)
    BY <1>1, <2>1, <2>2, <2>3, <2>4, <2>5, <2>6, SimilarStep
  <2> QED
    BY <2>7 DEF p
<1>4. Alike(N)
  <2> HIDE DEF Alike
  <2>1. S \in SUBSET Nat /\ 0 \in S
    BY <1>2
  <2> HIDE DEF S
  <2>2. S = Nat
    BY <1>3, <2>1, NatSet
  <2> QED
    BY <1>1, <2>2 DEF S
<1> DEFINE st == ScanTo(text)[N]
           su == ScanTo(other)[N]
           B == BlocksOf(text)
           C == BlocksOf(other)
           L == Len(st.fences)
<1>5. /\ st.fences \in Seq(B) /\ st.open \in Seq(B) /\ su.fences \in Seq(C) /\ su.open \in Seq(C)
  BY <1>1, ScanFacts
<1>6. /\ Len(su.fences) = L
      /\ \A k \in 1 .. L : Renamed(st.fences[k], su.fences[k], line, info)
      /\ su.open = <<>> <=> st.open = <<>>
      /\ st.open # <<>> => Renamed(st.open[1], su.open[1], line, info)
  BY <1>4 DEF Similar
<1> DEFINE F == ParseFences(text)
           G == ParseFences(other)
<1>7. F = IF st.open = <<>> THEN st.fences ELSE Append(st.fences, [st.open[1] EXCEPT !.end = N])
  BY DEF ParseFences
<1>8. G = IF su.open = <<>> THEN su.fences ELSE Append(su.fences, [su.open[1] EXCEPT !.end = N])
  BY <1>1 DEF ParseFences
<1> HIDE DEF F, G, st, su, B, C, info
<1>9. CASE st.open = <<>>
  BY <1>6, <1>7, <1>8, <1>9 DEF F, G, info
<1>10. CASE st.open # <<>>
  <2> DEFINE x == [st.open[1] EXCEPT !.end = N]
             y == [su.open[1] EXCEPT !.end = N]
  <2>1. st.open[1] \in B /\ su.open[1] \in C
    BY <1>5, <1>6, <1>10, FirstElement
  <2>2. /\ x \in B /\ x.start = st.open[1].start /\ x.end = N /\ x.lines = st.open[1].lines
        /\ x.info = st.open[1].info
    BY <1>1, <2>1 DEF B, BlocksOf
  <2>3. /\ y \in C /\ y.start = su.open[1].start /\ y.end = N /\ y.lines = su.open[1].lines
        /\ y.info = su.open[1].info
    BY <1>1, <2>1 DEF C, BlocksOf
  <2> HIDE DEF x, y
  <2>4. Renamed(x, y, line, info)
    BY <1>6, <1>10, <2>2, <2>3 DEF Renamed
  <2>5. F = Append(st.fences, x) /\ G = Append(su.fences, y)
    BY <1>6, <1>7, <1>8, <1>10 DEF x, y
  <2>6. L \in Nat /\ Len(F) = L + 1 /\ F[L + 1] = x /\ \A k \in 1 .. L : F[k] = st.fences[k]
    BY <1>5, <2>2, <2>5, AppendFacts
  <2>7. Len(G) = L + 1 /\ G[L + 1] = y /\ \A k \in 1 .. L : G[k] = su.fences[k]
    BY <1>5, <1>6, <2>3, <2>5, AppendFacts
  <2> HIDE DEF L
  <2>8. \A k \in 1 .. L + 1 : k \in 1 .. L \/ k = L + 1
    BY <2>6
  <2>9. \A k \in 1 .. L + 1 : Renamed(F[k], G[k], line, info)
    BY <1>6, <2>4, <2>6, <2>7, <2>8 DEF L
  <2> QED
    BY <2>6, <2>7, <2>9 DEF F, G, info
<1> QED
  BY <1>9, <1>10

\* The pairs of an info string with one more.
LEMMA InfoAppended ==
  ASSUME NEW tokens, tokens \in Seq(Range(tokens)), NEW pair, pair.eq
  PROVE  DOMAIN ParseInfo(Append(tokens, pair)).meta = DOMAIN ParseInfo(tokens).meta \cup {pair.word}
<1> DEFINE more == Append(tokens, pair)
           m == Len(tokens)
           P == {n \in DOMAIN tokens : tokens[n].eq}
           Q == {n \in DOMAIN more : more[n].eq}
<1>1. m \in Nat /\ Len(more) = m + 1 /\ (\A n \in 1 .. m : more[n] = tokens[n]) /\ more[m + 1] = pair
      /\ DOMAIN more = 1 .. m + 1 /\ DOMAIN tokens = 1 .. m
  <2> DEFINE T == Range(tokens) \cup {pair}
  <2>1. tokens \in Seq(T) /\ pair \in T
    <3>1. Range(tokens) \subseteq T
      OBVIOUS
    <3> HIDE DEF T
    <3> QED
      BY <3>1, WiderSeq DEF T
  <2> HIDE DEF T
  <2>2. m \in Nat /\ more \in Seq(T) /\ Len(more) = m + 1 /\ (\A n \in 1 .. m : more[n] = tokens[n])
        /\ more[m + 1] = pair
    BY <2>1, AppendFacts
  <2>3. DOMAIN more = 1 .. Len(more) /\ DOMAIN tokens = 1 .. m
    BY <2>1, <2>2, LenProperties
  <2> QED
    BY <2>2, <2>3
<1>2. /\ DOMAIN ParseInfo(tokens).meta = {tokens[n].word : n \in P}
      /\ DOMAIN ParseInfo(more).meta = {more[n].word : n \in Q}
  BY DEF ParseInfo
<1> HIDE DEF more, m
<1>3. Q = P \cup {m + 1}
  <2>1. \A n \in 1 .. m + 1 : n \in 1 .. m \/ n = m + 1
    BY <1>1
  <2>2. m + 1 \in 1 .. m + 1 /\ \A n \in 1 .. m : n \in 1 .. m + 1
    BY <1>1
  <2>3. \A n : n \in Q <=> n \in P \/ n = m + 1
    BY <1>1, <2>1, <2>2
  <2> HIDE DEF Q, P
  <2> QED
    BY <2>3
<1>4. m + 1 \in Q /\ \A n \in P : more[n].word = tokens[n].word
  <2>1. m + 1 \in Q
    BY <1>3
  <2>2. \A n \in P : more[n] = tokens[n]
    BY <1>1
  <2> QED
    BY <2>1, <2>2
<1> HIDE DEF P, Q
<1>5. {more[n].word : n \in Q} = {tokens[n].word : n \in P} \cup {pair.word}
  <2>1. more[m + 1].word = pair.word
    BY <1>1
  <2>2. \A n \in Q : n \in P \/ n = m + 1
    BY <1>3
  <2>3. \A n \in P : n \in Q
    BY <1>3
  <2> QED
    BY <1>4, <2>1, <2>2, <2>3
<1> QED
  BY <1>2, <1>5 DEF more

LEMMA WithIdFacts ==
  ASSUME NEW text \in Seq(Lines), NEW line \in FenceLines(text), NEW id
  PROVE  LET other == WithId(text, line, id)
             pair  == [eq |-> TRUE, word |-> "id", value |-> id]
         IN  /\ other \in Seq(Range(other))
             /\ Reworded(text, other, line)
             /\ text[line].tokens \in Seq(Range(text[line].tokens))
             /\ other[line].tokens = Append(text[line].tokens, pair)
<1> DEFINE other == WithId(text, line, id)
           pair  == [eq |-> TRUE, word |-> "id", value |-> id]
           N == Len(text)
           longer == [text[line] EXCEPT !.tokens = Append(@, pair)]
<1>1. N \in Nat /\ DOMAIN text = 1 .. N /\ line \in 1 .. N /\ text[line].kind = "fence" /\ text[line] \in Lines
  <2>1. N \in Nat /\ DOMAIN text = 1 .. N
    BY LenProperties
  <2>2. line \in 1 .. N /\ text[line].kind = "fence"
    BY <2>1 DEF FenceLines
  <2> QED
    BY <2>1, <2>2, ElementOfSeq
<1>2. /\ text[line] = [kind |-> "fence", tokens |-> text[line].tokens]
      /\ text[line].tokens \in Seq(Range(text[line].tokens))
  BY <1>1, LinesAssumption
<1>3. longer.kind = "fence" /\ longer.tokens = Append(text[line].tokens, pair)
  <2> DEFINE tk == text[line].tokens
  <2> HIDE DEF tk, pair
  <2>1. text[line] = [kind |-> "fence", tokens |-> tk]
    BY <1>2 DEF tk
  <2>2. [text[line] EXCEPT !.tokens = Append(@, pair)] = [kind |-> "fence", tokens |-> Append(tk, pair)]
    <3>1. PICK l : l = text[line]
      OBVIOUS
    <3>2. PICK longest : longest = Append(tk, pair)
      OBVIOUS
    <3>3. l = [kind |-> "fence", tokens |-> tk]
      BY <3>1, <2>1
    <3>4. [l EXCEPT !.tokens = longest] = [kind |-> "fence", tokens |-> longest]
      BY ONLY <3>3
    <3>5. text[line].tokens = tk
      BY DEF tk
    <3> QED
      BY <3>1, <3>2, <3>4, <3>5, Zenon
  <2> QED
    BY <2>2 DEF tk, longer
<1>4. other = [text EXCEPT ![line] = longer]
  BY DEF WithId
<1> HIDE DEF longer, pair
<1>5. /\ DOMAIN other = 1 .. N /\ other[line] = longer /\ \A n \in 1 .. N : n # line => other[n] = text[n]
  BY <1>1, <1>4
<1>6. other \in [1 .. N -> Range(other)]
  <2>1. other = [n \in 1 .. N |-> other[n]]
    BY <1>1, <1>4
  <2> HIDE DEF other
  <2>2. \A n \in 1 .. N : other[n] \in Range(other)
    BY <1>5 DEF Range
  <2> QED
    BY <2>1, <2>2
<1> HIDE DEF other
<1>7. other \in Seq(Range(other)) /\ Len(other) = N
  BY <1>1, <1>6, FunctionIsSequence
<1>8. Reworded(text, other, line)
  BY <1>1, <1>3, <1>5, <1>7 DEF Reworded
<1> QED
  BY <1>2, <1>3, <1>5, <1>7, <1>8 DEF other, pair

\* An id changes nothing of the document but whether the example has one.
LEMMA PendingIsChecked == draft \in Seq(Lines) => PendingIsWhatAnIdWouldCheck
<1> DEFINE F == ParseFences(draft)
<1> SUFFICES ASSUME draft \in Seq(Lines), NEW n \in DOMAIN F, Undeclared(F[n]), NEW id \in ValidIds
             PROVE  ExpectedFor(ParseFences(WithId(draft, F[n].start, id)), n) \in
                      IF n \in Pending(F) THEN {ExpectedFromOutputBlock(F[n + 1])} ELSE {Ok, Refused}
  BY DEF PendingIsWhatAnIdWouldCheck, ListTellsTheTruth
<1> DEFINE line == F[n].start
           other == WithId(draft, line, id)
           G == ParseFences(other)
           info == ParseInfo(other[line].tokens)
           L == Len(F)
<1>1. draft \in Seq(Range(draft))
  BY DraftIsText
<1>2. F \in Seq(BlocksOf(draft)) /\ \A k \in 1 .. L : Opened(draft, F[k], k)
  BY <1>1, BlockFacts
<1>3. DOMAIN F = 1 .. L /\ L \in Nat
  BY <1>2, LenProperties
<1>4. /\ line \in FenceLines(draft) /\ F[n].info = ParseInfo(draft[line].tokens)
      /\ Rank(draft, line) = 2 * n - 1
  <2>1. Opened(draft, F[n], n)
    BY <1>2, <1>3
  <2> HIDE DEF F
  <2> QED
    BY <2>1 DEF Opened
<1>5. /\ other \in Seq(Range(other)) /\ Reworded(draft, other, line)
      /\ draft[line].tokens \in Seq(Range(draft[line].tokens))
      /\ other[line].tokens = Append(draft[line].tokens, [eq |-> TRUE, word |-> "id", value |-> id])
  <2> HIDE DEF F, line
  <2> QED
    BY <1>4, WithIdFacts
<1>6. Len(G) = L /\ \A k \in 1 .. L : Renamed(F[k], G[k], line, info)
  <2> HIDE DEF line, other
  <2> QED
    BY <1>1, <1>5, RewordedBlocks
<1>7. DOMAIN info.meta = DOMAIN F[n].info.meta \cup {"id"}
  <2> DEFINE pair == [eq |-> TRUE, word |-> "id", value |-> id]
             tk == draft[line].tokens
  <2>1. pair.eq /\ pair.word = "id"
    OBVIOUS
  <2> HIDE DEF pair, tk, other, line, F
  <2>2. tk \in Seq(Range(tk)) /\ other[line].tokens = Append(tk, pair) /\ F[n].info = ParseInfo(tk)
    BY <1>4, <1>5 DEF tk, pair
  <2>3. DOMAIN ParseInfo(Append(tk, pair)).meta = DOMAIN ParseInfo(tk).meta \cup {pair.word}
    BY <2>1, <2>2, InfoAppended
  <2> QED
    BY <2>1, <2>2, <2>3
<1>8. \A k \in 1 .. L : k # n => F[k].start # line
  <2> SUFFICES ASSUME NEW k \in 1 .. L, k # n, F[k].start = line PROVE FALSE
    OBVIOUS
  <2>1. Rank(draft, line) = 2 * k - 1
    BY <1>2 DEF Opened
  <2> HIDE DEF line, F, L
  <2>2. n \in Nat /\ k \in Nat
    BY <1>3
  <2> QED
    BY <1>4, <2>1, <2>2
<1> HIDE DEF F, G, L, line, other, info
<1>9. n \in 1 .. L /\ n \in Nat /\ DOMAIN G = 1 .. L
  <2>1. n \in 1 .. L /\ n \in Nat
    BY <1>3
  <2>2. G \in Seq(BlocksOf(other))
    BY <1>5, ParseFencesType DEF G
  <2> QED
    BY <1>6, <2>1, <2>2, LenProperties
<1>10. G[n].end = F[n].end /\ G[n].info = info
  <2>1. Renamed(F[n], G[n], line, info)
    BY <1>6, <1>9
  <2>2. F[n].start = line
    BY DEF line
  <2> QED
    BY <2>1, <2>2 DEF Renamed
<1>11. n + 1 <= L => /\ G[n + 1].start = F[n + 1].start /\ G[n + 1].lines = F[n + 1].lines
                     /\ G[n + 1].info = F[n + 1].info
  <2> DEFINE k == n + 1
  <2> SUFFICES ASSUME k <= L PROVE G[k].start = F[k].start /\ G[k].lines = F[k].lines /\ G[k].info = F[k].info
    OBVIOUS
  <2>1. k \in 1 .. L /\ k # n
    BY <1>3, <1>9
  <2> HIDE DEF k
  <2>2. Renamed(F[k], G[k], line, info) /\ F[k].start # line
    BY <1>6, <1>8, <2>1
  <2> QED
    BY <2>2 DEF Renamed
<1>12. Following(G, n) <=> Following(F, n)
  BY <1>6, <1>10, <1>11 DEF Following, L
<1>13. Following(F, n) => n + 1 <= L
  BY DEF Following, L
<1> DEFINE derived == ExpectedFromOutputBlock(F[n + 1])
<1>14. n + 1 <= L => ExpectedFromOutputBlock(G[n + 1]) = derived
  BY <1>11 DEF ExpectedFromOutputBlock
<1>15. /\ F[n].info.lang \in SourceLangs /\ ~Annotated(F[n])
       /\ "bytes" \notin DOMAIN F[n].info.meta /\ "error" \notin DOMAIN F[n].info.meta
  BY DEF Undeclared
<1>16. "bytes" \notin DOMAIN G[n].info.meta /\ "error" \notin DOMAIN G[n].info.meta
  BY <1>7, <1>10, <1>15
<1> DEFINE e == ExpectedFor(G, n)
           x == ExpectedFromOutputBlock(G[n + 1])
<1>17. e = IF Following(G, n) /\ x # Nothing THEN x ELSE Ok
  BY <1>16 DEF ExpectedFor
<1> HIDE DEF e, x
<1>18. n \in Pending(F) <=> Following(F, n) /\ derived \notin {Nothing, Refused}
  BY <1>15 DEF Pending
<1> HIDE DEF derived
<1>19. CASE Following(F, n)
  <2>1. x = derived /\ Following(G, n)
    BY <1>12, <1>13, <1>14, <1>19 DEF x
  <2>2. CASE derived \in {Nothing, Refused}
    <3>1. e \in {Ok, Refused}
      BY <1>17, <2>1, <2>2
    <3>2. n \notin Pending(F)
      BY <1>18, <2>2
    <3> QED
      BY <3>1, <3>2 DEF e, F, G, other, line
  <2>3. CASE derived \notin {Nothing, Refused}
    <3>1. e = derived
      BY <1>17, <2>1, <2>3
    <3>2. n \in Pending(F)
      BY <1>18, <1>19, <2>3
    <3> QED
      BY <3>1, <3>2 DEF e, F, G, other, line, derived
  <2> QED
    BY <2>2, <2>3
<1>20. CASE ~Following(F, n)
  <2>1. e = Ok /\ n \notin Pending(F)
    BY <1>12, <1>17, <1>18, <1>20
  <2> QED
    BY <2>1 DEF e, F, G, other, line
<1> QED
  BY <1>19, <1>20

\* A declared expectation is the one checked, and what `list` shows for an
\* example without an id is what it would be checked against if it had one
\* (expected_for and pending_blocks).
THEOREM ExpectationsAreTheDocuments == WritingSpec => []ExpectationsFollowTheDocument
<1>1. WritingInv => ExpectationsFollowTheDocument
  BY DeclaredFirst, PendingIsChecked DEF WritingInv, ExpectationsFollowTheDocument
<1>2. WritingSpec => []WritingInv
  BY WritingInvariant
<1> QED
  BY <1>1, <1>2, PTL

-----------------------------------------------------------------------------
(* Expected bytes.                                                         *)

\* The digits of whole bytes.
WholeBytes(expected) ==
  expected.tag = "bytes" =>
    /\ Len(expected.of) % 2 = 0
    /\ \A i \in DOMAIN expected.of : expected.of[i] \in {Lower[c] : c \in DOMAIN Lower}

\* The lower case spelling of an even number of digits.
LEMMA LoweredIsWhole ==
  ASSUME NEW digits \in Seq(DOMAIN Lower), Len(digits) % 2 = 0
  PROVE  WholeBytes(Bytes([n \in DOMAIN digits |-> Lower[digits[n]]]))
<1> DEFINE m == Len(digits)
           low == [n \in DOMAIN digits |-> Lower[digits[n]]]
           D == {Lower[c] : c \in DOMAIN Lower}
<1>1. m \in Nat /\ DOMAIN digits = 1 .. m /\ \A n \in 1 .. m : digits[n] \in DOMAIN Lower
  BY LenProperties, ElementOfSeq
<1>2. low \in [1 .. m -> D]
  BY <1>1
<1> HIDE DEF low, D
<1>3. DOMAIN low = 1 .. m /\ Len(low) = m /\ \A n \in 1 .. m : low[n] \in D
  BY <1>1, <1>2, FunctionIsSequence
<1>4. Bytes(low).of = low
  BY DEF Bytes
<1> QED
  BY <1>3, <1>4 DEF WholeBytes, D, low

LEMMA HexIsWhole ==
  ASSUME NEW raw, raw \in Seq(Range(raw))
  PROVE  WholeBytes(NormaliseHex(raw))
<1> DEFINE S == {n \in DOMAIN raw : raw[n] \in DOMAIN Lower}
           compact == ElementsAt(raw, S)
           c == Cardinality(S)
<1>1. S \in SUBSET (1 .. Len(raw)) /\ \A n \in S : raw[n] \in DOMAIN Lower
  BY LenProperties
<1> HIDE DEF S
<1>2. /\ c \in Nat /\ compact \in Seq(Range(raw)) /\ Len(compact) = c
      /\ \A k \in 1 .. c : InOrder(S)[k] \in S /\ compact[k] = raw[InOrder(S)[k]]
  BY <1>1, ElementsAtFacts
<1>3. compact \in Seq(DOMAIN Lower)
  <2> HIDE DEF compact
  <2>1. DOMAIN compact = 1 .. c
    BY <1>2, LenProperties
  <2>2. compact \in [1 .. c -> DOMAIN Lower]
    <3>1. \A k \in 1 .. c : compact[k] \in DOMAIN Lower
      BY <1>1, <1>2
    <3>2. compact \in [1 .. c -> Range(raw)]
      BY <1>2
    <3> QED
      BY <3>1, <3>2
  <2> QED
    BY <1>2, <2>2, FunctionIsSequence
<1>4. NormaliseHex(raw) = IF compact = <<>> \/ Len(compact) % 2 # 0 THEN Refused
                          ELSE Bytes([n \in DOMAIN compact |-> Lower[compact[n]]])
  BY DEF NormaliseHex, S
<1> HIDE DEF compact
<1>5. WholeBytes(Refused)
  BY DEF WholeBytes, Refused
<1>6. Len(compact) % 2 = 0 => WholeBytes(Bytes([n \in DOMAIN compact |-> Lower[compact[n]]]))
  BY <1>3, LoweredIsWhole
<1> QED
  BY <1>4, <1>5, <1>6

\* A flattened list of lists of even lengths has an even length.
LEMMA FlattenEven ==
  ASSUME NEW T, NEW seqs \in Seq(Seq(T)), \A i \in 1 .. Len(seqs) : Len(seqs[i]) % 2 = 0
  PROVE  FlattenSeq(seqs) \in Seq(T) /\ Len(FlattenSeq(seqs)) % 2 = 0
<1> DEFINE N == Len(seqs)
           flat == FlattenSeq(seqs)
<1>1. flat \in Seq(T) /\ \E off : Flattened(seqs, flat, off) /\ Adjacent(seqs, flat, off)
  BY FlattenFacts
<1>2. N \in Nat /\ \A i \in 1 .. N : Len(seqs[i]) \in Nat
  BY LenProperties, ElementOfSeq
<1> HIDE DEF flat
<1>3. PICK off : Flattened(seqs, flat, off) /\ Adjacent(seqs, flat, off)
  BY <1>1
<1>4. /\ off \in [0 .. N -> Nat] /\ off[0] = 0 /\ off[N] = Len(flat)
      /\ \A i \in 1 .. N : off[i] = off[i - 1] + Len(seqs[i])
  BY <1>3 DEF Flattened, Adjacent
<1> DEFINE S == {n \in Nat : n <= N => off[n] % 2 = 0}
<1>5. 0 \in S
  BY <1>4
<1>6. ASSUME NEW n \in S PROVE n + 1 \in S
  <2> SUFFICES ASSUME n + 1 <= N PROVE off[n + 1] % 2 = 0
    OBVIOUS
  <2>1. n \in Nat /\ n + 1 \in 1 .. N /\ n \in 0 .. N /\ (n + 1) - 1 = n /\ n <= N
    BY <1>2
  <2>2. off[n] % 2 = 0 /\ off[n] \in Nat
    BY <1>4, <2>1
  <2>3. off[n + 1] = off[n] + Len(seqs[n + 1]) /\ Len(seqs[n + 1]) % 2 = 0 /\ Len(seqs[n + 1]) \in Nat
    BY <1>2, <1>4, <2>1
  <2>4. \A a, b \in Nat : a % 2 = 0 /\ b % 2 = 0 => (a + b) % 2 = 0
    OBVIOUS
  <2> QED
    BY <2>2, <2>3, <2>4
<1>7. S = Nat
  <2>1. S \in SUBSET Nat
    OBVIOUS
  <2> HIDE DEF S
  <2> QED
    BY <1>5, <1>6, <2>1, NatSet
<1>8. off[N] % 2 = 0
  BY <1>2, <1>7
<1> QED
  BY <1>1, <1>4, <1>8 DEF flat

\* The value of a key of an info string is that of one of its pairs.
LEMMA ValueIsGiven ==
  ASSUME NEW tokens, tokens \in Seq(Range(tokens)), NEW k \in DOMAIN ParseInfo(tokens).meta
  PROVE  \E t \in Range(tokens) : t.eq /\ t.word = k /\ ParseInfo(tokens).meta[k] = t.value
<1> DEFINE pairs == {n \in DOMAIN tokens : tokens[n].eq}
           final(j) == CHOOSE n \in pairs :
                         /\ tokens[n].word = j
                         /\ \A m \in pairs : tokens[m].word = j => m <= n
           given == {tokens[n].word : n \in pairs}
           T == {n \in pairs : tokens[n].word = k}
<1>1. ParseInfo(tokens).meta = [j \in given |-> tokens[final(j)].value]
  BY DEF ParseInfo
<1>2. k \in given /\ ParseInfo(tokens).meta[k] = tokens[final(k)].value
  BY <1>1
<1>3. DOMAIN tokens = 1 .. Len(tokens) /\ Len(tokens) \in Nat
  BY LenProperties
<1>4. T \in SUBSET Nat /\ T # {} /\ \A y \in T : y <= Len(tokens)
  <2>1. T # {}
    BY <1>2
  <2>2. \A y \in T : y \in 1 .. Len(tokens)
    BY <1>3
  <2> HIDE DEF T
  <2> QED
    BY <1>3, <2>1, <2>2
<1>5. \E x \in T : \A y \in T : y <= x
  <2> HIDE DEF T
  <2> QED
    BY <1>3, <1>4, GreatestNat
<1>6. \E n \in pairs : tokens[n].word = k /\ \A m \in pairs : tokens[m].word = k => m <= n
  BY <1>5
<1>7. final(k) \in pairs /\ tokens[final(k)].word = k
  <2> HIDE DEF pairs
  <2> QED
    BY <1>6
<1> DEFINE n == final(k)
<1>8. n \in DOMAIN tokens /\ tokens[n].eq
  <2>1. \A m \in pairs : m \in DOMAIN tokens /\ tokens[m].eq
    OBVIOUS
  <2> HIDE DEF pairs, final
  <2> QED
    BY <1>7, <2>1
<1>9. tokens[n] \in Range(tokens)
  <2> HIDE DEF n
  <2> QED
    BY <1>8 DEF Range
<1> HIDE DEF n, pairs
<1> QED
  BY <1>2, <1>7, <1>8, <1>9 DEF n

LEMMA BlockIsWhole ==
  ASSUME NEW fence, fence.lines \in Seq(Lines)
  PROVE  WholeBytes(ExpectedFromOutputBlock(fence))
<1> DEFINE lines == fence.lines
           S == {n \in DOMAIN lines : lines[n].kind # "plain" \/ lines[n].form # "blank"}
           filled == Filled(lines)
           c == Cardinality(S)
           first == filled[1]
           seqs == [n \in DOMAIN filled |-> filled[n].of]
           dump == FlattenSeq(seqs)
           hex == \A n \in DOMAIN filled : filled[n].kind = "plain" /\ filled[n].form = "hex"
<1>1. filled \in Seq(Lines)
  <2>1. S \in SUBSET (1 .. Len(lines))
    BY LenProperties
  <2> HIDE DEF S
  <2>2. ElementsAt(lines, S) \in Seq(Lines)
    BY <2>1, ElementsAtFacts
  <2> QED
    BY <2>2 DEF Filled, S
<1> HIDE DEF filled
<1>2. WholeBytes(Nothing) /\ \A needle : WholeBytes(ErrorOf(needle))
  BY DEF WholeBytes, Nothing, ErrorOf
<1>3. ExpectedFromOutputBlock(fence) =
        IF filled = <<>> THEN Nothing
        ELSE IF first.kind = "plain" /\ first.form = "bytes" THEN NormaliseHex(first.of)
        ELSE IF (first.kind = "plain" /\ first.form = "error") /\ first.of # NoNeedle THEN ErrorOf(first.of)
        ELSE IF hex THEN Bytes([n \in DOMAIN dump |-> Lower[dump[n]]])
        ELSE Nothing
  BY DEF ExpectedFromOutputBlock, filled
<1>4. filled # <<>> /\ first.kind = "plain" /\ first.form = "bytes" => WholeBytes(NormaliseHex(first.of))
  <2> SUFFICES ASSUME filled # <<>>, first.kind = "plain", first.form = "bytes"
               PROVE  WholeBytes(NormaliseHex(first.of))
    OBVIOUS
  <2>1. first \in Lines
    BY <1>1, FirstElement
  <2>2. first.of \in Seq(Range(first.of))
    BY <2>1, LinesAssumption
  <2> HIDE DEF first
  <2> QED
    BY <2>2, HexIsWhole
<1>5. hex => WholeBytes(Bytes([n \in DOMAIN dump |-> Lower[dump[n]]]))
  <2> SUFFICES ASSUME hex PROVE WholeBytes(Bytes([n \in DOMAIN dump |-> Lower[dump[n]]]))
    OBVIOUS
  <2>1. DOMAIN filled = 1 .. Len(filled) /\ Len(filled) \in Nat /\ \A n \in 1 .. Len(filled) : filled[n] \in Lines
    BY <1>1, LenProperties, ElementOfSeq
  <2>2. \A n \in 1 .. Len(filled) : filled[n].of \in Seq(DOMAIN Lower) /\ Len(filled[n].of) % 2 = 0
    BY <2>1, LinesAssumption
  <2>3. seqs \in [1 .. Len(filled) -> Seq(DOMAIN Lower)]
    BY <2>1, <2>2
  <2>4. seqs \in Seq(Seq(DOMAIN Lower)) /\ Len(seqs) = Len(filled)
    <3> HIDE DEF seqs
    <3> QED
      BY <2>1, <2>3, FunctionIsSequence
  <2>5. \A i \in 1 .. Len(seqs) : Len(seqs[i]) % 2 = 0
    BY <2>1, <2>2, <2>4
  <2> HIDE DEF seqs
  <2>6. dump \in Seq(DOMAIN Lower) /\ Len(dump) % 2 = 0
    BY <2>4, <2>5, FlattenEven
  <2> HIDE DEF dump
  <2> QED
    BY <2>6, LoweredIsWhole
<1> HIDE DEF first, dump, hex
<1> QED
  BY <1>2, <1>3, <1>4, <1>5

LEMMA ExpectedIsWhole ==
  ASSUME NEW text \in Seq(Lines), NEW p \in 1 .. Len(ParseFences(text))
  PROVE  WholeBytes(ExpectedFor(ParseFences(text), p))
<1> DEFINE fences == ParseFences(text)
           N == Len(text)
           meta == fences[p].info.meta
           derived == ExpectedFromOutputBlock(fences[p + 1])
<1>1. text \in Seq(Range(text)) /\ \A n \in 1 .. N : text[n] \in Lines
  BY DraftIsText
<1>2. fences \in Seq(BlocksOf(text)) /\ Opened(text, fences[p], p)
  BY <1>1, BlockFacts
<1>3. FenceLines(text) \in SUBSET (1 .. N)
  BY <1>1, RankOf
<1> HIDE DEF fences
<1> DEFINE start == fences[p].start
           tokens == text[start].tokens
<1>4. start \in 1 .. N /\ text[start].kind = "fence" /\ fences[p].info = ParseInfo(tokens)
  BY <1>2, <1>3 DEF Opened, FenceLines
<1>5. /\ tokens \in Seq(Range(tokens))
      /\ \A t \in Range(tokens) : t.eq /\ t.word = "bytes" => t.value \in Seq(Range(t.value))
  <2>1. text[start] \in Lines
    BY <1>1, <1>4
  <2> HIDE DEF start
  <2> QED
    BY <1>4, <2>1, LinesAssumption
<1>6. "bytes" \in DOMAIN meta => WholeBytes(NormaliseHex(meta["bytes"]))
  <2> SUFFICES ASSUME "bytes" \in DOMAIN meta PROVE WholeBytes(NormaliseHex(meta["bytes"]))
    OBVIOUS
  <2> HIDE DEF tokens
  <2>1. meta = ParseInfo(tokens).meta /\ "bytes" \in DOMAIN ParseInfo(tokens).meta
    BY <1>4
  <2> HIDE DEF meta
  <2>2. PICK t \in Range(tokens) : t.eq /\ t.word = "bytes" /\ ParseInfo(tokens).meta["bytes"] = t.value
    BY <1>5, <2>1, ValueIsGiven
  <2>3. meta["bytes"] = t.value /\ t.value \in Seq(Range(t.value))
    BY <1>5, <2>1, <2>2
  <2> QED
    BY <2>3, HexIsWhole
<1>7. Following(fences, p) => WholeBytes(derived)
  <2> SUFFICES ASSUME Following(fences, p) PROVE WholeBytes(derived)
    OBVIOUS
  <2> DEFINE q == p + 1
  <2>1. q \in 1 .. Len(fences)
    <3>1. q <= Len(fences) /\ Len(fences) \in Nat
      BY <1>2, LenProperties DEF Following
    <3>2. p \in Nat
      BY <3>1 DEF fences
    <3> QED
      BY <3>1, <3>2
  <2> HIDE DEF q
  <2>2. fences[q] \in BlocksOf(text)
    BY <1>2, <2>1, ElementOfSeq
  <2>3. fences[q].lines \in Seq({text[n] : n \in 1 .. N})
    BY <2>2 DEF BlocksOf
  <2>4. fences[q].lines \in Seq(Lines)
    <3> DEFINE U == {text[n] : n \in 1 .. N}
    <3>1. U \subseteq Lines
      BY <1>1
    <3> HIDE DEF U
    <3> QED
      BY <2>3, <3>1, WiderSeq DEF U
  <2> QED
    BY <2>4, BlockIsWhole DEF q
<1>8. WholeBytes(Ok) /\ \A needle : WholeBytes(ErrorOf(needle))
  BY DEF WholeBytes, Ok, ErrorOf
<1>9. ExpectedFor(fences, p) = IF "bytes" \in DOMAIN meta THEN NormaliseHex(meta["bytes"])
                               ELSE IF "error" \in DOMAIN meta THEN ErrorOf(meta["error"])
                               ELSE IF Following(fences, p) /\ derived # Nothing THEN derived
                               ELSE Ok
  BY DEF ExpectedFor
<1> HIDE DEF meta, derived
<1> QED
  BY <1>6, <1>7, <1>8, <1>9 DEF fences

LEMMA BytesAreWhole == draft \in Seq(Lines) => ExpectedBytesAreWhole
<1> SUFFICES ASSUME draft \in Seq(Lines), NEW f \in Range(Fixtures)
             PROVE  WholeBytes(f.expected)
  BY DEF ExpectedBytesAreWhole, WholeBytes
<1>1. PICK p \in 1 .. Len(ParseFences(draft)) : f = FixtureOf(Doc, ParseFences(draft), p)
  BY DraftIsText, FixtureFacts DEF Fixtures
<1>2. f.expected = ExpectedFor(ParseFences(draft), p)
  BY <1>1, FixtureExpects
<1> QED
  BY <1>2, ExpectedIsWhole

LEMMA FilesAreDistinct == draft \in Seq(Lines) => FixtureFilesAreDistinct
<1> SUFFICES ASSUME draft \in Seq(Lines), NEW f \in Range(Fixtures), NEW g \in Range(Fixtures),
                    f.block # g.block
             PROVE  f.source # g.source
  BY DEF FixtureFilesAreDistinct
<1> DEFINE fs == CollectFixtures(Doc, draft).fixtures
<1>1. /\ fs \in Seq(Range(fs))
      /\ \A j, k \in 1 .. Len(fs) : j # k => fs[j].source # fs[k].source
  BY DraftIsText, LinesAssumption, CollectFacts
<1>2. Fixtures = fs
  BY DEF Fixtures
<1> HIDE DEF fs
<1>3. DOMAIN fs = 1 .. Len(fs)
  BY <1>1, LenProperties
<1>4. PICK j \in 1 .. Len(fs) : f = fs[j]
  BY <1>2, <1>3 DEF Range
<1>5. PICK k \in 1 .. Len(fs) : g = fs[k]
  BY <1>2, <1>3 DEF Range
<1> QED
  BY <1>1, <1>4, <1>5

LEMMA WritingTyped == WritingInv => WritingTypeOK
BY DraftBlocksArePaired, FilesAreDistinct, BytesAreWhole DEF WritingInv, WritingTypeOK

-----------------------------------------------------------------------------
(* The shapes of the directory's variables.                                *)

DirShapes ==
  /\ zig \in {NoFile, Cut} \/ Len(zig) \in Nat
  /\ last.command \in {"none", "check", "extract"}
  /\ removed \subseteq Sources
  /\ events \in 0 .. MaxEvents

LEMMA PutShrinks ==
  ASSUME NEW content, removed \subseteq Sources, PutFixture(content)
  PROVE  removed' \subseteq Sources
BY DEF PutFixture

LEMMA EventCounted ==
  ASSUME Event, events \in 0 .. MaxEvents
  PROVE  events' \in 0 .. MaxEvents
BY DocumentsAssumption DEF Event

LEMMA CommandNamed ==
  /\ NoCommand.command = "none"
  /\ \A status : Ended(status) => last'.command \in {"none", "extract"}
BY DEF NoCommand, Ended

LEMMA ShapesStep == Typed /\ DirShapes /\ [Next]_vars => DirShapes'
<1> SUFFICES ASSUME Typed, DirShapes, [Next]_vars PROVE DirShapes'
  OBVIOUS
<1>1. ASSUME NEW strict \in BOOLEAN, Check(strict) PROVE DirShapes'
  <2>1. last'.command = "check" /\ UNCHANGED <<zig, removed, events>>
    BY <1>1 DEF Check
  <2> QED
    BY <2>1 DEF DirShapes
<1>2. ASSUME NEW requested \in Requests, Extract(requested) PROVE DirShapes'
  <2>1. last'.command \in {"none", "extract"} /\ UNCHANGED <<zig, removed, events>>
    BY <1>2, CommandNamed DEF Extract
  <2> QED
    BY <2>1 DEF DirShapes
<1>3. CASE CollectDocument
  <2>1. UNCHANGED <<zig, last, removed, events>>
    BY <1>3 DEF CollectDocument
  <2> QED
    BY <2>1 DEF DirShapes
<1>4. CASE WriteFixture
  <2>1. removed' \subseteq Sources
    BY <1>4, PutShrinks DEF WriteFixture, DirShapes
  <2>2. UNCHANGED <<zig, last, events>>
    BY <1>4 DEF WriteFixture
  <2> QED
    BY <2>1, <2>2 DEF DirShapes
<1>5. CASE WriteManifest
  <2>1. last' = last \/ last'.command \in {"none", "extract"}
    BY <1>5, CommandNamed DEF WriteManifest
  <2>2. UNCHANGED <<zig, removed, events>>
    BY <1>5 DEF WriteManifest
  <2> QED
    BY <2>1, <2>2 DEF DirShapes
<1>6. CASE WriteModule
  <2>1. last'.command \in {"none", "extract"} /\ UNCHANGED <<removed, events>> /\ zig' = RenderZig(Rows)
    BY <1>6, CommandNamed DEF WriteModule
  <2>2. Len(RenderZig(Rows)) \in Nat
    <3> DEFINE rows == Rows
               m == Len(rows)
               entries == {[id |-> rows[n].id, source |-> rows[n].source, target |-> rows[n].target,
                            expected |-> rows[n].expected] : n \in 1 .. m}
    <3>1. rows \in Seq(AllRows)
      BY DEF Typed, Rows
    <3> HIDE DEF rows
    <3>2. m \in Nat /\ DOMAIN rows = 1 .. m
      BY <3>1, LenProperties
    <3>3. RenderZig(rows) \in [1 .. m -> entries]
      BY <3>2 DEF RenderZig
    <3> HIDE DEF entries, m
    <3> QED
      BY <3>2, <3>3, FunctionIsSequence DEF rows
  <2> QED
    BY <2>1, <2>2 DEF DirShapes
<1>7. CASE Interrupt
  <2>1. last'.command = "none" /\ events' \in 0 .. MaxEvents
    BY <1>7, CommandNamed, EventCounted DEF Interrupt, DirShapes
  <2>2. removed' \subseteq Sources
    BY <1>7, PutShrinks DEF Interrupt, DirShapes
  <2>3. zig' = zig \/ zig' = Cut
    <3>1. ASSUME PutFixture(Cut), UNCHANGED <<manifest, zig>> PROVE zig' = zig
      BY <3>1
    <3> QED
      BY <1>7 DEF Interrupt
  <2> QED
    BY <2>1, <2>2, <2>3 DEF DirShapes
<1>8. ASSUME NEW d \in Docs, NEW text \in Texts[d] \cup {NoDocument}, EditDocument(d, text)
      PROVE  DirShapes'
  <2>1. last'.command = "none" /\ events' \in 0 .. MaxEvents /\ UNCHANGED <<zig, removed>>
    BY <1>8, CommandNamed, EventCounted DEF EditDocument, NoticeEdit, DirShapes
  <2> QED
    BY <2>1 DEF DirShapes
<1>9. ASSUME NEW s \in Sources, RemoveFixture(s) PROVE DirShapes'
  <2>1. last'.command = "none" /\ events' \in 0 .. MaxEvents /\ UNCHANGED zig
    BY <1>9, CommandNamed, EventCounted DEF RemoveFixture, NoticeEdit, DirShapes
  <2>2. removed' \subseteq Sources
    BY <1>9 DEF RemoveFixture, DirShapes
  <2> QED
    BY <2>1, <2>2 DEF DirShapes
<1>10. CASE UNCHANGED vars
  BY <1>10 DEF vars, DirShapes
<1> QED
  BY <1>1, <1>2, <1>3, <1>4, <1>5, <1>6, <1>7, <1>8, <1>9, <1>10 DEF Next

LEMMA DirTyped == DirInv /\ DirShapes => TypeOK
<1> SUFFICES ASSUME Typed, DirShapes PROVE TypeOK
  BY DEF DirInv
<1>1. manifest.rows \in Seq(AllRows) /\ manifest.cut \in BOOLEAN
  BY DEF Typed
<1>2. job.step \in {"idle", "collect", "fixtures", "module"}
  <2>1. CASE job = Idle
    BY <2>1 DEF Idle
  <2>2. CASE job # Idle
    BY <2>2, JobFacts
  <2> QED
    BY <2>1, <2>2
<1>3. zig \in {NoFile, Cut} \/ Len(zig) >= 0
  BY DEF DirShapes
<1> QED
  BY <1>1, <1>2, <1>3 DEF Typed, DirShapes, TypeOK

-----------------------------------------------------------------------------
(* Both parts.                                                             *)

\* The variables of both parts have their shapes at every moment; with them,
\* the blocks of a document are paired, no two fixtures of it have one file and
\* expected bytes are whole (parse_fences, fixture_relpath, normalise_hex).
THEOREM ToolIsTyped == ToolSpec => []ToolTypeOK
<1> DEFINE ToolInv == Typed /\ DirInv /\ DirShapes /\ WritingInv
<1>1. ToolInit => ToolInv
  <2> SUFFICES ASSUME ToolInit PROVE ToolInv
    OBVIOUS
  <2>1. Init /\ (WritingInit \/ (draft = <<>> /\ added = 0))
    BY DEF ToolInit
  <2>2. DirInv /\ Typed
    BY <2>1, DirInitial DEF DirInv
  <2>3. DirShapes
    <3>1. zig = NoFile /\ last = NoCommand /\ removed = {} /\ events = 0
      BY <2>1 DEF Init
    <3>2. 0 \in 0 .. MaxEvents
      BY DocumentsAssumption
    <3>3. last.command = "none"
      BY <3>1 DEF NoCommand
    <3> QED
      BY <3>1, <3>2, <3>3 DEF DirShapes
  <2>4. WritingInv
    <3>1. MaxLines \in Nat /\ Beginnings \subseteq Seq(Lines)
      BY LinesAssumption
    <3>2. draft \in Seq(Lines) /\ added = 0
      BY <2>1, <3>1, EmptySeq DEF WritingInit
    <3> QED
      BY <3>1, <3>2 DEF WritingInv
  <2> QED
    BY <2>2, <2>3, <2>4
<1>2. ToolInv /\ [ToolNext]_<<part, vars, writingVars>> => ToolInv'
  <2> SUFFICES ASSUME ToolInv, [ToolNext]_<<part, vars, writingVars>> PROVE ToolInv'
    OBVIOUS
  <2>1. [Next]_vars /\ [WritingNext]_writingVars
    BY DEF ToolNext
  <2>2. DirInv' /\ Typed'
    BY <2>1, DirStep DEF DirInv
  <2>3. DirShapes'
    BY <2>1, ShapesStep
  <2>4. WritingInv'
    BY <2>1, WritingStep
  <2> QED
    BY <2>2, <2>3, <2>4
<1>3. ToolInv => ToolTypeOK
  BY DirTyped, WritingTyped DEF ToolTypeOK
<1> HIDE DEF ToolInv
<1> QED
  BY <1>1, <1>2, <1>3, PTL DEF ToolSpec
=============================================================================
