-------------------------- MODULE Refinement_proofs --------------------------
(***************************************************************************)
(* Lowering implements EagerOutput, for every value of the constants.      *)
(*                                                                         *)
(* The mapping measures regions with the sizes their fragments will have.  *)
(* A step matters to it in one of three ways (EagerStep):                  *)
(*                                                                         *)
(*  - it leaves every region alike: a memo learns a size, an instruction   *)
(*    freezes, a cursor is brought up to date.  SameRegions says so, and   *)
(*    ReplaceStep shows that freezing keeps the measure;                   *)
(*  - it grows the current region by one fragment.  AppendGrows computes   *)
(*    the two new sizes, and CursorIsRegionSize turns what the code reads  *)
(*    off its synchronised cursor into the sizes EagerOutput reads off the *)
(*    region: this is where a stale cursor would show;                     *)
(*  - it adds, closes, moves or places a region, or changes the place.     *)
(*                                                                         *)
(* The invariant next to IInv is about the closed flag.  Lowering keeps    *)
(* one per copy of a cursor and one per section, EagerOutput one per       *)
(* region: RefinementInv says that they agree where it counts.  They do    *)
(* not when one source closes a region it included or placed from another  *)
(* copy of, which is why OneFlagPerRegion is a hypothesis (see             *)
(* ClosedRegionStaysClosed, which the code violates).                      *)
(***************************************************************************)
EXTENDS LoweringRefinement, Lowering_proofs

-----------------------------------------------------------------------------
(* Fragments with their final sizes.                                       *)

LEMMA FinalFacts ==
  ASSUME NEW f \in FragmentType, FragmentOK(f)
  PROVE  /\ Sized(Final(f))
         /\ Final(f).kind = f.kind
         /\ Final(f).n = IF f.kind = "isa" THEN Len(Encoding[f.text]) ELSE f.n
         /\ HasSize(f) => SameShape(f, Final(f))
<1>1. CASE f.kind = "isa"
  <2>1. f.text \in Texts
    BY <1>1 DEF FragmentOK
  <2>2. /\ Encoded(f).kind = "isa" /\ Encoded(f).n = Len(Encoding[f.text])
        /\ Sized(Encoded(f))
    BY <1>1, <2>1, EncodedType DEF FragmentOK
  <2>3. Final(f) = Encoded(f)
    BY <1>1 DEF Final
  <2>4. HasSize(f) => f.n = Len(Encoding[f.text])
    BY <1>1 DEF HasSize, FragmentOK
  <2>5. QED
    BY <1>1, <2>2, <2>3, <2>4 DEF SameShape
<1>2. CASE f.kind # "isa"
  BY <1>2 DEF Final, FragmentOK, SameShape
<1>3. QED
  BY <1>1, <1>2

\* A section measured with final sizes: every fragment has one.
LEMMA FinalFragmentsOK ==
  ASSUME NEW m, WellFormed(m), NEW s \in 1 .. Len(m.section)
  PROVE  /\ AllSized(FinalFragments(m, s))
         /\ Len(FinalFragments(m, s)) = Len(m.section[s].frags)
         /\ \A k \in 1 .. Len(m.section[s].frags) :
              /\ m.section[s].frags[k] \in 1 .. Len(m.fragment)
              /\ FinalFragments(m, s)[k] = Final(m.fragment[m.section[s].frags[k]])
<1>1. Len(m.section[s].frags) \in Nat
  BY SectionFacts DEF WellFormed
<1>2. Len(FinalFragments(m, s)) = Len(m.section[s].frags)
  BY <1>1 DEF FinalFragments
<1>3. ASSUME NEW k \in 1 .. Len(m.section[s].frags)
      PROVE  /\ m.section[s].frags[k] \in 1 .. Len(m.fragment)
             /\ FinalFragments(m, s)[k] = Final(m.fragment[m.section[s].frags[k]])
             /\ Sized(FinalFragments(m, s)[k])
  <2>1. m.section[s].frags[k] \in 1 .. Len(m.fragment)
    BY DEF WellFormed, SectionsOK, SectionOK
  <2>2. FinalFragments(m, s)[k] = Final(FragmentsOf(m, s)[k])
    BY DEF FinalFragments
  <2>3. FragmentsOf(m, s)[k] = m.fragment[m.section[s].frags[k]]
    BY FragmentsOfSection
  <2>4. m.fragment[m.section[s].frags[k]] \in FragmentType
    BY <2>1 DEF WellFormed, ModuleType
  <2>5. FragmentOK(m.fragment[m.section[s].frags[k]])
    BY <2>1 DEF WellFormed, FragmentsOK
  <2>6. QED
    BY <2>1, <2>2, <2>3, <2>4, <2>5, FinalFacts
<1>4. QED
  BY <1>1, <1>2, <1>3 DEF AllSized

\* Every fragment of m is there in m2, with the same final shape.
Alike(m, m2) ==
  \A i \in 1 .. Len(m.fragment) :
    /\ i <= Len(m2.fragment)
    /\ SameShape(Final(m.fragment[i]), Final(m2.fragment[i]))

(* Shapes that are final already are the final ones.                       *)
LEMMA SizedIsAlike ==
  ASSUME NEW m, WellFormed(m), NEW m2, WellFormed(m2), Frozen(m, m2),
         \A i \in 1 .. Len(m.fragment) : HasSize(m.fragment[i])
  PROVE  Alike(m, m2)
<1>1. SUFFICES ASSUME NEW i \in 1 .. Len(m.fragment)
               PROVE  /\ i <= Len(m2.fragment)
                      /\ SameShape(Final(m.fragment[i]), Final(m2.fragment[i]))
  BY DEF Alike
<1>2. /\ i <= Len(m2.fragment) /\ HasSize(m.fragment[i])
      /\ SameShape(m.fragment[i], m2.fragment[i]) /\ HasSize(m2.fragment[i])
  BY DEF Frozen
<1>3. i \in 1 .. Len(m2.fragment)
  BY <1>2 DEF WellFormed, ModuleType
<1>4. /\ m.fragment[i] \in FragmentType /\ FragmentOK(m.fragment[i])
      /\ m2.fragment[i] \in FragmentType /\ FragmentOK(m2.fragment[i])
  BY <1>3 DEF WellFormed, ModuleType, FragmentsOK
<1>5. /\ SameShape(m.fragment[i], Final(m.fragment[i]))
      /\ SameShape(m2.fragment[i], Final(m2.fragment[i]))
  BY <1>2, <1>4, FinalFacts
<1>6. QED
  BY <1>2, <1>5 DEF SameShape

\* Encoding what is pending gives every fragment the size it was counted
\* with (the watermark of flushPendingLabels).
LEMMA EncodedIsAlike ==
  ASSUME NEW m, ModuleOK(m)
  PROVE  Alike(m, ForOutputAccess(m))
<1> DEFINE m1 == EncodeFrom(m, m.watermark)
           m2 == [m1 EXCEPT !.watermark = Len(m.fragment)]
           ids == Unencoded(m, m.watermark)
           q == [i \in 1 .. Len(m.fragment) |->
                   IF i \in ids THEN Encoded(m.fragment[i]) ELSE m.fragment[i]]
<1>1. WellFormed(m) /\ ModuleType(m)
  BY DEF ModuleOK, WellFormed
<1>2. m1.fragment = q
  <2> HIDE DEF ids
  <2>1. QED
    BY <1>1 DEF EncodeFrom, SyncAnchoredLabels, ModuleType, ids
<1>3. m2.fragment = q
  <2>1. ModuleType(m1)
    <3>1. m.watermark \in 0 .. m.watermark
      BY <1>1 DEF ModuleType
    <3>2. QED
      BY <3>1, EncodeFromLater DEF Later, ModuleOK, WellFormed
  <2> HIDE DEF m1, q
  <2>2. QED
    BY <1>2, <2>1 DEF ModuleType
<1>4. Len(q) = Len(m.fragment)
  BY <1>1 DEF ModuleType
<1>5. ASSUME NEW i \in 1 .. Len(m.fragment)
      PROVE  SameShape(Final(m.fragment[i]), Final(q[i]))
  <2> DEFINE f == m.fragment[i]
  <2>1. f \in FragmentType /\ FragmentOK(f)
    BY <1>1 DEF ModuleType, WellFormed, FragmentsOK
  <2>2. CASE i \in ids
    <3>1. f.kind = "isa" /\ q[i] = Encoded(f)
      BY <2>2 DEF Unencoded
    <3>2. f.text \in Texts
      BY <2>1, <3>1 DEF FragmentOK
    <3> HIDE DEF f, q
    <3>3. /\ Encoded(f) \in FragmentType /\ FragmentOK(Encoded(f))
          /\ Encoded(f).kind = "isa" /\ Encoded(f).text = f.text
      BY <2>1, <3>1, <3>2, EncodedType
    <3>4. QED
      BY <2>1, <3>1, <3>3, FinalFacts DEF SameShape, f
  <2>3. CASE i \notin ids
    BY <2>3 DEF SameShape
  <2>4. QED
    BY <2>2, <2>3
<1>6. CASE m.watermark >= Len(m.fragment)
  <2>1. ForOutputAccess(m) = m
    BY <1>6 DEF ForOutputAccess
  <2>2. QED
    BY <1>1, <2>1 DEF Alike, SameShape, ModuleType
<1>7. CASE ~ (m.watermark >= Len(m.fragment))
  <2>1. ForOutputAccess(m) = m2
    BY <1>7 DEF ForOutputAccess
  <2> HIDE DEF m2, q
  <2>2. QED
    BY <1>1, <1>3, <1>4, <1>5, <2>1 DEF Alike, ModuleType
<1>8. QED
  BY <1>6, <1>7

-----------------------------------------------------------------------------
(* Regions.                                                                *)

\* Region s of m is a region of m2 as it was.
Same(m, m2, s) ==
  /\ m2.section[s].kind = m.section[s].kind
  /\ m2.section[s].origin = m.section[s].origin
  /\ m2.section[s].fileOffset = m.section[s].fileOffset
  /\ m2.section[s].closed = m.section[s].closed
  /\ m2.section[s].sizeAlign = m.section[s].sizeAlign
  /\ m2.section[s].frags = m.section[s].frags

(* Its size is the sum of the final sizes of its fragments.                *)
LEMMA SizesKept ==
  ASSUME NEW m, WellFormed(m), NEW m2, WellFormed(m2), Alike(m, m2),
         NEW s \in 1 .. Len(m.section), s \in 1 .. Len(m2.section),
         m2.section[s].frags = m.section[s].frags
  PROVE  /\ LogicalSize(FinalFragments(m2, s)) = LogicalSize(FinalFragments(m, s))
         /\ FileSize(FinalFragments(m2, s)) = FileSize(FinalFragments(m, s))
<1> DEFINE fs == FinalFragments(m, s)
           hs == FinalFragments(m2, s)
<1>1. /\ AllSized(fs) /\ Len(fs) = Len(m.section[s].frags)
      /\ \A k \in 1 .. Len(m.section[s].frags) :
           /\ m.section[s].frags[k] \in 1 .. Len(m.fragment)
           /\ fs[k] = Final(m.fragment[m.section[s].frags[k]])
  BY FinalFragmentsOK
<1>2. /\ AllSized(hs) /\ Len(hs) = Len(m.section[s].frags)
      /\ \A k \in 1 .. Len(m.section[s].frags) :
           hs[k] = Final(m2.fragment[m.section[s].frags[k]])
  <2>1. /\ AllSized(hs) /\ Len(hs) = Len(m2.section[s].frags)
        /\ \A k \in 1 .. Len(m2.section[s].frags) :
             hs[k] = Final(m2.fragment[m2.section[s].frags[k]])
    BY FinalFragmentsOK
  <2> HIDE DEF hs
  <2>2. QED
    BY <2>1, Zenon
<1> HIDE DEF fs, hs
<1>3. \A k \in 1 .. Len(fs) : SameShape(fs[k], hs[k])
  BY <1>1, <1>2 DEF Alike
<1>4. Len(fs) \in Nat /\ Len(fs) \in 0 .. Len(fs)
  BY <1>1 DEF AllSized
<1>5. Offsets(fs)[Len(fs)] = Offsets(hs)[Len(fs)]
  BY <1>1, <1>2, <1>3, <1>4, OffsetsOfPrefix
<1>6. FileSize(fs) = FileSize(hs)
  BY <1>1, <1>2, <1>3, FileSizeOfShapes
<1>7. QED
  BY <1>1, <1>2, <1>5, <1>6 DEF LogicalSize, fs, hs

\* The same fragments in the same region record measure the same.
LEMMA RegionKept ==
  ASSUME NEW m, WellFormed(m), NEW m2, WellFormed(m2), Alike(m, m2),
         NEW s \in 1 .. Len(m.section), s \in 1 .. Len(m2.section),
         Same(m, m2, s)
  PROVE  RegionOf(m2, s) = RegionOf(m, s)
BY SizesKept DEF RegionOf, Same

\* No statement has run, as far as the regions show.
SameRegions(m, m2) ==
  /\ ModuleOK(m2)
  /\ Len(m2.section) = Len(m.section)
  /\ \A s \in 1 .. Len(m.section) : Same(m, m2, s)
  /\ Alike(m, m2)

LEMMA RegionsKept ==
  ASSUME NEW m, ModuleOK(m), NEW m2, SameRegions(m, m2)
  PROVE  RegionsOf(m2) = RegionsOf(m)
<1>1. WellFormed(m) /\ WellFormed(m2)
  BY DEF ModuleOK, SameRegions
<1>2. ASSUME NEW s \in 1 .. Len(m.section)
      PROVE  RegionOf(m2, s) = RegionOf(m, s)
  BY <1>1, RegionKept DEF SameRegions
<1>3. QED
  BY <1>2 DEF RegionsOf, SameRegions

\* SameRegions chains through the calls of one action.
LEMMA SameRegionsTransitive ==
  ASSUME NEW m, ModuleOK(m), NEW m2, SameRegions(m, m2),
         NEW m3, SameRegions(m2, m3)
  PROVE  SameRegions(m, m3)
<1>1. Alike(m, m3)
  <2>1. Len(m.fragment) \in Nat /\ Len(m2.fragment) \in Nat
    BY DEF SameRegions, ModuleOK, WellFormed, ModuleType
  <2>2. ASSUME NEW i \in 1 .. Len(m.fragment)
        PROVE  /\ i <= Len(m3.fragment)
               /\ SameShape(Final(m.fragment[i]), Final(m3.fragment[i]))
    <3>1. i \in 1 .. Len(m2.fragment)
      BY <2>1 DEF SameRegions, Alike
    <3>2. QED
      BY <3>1 DEF SameRegions, Alike, SameShape
  <2>3. QED
    BY <2>2 DEF Alike
<1>2. QED
  BY <1>1 DEF SameRegions, Same

\* The four things an action does behind the abstract region.
LEMMA EncodeKeepsRegions ==
  ASSUME NEW m, ModuleOK(m)
  PROVE  SameRegions(m, ForOutputAccess(m))
<1>1. ForOutputAccess(m).section = m.section
  BY EncodeKeepsSections
<1>2. ModuleOK(ForOutputAccess(m))
  BY ForOutputAccessLater DEF Later
<1>3. QED
  BY <1>1, <1>2, EncodedIsAlike DEF SameRegions, Same

LEMMA FoldKeepsRegions ==
  ASSUME NEW m, ModuleOK(m), NEW s \in 1 .. Len(m.section)
  PROVE  SameRegions(m, FoldMemo(m, s))
<1> DEFINE m2 == FoldMemo(m, s)
<1>1. /\ Later(m, m2) /\ SameSections(m, m2) /\ m2.fragment = m.fragment
      /\ \A t \in 1 .. Len(m.section) :
           /\ m2.section[t].origin = m.section[t].origin
           /\ m2.section[t].fileOffset = m.section[t].fileOffset
           /\ m2.section[t].sizeAlign = m.section[t].sizeAlign
  BY FoldMemoLater
<1> HIDE DEF m2
<1>2. Alike(m, m2)
  BY <1>1 DEF Alike, SameShape, ModuleOK, WellFormed, ModuleType
<1>3. QED
  BY <1>1, <1>2 DEF SameRegions, Same, SameSections, Later, m2

LEMMA SyncKeepsRegions ==
  ASSUME NEW m, ModuleOK(m), NEW a, a.section \in 1 .. Len(m.section)
  PROVE  SameRegions(m, SyncedModule(m, a))
<1> DEFINE m2 == ForOutputAccess(m)
<1>1. SameRegions(m, m2)
  BY EncodeKeepsRegions
<1> HIDE DEF m2
<1>2. ModuleOK(m2) /\ a.section \in 1 .. Len(m2.section)
  BY <1>1 DEF SameRegions
<1>3. SameRegions(m2, FoldMemo(m2, a.section))
  BY <1>2, FoldKeepsRegions
<1>4. QED
  BY <1>1, <1>3, SameRegionsTransitive DEF SyncedModule, m2

LEMMA StoreKeepsRegions ==
  ASSUME NEW m, ModuleOK(m), m.watermark = Len(m.fragment),
         NEW s \in 1 .. Len(m.section), NEW t, HolderOf(m, s, t) # {}
  PROVE  SameRegions(m, StoreByte(m, s, t, Stored))
<1> DEFINE m2 == StoreByte(m, s, t, Stored)
<1>1. Later(m, m2) /\ m2.section = m.section
  BY StoreByteLater, StoreKeepsSections
<1> HIDE DEF m2
<1>2. \A i \in 1 .. Len(m.fragment) : HasSize(m.fragment[i])
  BY DEF ModuleOK, StoresOK, Settled, HasSize
<1>3. Alike(m, m2)
  BY <1>1, <1>2, SizedIsAlike DEF Later, ModuleOK
<1>4. QED
  BY <1>1, <1>3 DEF SameRegions, Same, Later, m2

(* What a fragment appended to a section does to its sizes.                *)
LEMMA SizesOfAppend ==
  ASSUME NEW fs, AllSized(fs), NEW hs, AllSized(hs), Len(hs) = Len(fs) + 1,
         \A k \in 1 .. Len(fs) : SameShape(fs[k], hs[k])
  PROVE  LET f == hs[Len(hs)]
             n == LogicalSize(fs)
             size == LogicalFragmentSize(f, n)
         IN  /\ n \in Nat /\ size \in Nat
             /\ LogicalSize(hs) = n + size
             /\ FileSize(hs) = IF f.kind # "reserve" /\ size > 0
                               THEN n + size ELSE FileSize(fs)
<1> DEFINE f == hs[Len(hs)]
           n == LogicalSize(fs)
           size == LogicalFragmentSize(f, n)
           w == Walk(hs, 0, StartOfRegion)
           c == [offset |-> n, fileOffset |-> FileSize(fs)]
<1>1. /\ Len(fs) \in Nat /\ Len(fs) \in 0 .. Len(fs) /\ 0 \in 0 .. Len(hs)
      /\ Len(hs) \in 1 .. Len(hs) /\ Len(hs) - 1 = Len(fs)
      /\ Sized(f)
  BY DEF AllSized
<1>2. w[Len(fs)] = Walk(fs, 0, StartOfRegion)[Len(fs)]
  BY <1>1, WalkOfPrefix
<1>3. w[Len(fs)] = c
  BY <1>2, WalkEndsAtSize
<1>4. w[Len(hs)] = CursorAfter(f, w[Len(fs)])
  BY <1>1, WalkDef, StartIsCursor
<1>5. n \in Nat /\ FileSize(fs) <= n
  BY FileSizeBelow
<1>6. Walk(fs, 0, StartOfRegion)[Len(fs)] \in CursorType
  <2>1. 0 \in 0 .. Len(fs)
    BY <1>1
  <2>2. QED
    BY <1>1, <2>1, WalkDef, StartIsCursor
<1>7. c \in CursorType /\ FileSize(fs) \in Nat
  BY <1>2, <1>3, <1>6 DEF CursorType
<1>8. w[Len(hs)] = [offset |-> LogicalSize(hs), fileOffset |-> FileSize(hs)]
  BY WalkEndsAtSize
<1>9. size \in Nat
  BY <1>1, <1>5, FragmentSizeType
<1> HIDE DEF f, w
<1>10. /\ CursorAfter(f, c).offset = NextOffset(f, n)
       /\ CursorAfter(f, c).fileOffset = NextFileOffset(f, n, FileSize(fs))
  BY <1>1, <1>7, CursorAfterType
<1> HIDE DEF n, size, c
<1>11. /\ NextOffset(f, n) = n + LogicalFragmentSize(f, n)
       /\ NextFileOffset(f, n, FileSize(fs)) =
            IF f.kind # "reserve" /\ LogicalFragmentSize(f, n) > 0
            THEN n + LogicalFragmentSize(f, n) ELSE FileSize(fs)
  BY <1>1, <1>5, <1>7, StepIsSize
<1>12. /\ LogicalSize(hs) = n + size
       /\ FileSize(hs) = IF f.kind # "reserve" /\ size > 0
                         THEN n + size ELSE FileSize(fs)
  <2>1. /\ LogicalSize(hs) = CursorAfter(f, c).offset
        /\ FileSize(hs) = CursorAfter(f, c).fileOffset
    BY <1>3, <1>4, <1>8
  <2>2. QED
    BY <1>10, <1>11, <2>1 DEF size
<1>13. QED
  BY <1>5, <1>9, <1>12 DEF f, n, size

\* The lengths a region has after a fragment f was appended to it.
GrownLen(m, s, f) ==
  LET n == LogicalSize(FinalFragments(m, s)) IN n + LogicalFragmentSize(Final(f), n)

GrownReal(m, s, f) ==
  LET n == LogicalSize(FinalFragments(m, s))
  IN  IF f.kind # "reserve" /\ LogicalFragmentSize(Final(f), n) > 0
      THEN GrownLen(m, s, f) ELSE FileSize(FinalFragments(m, s))

\* A region as a record of its fields.
Fields(k, o, fo, c, l, r) ==
  [kind |-> k, origin |-> o, fileOffset |-> fo, closed |-> c, len |-> l, real |-> r]

\* A region record with one field replaced (the provers see EXCEPT on a record
\* whose five fields are named).
LEMMA LenUpdate ==
  ASSUME NEW k, NEW o, NEW fo, NEW c, NEW l, NEW r, NEW x,
         x = Fields(k, o, fo, c, l, r), NEW v
  PROVE  [x EXCEPT !.len = v] = Fields(k, o, fo, c, v, r)
BY DEF Fields

LEMMA KindUpdate ==
  ASSUME NEW k, NEW o, NEW fo, NEW c, NEW l, NEW r, NEW x,
         x = Fields(k, o, fo, c, l, r), NEW v
  PROVE  [x EXCEPT !.kind = v] = Fields(v, o, fo, c, l, r)
BY DEF Fields

LEMMA OriginUpdate ==
  ASSUME NEW k, NEW o, NEW fo, NEW c, NEW l, NEW r, NEW x,
         x = Fields(k, o, fo, c, l, r), NEW v
  PROVE  [x EXCEPT !.origin = v] = Fields(k, v, fo, c, l, r)
BY DEF Fields

LEMMA ClosedUpdate ==
  ASSUME NEW k, NEW o, NEW fo, NEW c, NEW l, NEW r, NEW x,
         x = Fields(k, o, fo, c, l, r), NEW v
  PROVE  [x EXCEPT !.closed = v] = Fields(k, o, fo, v, l, r)
BY DEF Fields

\* The region of a section, field by field.
LEMMA RegionFields ==
  ASSUME NEW m, NEW s
  PROVE  RegionOf(m, s) =
           Fields(m.section[s].kind, m.section[s].origin, m.section[s].fileOffset,
                  m.section[s].closed, LogicalSize(FinalFragments(m, s)),
                  FileSize(FinalFragments(m, s)))
BY DEF RegionOf, Fields

\* A fragment added to the current section: its region gets the two sizes that
\* SizesOfAppend computes, every other region stays.
LEMMA AppendGrows ==
  ASSUME NEW m, ModuleOK(m), NEW f \in FragmentType, Fresh(f),
         f.section \in 1 .. Len(m.section)
  PROVE  LET m2 == AddFragment(m, f)
             s  == f.section
         IN  /\ ModuleOK(m2)
             /\ Len(m2.section) = Len(m.section)
             /\ \A t \in 1 .. Len(m.section) :
                  /\ m2.section[t].kind = m.section[t].kind
                  /\ m2.section[t].origin = m.section[t].origin
                  /\ m2.section[t].fileOffset = m.section[t].fileOffset
                  /\ m2.section[t].closed = m.section[t].closed
                  /\ m2.section[t].sizeAlign = m.section[t].sizeAlign
             /\ RegionsOf(m2) =
                  [RegionsOf(m) EXCEPT ![s] =
                     Fields(m.section[s].kind, m.section[s].origin,
                            m.section[s].fileOffset, m.section[s].closed,
                            GrownLen(m, s, f), GrownReal(m, s, f))]
<1> DEFINE s  == f.section
           n  == Len(m.fragment) + 1
           m2 == AddFragment(m, f)
           e  == Append(m.section[s].frags, n)
           x  == [m.section[s] EXCEPT !.frags = e]
           p  == Append(m.fragment, f)
           q  == [m.section EXCEPT ![s] = x]
<1>1. /\ WellFormed(m) /\ ModuleType(m)
      /\ m.fragment \in Seq(FragmentType) /\ m.section \in Seq(SectionType)
      /\ n \in Nat /\ Len(m.fragment) \in Nat
  BY DEF ModuleOK, WellFormed, ModuleType
<1>2. m2.fragment = p /\ m2.section = q
  <2>1. [m.section EXCEPT ![s].frags = Append(@, Len(m.fragment) + 1)] = q
    OBVIOUS
  <2> HIDE DEF q
  <2>2. QED
    BY <1>1, <2>1 DEF AddFragment, ModuleType
<1>3. Later(m, m2) /\ Len(m2.section) = Len(m.section)
  BY AddFragmentLater
<1>4. ModuleOK(m2) /\ WellFormed(m2)
  BY <1>3 DEF Later, ModuleOK
<1>5. m.section[s] \in SectionType /\ m.section[s].frags \in Seq(Nat)
  BY <1>1, SectionFacts
<1> DEFINE g == m.section[s].frags
           L == Len(g)
<1>6. /\ L \in Nat /\ e \in Seq(Nat) /\ Len(e) = L + 1 /\ e[L + 1] = n
      /\ \A k \in 1 .. L : e[k] = m.section[s].frags[k]
  <2>1. g \in Seq(Nat) /\ n \in Nat
    BY <1>1, <1>5
  <2> HIDE DEF g, n
  <2>2. /\ Append(g, n) \in Seq(Nat) /\ Len(g) \in Nat
        /\ Len(Append(g, n)) = Len(g) + 1
        /\ \A k \in 1 .. Len(g) : Append(g, n)[k] = g[k]
        /\ Append(g, n)[Len(g) + 1] = n
    BY <2>1, AppendFacts
  <2>3. QED
    BY <2>2 DEF g
<1>7. /\ \A i \in 1 .. Len(m.fragment) : p[i] = m.fragment[i]
      /\ Len(p) = n /\ p[n] = f
  BY <1>1, AppendFacts
<1> HIDE DEF m2, e, p
<1>8. /\ x.frags = e /\ x.kind = m.section[s].kind
      /\ x.origin = m.section[s].origin
      /\ x.fileOffset = m.section[s].fileOffset
      /\ x.closed = m.section[s].closed
      /\ x.sizeAlign = m.section[s].sizeAlign
  BY <1>5 DEF SectionType
<1>9. /\ q[s] = x
      /\ \A t \in 1 .. Len(m.section) : t # s => q[t] = m.section[t]
  BY <1>1
<1> HIDE DEF x, q, s, n
<1>10. /\ s \in 1 .. Len(m.section) /\ s \in 1 .. Len(m2.section)
       /\ s = f.section
  BY <1>3 DEF s
<1>11. Alike(m, m2)
  BY <1>1, <1>2, <1>7 DEF Alike, SameShape, n
<1>12. ASSUME NEW t \in 1 .. Len(m.section)
       PROVE  /\ m2.section[t].kind = m.section[t].kind
              /\ m2.section[t].origin = m.section[t].origin
              /\ m2.section[t].fileOffset = m.section[t].fileOffset
              /\ m2.section[t].closed = m.section[t].closed
              /\ m2.section[t].sizeAlign = m.section[t].sizeAlign
  <2>1. CASE t = s
    BY <1>2, <1>8, <1>9, <2>1
  <2>2. CASE t # s
    BY <1>2, <1>9, <2>2
  <2>3. QED
    BY <2>1, <2>2
<1>13. ASSUME NEW t \in 1 .. Len(m.section), t # s
       PROVE  RegionOf(m2, t) = RegionOf(m, t)
  <2>1. t \in 1 .. Len(m2.section) /\ m2.section[t] = m.section[t]
    BY <1>2, <1>3, <1>9, <1>13
  <2>2. QED
    BY <1>1, <1>4, <1>11, <2>1, RegionKept DEF Same
<1> DEFINE fs == FinalFragments(m, s)
           hs == FinalFragments(m2, s)
<1>14. /\ AllSized(fs) /\ Len(fs) = L
       /\ \A k \in 1 .. L : /\ m.section[s].frags[k] \in 1 .. Len(m.fragment)
                            /\ fs[k] = Final(m.fragment[m.section[s].frags[k]])
  BY <1>1, <1>10, FinalFragmentsOK
<1>15. m2.section[s].frags = e
  BY <1>2, <1>8, <1>9
<1>16. /\ AllSized(hs) /\ Len(hs) = L + 1
       /\ \A k \in 1 .. L + 1 : hs[k] = Final(m2.fragment[e[k]])
  <2>1. /\ AllSized(hs) /\ Len(hs) = Len(e)
        /\ \A k \in 1 .. Len(e) : hs[k] = Final(m2.fragment[e[k]])
    BY <1>4, <1>10, <1>15, FinalFragmentsOK
  <2>2. QED
    BY <1>6, <2>1
<1> HIDE DEF L, fs, hs
<1>17. hs[Len(hs)] = Final(f)
  BY <1>2, <1>6, <1>7, <1>16
<1>18. \A k \in 1 .. Len(fs) : SameShape(fs[k], hs[k])
  <2>1. SUFFICES ASSUME NEW k \in 1 .. L PROVE SameShape(fs[k], hs[k])
    BY <1>14
  <2>2. k \in 1 .. L + 1 /\ e[k] = m.section[s].frags[k]
    BY <1>6 DEF L
  <2>3. hs[k] = Final(m2.fragment[m.section[s].frags[k]])
    BY <1>16, <2>2
  <2>4. QED
    BY <1>11, <1>14, <2>3 DEF Alike
<1>19. Final(f).kind = f.kind
  BY FinalFacts DEF Fresh
<1>20. /\ LogicalSize(hs) = GrownLen(m, s, f)
       /\ FileSize(hs) = GrownReal(m, s, f)
  <2>1. Len(hs) = Len(fs) + 1
    BY <1>14, <1>16
  <2> DEFINE k == LogicalSize(fs)
             z == LogicalFragmentSize(Final(f), k)
  <2>2. /\ LogicalSize(hs) = k + z
        /\ FileSize(hs) = IF Final(f).kind # "reserve" /\ z > 0
                          THEN k + z ELSE FileSize(fs)
    BY <1>14, <1>16, <1>17, <1>18, <2>1, SizesOfAppend
  <2>3. QED
    BY <1>19, <2>2 DEF GrownLen, GrownReal, fs
<1> DEFINE y == Fields(m.section[s].kind, m.section[s].origin,
                       m.section[s].fileOffset, m.section[s].closed,
                       GrownLen(m, s, f), GrownReal(m, s, f))
<1>21. RegionOf(m2, s) = y
  BY <1>10, <1>12, <1>20, RegionFields DEF hs
<1>22. RegionsOf(m2) = [RegionsOf(m) EXCEPT ![s] = y]
  <2> HIDE DEF y
  <2>1. QED
    BY <1>3, <1>10, <1>13, <1>21 DEF RegionsOf
<1>23. QED
  BY <1>3, <1>4, <1>10, <1>12, <1>22 DEF m2

(* A new section is a new region of size 0.                                *)
LEMMA AddSectionGrows ==
  ASSUME NEW m, ModuleOK(m), NEW k \in {"main", "virtual"}, NEW o \in Nat,
         NEW fo \in Nat
  PROVE  LET m2 == AddSection(m, NewSection(k, o, fo))
         IN  /\ ModuleOK(m2)
             /\ Len(m2.section) = Len(m.section) + 1
             /\ \A t \in 1 .. Len(m.section) : m2.section[t] = m.section[t]
             /\ m2.section[Len(m.section) + 1].closed = FALSE
             /\ m2.section[Len(m.section) + 1].sizeAlign = 1
             /\ RegionsOf(m2) = Append(RegionsOf(m), Eager!Region(k, o, fo))
<1> DEFINE x == NewSection(k, o, fo)
           m2 == AddSection(m, x)
           n == Len(m.section) + 1
<1>1. /\ x \in SectionType /\ x.frags = <<>> /\ x.folded = 0
      /\ x.memo = StartOfRegion /\ x.closed = FALSE
      /\ x.kind = k /\ x.origin = o /\ x.fileOffset = fo /\ x.sizeAlign = 1
  BY NewSectionType DEF NewSection
<1> HIDE DEF x
<1>2. /\ Later(m, m2) /\ Len(m2.section) = n /\ m2.section[n] = x
      /\ \A t \in 1 .. Len(m.section) : m2.section[t] = m.section[t]
  BY <1>1, AddSectionLater
<1>3. WellFormed(m) /\ ModuleType(m) /\ n \in Nat /\ Len(m.section) \in Nat
  BY DEF ModuleOK, WellFormed, ModuleType
<1>4. m2.fragment = m.fragment
  BY <1>3 DEF AddSection, ModuleType
<1> HIDE DEF m2
<1>5. ModuleOK(m2) /\ WellFormed(m2)
  BY <1>2 DEF Later, ModuleOK
<1>6. Alike(m, m2)
  BY <1>3, <1>4 DEF Alike, SameShape, ModuleType
<1>7. ASSUME NEW t \in 1 .. Len(m.section)
      PROVE  RegionOf(m2, t) = RegionOf(m, t)
  <2>1. t \in 1 .. Len(m2.section) /\ m2.section[t] = m.section[t]
    BY <1>2, <1>3
  <2>2. QED
    BY <1>3, <1>5, <1>6, <2>1, RegionKept DEF Same
<1>8. RegionOf(m2, n) = Eager!Region(k, o, fo)
  <2> DEFINE hs == FinalFragments(m2, n)
  <2>1. n \in 1 .. Len(m2.section)
    BY <1>2, <1>3
  <2>2. Len(m2.section[n].frags) = 0
    BY <1>1, <1>2
  <2>3. AllSized(hs) /\ Len(hs) = 0
    BY <1>5, <2>1, <2>2, FinalFragmentsOK
  <2> HIDE DEF hs
  <2>4. LogicalSize(hs) = 0
    BY <2>3, OffsetsDef DEF LogicalSize
  <2>5. Initialized(hs) = {}
    BY <2>3 DEF Initialized
  <2>6. FileSize(hs) = 0
    BY <2>5 DEF FileSize
  <2>7. QED
    BY <1>1, <1>2, <2>4, <2>6 DEF RegionOf, Eager!Region, hs
<1>9. RegionsOf(m2) = Append(RegionsOf(m), Eager!Region(k, o, fo))
  <2> DEFINE r == RegionsOf(m)
             q == Append(r, Eager!Region(k, o, fo))
             T == {RegionOf(m2, t) : t \in 1 .. n}
  <2>1. /\ r \in [1 .. Len(m.section) -> T] /\ Eager!Region(k, o, fo) \in T
    <3>1. Eager!Region(k, o, fo) \in T
      BY <1>3, <1>8
    <3>2. ASSUME NEW t \in 1 .. Len(m.section) PROVE RegionOf(m, t) \in T
      BY <1>3, <1>7
    <3> HIDE DEF T
    <3>3. QED
      BY <3>1, <3>2 DEF RegionsOf
  <2> HIDE DEF r, T
  <2>2. r \in Seq(T) /\ Len(r) = Len(m.section)
    BY <1>3, <2>1, FunctionIsSequence
  <2>3. /\ q \in Seq(T) /\ Len(q) = n
        /\ \A t \in 1 .. Len(m.section) : q[t] = r[t]
        /\ q[n] = Eager!Region(k, o, fo)
    BY <2>1, <2>2, AppendFacts
  <2> HIDE DEF q
  <2>4. q = [t \in 1 .. n |-> q[t]]
    BY <2>3
  <2>5. ASSUME NEW t \in 1 .. n
        PROVE  q[t] = RegionOf(m2, t)
    <3>1. CASE t = n
      BY <1>8, <2>3, <3>1
    <3>2. CASE t # n
      <4>1. t \in 1 .. Len(m.section)
        BY <1>3, <3>2
      <4>2. QED
        BY <1>7, <2>3, <4>1 DEF r, RegionsOf
    <3>3. QED
      BY <3>1, <3>2
  <2>6. RegionsOf(m2) = [t \in 1 .. n |-> RegionOf(m2, t)]
    BY <1>2 DEF RegionsOf
  <2>7. q = RegionsOf(m2)
    BY <2>4, <2>5, <2>6
  <2>8. QED
    BY <2>7 DEF q, r
<1>10. QED
  BY <1>1, <1>2, <1>5, <1>9 DEF m2, x

(* A section record replaced by one with the same fragments.               *)
LEMMA ReplaceRegion ==
  ASSUME NEW m, ModuleOK(m), NEW s \in 1 .. Len(m.section),
         NEW x \in SectionType, x.frags = m.section[s].frags,
         x.folded = m.section[s].folded, x.memo = m.section[s].memo
  PROVE  LET m2 == [m EXCEPT !.section[s] = x]
         IN  /\ ModuleOK(m2)
             /\ Len(m2.section) = Len(m.section)
             /\ m2.section[s] = x
             /\ \A t \in 1 .. Len(m.section) :
                  t # s => m2.section[t] = m.section[t]
             /\ RegionsOf(m2) =
                  [RegionsOf(m) EXCEPT ![s] =
                     Fields(x.kind, x.origin, x.fileOffset, x.closed,
                            RegionOf(m, s).len, RegionOf(m, s).real)]
<1> DEFINE m2 == [m EXCEPT !.section[s] = x]
<1>1. WellFormed(m) /\ ModuleType(m)
  BY DEF ModuleOK, WellFormed
<1>2. Later(m, m2)
  BY SetSection
<1>3. /\ m2.fragment = m.fragment /\ Len(m2.section) = Len(m.section)
      /\ m2.section[s] = x
      /\ \A t \in 1 .. Len(m.section) : t # s => m2.section[t] = m.section[t]
  BY <1>1, ReplaceSection
<1> HIDE DEF m2
<1>4. ModuleOK(m2) /\ WellFormed(m2)
  BY <1>2 DEF Later, ModuleOK
<1>5. Alike(m, m2)
  BY <1>1, <1>3 DEF Alike, SameShape, ModuleType
<1>6. ASSUME NEW t \in 1 .. Len(m.section), t # s
      PROVE  RegionOf(m2, t) = RegionOf(m, t)
  <2>1. t \in 1 .. Len(m2.section) /\ m2.section[t] = m.section[t]
    BY <1>3, <1>6
  <2>2. QED
    BY <1>1, <1>4, <1>5, <2>1, RegionKept DEF Same
<1>7. RegionOf(m2, s) = Fields(x.kind, x.origin, x.fileOffset, x.closed,
                               RegionOf(m, s).len, RegionOf(m, s).real)
  <2>1. s \in 1 .. Len(m2.section)
    BY <1>3
  <2>2. /\ LogicalSize(FinalFragments(m2, s)) = LogicalSize(FinalFragments(m, s))
        /\ FileSize(FinalFragments(m2, s)) = FileSize(FinalFragments(m, s))
    BY <1>1, <1>3, <1>4, <1>5, <2>1, SizesKept
  <2>3. QED
    BY <1>3, <2>2 DEF RegionOf, Fields
<1>8. RegionsOf(m2) = [RegionsOf(m) EXCEPT ![s] =
        Fields(x.kind, x.origin, x.fileOffset, x.closed,
               RegionOf(m, s).len, RegionOf(m, s).real)]
  BY <1>3, <1>6, <1>7 DEF RegionsOf
<1>9. QED
  BY <1>3, <1>4, <1>8 DEF m2

(* The synchronised cursor stands at the end of the abstract region.       *)
LEMMA CursorIsRegionSize ==
  ASSUME NEW m, ModuleOK(m), NEW s \in 1 .. Len(m.section), NEW b
  PROVE  LET a == ActiveOn(ForOutputAccess(m), s, b)
         IN  /\ a.offset = RegionOf(m, s).len
             /\ a.fileOffset = AlignUp(RegionOf(m, s).real, m.section[s].sizeAlign)
<1> DEFINE m2 == ForOutputAccess(m)
<1>1. SameRegions(m, m2) /\ m2.watermark = Len(m2.fragment)
  BY EncodeKeepsRegions, ForOutputAccessLater
<1> HIDE DEF m2
<1>2. /\ ModuleOK(m2) /\ WellFormed(m2) /\ s \in 1 .. Len(m2.section)
      /\ m2.section[s].sizeAlign = m.section[s].sizeAlign
      /\ WellFormed(m) /\ Alike(m, m2) /\ Same(m, m2, s)
  BY <1>1 DEF SameRegions, Same, ModuleOK
<1>3. RegionOf(m2, s) = RegionOf(m, s)
  BY <1>2, RegionKept
<1>4. SectionCursor(m2, s) = [offset |-> LogicalSize(FragmentsOf(m2, s)),
                              fileOffset |-> FileSize(FragmentsOf(m2, s))]
  BY <1>2, CursorIsSize
<1> DEFINE fs == FragmentsOf(m2, s)
           hs == FinalFragments(m2, s)
<1>5. /\ AllSized(fs) /\ Len(fs) = Len(m2.section[s].frags)
      /\ \A k \in 1 .. Len(m2.section[s].frags) :
           fs[k] = m2.fragment[m2.section[s].frags[k]]
  BY <1>2, FragmentsOfSection
<1>6. /\ AllSized(hs) /\ Len(hs) = Len(m2.section[s].frags)
      /\ \A k \in 1 .. Len(m2.section[s].frags) :
           /\ m2.section[s].frags[k] \in 1 .. Len(m2.fragment)
           /\ hs[k] = Final(m2.fragment[m2.section[s].frags[k]])
  BY <1>2, FinalFragmentsOK
<1> HIDE DEF fs, hs
<1>7. ASSUME NEW i \in 1 .. Len(m2.fragment)
      PROVE  SameShape(m2.fragment[i], Final(m2.fragment[i]))
  <2>1. m2.fragment[i] \in FragmentType /\ FragmentOK(m2.fragment[i])
    BY <1>2 DEF WellFormed, ModuleType, FragmentsOK
  <2>2. HasSize(m2.fragment[i])
    BY <1>1, <1>2 DEF ModuleOK, StoresOK, Settled, HasSize
  <2>3. QED
    BY <2>1, <2>2, FinalFacts
<1>8. \A k \in 1 .. Len(fs) : SameShape(fs[k], hs[k])
  BY <1>5, <1>6, <1>7
<1>9. Len(fs) \in Nat /\ Len(fs) \in 0 .. Len(fs)
  BY <1>5 DEF AllSized
<1>10. Offsets(fs)[Len(fs)] = Offsets(hs)[Len(fs)] /\ FileSize(fs) = FileSize(hs)
  BY <1>5, <1>6, <1>8, <1>9, OffsetsOfPrefix, FileSizeOfShapes
<1>11. /\ RegionOf(m2, s).len = LogicalSize(fs)
       /\ RegionOf(m2, s).real = FileSize(fs)
  BY <1>5, <1>6, <1>10 DEF RegionOf, LogicalSize, hs
<1>12. /\ ActiveOn(m2, s, b).offset = LogicalSize(fs)
       /\ ActiveOn(m2, s, b).fileOffset =
            AlignUp(FileSize(fs), m2.section[s].sizeAlign)
  BY <1>4 DEF ActiveOn, fs
<1>13. QED
  BY <1>2, <1>3, <1>11, <1>12 DEF m2

(* EagerOutput rounds up by arithmetic.                                    *)
LEMMA RoundUpIsAlignUp ==
  ASSUME NEW v \in Nat, NEW a \in Nat, a # 0
  PROVE  Eager!RoundUp(v, a) = AlignUp(v, a)
<1> DEFINE q == v \div a
           r == v % a
<1>1. q \in Nat /\ r \in Nat /\ r < a /\ v = a * q + r
  OBVIOUS
<1>2. \A x, y, z \in Nat : x = a * y + z /\ z < a => x \div a = y
  OBVIOUS
<1>3. CASE r = 0
  <2> HIDE DEF q, r
  <2>1. v + a - 1 = a * q + (a - 1) /\ a - 1 \in Nat /\ a - 1 < a /\ v + a - 1 \in Nat
    BY <1>1, <1>3
  <2>2. (v + a - 1) \div a = q
    BY <1>1, <1>2, <2>1
  <2>3. v = q * a
    BY <1>1, <1>3
  <2>4. QED
    BY <1>3, <2>2, <2>3 DEF Eager!RoundUp, AlignUp, r
<1>4. CASE r # 0
  <2> HIDE DEF q, r
  <2>1. a * (q + 1) = a * q + a /\ q + 1 \in Nat
    BY <1>1
  <2>2. v + a - 1 = a * (q + 1) + (r - 1) /\ r - 1 \in Nat /\ r - 1 < a /\ v + a - 1 \in Nat
    BY <1>1, <1>4, <2>1
  <2>3. (v + a - 1) \div a = q + 1
    BY <1>2, <2>1, <2>2
  <2>4. v + (a - r) = (q + 1) * a
    BY <1>1, <2>1
  <2>5. QED
    BY <1>4, <2>3, <2>4 DEF Eager!RoundUp, AlignUp, r
<1>5. QED
  BY <1>3, <1>4

\* Whatever holds a region's raw size alignment keeps it closed.
AlignedOK(m) ==
  \A s \in 1 .. Len(m.section) :
    m.section[s].closed \/ m.section[s].sizeAlign = 1

\* The flags of the old sections stay, a new section is open.
SameFlags(m, m2) ==
  /\ Len(m2.section) \in {Len(m.section), Len(m.section) + 1}
  /\ \A s \in 1 .. Len(m.section) :
       /\ m2.section[s].closed = m.section[s].closed
       /\ m2.section[s].sizeAlign = m.section[s].sizeAlign
  /\ Len(m2.section) = Len(m.section) + 1 =>
       /\ m2.section[Len(m.section) + 1].closed = FALSE
       /\ m2.section[Len(m.section) + 1].sizeAlign = 1

\* What a step needs to have a counterpart in EagerOutput.
Ready ==
  /\ IInv
  /\ phase \in Running
  /\ AlignedOK(module)
  /\ active.closed = module.section[active.section].closed

EagerStep == [Eager!Next]_(Eager!vars)

\* What Ready says of the shapes involved.
LEMMA ReadyFacts ==
  ASSUME Ready
  PROVE  /\ ModuleOK(module) /\ WellFormed(module) /\ ModuleType(module)
         /\ active \in ActiveType
         /\ active.section \in 1 .. Len(module.section)
         /\ Len(module.section) \in Nat
         /\ RegionsOf(module)[active.section] = RegionOf(module, active.section)
         /\ Len(RegionsOf(module)) = Len(module.section)
BY DEF Ready, IInv, ActiveOK, ModuleOK, WellFormed, ModuleType, RegionsOf

\* A call happens while the source runs, and is in the vocabulary.
LEMMA CalledFacts ==
  ASSUME Ready, NEW op, Called(op)
  PROVE  /\ op \in Ops /\ phase = "lower"
         /\ StatusOf(phase) = "running"
BY DEF Ready, Called, Running, StatusOf

(* A step that only looks is a stutter.                                    *)
LEMMA QuietStep ==
  ASSUME Ready, SameRegions(module, module'),
         active'.section = active.section,
         UNCHANGED <<stack, callers, phase>>
  PROVE  EagerStep /\ SameFlags(module, module')
<1>1. RegionsOf(module') = RegionsOf(module)
  BY ReadyFacts, RegionsKept
<1>2. Len(module.section) \in Nat
  BY ReadyFacts
<1>3. SameFlags(module, module')
  BY <1>2 DEF SameRegions, Same, SameFlags
<1>4. UNCHANGED Eager!vars
  BY <1>1 DEF Eager!vars, SectionsOf, StatusOf
<1>5. QED
  BY <1>3, <1>4 DEF EagerStep

(* What is appended makes the current region grow.                         *)
LEMMA GrowStep ==
  ASSUME Ready, phase = "lower", ~active.closed,
         NEW m, SameRegions(module, m),
         NEW a \in ActiveType, a.section = active.section,
         NEW f \in FragmentType, Fresh(f), f.section = active.section,
         AppendTo(m, a, f)
  PROVE  LET L == RegionOf(module, active.section).len
             z == LogicalFragmentSize(Final(f), L)
         IN  /\ SameFlags(module, module')
             /\ Eager!Running /\ Eager!Open
             /\ Eager!GrowTo(L + z, f.kind # "reserve" /\ z > 0)
             /\ RegionsOf(module)[active.section].len = L
             /\ L \in Nat
<1> DEFINE s == active.section
           L == RegionOf(module, s).len
           z == LogicalFragmentSize(Final(f), L)
           x == RegionOf(module, s)
           w == IF f.kind # "reserve" /\ z > 0 THEN L + z ELSE x.real
<1>1. /\ ModuleOK(module) /\ s \in 1 .. Len(module.section)
      /\ Len(module.section) \in Nat
      /\ RegionsOf(module)[s] = RegionOf(module, s)
      /\ Len(RegionsOf(module)) = Len(module.section)
  BY ReadyFacts
<1>2. /\ module' = AddFragment(m, f) /\ active' = Advanced(a, f)
      /\ UNCHANGED <<stack, callers, phase>>
  BY DEF AppendTo
<1>3. /\ ModuleOK(m) /\ Len(m.section) = Len(module.section)
      /\ s \in 1 .. Len(m.section) /\ f.section = s
      /\ RegionsOf(m) = RegionsOf(module)
  BY <1>1, RegionsKept DEF SameRegions
<1>4. active'.section = s
  <2>1. Sized(f)
    BY DEF Fresh, FragmentOK
  <2>2. QED
    BY <1>2, <2>1, AdvancedType
<1>5. RegionOf(m, s) = x
  BY <1>1, <1>3 DEF RegionsOf
<1>6. /\ x.kind = module.section[s].kind /\ x.origin = module.section[s].origin
      /\ x.fileOffset = module.section[s].fileOffset
      /\ x.closed = module.section[s].closed
      /\ m.section[s].kind = x.kind /\ m.section[s].origin = x.origin
      /\ m.section[s].fileOffset = x.fileOffset
      /\ m.section[s].closed = x.closed
      /\ x = Fields(x.kind, x.origin, x.fileOffset, x.closed, x.len, x.real)
  BY <1>1 DEF RegionOf, SameRegions, Same, Fields
<1>7. /\ GrownLen(m, s, f) = L + z /\ GrownReal(m, s, f) = w
      /\ L \in Nat
  <2>1. LogicalSize(FinalFragments(m, s)) = L /\ FileSize(FinalFragments(m, s)) = x.real
    BY <1>5 DEF RegionOf
  <2>2. AllSized(FinalFragments(m, s))
    BY <1>3, FinalFragmentsOK DEF ModuleOK
  <2>3. LogicalSize(FinalFragments(m, s)) \in Nat
    BY <2>2, FileSizeBelow
  <2> HIDE DEF L, x
  <2>4. QED
    BY <2>1, <2>3 DEF GrownLen, GrownReal
<1> HIDE DEF L, z, w, x
<1> DEFINE m2 == AddFragment(m, f)
<1>8. /\ ModuleOK(m2) /\ Len(m2.section) = Len(m.section)
      /\ \A t \in 1 .. Len(m.section) :
           /\ m2.section[t].closed = m.section[t].closed
           /\ m2.section[t].sizeAlign = m.section[t].sizeAlign
      /\ RegionsOf(m2) =
           [RegionsOf(m) EXCEPT ![s] =
              Fields(x.kind, x.origin, x.fileOffset, x.closed, L + z, w)]
  BY <1>3, <1>6, <1>7, AppendGrows
<1>9. module' = m2
  BY <1>2
<1> HIDE DEF m2
<1>10. SameFlags(module, module')
  BY <1>1, <1>3, <1>8, <1>9 DEF SameFlags, SameRegions, Same
<1> DEFINE r == RegionsOf(module)
<1>11. r[s] = x /\ r[s].len = L /\ r[s].real = x.real /\ r[s].closed = FALSE
  <2>1. module.section[s].closed = FALSE
    <3>1. module.section[s].closed = active.closed /\ active.closed \in BOOLEAN
      BY ReadyFacts DEF Ready, ActiveType, s
    <3>2. QED
      BY <3>1
  <2>2. QED
    BY <1>1, <1>6, <2>1 DEF L, x
<1>12. RegionsOf(module') =
         [r EXCEPT ![s].len = L + z,
                   ![s].real = IF f.kind # "reserve" /\ z > 0 THEN L + z ELSE @]
  <2> DEFINE b == f.kind # "reserve" /\ z > 0
             y == L + z
  <2>1. r[s] = Fields(x.kind, x.origin, x.fileOffset, x.closed, x.len, x.real)
    BY <1>6, <1>11
  <2>2. w = IF b THEN y ELSE x.real
    BY DEF w
  <2> HIDE DEF r, b, y
  <2> DEFINE g == [r[s] EXCEPT !.len = y]
             h == [g EXCEPT !.real = w]
  <2>3. w = IF b THEN y ELSE r[s].real
    BY <1>11, <2>2 DEF r
  <2>4. g = Fields(x.kind, x.origin, x.fileOffset, x.closed, y, x.real)
    BY <2>1, LenUpdate
  <2>5. [r EXCEPT ![s].len = y, ![s].real = IF b THEN y ELSE @]
          = [r EXCEPT ![s] = h]
    BY <2>3
  <2> HIDE DEF g
  <2>6. h = Fields(x.kind, x.origin, x.fileOffset, x.closed, y, w)
    BY <2>4 DEF Fields
  <2> HIDE DEF h
  <2>7. QED
    BY <1>3, <1>8, <1>9, <2>5, <2>6 DEF b, r, y
<1>13. Eager!GrowTo(L + z, f.kind # "reserve" /\ z > 0)
  BY <1>2, <1>4, <1>12 DEF Eager!GrowTo, SectionsOf, s, r
<1>14. Eager!Running /\ Eager!Open
  <2>1. StatusOf(phase) = "running" /\ phase' = phase
    BY <1>2 DEF StatusOf
  <2>2. r[s].closed = FALSE
    BY <1>11
  <2>3. QED
    BY <2>1, <2>2 DEF Eager!Running, Eager!Open, StatusOf, r, s
<1>15. QED
  BY <1>7, <1>10, <1>11, <1>13, <1>14 DEF L, z, s, r

\* The synchronised cursor reads the abstract region, both sizes of it.
LEMMA SyncedRegions ==
  ASSUME Ready
  PROVE  LET m == SyncedModule(module, active)
             a == SyncedActive(module, active)
             x == RegionOf(module, active.section)
         IN  /\ SameRegions(module, m) /\ ModuleOK(m)
             /\ RegionsOf(m) = RegionsOf(module)
             /\ a \in ActiveType /\ a.section = active.section
             /\ a.closed = active.closed
             /\ a.offset = x.len
             /\ ~active.closed => a.fileOffset = x.real
             /\ x.len \in Nat /\ x.real \in Nat /\ x.real <= x.len
<1> DEFINE s == active.section
           m == SyncedModule(module, active)
           a == SyncedActive(module, active)
           x == RegionOf(module, s)
<1>1. /\ ModuleOK(module) /\ s \in 1 .. Len(module.section)
      /\ active \in ActiveType /\ WellFormed(module)
  BY ReadyFacts
<1>2. SameRegions(module, m) /\ RegionsOf(m) = RegionsOf(module) /\ ModuleOK(m)
  <2>1. SameRegions(module, m)
    BY <1>1, SyncKeepsRegions
  <2> HIDE DEF m
  <2>2. QED
    BY <1>1, <2>1, RegionsKept DEF SameRegions
<1>3. a \in ActiveType /\ a.section = s /\ a.closed = active.closed
  BY <1>1, SyncedFacts
<1>4. x.len = LogicalSize(FinalFragments(module, s))
        /\ x.real = FileSize(FinalFragments(module, s))
  BY DEF RegionOf
<1>5. AllSized(FinalFragments(module, s))
  BY <1>1, FinalFragmentsOK
<1>6. x.len \in Nat /\ FileSize(FinalFragments(module, s)) <= x.len
        /\ x.real \in Nat
  <2>1. FileSize(FinalFragments(module, s)) \in Nat
    BY <1>5, FileSizeCovers
  <2>2. QED
    BY <1>4, <1>5, <2>1, FileSizeBelow
<1>7. a.offset = x.len
        /\ a.fileOffset = AlignUp(x.real, module.section[s].sizeAlign)
  BY <1>1, CursorIsRegionSize DEF SyncedActive
<1> HIDE DEF x, a, m
<1>8. ASSUME ~active.closed
      PROVE  a.fileOffset = x.real
  <2>1. module.section[s].sizeAlign = 1
    BY <1>1, <1>8 DEF Ready, AlignedOK
  <2>2. AlignUp(x.real, 1) = x.real
    BY <1>6 DEF AlignUp
  <2>3. QED
    BY <1>7, <2>1, <2>2
<1>9. QED
  BY <1>2, <1>3, <1>4, <1>6, <1>7, <1>8 DEF x, a, m, s

\* Only instructions change their size.
LEMMA FinalOfData ==
  ASSUME NEW f, f.kind # "isa"
  PROVE  Final(f) = f
BY DEF Final

(* The six calls that append, each as the growth of the current region.    *)
LEMMA EmissionStep ==
  ASSUME Ready, Emission
  PROVE  EagerStep /\ SameFlags(module, module')
<1> DEFINE m == SyncedModule(module, active)
           b == SyncedActive(module, active)
           L == RegionOf(module, active.section).len
<1>1. active \in ActiveType /\ active.section \in Nat /\ ModuleOK(module)
  BY ReadyFacts DEF ActiveType
<1>2. SameRegions(module, module)
  BY <1>1, ReadyFacts DEF SameRegions, Same, Alike, SameShape
<1>3. /\ SameRegions(module, m) /\ b \in ActiveType
      /\ b.section = active.section /\ b.offset = L /\ L \in Nat
      /\ ~active.closed => Materialized(b.offset, b.fileOffset) = L
  <2>1. /\ SameRegions(module, m) /\ b \in ActiveType
        /\ b.section = active.section /\ b.offset = L /\ L \in Nat
    BY SyncedRegions
  <2>2. ASSUME ~active.closed PROVE Materialized(b.offset, b.fileOffset) = L
    <3>1. b.fileOffset \in Nat /\ b.fileOffset <= L
      BY <2>2, SyncedRegions
    <3> HIDE DEF b, L
    <3>2. QED
      BY <2>1, <3>1 DEF Materialized
  <2>3. QED
    BY <2>1, <2>2
<1> HIDE DEF m, b
\* Data, an instruction or padding of n bytes is a write of n bytes.
<1>4. ASSUME NEW q, SameRegions(module, q),
             NEW c \in ActiveType, c.section = active.section,
             phase = "lower", ~active.closed,
             NEW f \in FragmentType, Fresh(f), f.section = active.section,
             f.kind \in {"bytes", "isa"}, AppendTo(q, c, f),
             NEW n \in Nat, Final(f).n = n
      PROVE  /\ SameFlags(module, module') /\ Eager!Write(n)
             /\ Eager!Running /\ Eager!Open /\ Eager!GrowTo(L + n, n > 0)
             /\ RegionsOf(module)[active.section].len = L
  <2> DEFINE z == LogicalFragmentSize(Final(f), L)
  <2>1. Final(f).kind = f.kind
    BY <1>4, FinalFacts DEF Fresh
  <2>2. z = n
    BY <1>4, <2>1 DEF LogicalFragmentSize
  <2>3. /\ SameFlags(module, module') /\ Eager!Running /\ Eager!Open
        /\ Eager!GrowTo(L + z, f.kind # "reserve" /\ z > 0)
        /\ RegionsOf(module)[active.section].len = L
    BY <1>4, GrowStep
  <2> HIDE DEF L, z
  <2>4. (f.kind # "reserve" /\ z > 0) = (n > 0)
    BY <1>4, <2>2
  <2>5. QED
    BY <2>2, <2>3, <2>4 DEF Eager!Write
<1>5. ASSUME NEW d \in Chunks, DataEmit(d)
      PROVE  EagerStep /\ SameFlags(module, module')
  <2> DEFINE f == Bytes(active.section, d)
  <2>1. d \in Seq(Nat) /\ Len(d) \in Nat
    BY ParameterAssumption
  <2>2. /\ f \in FragmentType /\ Fresh(f) /\ f.section = active.section
    BY <1>1, <2>1, BytesOK
  <2>3. f.kind = "bytes" /\ Final(f).n = Len(d)
    BY DEF Bytes, Final
  <2>4. Called("emit") /\ ~active.closed /\ AppendTo(module, active, f)
    BY <1>5 DEF DataEmit
  <2> HIDE DEF f
  <2>5. Eager!Write(Len(d)) /\ SameFlags(module, module')
    BY <1>1, <1>2, <1>4, <2>1, <2>2, <2>3, <2>4, CalledFacts
  <2>6. QED
    BY <2>5 DEF EagerStep, Eager!Next
<1>6. ASSUME NEW t \in Texts, IsaInstruction(t)
      PROVE  EagerStep /\ SameFlags(module, module')
  <2> DEFINE f == Instruction(active.section, t)
  <2>1. Encoding[t] \in Seq(Nat) /\ Len(Encoding[t]) \in Nat
    <3>1. Encoding[t] \in Seq(Nat)
      BY EncodingAssumption
    <3>2. QED
      BY <3>1
  <2>2. /\ f \in FragmentType /\ Fresh(f) /\ f.section = active.section
    BY <1>1, InstructionOK
  <2>3. f.kind = "isa" /\ f.text = t
    BY DEF Instruction
  <2>4. Called("isa") /\ ~active.closed /\ AppendTo(module, active, f)
    BY <1>6 DEF IsaInstruction
  <2> HIDE DEF f
  <2>5. Final(f).n = Len(Encoding[t])
    BY <2>2, <2>3, FinalFacts DEF Fresh
  <2>6. Eager!Write(Len(Encoding[t])) /\ SameFlags(module, module')
    BY <1>1, <1>2, <1>4, <2>1, <2>2, <2>3, <2>4, <2>5, CalledFacts
  <2>7. QED
    BY <2>6 DEF EagerStep, Eager!Next
<1>7. ASSUME NEW n \in Nat
      PROVE  LET f == Bytes(active.section, Padding(n))
             IN  /\ f \in FragmentType /\ Fresh(f) /\ f.section = active.section
                 /\ f.kind = "bytes" /\ Final(f).n = n
  <2>1. Padding(n) \in Seq(Nat) /\ Len(Padding(n)) = n
    BY PaddingType DEF Padding
  <2>2. QED
    BY <1>1, <2>1, BytesOK DEF Bytes, Final
<1>8. ASSUME NEW n \in Sizes, Pad(n)
      PROVE  EagerStep /\ SameFlags(module, module')
  <2> DEFINE f == Bytes(active.section, Padding(n))
  <2>1. n \in Nat
    BY ParameterAssumption
  <2>2. Called("pad") /\ ~active.closed /\ AppendTo(m, b, f)
    BY <1>8 DEF Pad, m, b
  <2>3. /\ f \in FragmentType /\ Fresh(f) /\ f.section = active.section
        /\ f.kind = "bytes" /\ Final(f).n = n
    BY <1>7, <2>1
  <2> HIDE DEF f
  <2>4. Eager!Write(n) /\ SameFlags(module, module')
    BY <1>3, <1>4, <2>1, <2>2, <2>3, CalledFacts
  <2>5. QED
    BY <2>4 DEF EagerStep, Eager!Next
<1>9. ASSUME NEW n \in Sizes, PadTo(n)
      PROVE  EagerStep /\ SameFlags(module, module')
  <2> DEFINE k == n - Materialized(b.offset, b.fileOffset)
             f == Bytes(active.section, Padding(k))
  <2>1. n \in Nat
    BY ParameterAssumption
  <2>2. Called("pad_to") /\ ~active.closed /\ k >= 0 /\ AppendTo(m, b, f)
    BY <1>9 DEF PadTo, m, b
  <2>3. k = n - L /\ k \in Nat /\ n >= L /\ L + k = n /\ (k > 0) = (n > L)
    <3>1. k = n - L
      BY <1>3, <2>2
    <3> HIDE DEF k, L
    <3>2. QED
      BY <1>3, <2>1, <2>2, <3>1
  <2> HIDE DEF k
  <2>4. /\ f \in FragmentType /\ Fresh(f) /\ f.section = active.section
        /\ f.kind = "bytes" /\ Final(f).n = k
    BY <1>7, <2>3
  <2> HIDE DEF f
  <2>5. /\ SameFlags(module, module') /\ Eager!Running /\ Eager!Open
        /\ Eager!GrowTo(L + k, k > 0)
        /\ RegionsOf(module)[active.section].len = L
    BY <1>3, <1>4, <2>2, <2>3, <2>4, CalledFacts
  <2> HIDE DEF L
  <2>6. Eager!PadTo(n)
    BY <2>3, <2>5 DEF Eager!PadTo
  <2>7. QED
    BY <2>5, <2>6 DEF EagerStep, Eager!Next
<1>10. ASSUME NEW n \in Sizes, ReserveSpace(n)
       PROVE  EagerStep /\ SameFlags(module, module')
  <2> DEFINE f == Reserve(active.section, n)
             z == LogicalFragmentSize(Final(f), L)
  <2>1. n \in Nat
    BY ParameterAssumption
  <2>2. /\ f \in FragmentType /\ Fresh(f) /\ f.section = active.section
    BY <1>1, <2>1, ReserveOK
  <2>3. f.kind = "reserve" /\ z = n
    BY DEF Reserve, Final, LogicalFragmentSize
  <2>4. Called("reserve") /\ ~active.closed /\ AppendTo(module, active, f)
    BY <1>10 DEF ReserveSpace
  <2> HIDE DEF f
  <2>5. /\ SameFlags(module, module') /\ Eager!Running /\ Eager!Open
        /\ Eager!GrowTo(L + z, f.kind # "reserve" /\ z > 0)
        /\ RegionsOf(module)[active.section].len = L
    BY <1>1, <1>2, <2>2, <2>4, CalledFacts, GrowStep
  <2> HIDE DEF L, z
  <2>6. (f.kind # "reserve" /\ z > 0) = FALSE
    BY <2>3
  <2>7. Eager!ReserveSpace(n)
    BY <2>3, <2>5, <2>6 DEF Eager!ReserveSpace
  <2>8. QED
    BY <2>5, <2>7 DEF EagerStep, Eager!Next
<1>11. ASSUME NEW n \in Alignments, Align(n)
       PROVE  EagerStep /\ SameFlags(module, module')
  <2> DEFINE f == Alignment(active.section, n, Fill)
             z == LogicalFragmentSize(Final(f), L)
             v == AlignUp(L, n)
  <2>1. n \in Nat /\ n # 0 /\ Fill \in Nat
    BY <1>11, ParameterAssumption DEF Align, IsPowerOfTwo
  <2>2. /\ f \in FragmentType /\ Fresh(f) /\ f.section = active.section
    BY <1>1, <2>1, AlignmentOK
  <2>3. f.kind = "alignment" /\ z = v - L
    BY DEF Alignment, Final, LogicalFragmentSize
  <2>4. Called("align") /\ ~active.closed /\ AppendTo(m, b, f)
    BY <1>11 DEF Align, m, b
  <2> HIDE DEF f
  <2>5. /\ SameFlags(module, module') /\ Eager!Running /\ Eager!Open
        /\ Eager!GrowTo(L + z, f.kind # "reserve" /\ z > 0)
        /\ RegionsOf(module)[active.section].len = L
    BY <1>3, <2>2, <2>4, CalledFacts, GrowStep
  <2>6. v = Eager!RoundUp(L, n) /\ v \in Nat
    BY <1>3, <2>1, RoundUpIsAlignUp, AlignUpBounds
  <2> HIDE DEF L, z, v
  <2>7. L + z = v /\ (f.kind # "reserve" /\ z > 0) = (v > L)
    BY <1>3, <2>3, <2>6
  <2>8. Eager!Align(n)
    BY <2>5, <2>6, <2>7 DEF Eager!Align
  <2>9. QED
    BY <2>5, <2>8 DEF EagerStep, Eager!Next
<1>12. QED
  BY <1>5, <1>6, <1>8, <1>9, <1>10, <1>11 DEF Emission

(* Calls that look, and calls that name a place.                           *)
LEMMA QueryStep ==
  ASSUME Ready, Query
  PROVE  EagerStep /\ SameFlags(module, module')
<1>1. /\ ModuleOK(module) /\ active.section \in 1 .. Len(module.section)
      /\ IInv
  BY ReadyFacts DEF Ready
<1>2. /\ SameRegions(module, SyncedModule(module, active))
      /\ SyncedActive(module, active).section = active.section
  BY SyncedRegions
<1>3. CASE ReadHere
  BY <1>2, <1>3, QuietStep DEF ReadHere
<1>4. CASE FreezeBlock
  BY <1>2, <1>4, QuietStep DEF FreezeBlock
<1>5. CASE ReadOutput
  BY <1>1, <1>5, EncodeKeepsRegions, QuietStep DEF ReadOutput
<1>6. ASSUME NEW t \in StoreTargets(ForOutputAccess(module)), Store(t)
      PROVE  EagerStep /\ SameFlags(module, module')
  <2> DEFINE m1 == ForOutputAccess(module)
             m2 == StoreByte(m1, t[1], t[2], Stored)
  <2>1. /\ HolderOf(m1, t[1], t[2]) # {} /\ module' = m2
        /\ UNCHANGED <<active, stack, callers, phase>>
    BY <1>6 DEF Store
  <2>2. /\ Later(module, m1) /\ SameSections(module, m1)
        /\ m1.watermark = Len(m1.fragment)
    BY <1>1, ForOutputAccessLater
  <2>3. SameRegions(module, m1) /\ ModuleOK(m1)
    BY <1>1, EncodeKeepsRegions DEF SameRegions
  <2>4. t \in StoreTargets(m1)
    OBVIOUS
  <2> HIDE DEF m1
  <2>5. t[1] \in 1 .. Len(m1.section)
    BY <1>1, <2>2, <2>4, StoreTargetSection
  <2>6. SameRegions(m1, m2)
    BY <2>1, <2>2, <2>3, <2>5, StoreKeepsRegions
  <2> HIDE DEF m2
  <2>7. SameRegions(module, module')
    BY <1>1, <2>1, <2>3, <2>6, SameRegionsTransitive
  <2>8. QED
    BY <2>1, <2>7, QuietStep
<1>7. QED
  BY <1>3, <1>4, <1>5, <1>6 DEF Query

\* A label is defined in the module and not in any region.
LEMMA DefineLabelStep ==
  ASSUME Ready, NEW l \in Labels, DefineLabel(l)
  PROVE  EagerStep /\ SameFlags(module, module')
<1> DEFINE b == [section  |-> active.section,
                 offset   |-> active.offset,
                 position |-> Len(module.section[active.section].frags)]
           m2 == [module EXCEPT !.label[l] = b]
<1>1. /\ IInv /\ ModuleOK(module) /\ ModuleType(module)
      /\ module' = m2 /\ UNCHANGED <<active, stack, callers, phase>>
  BY ReadyFacts DEF Ready, DefineLabel
<1>2. ModuleOK(module')
  BY <1>1, DefineLabelForm DEF Looks, Continues, Later
<1> HIDE DEF b
<1>3. m2.section = module.section /\ m2.fragment = module.fragment
  BY <1>1 DEF ModuleType
<1> HIDE DEF m2
<1>4. SameRegions(module, module')
  BY <1>1, <1>2, <1>3 DEF SameRegions, Same, Alike, SameShape, ModuleType
<1>5. QED
  BY <1>1, <1>4, QuietStep

(* A section that is replaced: origin, region.file_align, region.place.    *)

\* m2 is module with x for section s: the other sections keep their flags, and
\* region s its two sizes.
Replaced(m2, s, x) ==
  /\ Len(m2.section) = Len(module.section)
  /\ m2.section[s] = x
  /\ \A t \in 1 .. Len(module.section) :
       t # s => /\ m2.section[t].closed = module.section[t].closed
                /\ m2.section[t].sizeAlign = module.section[t].sizeAlign
  /\ RegionsOf(m2) =
       [RegionsOf(module) EXCEPT ![s] =
          Fields(x.kind, x.origin, x.fileOffset, x.closed,
                 RegionOf(module, s).len, RegionOf(module, s).real)]

LEMMA ReplaceStep ==
  ASSUME NEW m, SameRegions(module, m), ModuleOK(module),
         NEW s \in 1 .. Len(module.section),
         NEW x \in SectionType, x.frags = m.section[s].frags,
         x.folded = m.section[s].folded, x.memo = m.section[s].memo
  PROVE  LET m2 == [m EXCEPT !.section[s] = x]
         IN  ModuleOK(m2) /\ Replaced(m2, s, x)
<1>1. /\ ModuleOK(m) /\ Len(m.section) = Len(module.section)
      /\ RegionsOf(m) = RegionsOf(module)
      /\ \A t \in 1 .. Len(module.section) : Same(module, m, t)
  BY RegionsKept DEF SameRegions
<1>2. RegionOf(m, s) = RegionOf(module, s)
  <2>1. RegionsOf(m)[s] = RegionOf(m, s) /\ RegionsOf(module)[s] = RegionOf(module, s)
    BY <1>1 DEF RegionsOf
  <2>2. QED
    BY <1>1, <2>1
<1> DEFINE m2 == [m EXCEPT !.section[s] = x]
<1>3. /\ ModuleOK(m2)
      /\ Len(m2.section) = Len(m.section)
      /\ m2.section[s] = x
      /\ \A t \in 1 .. Len(m.section) : t # s => m2.section[t] = m.section[t]
      /\ RegionsOf(m2) =
           [RegionsOf(m) EXCEPT ![s] =
              Fields(x.kind, x.origin, x.fileOffset, x.closed,
                     RegionOf(m, s).len, RegionOf(m, s).real)]
  BY <1>1, ReplaceRegion
<1> HIDE DEF m2
<1>4. QED
  BY <1>1, <1>2, <1>3 DEF Same, Replaced, m2

\* origin: the region moves, its size stays.
LEMMA SetOriginStep ==
  ASSUME Ready, NEW o \in Origins, SetOrigin(o)
  PROVE  EagerStep /\ SameFlags(module, module')
<1> DEFINE s == active.section
           x == [module.section[s] EXCEPT !.origin = o]
           m2 == [module EXCEPT !.section[s] = x]
           r == RegionsOf(module)
           y == RegionOf(module, s)
<1>1. /\ ModuleType(module) /\ ModuleOK(module) /\ s \in 1 .. Len(module.section)
      /\ o \in Nat /\ Len(module.section) \in Nat /\ r[s] = y
  BY ReadyFacts, ParameterAssumption
<1>2. /\ module' = m2 /\ UNCHANGED <<active, stack, callers, phase>>
      /\ Called("origin")
  <2>1. [module EXCEPT !.section[s].origin = o] = m2
    OBVIOUS
  <2>2. QED
    BY <2>1 DEF SetOrigin
<1>3. module.section[s] \in SectionType
  BY <1>1, SectionFacts
<1> HIDE DEF s
<1>4. /\ x \in SectionType /\ x.frags = module.section[s].frags
      /\ x.folded = module.section[s].folded
      /\ x.memo = module.section[s].memo
      /\ x.kind = y.kind /\ x.origin = o /\ x.fileOffset = y.fileOffset
      /\ x.closed = y.closed /\ x.closed = module.section[s].closed
      /\ x.sizeAlign = module.section[s].sizeAlign
      /\ y = Fields(y.kind, y.origin, y.fileOffset, y.closed, y.len, y.real)
  BY <1>1, <1>3 DEF SectionType, RegionOf, Fields
<1>5. SameRegions(module, module)
  BY <1>1 DEF SameRegions, Same, Alike, SameShape, ModuleType
<1> HIDE DEF x
<1>6. /\ Len(m2.section) = Len(module.section)
      /\ m2.section[s] = x
      /\ \A t \in 1 .. Len(module.section) :
           t # s => /\ m2.section[t].closed = module.section[t].closed
                    /\ m2.section[t].sizeAlign = module.section[t].sizeAlign
      /\ RegionsOf(m2) =
           [r EXCEPT ![s] = Fields(x.kind, x.origin, x.fileOffset, x.closed,
                                   y.len, y.real)]
  <2>1. Replaced(m2, s, x)
    BY <1>1, <1>4, <1>5, ReplaceStep
  <2>2. QED
    BY <2>1 DEF Replaced
<1> HIDE DEF m2
<1>7. SameFlags(module, module')
  BY <1>1, <1>2, <1>4, <1>6 DEF SameFlags
<1> HIDE DEF y
<1>8. [r EXCEPT ![s].origin = o]
        = [r EXCEPT ![s] = Fields(y.kind, o, y.fileOffset, y.closed, y.len, y.real)]
  <2> DEFINE e == [r[s] EXCEPT !.origin = o]
  <2>1. r[s] = Fields(y.kind, y.origin, y.fileOffset, y.closed, y.len, y.real)
    BY <1>1, <1>4
  <2> HIDE DEF r
  <2>2. e = Fields(y.kind, o, y.fileOffset, y.closed, y.len, y.real)
    BY <2>1, OriginUpdate
  <2>3. [r EXCEPT ![s].origin = o] = [r EXCEPT ![s] = e]
    OBVIOUS
  <2> HIDE DEF e
  <2>4. QED
    BY <2>2, <2>3
<1>9. RegionsOf(module') = [r EXCEPT ![s].origin = o]
  BY <1>2, <1>4, <1>6, <1>8
<1>10. Eager!SetOrigin(o)
  <2>1. StatusOf(phase) = "running"
    BY <1>2, CalledFacts
  <2>2. QED
    BY <1>2, <1>9, <2>1 DEF Eager!SetOrigin, Eager!Running, StatusOf, SectionsOf, r, s
<1>11. QED
  BY <1>7, <1>10 DEF EagerStep, Eager!Next

\* The current region is closed, and nothing else changes.
Closing(m, m2, s) ==
  /\ Len(m2.section) = Len(m.section)
  /\ m2.section[s].closed = TRUE
  /\ \A t \in 1 .. Len(m.section) :
       t # s => /\ m2.section[t].closed = m.section[t].closed
                /\ m2.section[t].sizeAlign = m.section[t].sizeAlign

\* region.file_align pads the region and closes it, for the abstraction in one
\* step.
LEMMA FileAlignStep ==
  ASSUME Ready, NEW n \in Alignments, FileAlign(n)
  PROVE  EagerStep /\ Closing(module, module', active.section)
<1> DEFINE s == active.section
           m == SyncedModule(module, active)
           x == [m.section[s] EXCEPT !.sizeAlign = n, !.closed = TRUE]
           m2 == [m EXCEPT !.section[s] = x]
           r == RegionsOf(module)
           y == RegionOf(module, s)
<1>1. /\ ModuleOK(module) /\ s \in 1 .. Len(module.section)
      /\ Len(module.section) \in Nat /\ r[s] = y
  BY ReadyFacts
<1>2. /\ module' = m2 /\ active'.section = s
      /\ UNCHANGED <<stack, callers, phase>> /\ Called("region.file_align")
      /\ n \in Nat /\ n # 0
  <2>1. n \in Nat /\ n # 0
    BY ParameterAssumption DEF FileAlign, IsPowerOfTwo
  <2>2. active'.section = s
    BY <2>1, FileAlignForm DEF Closes, Ready
  <2>3. QED
    BY <2>1, <2>2 DEF FileAlign
<1>3. SameRegions(module, m) /\ ModuleOK(m)
  BY SyncedRegions
<1> HIDE DEF m, s
<1>4. m.section[s] \in SectionType /\ Same(module, m, s)
  BY <1>1, <1>3, SectionFacts DEF ModuleOK, WellFormed, SameRegions
<1>5. /\ x \in SectionType /\ x.frags = m.section[s].frags
      /\ x.folded = m.section[s].folded /\ x.memo = m.section[s].memo
      /\ x.kind = y.kind /\ x.origin = y.origin /\ x.fileOffset = y.fileOffset
      /\ x.closed = TRUE
      /\ y = Fields(y.kind, y.origin, y.fileOffset, y.closed, y.len, y.real)
  BY <1>2, <1>4 DEF SectionType, Same, RegionOf, Fields
<1> HIDE DEF x
<1>6. /\ Len(m2.section) = Len(module.section)
      /\ m2.section[s] = x
      /\ \A t \in 1 .. Len(module.section) :
           t # s => /\ m2.section[t].closed = module.section[t].closed
                    /\ m2.section[t].sizeAlign = module.section[t].sizeAlign
      /\ RegionsOf(m2) =
           [r EXCEPT ![s] = Fields(x.kind, x.origin, x.fileOffset, x.closed,
                                   y.len, y.real)]
  <2>1. Replaced(m2, s, x)
    BY <1>1, <1>3, <1>5, ReplaceStep
  <2>2. QED
    BY <2>1 DEF Replaced
<1> HIDE DEF m2, y
<1>7. Closing(module, module', s)
  BY <1>2, <1>5, <1>6 DEF Closing
<1>8. [r EXCEPT ![s].closed = TRUE]
        = [r EXCEPT ![s] = Fields(y.kind, y.origin, y.fileOffset, TRUE, y.len, y.real)]
  <2>1. r[s] = Fields(y.kind, y.origin, y.fileOffset, y.closed, y.len, y.real)
    BY <1>1, <1>5
  <2>2. PICK v : v = TRUE
    OBVIOUS
  <2> DEFINE e == [r[s] EXCEPT !.closed = v]
  <2> HIDE DEF r
  <2>3. e = Fields(y.kind, y.origin, y.fileOffset, v, y.len, y.real)
    BY <2>1, ClosedUpdate
  <2>4. [r EXCEPT ![s].closed = v] = [r EXCEPT ![s] = e]
    OBVIOUS
  <2> HIDE DEF e
  <2>5. [r EXCEPT ![s].closed = v]
          = [r EXCEPT ![s] = Fields(y.kind, y.origin, y.fileOffset, v, y.len, y.real)]
    BY <2>3, <2>4
  <2>6. QED
    BY <2>2, <2>5, Zenon
<1>9. RegionsOf(module') = [r EXCEPT ![s].closed = TRUE]
  BY <1>2, <1>5, <1>6, <1>8
<1>10. Eager!Close
  <2>1. StatusOf(phase) = "running"
    BY <1>2, CalledFacts
  <2>2. QED
    BY <1>2, <1>9, <2>1 DEF Eager!Close, Eager!Running, StatusOf, SectionsOf, r, s
<1>11. QED
  BY <1>7, <1>10 DEF EagerStep, Eager!Next, s

\* region.place: a virtual region becomes a main one, at a place in the file.
LEMMA RegionPlaceStep ==
  ASSUME Ready, NEW l \in Labels, NEW o \in Origins, NEW fo \in FileOffsets,
         RegionPlace(l, o, fo)
  PROVE  /\ EagerStep /\ SameFlags(module, module')
         /\ module.label[l].section \in 1 .. Len(module.section)
         /\ active'.closed = module.section[module.label[l].section].closed
<1> DEFINE s == module.label[l].section
           x == [module.section[s] EXCEPT !.kind = "main", !.origin = o,
                                          !.fileOffset = fo]
           m == [module EXCEPT !.section[s] = x]
           m2 == FoldMemo(m, s)
           r == RegionsOf(module)
           y == RegionOf(module, s)
<1>1. /\ WellFormed(module) /\ ModuleType(module) /\ ModuleOK(module)
      /\ Len(module.section) \in Nat /\ o \in Nat /\ fo \in Nat
  BY ReadyFacts, ParameterAssumption
<1>2. s \in 1 .. Len(module.section) /\ module.section[s].kind = "virtual"
  BY <1>1 DEF RegionPlace, Placeable, WellFormed, LabelsOK, AnchorOK
<1>3. /\ module' = m2 /\ UNCHANGED <<stack, callers, phase>>
      /\ active' = ActiveOn(m, s, module.section[s].closed)
      /\ Called("region.place")
  <2>1. Promoted(module, s, o, fo) = m
    BY DEF Promoted
  <2>2. QED
    BY <2>1 DEF RegionPlace
<1>4. module.section[s] \in SectionType
  BY <1>1, <1>2, SectionFacts
<1> HIDE DEF s
<1>5. /\ x \in SectionType /\ x.frags = module.section[s].frags
      /\ x.folded = module.section[s].folded
      /\ x.memo = module.section[s].memo
      /\ x.kind = "main" /\ x.origin = o /\ x.fileOffset = fo
      /\ x.closed = y.closed /\ x.closed = module.section[s].closed
      /\ x.sizeAlign = module.section[s].sizeAlign
      /\ y.kind = "virtual"
      /\ y = Fields(y.kind, y.origin, y.fileOffset, y.closed, y.len, y.real)
      /\ module.section[s].closed \in BOOLEAN
  BY <1>1, <1>2, <1>4 DEF SectionType, RegionOf, Fields
<1>6. SameRegions(module, module)
  BY <1>1 DEF SameRegions, Same, Alike, SameShape, ModuleType
<1> HIDE DEF x
<1>7. /\ ModuleOK(m) /\ Len(m.section) = Len(module.section)
      /\ m.section[s] = x
      /\ \A t \in 1 .. Len(module.section) :
           t # s => /\ m.section[t].closed = module.section[t].closed
                    /\ m.section[t].sizeAlign = module.section[t].sizeAlign
      /\ RegionsOf(m) =
           [r EXCEPT ![s] = Fields(x.kind, x.origin, x.fileOffset, x.closed,
                                   y.len, y.real)]
  <2>1. ModuleOK(m) /\ Replaced(m, s, x)
    BY <1>1, <1>2, <1>5, <1>6, ReplaceStep
  <2>2. QED
    BY <2>1 DEF Replaced
<1> HIDE DEF m, y
<1>8. s \in 1 .. Len(m.section)
  BY <1>2, <1>7
<1>9. SameRegions(m, m2) /\ RegionsOf(m2) = RegionsOf(m)
  <2>1. SameRegions(m, m2)
    BY <1>7, <1>8, FoldKeepsRegions
  <2> HIDE DEF m2
  <2>2. QED
    BY <1>7, <2>1, RegionsKept
<1> HIDE DEF m2
<1>10. SameFlags(module, module')
  BY <1>1, <1>3, <1>5, <1>7, <1>9 DEF SameFlags, SameRegions, Same
<1>11. active'.section = s /\ active'.closed = module.section[s].closed
  BY <1>3, <1>5, <1>7, <1>8, ActiveOnType
<1>12. [r EXCEPT ![s].kind = "main", ![s].origin = o, ![s].fileOffset = fo]
         = [r EXCEPT ![s] = Fields("main", o, fo, y.closed, y.len, y.real)]
  <2> DEFINE g == [r[s] EXCEPT !.kind = "main"]
             h == [g EXCEPT !.origin = o]
             e == [h EXCEPT !.fileOffset = fo]
  <2>1. r[s] = Fields(y.kind, y.origin, y.fileOffset, y.closed, y.len, y.real)
    BY <1>2, <1>5 DEF RegionsOf, y
  <2> HIDE DEF r
  <2>2. g = Fields("main", y.origin, y.fileOffset, y.closed, y.len, y.real)
    BY <2>1, KindUpdate
  <2>3. [r EXCEPT ![s].kind = "main", ![s].origin = o, ![s].fileOffset = fo]
          = [r EXCEPT ![s] = e]
    OBVIOUS
  <2> HIDE DEF g
  <2>4. h = Fields("main", o, y.fileOffset, y.closed, y.len, y.real)
    BY <2>2, OriginUpdate
  <2> HIDE DEF h
  <2>5. e = Fields("main", o, fo, y.closed, y.len, y.real)
    BY <2>4 DEF Fields
  <2> HIDE DEF e
  <2>6. QED
    BY <2>3, <2>5
<1>13. RegionsOf(module') =
         [r EXCEPT ![s].kind = "main", ![s].origin = o, ![s].fileOffset = fo]
  BY <1>3, <1>5, <1>7, <1>9, <1>12
<1>14. s \in 1 .. Len(r) /\ r[s].kind = "virtual"
  BY <1>1, <1>2, <1>5 DEF RegionsOf, y
<1>15. Eager!Place(s, o, fo)
  <2>1. StatusOf(phase) = "running"
    BY <1>3, CalledFacts
  <2>2. QED
    BY <1>3, <1>11, <1>13, <1>14, <2>1
       DEF Eager!Place, Eager!Running, StatusOf, SectionsOf, r
<1>16. Eager!Next
  BY <1>14, <1>15 DEF Eager!Next, r
<1>17. QED
  BY <1>2, <1>10, <1>11, <1>16 DEF EagerStep, s

(* Calls that continue in a section of their own.                          *)
LEMMA EnterStep ==
  ASSUME Ready, phase = "lower", NEW m, SameRegions(module, m),
         NEW k \in {"main", "virtual"}, NEW o \in Nat, NEW fo \in Nat,
         EnterNew(m, NewSection(k, o, fo))
  PROVE  /\ Eager!Running /\ Eager!Enter(Eager!Region(k, o, fo))
         /\ SameFlags(module, module')
         /\ active'.closed = FALSE
         /\ UNCHANGED <<callers, phase>>
<1> DEFINE m2 == AddSection(m, NewSection(k, o, fo))
           n == Len(module.section)
<1>1. /\ ModuleOK(module) /\ n \in Nat /\ ModuleOK(m)
      /\ Len(m.section) = n
      /\ \A t \in 1 .. n : Same(module, m, t)
  BY ReadyFacts DEF SameRegions
<1>2. RegionsOf(m) = RegionsOf(module) /\ Len(RegionsOf(module)) = n
  BY <1>1, RegionsKept DEF RegionsOf
<1>3. /\ module' = m2 /\ active' = ActiveOnNew(n + 1)
      /\ UNCHANGED <<callers, phase>>
  BY <1>1 DEF EnterNew
<1>4. active'.section = n + 1 /\ active'.closed = FALSE
  BY <1>3 DEF ActiveOnNew
<1>5. /\ Len(m2.section) = n + 1
      /\ \A t \in 1 .. n : m2.section[t] = m.section[t]
      /\ m2.section[n + 1].closed = FALSE
      /\ m2.section[n + 1].sizeAlign = 1
      /\ RegionsOf(m2) = Append(RegionsOf(module), Eager!Region(k, o, fo))
  <2>1. /\ Len(m2.section) = Len(m.section) + 1
        /\ \A t \in 1 .. Len(m.section) : m2.section[t] = m.section[t]
        /\ m2.section[Len(m.section) + 1].closed = FALSE
        /\ m2.section[Len(m.section) + 1].sizeAlign = 1
        /\ RegionsOf(m2) = Append(RegionsOf(m), Eager!Region(k, o, fo))
    BY <1>1, AddSectionGrows, ZenonT(60)
  <2> HIDE DEF m2, n
  <2>2. QED
    BY <1>1, <1>2, <2>1
<1> HIDE DEF m2
<1>6. SameFlags(module, module')
  BY <1>1, <1>3, <1>5 DEF SameFlags, Same
<1>7. Eager!Enter(Eager!Region(k, o, fo))
  BY <1>2, <1>3, <1>4, <1>5 DEF Eager!Enter
<1>8. Eager!Running
  BY <1>3 DEF Eager!Running, StatusOf
<1>9. QED
  BY <1>3, <1>4, <1>6, <1>7, <1>8

\* region.begin, output.org and output.section.
LEMMA EnteringStep ==
  ASSUME Ready,
         \/ \E o \in Origins, fo \in FileOffsets : RegionBegin(o, fo)
         \/ \E o \in Origins : OutputOrg(o) \/ OutputSection(o)
  PROVE  /\ EagerStep /\ SameFlags(module, module')
         /\ active'.closed = FALSE /\ UNCHANGED <<stack, callers>>
<1> DEFINE s == active.section
           m == SyncedModule(module, active)
           a == SyncedActive(module, active)
           base == module.section[s].fileOffset
           x == RegionOf(module, s)
<1>1. /\ ModuleOK(module) /\ s \in 1 .. Len(module.section)
      /\ RegionsOf(module)[s] = x
      /\ x.kind = module.section[s].kind /\ x.fileOffset = base
      /\ x.closed = active.closed /\ active.closed \in BOOLEAN
  BY ReadyFacts DEF RegionOf, Ready, ActiveType
<1>2. base \in Nat
  <2>1. module.section[s] \in SectionType
    BY <1>1, SectionFacts DEF ModuleOK, WellFormed
  <2>2. QED
    BY <2>1 DEF SectionType
<1>3. /\ SameRegions(module, m) /\ a.offset = x.len /\ x.len \in Nat
      /\ x.real \in Nat
      /\ ~active.closed => a.fileOffset = x.real
  BY SyncedRegions
<1>4. SameRegions(module, module)
  BY <1>1, ReadyFacts DEF SameRegions, Same, Alike, SameShape, ModuleType
<1> HIDE DEF m, a, base
<1>5. ASSUME NEW o \in Origins, NEW fo \in FileOffsets, RegionBegin(o, fo)
      PROVE  /\ EagerStep /\ SameFlags(module, module')
             /\ active'.closed = FALSE /\ UNCHANGED <<stack, callers>>
  <2>1. o \in Nat /\ fo \in Nat
    BY ParameterAssumption
  <2>2. /\ EnterNew(module, NewSection("main", o, fo)) /\ stack' = stack
        /\ phase = "lower"
    BY <1>5, CalledFacts DEF RegionBegin
  <2>3. /\ Eager!Running /\ Eager!Enter(Eager!Region("main", o, fo))
        /\ SameFlags(module, module')
        /\ active'.closed = FALSE /\ UNCHANGED <<callers, phase>>
    BY <1>4, <2>1, <2>2, EnterStep
  <2>4. Eager!RegionBegin(o, fo)
    BY <2>2, <2>3 DEF Eager!RegionBegin, SectionsOf
  <2>5. QED
    BY <2>2, <2>3, <2>4 DEF EagerStep, Eager!Next
<1>6. ASSUME NEW o \in Origins, OutputOrg(o) \/ OutputSection(o)
      PROVE  /\ EagerStep /\ SameFlags(module, module')
             /\ active'.closed = FALSE /\ UNCHANGED <<stack, callers>>
  <2>1. o \in Nat
    BY ParameterAssumption
  <2>2. /\ stack' = stack /\ ~active.closed /\ phase = "lower"
        /\ module.section[s].kind = "main"
        /\ \/ OutputOrg(o) /\ EnterNew(m, NewSection("main", o, base + x.len))
           \/ OutputSection(o) /\ EnterNew(m, NewSection("main", o, base + x.real))
    BY <1>3, <1>6, CalledFacts DEF OutputOrg, OutputSection, m, a, base
  <2>3. Eager!Open /\ RegionsOf(module)[s].kind = "main"
        /\ RegionsOf(module)[s].fileOffset = base
        /\ RegionsOf(module)[s].len = x.len /\ RegionsOf(module)[s].real = x.real
    BY <1>1, <2>2 DEF Eager!Open
  <2> HIDE DEF x, s
  <2>4. ASSUME NEW n \in Nat, EnterNew(m, NewSection("main", o, base + n))
        PROVE  /\ Eager!ContinueFile(o, n) /\ SameFlags(module, module')
               /\ active'.closed = FALSE /\ UNCHANGED callers
    <3>1. base + n \in Nat
      BY <1>2, <2>4
    <3>2. /\ Eager!Running /\ Eager!Enter(Eager!Region("main", o, base + n))
          /\ SameFlags(module, module')
          /\ active'.closed = FALSE /\ UNCHANGED <<callers, phase>>
      BY <1>3, <2>1, <2>2, <2>4, <3>1, EnterStep
    <3>3. QED
      BY <2>2, <2>3, <3>2 DEF Eager!ContinueFile, SectionsOf, s
  <2>5. CASE EnterNew(m, NewSection("main", o, base + x.len))
    <3>1. Eager!OutputOrg(o)
      BY <1>3, <2>3, <2>4, <2>5 DEF Eager!OutputOrg, s
    <3>2. QED
      BY <1>3, <2>1, <2>2, <2>4, <2>5, <3>1 DEF EagerStep, Eager!Next
  <2>6. CASE EnterNew(m, NewSection("main", o, base + x.real))
    <3>1. Eager!OutputSection(o)
      BY <1>3, <2>3, <2>4, <2>6 DEF Eager!OutputSection, s
    <3>2. QED
      BY <1>3, <2>1, <2>2, <2>4, <2>6, <3>1 DEF EagerStep, Eager!Next
  <2>7. QED
    BY <2>2, <2>5, <2>6
<1>7. QED
  BY <1>5, <1>6

-----------------------------------------------------------------------------
(* Stacks of cursors, and the sections they stand on.                      *)

LEMMA SectionsLen ==
  ASSUME NEW q \in Seq(ActiveType)
  PROVE  /\ Len(SectionsOf(q)) = Len(q) /\ Len(q) \in Nat
         /\ SectionsOf(q) \in Seq(Nat)
         /\ (SectionsOf(q) = <<>>) = (q = <<>>)
         /\ \A i \in 1 .. Len(q) : SectionsOf(q)[i] = q[i].section
<1>1. Len(q) \in Nat /\ \A i \in 1 .. Len(q) : q[i].section \in Nat
  <2>1. Len(q) \in Nat /\ \A i \in 1 .. Len(q) : q[i] \in ActiveType
    OBVIOUS
  <2>2. QED
    BY <2>1 DEF ActiveType
<1>2. SectionsOf(q) \in [1 .. Len(q) -> Nat]
  BY <1>1 DEF SectionsOf
<1>3. SectionsOf(q) \in Seq(Nat) /\ Len(SectionsOf(q)) = Len(q)
  BY <1>1, <1>2, FunctionIsSequence
<1>4. (SectionsOf(q) = <<>>) = (q = <<>>)
  <2>1. (SectionsOf(q) = <<>>) = (Len(SectionsOf(q)) = 0)
    BY <1>3
  <2>2. (q = <<>>) = (Len(q) = 0)
    OBVIOUS
  <2>3. QED
    BY <1>3, <2>1, <2>2
<1>5. QED
  BY <1>1, <1>3, <1>4 DEF SectionsOf

\* Pushing and popping a cursor pushes and pops its section.
LEMMA SectionsPush ==
  ASSUME NEW q \in Seq(ActiveType), NEW a \in ActiveType
  PROVE  SectionsOf(Append(q, a)) = Append(SectionsOf(q), a.section)
<1> DEFINE p == Append(q, a)
           x == SectionsOf(p)
           y == Append(SectionsOf(q), a.section)
           n == Len(q)
<1>1. /\ p \in Seq(ActiveType) /\ Len(p) = n + 1 /\ n \in Nat
      /\ \A i \in 1 .. n : p[i] = q[i]
      /\ p[n + 1] = a
  BY AppendFacts
<1>2. SectionsOf(q) \in Seq(Nat) /\ Len(SectionsOf(q)) = n
        /\ \A i \in 1 .. n : SectionsOf(q)[i] = q[i].section
  BY SectionsLen
<1>3. a.section \in Nat
  BY DEF ActiveType
<1>4. /\ y \in Seq(Nat) /\ Len(y) = n + 1
      /\ \A i \in 1 .. n : y[i] = q[i].section
      /\ y[n + 1] = a.section
  BY <1>2, <1>3, AppendFacts
<1> HIDE DEF p, n
<1>5. /\ x \in Seq(Nat) /\ Len(x) = n + 1
      /\ \A i \in 1 .. n + 1 : x[i] = p[i].section
  BY <1>1, SectionsLen
<1> HIDE DEF x, y
<1>6. \A i \in 1 .. n + 1 : x[i] = y[i]
  BY <1>1, <1>4, <1>5
<1>7. x = y
  BY <1>4, <1>5, <1>6, SeqEqual
<1>8. QED
  BY <1>7 DEF x, y, p

LEMMA SectionsPop ==
  ASSUME NEW q \in Seq(ActiveType), q # <<>>
  PROVE  /\ SectionsOf(SubSeq(q, 1, Len(q) - 1))
              = SubSeq(SectionsOf(q), 1, Len(SectionsOf(q)) - 1)
         /\ q[Len(q)].section = SectionsOf(q)[Len(SectionsOf(q))]
         /\ SectionsOf(q) # <<>>
<1> DEFINE p == SubSeq(q, 1, Len(q) - 1)
           s == SectionsOf(q)
           x == SectionsOf(p)
           y == SubSeq(s, 1, Len(s) - 1)
           n == Len(q)
<1>1. /\ n \in 1 .. n /\ p \in Seq(ActiveType) /\ Len(p) = n - 1
      /\ \A i \in 1 .. n - 1 : p[i] = q[i]
  BY LastFacts
<1>2. /\ s \in Seq(Nat) /\ Len(s) = n /\ s # <<>> /\ n \in Nat
      /\ \A i \in 1 .. n : s[i] = q[i].section
  BY SectionsLen
<1> HIDE DEF s, p
<1>3. /\ y \in Seq(Nat) /\ Len(y) = n - 1
      /\ \A i \in 1 .. n - 1 : y[i] = s[i]
  BY <1>2, LastFacts
<1>4. /\ x \in Seq(Nat) /\ Len(x) = n - 1
      /\ \A i \in 1 .. n - 1 : x[i] = p[i].section
  BY <1>1, SectionsLen
<1> HIDE DEF x, y, n
<1>5. \A i \in 1 .. n - 1 : x[i] = y[i]
  <2>1. \A i \in 1 .. n - 1 : i \in 1 .. n
    BY <1>2
  <2>2. QED
    BY <1>1, <1>2, <1>3, <1>4, <2>1, Zenon
<1>6. x = y
  BY <1>3, <1>4, <1>5, SeqEqual
<1>7. QED
  BY <1>1, <1>2, <1>6 DEF x, y, p, s, n

-----------------------------------------------------------------------------
\* virtual.begin at an address, given or current.
LEMMA VirtualBeginStep ==
  ASSUME Ready, NEW o \in Nat, VirtualBegin(o)
  PROVE  /\ Eager!VirtualBegin(o) /\ SameFlags(module, module')
         /\ active'.closed = FALSE /\ UNCHANGED callers
         /\ \E a \in ActiveType : /\ a.closed = active.closed
                                  /\ stack' = Append(stack, a)
<1> DEFINE m == SyncedModule(module, active)
           a == SyncedActive(module, active)
<1>1. /\ SameRegions(module, m) /\ a \in ActiveType
      /\ a.section = active.section /\ a.closed = active.closed
  BY SyncedRegions
<1>2. /\ EnterNew(m, NewSection("virtual", o, 0))
      /\ stack' = Append(stack, a) /\ phase = "lower"
  BY CalledFacts DEF VirtualBegin
<1> HIDE DEF m, a
<1>3. /\ Eager!Running /\ Eager!Enter(Eager!Region("virtual", o, 0))
      /\ SameFlags(module, module')
      /\ active'.closed = FALSE /\ UNCHANGED <<callers, phase>>
  BY <1>1, <1>2, EnterStep
<1>4. stack \in Seq(ActiveType)
  BY DEF Ready, IInv
<1>5. SectionsOf(stack') = Append(SectionsOf(stack), active.section)
  BY <1>1, <1>2, <1>4, SectionsPush
<1>6. Eager!VirtualBegin(o)
  BY <1>3, <1>5 DEF Eager!VirtualBegin, SectionsOf
<1>7. QED
  BY <1>1, <1>2, <1>3, <1>6

LEMMA VirtualStep ==
  ASSUME Ready,
         (\E o \in Origins : VirtualBegin(o)) \/ VirtualBeginHere
  PROVE  /\ EagerStep /\ SameFlags(module, module')
         /\ active'.closed = FALSE /\ UNCHANGED callers
         /\ \E a \in ActiveType : /\ a.closed = active.closed
                                  /\ stack' = Append(stack, a)
<1>1. ASSUME NEW o \in Origins, VirtualBegin(o)
      PROVE  o \in Nat /\ Eager!Next
  <2>1. o \in Nat
    BY ParameterAssumption
  <2>2. Eager!VirtualBegin(o)
    BY <1>1, <2>1, VirtualBeginStep
  <2>3. QED
    BY <2>1, <2>2 DEF Eager!Next
<1>2. ASSUME VirtualBeginHere
      PROVE  VirtualBegin(Eager!Here) /\ Eager!Here \in Nat
  <2> DEFINE m == SyncedModule(module, active)
             a == SyncedActive(module, active)
             s == active.section
             x == RegionOf(module, s)
  <2>1. /\ SameRegions(module, m) /\ a.section = s /\ a.offset = x.len
        /\ x.len \in Nat
    BY SyncedRegions
  <2>2. s \in 1 .. Len(module.section) /\ RegionsOf(module)[s] = x
        /\ ModuleType(module)
    BY ReadyFacts
  <2>3. VirtualBegin(m.section[a.section].origin + a.offset)
    BY <1>2 DEF VirtualBeginHere, Address
  <2> HIDE DEF m, a
  <2>4. m.section[s].origin = x.origin /\ x.origin \in Nat
    <3>1. module.section[s].origin = x.origin
      BY DEF RegionOf
    <3>2. module.section[s] \in SectionType
      BY <2>2, SectionFacts
    <3>3. QED
      BY <2>1, <2>2, <3>1, <3>2 DEF SameRegions, Same, SectionType
  <2>5. Eager!Here = x.origin + x.len
    BY <2>2 DEF Eager!Here
  <2> HIDE DEF x, s
  <2>6. m.section[a.section].origin + a.offset = Eager!Here
    BY <2>1, <2>4, <2>5
  <2>7. QED
    BY <2>1, <2>3, <2>4, <2>5, <2>6
<1>3. ASSUME VirtualBeginHere
      PROVE  Eager!Next
  <2>1. Eager!VirtualBegin(Eager!Here)
    BY <1>2, <1>3, VirtualBeginStep
  <2>2. QED
    BY <2>1 DEF Eager!Next
<1>4. PICK o \in Nat : VirtualBegin(o)
  <2>1. CASE VirtualBeginHere
    BY <1>2, <2>1
  <2>2. CASE \E o \in Origins : VirtualBegin(o)
    BY <1>1, <2>2
  <2>3. QED
    BY <2>1, <2>2
<1>5. QED
  BY <1>1, <1>3, <1>4, VirtualBeginStep DEF EagerStep

\* virtual.end returns to the region the saved cursor stands on.
LEMMA VirtualEndStep ==
  ASSUME Ready, VirtualEnd
  PROVE  EagerStep /\ SameFlags(module, module')
<1>1. /\ stack # <<>> /\ stack \in Seq(ActiveType)
      /\ active' = stack[Len(stack)]
      /\ stack' = SubSeq(stack, 1, Len(stack) - 1)
      /\ UNCHANGED <<module, callers, phase>>
      /\ phase = "lower"
  BY CalledFacts DEF VirtualEnd, Ready, IInv
<1>2. /\ SectionsOf(stack') =
           SubSeq(SectionsOf(stack), 1, Len(SectionsOf(stack)) - 1)
      /\ active'.section = SectionsOf(stack)[Len(SectionsOf(stack))]
      /\ SectionsOf(stack) # <<>>
  BY <1>1, SectionsPop
<1>3. Eager!VirtualEnd
  BY <1>1, <1>2 DEF Eager!VirtualEnd, Eager!Running, StatusOf, SectionsOf
<1>4. SameFlags(module, module')
  BY <1>1, ReadyFacts DEF SameFlags
<1>5. QED
  BY <1>3, <1>4 DEF EagerStep, Eager!Next

\* An included source starts in the first region, its includer is remembered.
LEMMA IncludeStep ==
  ASSUME Ready, Include
  PROVE  /\ EagerStep /\ SameFlags(module, module')
         /\ active'.closed = FALSE
         /\ callers' = Append(callers, active) /\ UNCHANGED stack
<1>1. /\ ModuleOK(module) /\ Len(module.section) \in Nat
      /\ callers \in Seq(ActiveType) /\ active \in ActiveType
      /\ active.section \in 1 .. Len(module.section) /\ WellFormed(module)
  BY ReadyFacts DEF Ready, IInv
<1>2. DefaultSection \in 1 .. Len(module.section) /\ DefaultSection = 1
  BY <1>1 DEF DefaultSection
<1>3. /\ module' = FoldMemo(module, DefaultSection)
      /\ active' = ActiveOn(module, DefaultSection, FALSE)
      /\ callers' = Append(callers, active)
      /\ UNCHANGED <<stack, phase>> /\ stack = <<>> /\ phase = "lower"
  BY CalledFacts DEF Include
<1>4. SameRegions(module, module')
  BY <1>1, <1>2, <1>3, FoldKeepsRegions
<1>5. RegionsOf(module') = RegionsOf(module)
  BY <1>1, <1>4, RegionsKept
<1>6. SameFlags(module, module')
  BY <1>1, <1>4 DEF SameRegions, Same, SameFlags
<1>7. active'.section = 1 /\ active'.closed = FALSE
  BY <1>1, <1>2, <1>3, ActiveOnType
<1>8. SectionsOf(callers') = Append(SectionsOf(callers), active.section)
  BY <1>1, <1>3, SectionsPush
<1>9. SectionsOf(stack) = <<>>
  <2>1. stack \in Seq(ActiveType)
    BY DEF Ready, IInv
  <2>2. QED
    BY <1>3, <2>1, SectionsLen
<1>10. Eager!Include
  BY <1>3, <1>5, <1>7, <1>8, <1>9
     DEF Eager!Include, Eager!Running, StatusOf, SectionsOf
<1>11. QED
  BY <1>3, <1>6, <1>7, <1>10 DEF EagerStep, Eager!Next

\* The includer continues in the region it was writing.
LEMMA EndIncludedStep ==
  ASSUME Ready, EndIncluded
  PROVE  EagerStep /\ SameFlags(module, module')
<1> DEFINE n == Len(callers)
           a == callers[n]
           o == SectionCursor(module, a.section).offset
<1>1. /\ ModuleOK(module) /\ Len(module.section) \in Nat
      /\ callers \in Seq(ActiveType) /\ callers # <<>>
      /\ \A i \in 1 .. n : ActiveOK(module, callers[i])
  BY ReadyFacts DEF Ready, IInv, EndIncluded
<1>2. n \in 1 .. n
  BY <1>1, LastFacts
<1>3. /\ module' = FoldMemo(module, a.section)
      /\ active' = [a EXCEPT !.offset = o]
      /\ callers' = SubSeq(callers, 1, n - 1)
      /\ UNCHANGED <<stack, phase>> /\ stack = <<>> /\ phase = "lower"
  BY DEF EndIncluded
<1>4. a \in ActiveType /\ a.section \in 1 .. Len(module.section)
  BY <1>1, <1>2 DEF ActiveOK
<1>5. /\ SectionsOf(callers') =
           SubSeq(SectionsOf(callers), 1, Len(SectionsOf(callers)) - 1)
      /\ a.section = SectionsOf(callers)[Len(SectionsOf(callers))]
      /\ SectionsOf(callers) # <<>>
  BY <1>1, <1>3, SectionsPop
<1> HIDE DEF a, o
<1>6. SameRegions(module, module')
  BY <1>1, <1>3, <1>4, FoldKeepsRegions
<1>7. RegionsOf(module') = RegionsOf(module)
  BY <1>1, <1>6, RegionsKept
<1>8. SameFlags(module, module')
  BY <1>1, <1>6 DEF SameRegions, Same, SameFlags
<1>9. active'.section = a.section
  BY <1>3, <1>4 DEF ActiveType
<1>10. SectionsOf(stack) = <<>>
  <2>1. stack \in Seq(ActiveType)
    BY DEF Ready, IInv
  <2>2. QED
    BY <1>3, <2>1, SectionsLen
<1>11. Eager!EndIncluded
  BY <1>3, <1>5, <1>7, <1>9, <1>10
     DEF Eager!EndIncluded, Eager!Running, StatusOf, SectionsOf
<1>12. QED
  BY <1>8, <1>11 DEF EagerStep, Eager!Next

\* A source that is left early: its includer goes on where it was writing.
LEMMA BreakIncludedStep ==
  ASSUME Ready, BreakIncluded
  PROVE  EagerStep /\ SameFlags(module, module')
<1> DEFINE a == callers[Len(callers)]
<1>1. /\ Len(module.section) \in Nat
      /\ callers \in Seq(ActiveType) /\ callers # <<>>
  BY ReadyFacts DEF Ready, IInv, BreakIncluded
<1>2. /\ active' = a
      /\ callers' = SubSeq(callers, 1, Len(callers) - 1)
      /\ stack' = <<>> /\ UNCHANGED <<module, phase>> /\ phase = "lower"
  BY CalledFacts DEF BreakIncluded
<1>3. /\ SectionsOf(callers') =
           SubSeq(SectionsOf(callers), 1, Len(SectionsOf(callers)) - 1)
      /\ a.section = SectionsOf(callers)[Len(SectionsOf(callers))]
      /\ SectionsOf(callers) # <<>>
  BY <1>1, <1>2, SectionsPop
<1> HIDE DEF a
<1>4. RegionsOf(module') = RegionsOf(module)
  BY <1>2
<1>5. SectionsOf(stack') = <<>>
  <2>1. stack' \in Seq(ActiveType)
    BY <1>2
  <2>2. QED
    BY <1>2, <2>1, SectionsLen
<1>6. Eager!BreakIncluded
  BY <1>2, <1>3, <1>4, <1>5
     DEF Eager!BreakIncluded, Eager!Running, StatusOf, SectionsOf
<1>7. SameFlags(module, module')
  BY <1>1, <1>2 DEF SameFlags
<1>8. QED
  BY <1>6, <1>7 DEF EagerStep, Eager!Next

(* The end of a source, an error, and the two ways to stand still.         *)
LEMMA StopStep ==
  ASSUME Ready, EndSource \/ Refuse \/ UNCHANGED vars
  PROVE  /\ EagerStep /\ SameFlags(module, module')
         /\ UNCHANGED <<active, stack, callers>>
<1>1. /\ UNCHANGED <<module, active, stack, callers>>
      /\ Len(module.section) \in Nat
      /\ stack \in Seq(ActiveType) /\ callers \in Seq(ActiveType)
  BY ReadyFacts DEF EndSource, Refuse, vars, Ready, IInv
<1>2. SameFlags(module, module')
  BY <1>1 DEF SameFlags
<1>3. UNCHANGED <<RegionsOf(module), active.section, SectionsOf(stack),
                  SectionsOf(callers)>>
  BY <1>1 DEF RegionsOf, RegionOf, FinalFragments, SectionsOf
<1>4. CASE EndSource
  <2>1. /\ stack = <<>> /\ callers = <<>>
        /\ phase = "lower" /\ phase' = "lowered"
    BY <1>4 DEF EndSource
  <2>2. SectionsOf(stack) = <<>> /\ SectionsOf(callers) = <<>>
    BY <1>1, <2>1, SectionsLen
  <2>3. Eager!Stop
    BY <1>3, <2>1, <2>2 DEF Eager!Stop, StatusOf
  <2>4. QED
    BY <1>1, <1>2, <2>3 DEF EagerStep, Eager!Next
<1>5. CASE Refuse
  <2>1. phase' = "failed"
    BY <1>5 DEF Refuse
  <2>2. CASE phase = "lower"
    <3>1. Eager!Stop
      BY <1>3, <2>1, <2>2 DEF Eager!Stop, StatusOf
    <3>2. QED
      BY <1>1, <1>2, <3>1 DEF EagerStep, Eager!Next
  <2>3. CASE phase # "lower"
    <3>1. ASSUME NEW op PROVE ~Called(op)
      BY <2>3, CalledFacts
    <3>2. FALSE
      BY <1>5, <2>3, <3>1
         DEF Refuse, RefusedInClosedRegion, RefusedArgument, RefusedLabel,
             RefusedInVirtualOutput, RefusedNesting, Ready, Running
    <3>3. QED
      BY <3>2
  <2>4. QED
    BY <2>2, <2>3
<1>6. CASE UNCHANGED vars
  <2>1. UNCHANGED Eager!vars
    BY <1>3, <1>6 DEF Eager!vars, StatusOf, vars
  <2>2. QED
    BY <1>1, <1>2, <2>1 DEF EagerStep
<1>7. QED
  BY <1>4, <1>5, <1>6

-----------------------------------------------------------------------------
(* The refinement.                                                         *)

\* A cursor keeps a copy of its section's flag.  The copies agree if either
\* nothing is ever closed, or no two cursors stand on the same section.
OneFlagPerRegion ==
  \/ "region.file_align" \notin Ops
  \/ "include" \notin Ops /\ "region.place" \notin Ops

\* No cursor and no section is closed.
AllOpen ==
  /\ active.closed = FALSE
  /\ \A i \in 1 .. Len(stack) : stack[i].closed = FALSE
  /\ \A i \in 1 .. Len(callers) : callers[i].closed = FALSE
  /\ \A s \in 1 .. Len(module.section) : module.section[s].closed = FALSE

\* How the flags of the cursors move, apart from region.file_align.
OpenCursors ==
  /\ active'.closed = FALSE
  /\ \A i \in 1 .. Len(stack') : stack'[i].closed = FALSE
  /\ \A i \in 1 .. Len(callers') : callers'[i].closed = FALSE

\* A stack of open cursors stays one.
LEMMA PushOpen ==
  ASSUME NEW q \in Seq(ActiveType), NEW a \in ActiveType, a.closed = FALSE,
         \A i \in 1 .. Len(q) : q[i].closed = FALSE
  PROVE  \A i \in 1 .. Len(Append(q, a)) : Append(q, a)[i].closed = FALSE
<1> DEFINE p == Append(q, a)
<1>1. /\ Len(p) = Len(q) + 1 /\ Len(q) \in Nat
      /\ \A i \in 1 .. Len(q) : p[i] = q[i]
      /\ p[Len(q) + 1] = a
  BY AppendFacts
<1> HIDE DEF p
<1>2. ASSUME NEW i \in 1 .. Len(p) PROVE p[i].closed = FALSE
  <2>1. i \in 1 .. Len(q) \/ i = Len(q) + 1
    BY <1>1
  <2>2. QED
    BY <1>1, <2>1
<1>3. QED
  BY <1>2 DEF p

LEMMA PopOpen ==
  ASSUME NEW q \in Seq(ActiveType), q # <<>>,
         \A i \in 1 .. Len(q) : q[i].closed = FALSE
  PROVE  /\ q[Len(q)].closed = FALSE
         /\ \A i \in 1 .. Len(SubSeq(q, 1, Len(q) - 1)) :
              SubSeq(q, 1, Len(q) - 1)[i].closed = FALSE
<1> DEFINE p == SubSeq(q, 1, Len(q) - 1)
           n == Len(q)
<1>1. /\ n \in 1 .. n /\ Len(p) = n - 1 /\ n \in Nat
      /\ \A i \in 1 .. n - 1 : p[i] = q[i]
  BY LastFacts
<1> HIDE DEF p, n
<1>2. \A i \in 1 .. n - 1 : i \in 1 .. n
  BY <1>1
<1>3. \A i \in 1 .. Len(p) : p[i].closed = FALSE
  BY <1>1, <1>2 DEF n
<1>4. QED
  BY <1>1, <1>3 DEF p, n

(* Every step has a counterpart, and the flags move as they should.        *)
LEMMA StepRefines ==
  ASSUME Ready, [Next]_vars
  PROVE  /\ EagerStep
         /\ \/ SameFlags(module, module')
            \/ /\ \E n \in Alignments : FileAlign(n)
               /\ Closing(module, module', active.section)
<1>1. CASE Emission
  BY <1>1, EmissionStep
<1>2. CASE Query
  BY <1>2, QueryStep
<1>3. CASE Regions
  BY <1>3, DefineLabelStep, SetOriginStep, FileAlignStep, EnteringStep,
     VirtualStep, VirtualEndStep, RegionPlaceStep DEF Regions
<1>4. CASE Include
  BY <1>4, IncludeStep
<1>5. CASE EndIncluded
  BY <1>5, EndIncludedStep
<1>6. CASE BreakIncluded
  BY <1>6, BreakIncludedStep
<1>7. CASE EndSource \/ Refuse \/ UNCHANGED vars
  BY <1>7, StopStep
<1>8. QED
  BY <1>1, <1>2, <1>3, <1>4, <1>5, <1>6, <1>7 DEF Next, Call, Sources, Finished

\* A raw size alignment comes with the closed flag, and both stay.
LEMMA AlignedKept ==
  ASSUME Ready, [Next]_vars
  PROVE  AlignedOK(module')
<1>1. Len(module.section) \in Nat
  BY ReadyFacts
<1>2. CASE SameFlags(module, module')
  <2>1. ASSUME NEW s \in 1 .. Len(module'.section)
        PROVE  module'.section[s].closed \/ module'.section[s].sizeAlign = 1
    <3>1. CASE s \in 1 .. Len(module.section)
      BY <1>2, <3>1 DEF SameFlags, Ready, AlignedOK
    <3>2. CASE s \notin 1 .. Len(module.section)
      <4>1. s = Len(module.section) + 1 /\ Len(module'.section) = s
        BY <1>1, <1>2, <3>2 DEF SameFlags
      <4>2. QED
        BY <1>2, <4>1 DEF SameFlags
    <3>3. QED
      BY <3>1, <3>2
  <2>2. QED
    BY <2>1 DEF AlignedOK
<1>3. CASE Closing(module, module', active.section)
  BY <1>3 DEF Closing, Ready, AlignedOK
<1>4. QED
  BY <1>2, <1>3, StepRefines

\* Without region.file_align nothing is ever closed.
LEMMA OpenKept ==
  ASSUME Ready, AllOpen, "region.file_align" \notin Ops, [Next]_vars
  PROVE  AllOpen'
<1>1. /\ IInv /\ active \in ActiveType
      /\ stack \in Seq(ActiveType) /\ callers \in Seq(ActiveType)
      /\ Len(module.section) \in Nat
  BY ReadyFacts DEF Ready, IInv
<1>2. ASSUME NEW n, FileAlign(n) PROVE FALSE
  BY <1>2, CalledFacts DEF FileAlign
<1>3. \A s \in 1 .. Len(module'.section) : module'.section[s].closed = FALSE
  <2>1. SameFlags(module, module')
    BY <1>2, StepRefines
  <2>2. ASSUME NEW s \in 1 .. Len(module'.section)
        PROVE  module'.section[s].closed = FALSE
    <3>1. CASE s \in 1 .. Len(module.section)
      BY <2>1, <3>1 DEF SameFlags, AllOpen
    <3>2. CASE s \notin 1 .. Len(module.section)
      <4>1. s = Len(module.section) + 1 /\ Len(module'.section) = s
        BY <1>1, <2>1, <3>2 DEF SameFlags
      <4>2. QED
        BY <2>1, <4>1 DEF SameFlags
    <3>3. QED
      BY <3>1, <3>2
  <2>3. QED
    BY <2>2
<1> SUFFICES OpenCursors
  BY <1>3 DEF AllOpen, OpenCursors
<1>4. CASE Looks \/ Appends
  BY <1>4 DEF Looks, Appends, SamePlace, AllOpen, OpenCursors
<1>5. CASE Regions
  <2>1. ASSUME NEW l \in Labels, DefineLabel(l) PROVE OpenCursors
    BY <1>1, <1>4, <2>1, DefineLabelForm
  <2>2. ASSUME NEW o \in Origins, SetOrigin(o) PROVE OpenCursors
    BY <1>1, <1>4, <2>2, SetOriginForm, ParameterAssumption
  <2>3. CASE \/ \E o \in Origins, fo \in FileOffsets : RegionBegin(o, fo)
             \/ \E o \in Origins : OutputOrg(o) \/ OutputSection(o)
    BY <2>3, EnteringStep DEF AllOpen, OpenCursors
  <2>4. CASE (\E o \in Origins : VirtualBegin(o)) \/ VirtualBeginHere
    <3>1. PICK a \in ActiveType : /\ a.closed = active.closed
                                  /\ stack' = Append(stack, a)
      BY <2>4, VirtualStep
    <3>2. active'.closed = FALSE /\ UNCHANGED callers
      BY <2>4, VirtualStep
    <3>3. \A i \in 1 .. Len(stack') : stack'[i].closed = FALSE
      BY <1>1, <3>1, PushOpen DEF AllOpen
    <3>4. QED
      BY <3>2, <3>3 DEF AllOpen, OpenCursors
  <2>5. CASE VirtualEnd
    <3>1. active'.closed = FALSE
            /\ \A i \in 1 .. Len(stack') : stack'[i].closed = FALSE
      BY <1>1, <2>5, PopOpen DEF VirtualEnd, AllOpen
    <3>2. QED
      BY <2>5, <3>1 DEF VirtualEnd, AllOpen, OpenCursors
  <2>6. ASSUME NEW l \in Labels, NEW o \in Origins, NEW fo \in FileOffsets,
               RegionPlace(l, o, fo)
        PROVE  OpenCursors
    <3>1. active'.closed = FALSE
      BY <2>6, RegionPlaceStep DEF AllOpen
    <3>2. QED
      BY <2>6, <3>1 DEF RegionPlace, AllOpen, OpenCursors
  <2>7. QED
    BY <1>2, <1>5, <2>1, <2>2, <2>3, <2>4, <2>5, <2>6 DEF Regions
<1>6. CASE Include
  <2>1. /\ active'.closed = FALSE
        /\ callers' = Append(callers, active) /\ UNCHANGED stack
    BY <1>6, IncludeStep
  <2>2. \A i \in 1 .. Len(callers') : callers'[i].closed = FALSE
    BY <1>1, <2>1, PushOpen DEF AllOpen
  <2>3. QED
    BY <2>1, <2>2 DEF AllOpen, OpenCursors
<1>7. CASE EndIncluded
  <2> DEFINE a == callers[Len(callers)]
             o == SectionCursor(module, a.section).offset
  <2>1. /\ callers # <<>> /\ active' = [a EXCEPT !.offset = o]
        /\ callers' = SubSeq(callers, 1, Len(callers) - 1)
        /\ UNCHANGED stack
    BY <1>7 DEF EndIncluded
  <2>2. /\ a.closed = FALSE /\ a \in ActiveType
        /\ \A i \in 1 .. Len(callers') : callers'[i].closed = FALSE
    <3>1. Len(callers) \in 1 .. Len(callers)
      BY <1>1, <2>1, LastFacts
    <3>2. QED
      BY <1>1, <2>1, <3>1, PopOpen DEF AllOpen
  <2> HIDE DEF a, o
  <2>3. active'.closed = FALSE
    BY <2>1, <2>2 DEF ActiveType
  <2>4. QED
    BY <2>1, <2>2, <2>3 DEF AllOpen, OpenCursors
<1>8. CASE BreakIncluded
  <2>1. /\ callers # <<>> /\ active' = callers[Len(callers)]
        /\ callers' = SubSeq(callers, 1, Len(callers) - 1)
        /\ stack' = <<>>
    BY <1>8 DEF BreakIncluded
  <2>2. /\ callers[Len(callers)].closed = FALSE
        /\ \A i \in 1 .. Len(callers') : callers'[i].closed = FALSE
    BY <1>1, <2>1, PopOpen DEF AllOpen
  <2>3. QED
    BY <2>1, <2>2 DEF OpenCursors
<1>9. CASE EndSource \/ Refuse \/ UNCHANGED vars
  BY <1>9, StopStep DEF AllOpen, OpenCursors
<1>10. QED
  BY <1>1, <1>4, <1>5, <1>6, <1>7, <1>8, <1>9, EmissionForm, QueryForm
     DEF Next, Call, Sources, Finished

RefinementInv ==
  /\ IInv
  /\ phase \in Running
  /\ AlignedOK(module)
  /\ IF "region.file_align" \in Ops THEN ClosedInv ELSE AllOpen

\* The invariant holds, is kept by every step, and every step has its
\* counterpart.
LEMMA RefinementReady ==
  ASSUME OneFlagPerRegion, RefinementInv
  PROVE  Ready
<1>1. CASE "region.file_align" \in Ops
  BY <1>1 DEF RefinementInv, ClosedInv, Ready
<1>2. CASE "region.file_align" \notin Ops
  <2>1. active.section \in 1 .. Len(module.section)
    BY DEF RefinementInv, IInv, ActiveOK
  <2>2. QED
    BY <1>2, <2>1 DEF RefinementInv, AllOpen, Ready
<1>3. QED
  BY <1>1, <1>2

LEMMA RefinementKept ==
  ASSUME OneFlagPerRegion, RefinementInv, [Next]_vars
  PROVE  RefinementInv' /\ [Eager!Next]_(Eager!vars)
<1>1. Ready
  BY RefinementReady
<1>2. EagerStep /\ AlignedOK(module') /\ IInv'
  BY <1>1, StepRefines, AlignedKept, IInvKept DEF Ready
<1>3. phase' \in Running
  BY <1>1, StepForm DEF Ready, Running, Forms, Looks, Proceeds, Appends, Enters,
     Closes, Leaves, Moves
<1>4. CASE "region.file_align" \in Ops
  <2>1. "include" \notin Ops /\ "region.place" \notin Ops
    BY <1>4 DEF OneFlagPerRegion
  <2>2. ClosedInv'
    BY <1>4, <2>1, ClosedKept DEF RefinementInv
  <2>3. QED
    BY <1>2, <1>3, <1>4, <2>2 DEF RefinementInv, EagerStep
<1>5. CASE "region.file_align" \notin Ops
  <2>1. AllOpen'
    BY <1>1, <1>5, OpenKept DEF RefinementInv
  <2>2. QED
    BY <1>2, <1>3, <1>5, <2>1 DEF RefinementInv, EagerStep
<1>6. QED
  BY <1>4, <1>5

\* Both machines start with one empty region at 0.
LEMMA RefinementStart ==
  ASSUME Init
  PROVE  RefinementInv /\ Eager!Init
<1> DEFINE x == NewSection("main", 0, 0)
<1>1. /\ module.section = <<x>> /\ active = ActiveOnNew(DefaultSection)
      /\ stack = <<>> /\ callers = <<>> /\ phase = "lower"
  BY DEF Init, EmptyModule
<1>2. IInv /\ ClosedInv /\ WellFormed(module)
  BY StartOK, ClosedStart DEF IInv, ModuleOK
<1>3. /\ x.closed = FALSE /\ x.sizeAlign = 1 /\ x.frags = <<>>
      /\ x.kind = "main" /\ x.origin = 0 /\ x.fileOffset = 0
  BY DEF NewSection
<1> HIDE DEF x
<1>4. Len(module.section) = 1 /\ module.section[1] = x
  <2>1. Len(<<x>>) = 1 /\ <<x>>[1] = x
    OBVIOUS
  <2>2. QED
    BY <1>1, <2>1, Zenon
<1>5. active.section = 1 /\ active.closed = FALSE
  BY <1>1 DEF ActiveOnNew, DefaultSection
<1>6. \A s \in 1 .. Len(module.section) : module.section[s] = x
  BY <1>4
<1>7. AlignedOK(module)
  BY <1>3, <1>6 DEF AlignedOK
<1>8. AllOpen
  BY <1>1, <1>3, <1>5, <1>6 DEF AllOpen
<1>9. RefinementInv
  BY <1>1, <1>2, <1>7, <1>8 DEF RefinementInv, Running
<1>10. RegionOf(module, 1) = Eager!Region("main", 0, 0)
  <2> DEFINE hs == FinalFragments(module, 1)
  <2>1. Len(module.section[1].frags) = 0
    BY <1>3, <1>4
  <2>2. AllSized(hs) /\ Len(hs) = 0
    BY <1>2, <1>4, <2>1, FinalFragmentsOK
  <2> HIDE DEF hs
  <2>3. LogicalSize(hs) = 0
    BY <2>2, OffsetsDef DEF LogicalSize
  <2>4. Initialized(hs) = {}
    BY <2>2 DEF Initialized
  <2>5. FileSize(hs) = 0
    BY <2>4 DEF FileSize
  <2>6. QED
    BY <1>3, <1>4, <2>3, <2>5 DEF RegionOf, Eager!Region, hs
<1>11. RegionsOf(module) = <<Eager!Region("main", 0, 0)>>
  <2> DEFINE y == Eager!Region("main", 0, 0)
  <2>1. RegionsOf(module) = [s \in 1 .. 1 |-> y]
    <3> HIDE DEF y
    <3>1. QED
      BY <1>4, <1>10 DEF RegionsOf, y
  <2> HIDE DEF y
  <2>2. <<y>> = [s \in 1 .. 1 |-> y]
    OBVIOUS
  <2>3. QED
    BY <2>1, <2>2 DEF y
<1>12. SectionsOf(stack) = <<>> /\ SectionsOf(callers) = <<>>
  <2>1. stack \in Seq(ActiveType) /\ callers \in Seq(ActiveType)
    BY <1>2 DEF IInv
  <2>2. QED
    BY <1>1, <2>1, SectionsLen
<1>13. Eager!Init
  BY <1>1, <1>5, <1>11, <1>12 DEF Eager!Init, StatusOf
<1>14. QED
  BY <1>9, <1>13

\* Every behaviour of the lowering machine is, under the mapping, a behaviour
\* of EagerOutput: an assembler that knows each size at once (api.zig:152-519,
\* document/language.md).  No address, file position or padding is computed
\* from a stale cursor, whatever the order of the calls.  The hypothesis is
\* about the vocabulary of the source, as in the two runs that check this: a
\* source that closes a region and also reaches it by region.place or from an
\* included source meets copies of a cursor with the old flag.
THEOREM Implements ==
  ASSUME OneFlagPerRegion
  PROVE  Spec => ImplementsEagerOutput
<1>1. Init => RefinementInv /\ Eager!Init
  BY RefinementStart
<1>2. RefinementInv /\ [Next]_vars => RefinementInv' /\ [Eager!Next]_(Eager!vars)
  BY RefinementKept
<1>3. QED
  BY <1>1, <1>2, PTL DEF Spec, ImplementsEagerOutput, Eager!Spec

==============================================================================
