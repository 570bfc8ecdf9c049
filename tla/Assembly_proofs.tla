--------------------------- MODULE Assembly_proofs ---------------------------
(***************************************************************************)
(* Theorems about whole assemblies, for every value of the constants.  The *)
(* inductive invariant has three parts:                                    *)
(*                                                                         *)
(*  - IInv of Lowering_proofs: the module is ModuleOK.  The late blocks    *)
(*    run the calls of the lowering machine, so its step lemmas apply;     *)
(*  - AllKnown, from the encode stage on: everything before a label has    *)
(*    its size and the label has its final address.  Known labels stay     *)
(*    known whatever is appended, stored or placed afterwards (Later), and *)
(*    a late block cannot define a label;                                  *)
(*  - StagesOK: what the stages behind the late blocks leave behind.       *)
(***************************************************************************)
EXTENDS Assembly, Lowering_proofs

-----------------------------------------------------------------------------
(* The inductive invariant.                                                *)

AllKnown(m) == \A l \in Labels : m.label[l] # Undefined => Known(m, l)

\* The resolved fixups, the written image and the patched one, as functions
\* of the module: nothing changes it behind the late blocks.
Resolved ==
  {[fixup |-> x, value |-> LabelAddress(x.ref.label)] :
     x \in {y \in Fixups : module.label[y.ref.label] # Undefined}}

Written == [p \in 0 .. OutputSize - 1 |-> WrittenByte(p)]

PatchedByte(p) ==
  IF p \in {FieldPosition(r.fixup) : r \in resolution}
  THEN PatchValue(PatchOf(p).fixup, PatchOf(p).value) % 256
  ELSE WrittenByte(p)

Patched == [p \in 0 .. OutputSize - 1 |-> PatchedByte(p)]

StagesOK ==
  /\ phase \in {"write", "patch", "deliver", "done"} => resolution = Resolved
  /\ phase = "patch" => image = Written
  /\ phase \in {"deliver", "done"} =>
       image = Patched /\ \A r \in resolution : Patchable(r)
  /\ phase = "done" => {r.fixup : r \in resolution} = Fixups

AInv == IInv /\ (PastEncoding => AllKnown(module)) /\ StagesOK

-----------------------------------------------------------------------------
(* The steps.                                                              *)

LEMMA KnownLater ==
  ASSUME NEW m, NEW m2, AllKnown(m), Later(m, m2), NoNewLabels(m, m2)
  PROVE  AllKnown(m2)
BY DEF AllKnown, Later, NoNewLabels

LEMMA LowerKeeps ==
  ASSUME AInv, Lower
  PROVE  AInv'
<1>1. phase \in {"lower", "late"}
  BY DEF Lower, Call, Emission, Query, Regions, Sources, Refuse, Called,
         DataEmit, ReserveSpace, IsaInstruction, Pad, PadTo, Align, ReadHere,
         FreezeBlock, ReadOutput, Store, DefineLabel, SetOrigin, FileAlign,
         RegionBegin, OutputOrg, OutputSection, VirtualBegin,
         VirtualBeginHere, VirtualEnd, RegionPlace, Include, EndIncluded,
         BreakIncluded, EndSource, RefusedInClosedRegion, RefusedArgument, RefusedLabel,
         RefusedInVirtualOutput, RefusedNesting
<1>2. [Next]_vars
  BY DEF Lower, Next
<1>3. IInv' /\ Continues /\ Forms
  BY <1>2, IInvKept, StepForm DEF AInv
<1>4. Proceeds
  BY <1>3
     DEF Forms, Looks, Proceeds, Appends, Enters, Closes, Leaves, Moves
<1>5. PastEncoding' => AllKnown(module')
  <2>1. SUFFICES ASSUME PastEncoding'
                 PROVE  AllKnown(module')
    OBVIOUS
  <2>2. phase = "late"
    BY <1>1, <1>4, <2>1 DEF PastEncoding, Proceeds
  <2>3. QED
    BY <1>3, <2>2, KnownLater DEF AInv, PastEncoding, Continues
<1>6. StagesOK'
  BY <1>1, <1>4 DEF StagesOK, Proceeds
<1>7. QED
  BY <1>3, <1>5, <1>6, SMTT(30) DEF AInv

LEMMA EncodeAllKeeps ==
  ASSUME AInv, EncodeAll
  PROVE  AInv'
<1> DEFINE m == EncodeFrom(module, 0)
<1>1. /\ ModuleOK(module) /\ 0 \in 0 .. module.watermark
      /\ Len(module.section) \in Nat
      /\ DefaultSection \in 1 .. Len(module.section)
  BY DEF AInv, IInv, ActiveOK, ModuleOK, WellFormed, ModuleType,
         DefaultSection
<1>2. /\ Later(module, m) /\ SameSections(module, m)
      /\ AllEncoded(m) /\ Current(m) /\ ModuleOK(m)
  BY <1>1, EncodeFromLater DEF Later
<1>3. /\ module' = FoldMemo(m, DefaultSection)
      /\ active' = ActiveOn(m, DefaultSection,
                            m.section[DefaultSection].closed)
      /\ phase' = "late" /\ UNCHANGED <<stack, callers>>
  BY DEF EncodeAll
<1> HIDE DEF m
<1>4. AllKnown(m)
  <2> SUFFICES ASSUME NEW l \in Labels, m.label[l] # Undefined
               PROVE  Known(m, l)
    BY DEF AllKnown
  <2> DEFINE b == m.label[l]
  <2>1. /\ b.section \in 1 .. Len(m.section) /\ b.position \in Nat
        /\ b.position <= Len(m.section[b.section].frags)
    BY <1>2
       DEF ModuleOK, WellFormed, LabelsOK, AnchorOK, ModuleType, LabelType
  <2> HIDE DEF b
  <2>2. Len(m.section[b.section].frags) \in Nat
    BY <1>2, <2>1, SectionFacts DEF ModuleOK, WellFormed
  <2>3. ASSUME NEW k \in 1 .. b.position
        PROVE  HasSize(m.fragment[m.section[b.section].frags[k]])
    <3>1. m.section[b.section].frags[k] \in 1 .. Len(m.fragment)
      BY <1>2, <2>1, <2>2, SMTT(30) DEF ModuleOK, WellFormed, SectionsOK, SectionOK
    <3>2. QED
      BY <1>2, <3>1 DEF AllEncoded, HasSize
  <2>4. QED
    BY <1>2, <2>3 DEF Current, Known, b
<1>5. /\ DefaultSection \in 1 .. Len(m.section)
      /\ m.section[DefaultSection].closed \in BOOLEAN
  <2>1. DefaultSection \in 1 .. Len(m.section)
    BY <1>1, <1>2 DEF SameSections
  <2>2. m.section[DefaultSection] \in SectionType
    BY <1>2, <2>1 DEF ModuleOK, WellFormed, ModuleType
  <2>3. \A x \in SectionType : x.closed \in BOOLEAN
    BY DEF SectionType
  <2>4. QED
    BY <2>1, <2>2, <2>3, Zenon
<1>6. /\ Later(m, module') /\ NoNewLabels(m, module')
      /\ SameSections(m, module')
  BY <1>2, <1>3, <1>5, FoldMemoLater
<1>7. AllKnown(module')
  BY <1>4, <1>6, KnownLater
<1>8. ModuleOK(module') /\ Len(module'.section) = Len(module.section)
  BY <1>2, <1>6 DEF Later, SameSections
<1>9. ActiveOK(module', active')
  <2>1. active' \in ActiveType /\ active'.section = DefaultSection
    BY <1>2, <1>3, <1>5, ActiveOnType
  <2>2. QED
    BY <1>1, <1>8, <2>1 DEF ActiveOK
<1>10. \A a : ActiveOK(module, a) => ActiveOK(module', a)
  BY <1>8 DEF ActiveOK
<1>11. IInv'
  BY <1>3, <1>8, <1>9, <1>10 DEF AInv, IInv, Phases
<1>12. QED
  BY <1>3, <1>7, <1>11 DEF AInv, StagesOK

(* The stages behind the late blocks change neither the module nor what    *)
(* was resolved before them.                                               *)
LEMMA StageKeeps ==
  ASSUME AInv, module' = module, active' = active, stack' = stack,
         callers' = callers, phase' \in Phases, PastEncoding' => PastEncoding
  PROVE  IInv' /\ (PastEncoding' => AllKnown(module'))
BY DEF AInv, IInv

LEMMA SameWriting ==
  ASSUME module' = module
  PROVE  Written' = Written /\ Resolved' = Resolved /\ Fixups' = Fixups
<1>1. Written' = Written
  BY DEF Written, WrittenByte, WritersOf, OutputSections, OffsetsIn,
         OutputSize, SectionEnd
<1>2. QED
  BY <1>1 DEF Resolved, Fixups, LabelAddress

LEMMA SamePatching ==
  ASSUME module' = module, resolution' = resolution
  PROVE  /\ Patched' = Patched
         /\ (\A r \in resolution : Patchable(r))' <=>
              (\A r \in resolution : Patchable(r))
<1>1. Patched' = Patched
  BY DEF Patched, PatchedByte, PatchValue, PatchOf, FieldPosition,
         FieldOffset, SectionOfFixup, WrittenByte, WritersOf, OutputSections,
         OffsetsIn, OutputSize, SectionEnd
<1>2. QED
  BY <1>1
     DEF Patchable, InRange, PatchValue, FieldOffset, SectionOfFixup,
         OffsetsIn
(* Late layout ends, fixups are resolved, the image is written, patched and *)
(* delivered: each stage leaves behind what StagesOK says of it.           *)
LEMMA StagesKeep ==
  ASSUME AInv,
         EndLateLayout \/ ResolveFixups \/ WriteOutput \/ PatchFixups \/ Deliver
  PROVE  AInv'
<1>1. /\ module' = module /\ active' = active /\ stack' = stack
      /\ callers' = callers /\ PastEncoding
      /\ phase' \in {"resolve", "write", "patch", "deliver", "done", "failed"}
  BY DEF EndLateLayout, ResolveFixups, WriteOutput, PatchFixups, Deliver,
         PastEncoding
<1>2. IInv' /\ (PastEncoding' => AllKnown(module'))
  <2>1. phase' \in Phases
    BY <1>1 DEF Phases
  <2>2. QED
    BY <1>1, <2>1, StageKeeps
<1>3. Written' = Written /\ Resolved' = Resolved /\ Fixups' = Fixups
  BY <1>1, SameWriting
<1>4. StagesOK'
  <2>1. CASE EndLateLayout
    BY <2>1 DEF EndLateLayout, StagesOK
  <2>2. CASE ResolveFixups
    BY <1>3, <2>2 DEF ResolveFixups, StagesOK, Resolved
  <2>3. CASE WriteOutput
    <3>1. /\ image' = Written /\ phase = "write" /\ phase' = "patch"
          /\ resolution' = resolution
      BY <2>3 DEF WriteOutput, Written
    <3>2. QED
      BY <1>3, <3>1 DEF AInv, StagesOK
  <2>4. CASE PatchFixups
    <3>1. /\ phase = "patch" /\ resolution' = resolution
          /\ resolution = Resolved /\ image = Written
      BY <2>4 DEF PatchFixups, AInv, StagesOK
    <3>2. CASE phase' = "failed"
      BY <3>2 DEF StagesOK
    <3>3. CASE phase' # "failed"
      <4>1. /\ phase' = "deliver" /\ \A r \in resolution : Patchable(r)
            /\ image' =
                 [p \in DOMAIN image |->
                    IF p \in {FieldPosition(r.fixup) : r \in resolution}
                    THEN PatchValue(PatchOf(p).fixup, PatchOf(p).value) % 256
                    ELSE image[p]]
        BY <2>4, <3>3 DEF PatchFixups
      <4>2. image' = Patched
        <5>1. /\ DOMAIN image = 0 .. OutputSize - 1
              /\ \A p \in 0 .. OutputSize - 1 : image[p] = WrittenByte(p)
          BY <3>1 DEF Written
        <5>2. QED
          BY <4>1, <5>1 DEF Patched, PatchedByte
      <4>3. /\ Patched' = Patched
            /\ (\A r \in resolution : Patchable(r))' <=>
                 (\A r \in resolution : Patchable(r))
        BY <1>1, <3>1, SamePatching
      <4>4. QED
        BY <1>3, <3>1, <4>1, <4>2, <4>3 DEF StagesOK
    <3>4. QED
      BY <3>2, <3>3
  <2>5. CASE Deliver
    <3>1. /\ phase = "deliver" /\ resolution' = resolution
          /\ image' = image
          /\ phase' = IF {r.fixup : r \in resolution} = Fixups
                      THEN "done" ELSE "failed"
      BY <2>5 DEF Deliver
    <3>2. /\ Patched' = Patched
          /\ (\A r \in resolution : Patchable(r))' <=>
               (\A r \in resolution : Patchable(r))
      BY <1>1, <3>1, SamePatching
    <3>3. /\ resolution = Resolved /\ image = Patched
          /\ \A r \in resolution : Patchable(r)
      BY <3>1 DEF AInv, StagesOK
    <3>4. QED
      BY <1>3, <3>1, <3>2, <3>3 DEF StagesOK
  <2>6. QED
    BY <2>1, <2>2, <2>3, <2>4, <2>5
<1>5. QED
  BY <1>2, <1>4 DEF AInv

LEMMA AssemblyKeeps ==
  ASSUME AInv, [AssemblyNext]_assemblyVars
  PROVE  AInv'
<1>1. CASE Lower
  BY <1>1, LowerKeeps
<1>2. CASE EncodeAll
  BY <1>2, EncodeAllKeeps
<1>3. CASE EndLateLayout \/ ResolveFixups \/ WriteOutput \/ PatchFixups
             \/ Deliver
  BY <1>3, StagesKeep
<1>4. CASE UNCHANGED assemblyVars
  <2>1. /\ module' = module /\ active' = active /\ stack' = stack
        /\ callers' = callers /\ phase' = phase
        /\ resolution' = resolution /\ image' = image
    BY <1>4 DEF assemblyVars, vars
  <2>2. IInv' /\ (PastEncoding' => AllKnown(module'))
    BY <2>1, StageKeeps DEF AInv, IInv, PastEncoding
  <2>3. /\ Written' = Written /\ Resolved' = Resolved /\ Fixups' = Fixups
        /\ Patched' = Patched
        /\ (\A r \in resolution : Patchable(r))' <=>
             (\A r \in resolution : Patchable(r))
    BY <2>1, SameWriting, SamePatching
  <2>4. StagesOK'
    BY <2>1, <2>3 DEF AInv, StagesOK
  <2>5. QED
    BY <2>2, <2>4 DEF AInv
<1>5. QED
  BY <1>1, <1>2, <1>3, <1>4 DEF AssemblyNext, Pipeline, Ended

(* The invariant holds in every assembly.                                  *)
THEOREM AssemblyInvariance == AssemblySpec => []AInv
<1>1. AssemblyInit => AInv
  BY StartOK DEF AssemblyInit, Init, AInv, PastEncoding, StagesOK
<1>2. AInv /\ [AssemblyNext]_assemblyVars => AInv'
  BY AssemblyKeeps
<1>3. QED
  BY <1>1, <1>2, PTL DEF AssemblySpec

(* pass.zig: each reference of an instruction is in the fixup store once,  *)
(* in whole assemblies too: the encode stage starts again from the first   *)
(* fragment, and late blocks encode and freeze more instructions.          *)
THEOREM AssemblyFixupsMatch == AssemblySpec => []FixupsMatchInstructions
<1>1. AInv => FixupsMatchInstructions
  BY IInvFixups DEF AInv
<1>2. QED
  BY AssemblyInvariance, <1>1, PTL

(* pass.zig: from the encode stage on, whatever the late blocks append,    *)
(* store or place, every label is where the final layout puts it.          *)
THEOREM LabelsMatch == AssemblySpec => []LabelsMatchLayout
<1>1. AInv => LabelsMatchLayout
  BY DEF AInv, AllKnown, Known, LabelsMatchLayout
<1>2. QED
  BY AssemblyInvariance, <1>1, PTL
-----------------------------------------------------------------------------
(* The writer.                                                             *)

LEMMA SectionTypes ==
  ASSUME ModuleOK(module), NEW s \in 1 .. Len(module.section)
  PROVE  /\ module.section[s].kind \in {"main", "virtual"}
         /\ module.section[s].origin \in Nat
         /\ module.section[s].fileOffset \in Nat
         /\ AllSized(FragmentsOf(module, s))
         /\ Len(FragmentsOf(module, s)) = Len(module.section[s].frags)
         /\ Len(module.section[s].frags) \in Nat
         /\ WellFormed(module)
<1>1. module.section[s] \in SectionType
  BY DEF ModuleOK, WellFormed, ModuleType
<1>2. \A x \in SectionType : /\ x.kind \in {"main", "virtual"}
                             /\ x.origin \in Nat /\ x.fileOffset \in Nat
  BY DEF SectionType
<1>3. WellFormed(module) /\ ModuleType(module)
  BY DEF ModuleOK, WellFormed
<1>4. QED
  BY <1>1, <1>2, <1>3, SectionFacts, FragmentsOfSection

(* The file range of a section is an interval of file offsets.             *)
LEMMA FileRangeBounds ==
  ASSUME ModuleOK(module), NEW s \in 1 .. Len(module.section)
  PROVE  \E n \in Nat :
           /\ SectionEnd(s) = module.section[s].fileOffset + n
           /\ FileRange(s) = module.section[s].fileOffset ..
                               module.section[s].fileOffset + n - 1
           /\ FileSize(FragmentsOf(module, s)) <= n
           /\ module.section[s].sizeAlign = 1 =>
                n = FileSize(FragmentsOf(module, s))
<1> DEFINE n == AlignUp(FileSize(FragmentsOf(module, s)),
                        module.section[s].sizeAlign)
<1>1. FileSize(FragmentsOf(module, s)) \in Nat
  BY SectionTypes, FileSizeCovers
<1>2. module.section[s].sizeAlign \in Nat /\ module.section[s].sizeAlign # 0
  BY SectionFacts DEF ModuleOK, WellFormed
<1>3. n \in Nat /\ n >= FileSize(FragmentsOf(module, s))
  BY <1>1, <1>2, AlignUpBounds
<1>4. module.section[s].sizeAlign = 1 => n = FileSize(FragmentsOf(module, s))
  BY <1>1 DEF AlignUp
<1>5. SectionEnd(s) = module.section[s].fileOffset + n
  BY DEF SectionEnd
<1> HIDE DEF n
<1>6. module.section[s].fileOffset \in Nat
  BY SectionTypes
<1>7. SectionEnd(s) - 1 = module.section[s].fileOffset + n - 1
  BY <1>3, <1>5, <1>6
<1>8. FileRange(s) = module.section[s].fileOffset ..
                      module.section[s].fileOffset + n - 1
  BY <1>7, Zenon DEF FileRange
<1>9. QED
  BY <1>1, <1>3, <1>4, <1>5, <1>8

(* Where a fragment of a section starts and ends, and what it holds.       *)
Holds(s, k, t) ==
  /\ k \in 1 .. Len(module.section[s].frags)
  /\ OffsetsIn(s)[k - 1] <= t
  /\ t < OffsetsIn(s)[k]

LEMMA HoldsOnce ==
  ASSUME ModuleOK(module), NEW s \in 1 .. Len(module.section),
         NEW t \in Int, NEW j, Holds(s, j, t), NEW k, Holds(s, k, t)
  PROVE  j = k
<1> DEFINE fs == FragmentsOf(module, s)
<1>1. /\ AllSized(fs) /\ j \in 1 .. Len(fs) /\ k \in 1 .. Len(fs)
      /\ Offsets(fs)[j - 1] <= t /\ t < Offsets(fs)[j]
      /\ Offsets(fs)[k - 1] <= t /\ t < Offsets(fs)[k]
  BY SectionTypes DEF Holds, OffsetsIn
<1> HIDE DEF fs
<1>2. QED
  BY <1>1, OffsetsApart

(* A byte of a fragment that is no reserve lies in its section's range.    *)
LEMMA HeldIsInRange ==
  ASSUME ModuleOK(module), NEW s \in 1 .. Len(module.section),
         NEW t \in Int, NEW k, Holds(s, k, t),
         FragmentsOf(module, s)[k].kind # "reserve"
  PROVE  module.section[s].fileOffset + t \in FileRange(s)
<1> DEFINE fs == FragmentsOf(module, s)
<1>1. /\ AllSized(fs) /\ k \in 1 .. Len(fs) /\ fs[k].kind # "reserve"
      /\ Offsets(fs)[k - 1] <= t /\ t < Offsets(fs)[k]
      /\ module.section[s].fileOffset \in Nat
  BY SectionTypes DEF Holds, OffsetsIn
<1>2. PICK n \in Nat : /\ FileRange(s) = module.section[s].fileOffset ..
                                  module.section[s].fileOffset + n - 1
                       /\ FileSize(fs) <= n
  BY FileRangeBounds
<1> HIDE DEF fs
<1>3. Offsets(fs)[k - 1] \in Nat /\ Offsets(fs)[k] \in Nat
  BY <1>1, OffsetsStep
<1>4. FileSize(fs) \in Nat /\ Offsets(fs)[k] <= FileSize(fs)
  BY <1>1, <1>3, FileSizeCovers
<1>5. t \in 0 .. n - 1
  BY <1>1, <1>2, <1>3, <1>4
<1>6. \A a, b, c \in Int : b \in 0 .. c - 1 => a + b \in a .. a + c - 1
  OBVIOUS
<1>7. n \in Int
  OBVIOUS
<1>8. module.section[s].fileOffset + t \in
        module.section[s].fileOffset .. module.section[s].fileOffset + n - 1
  BY <1>1, <1>5, <1>6, <1>7
<1>9. QED
  BY <1>2, <1>8, Zenon

(* Only the fragments of an exclusive section write into its range.        *)
LEMMA WritersAreHolders ==
  ASSUME ModuleOK(module), NEW s \in OutputSections, Exclusive(s),
         NEW p \in FileRange(s), NEW w \in WritersOf(p)
  PROVE  /\ w = <<s, w[2]>>
         /\ Holds(s, w[2], p - module.section[s].fileOffset)
         /\ FragmentsOf(module, s)[w[2]].kind # "reserve"
<1> DEFINE z == w[1]
           k == w[2]
           t == p - module.section[z].fileOffset
<1>1. /\ w = <<z, k>> /\ z \in OutputSections /\ k \in Nat
      /\ k <= Len(module.section[z].frags) /\ k >= 1
      /\ FragmentsOf(module, z)[k].kind # "reserve"
      /\ t \in OffsetsIn(z)[k - 1] .. OffsetsIn(z)[k] - 1
  BY DEF WritersOf
<1>2. z \in 1 .. Len(module.section) /\ s \in 1 .. Len(module.section)
  BY <1>1 DEF OutputSections
<1>3. p \in Int /\ module.section[z].fileOffset \in Nat
  <2>1. \E n \in Nat : FileRange(s) = module.section[s].fileOffset ..
                                  module.section[s].fileOffset + n - 1
    BY <1>2, FileRangeBounds
  <2>2. QED
    BY <1>2, <2>1, SectionTypes
<1> HIDE DEF z, k
<1>4. Len(module.section[z].frags) \in Nat /\ k \in 1 .. Len(module.section[z].frags)
  BY <1>1, <1>2, SectionTypes
<1>5. OffsetsIn(z)[k - 1] \in Nat /\ OffsetsIn(z)[k] \in Nat
  BY <1>2, <1>4, SectionTypes, OffsetsStep DEF OffsetsIn
<1>6. Holds(z, k, t) /\ t \in Int
  BY <1>1, <1>3, <1>4, <1>5 DEF Holds
<1>7. module.section[z].fileOffset + t = p
  BY <1>3
<1> HIDE DEF t
<1>8. p \in FileRange(z)
  BY <1>1, <1>2, <1>6, <1>7, HeldIsInRange
<1>9. z = s
  BY <1>1, <1>8 DEF Exclusive, Disjoint
<1>10. QED
  BY <1>1, <1>6, <1>9 DEF t, k
(* All file ranges end somewhere, so the file has a size.                  *)
LEMMA EndsAreBounded ==
  ASSUME ModuleOK(module)
  PROVE  \E n \in Nat : \A s \in 1 .. Len(module.section) :
           SectionEnd(s) \in 0 .. n
<1> DEFINE Below(i, n) == \A s \in 1 .. i :
                            s <= Len(module.section) => SectionEnd(s) \in 0 .. n
           S == {i \in Nat : \E n \in Nat : Below(i, n)}
<1>1. Len(module.section) \in Nat
  BY DEF ModuleOK, WellFormed, ModuleType
<1>2. 0 \in S
  BY DEF Below
<1>3. ASSUME NEW i \in S
      PROVE  i + 1 \in S
  <2> i \in Nat
    OBVIOUS
  <2>1. PICK n \in Nat : Below(i, n)
    OBVIOUS
  <2>2. CASE i + 1 > Len(module.section)
    <3>1. \A s \in 1 .. i + 1 : s <= Len(module.section) => s \in 1 .. i
      BY <1>1, <2>2
    <3>2. Below(i + 1, n)
      BY <2>1, <3>1
    <3>3. QED
      BY <3>2
  <2>3. CASE i + 1 <= Len(module.section)
    <3>1. i + 1 \in 1 .. Len(module.section)
      BY <1>1, <2>3
    <3>2. PICK z \in Nat : SectionEnd(i + 1) = module.section[i + 1].fileOffset + z
      BY <3>1, FileRangeBounds
    <3>3. module.section[i + 1].fileOffset \in Nat
      BY <3>1, SectionTypes
    <3> DEFINE y == n + module.section[i + 1].fileOffset + z
    <3>4. /\ y \in Nat /\ SectionEnd(i + 1) \in 0 .. y
          /\ 0 .. n \subseteq 0 .. y
      BY <3>2, <3>3
    <3> HIDE DEF y
    <3>5. \A s \in 1 .. i + 1 : s \in 1 .. i \/ s = i + 1
      OBVIOUS
    <3>6. Below(i + 1, y)
      BY <2>1, <3>4, <3>5
    <3>7. QED
      BY <3>4, <3>6
  <2>4. i + 1 > Len(module.section) \/ i + 1 <= Len(module.section)
    BY <1>1
  <2>5. QED
    BY <2>2, <2>3, <2>4
<1>4. S = Nat
  <2> HIDE DEF S
  <2>1. S \subseteq Nat
    BY DEF S
  <2>2. QED
    BY <1>2, <1>3, <2>1, NatSet
<1>5. PICK n \in Nat : Below(Len(module.section), n)
  BY <1>1, <1>4
<1>6. \A s \in 1 .. Len(module.section) : s <= Len(module.section)
  BY <1>1
<1>7. QED
  BY <1>5, <1>6

LEMMA RangesAreInTheFile ==
  ASSUME ModuleOK(module), NEW s \in OutputSections, NEW p \in FileRange(s)
  PROVE  p \in 0 .. OutputSize - 1
<1> DEFINE T == {0} \cup {SectionEnd(t) : t \in OutputSections}
<1>1. PICK n \in Nat : \A t \in 1 .. Len(module.section) :
                         SectionEnd(t) \in 0 .. n
  BY EndsAreBounded
<1>2. \A t \in OutputSections : SectionEnd(t) \in 0 .. n
  BY <1>1 DEF OutputSections
<1>3. T \in SUBSET (0 .. n) /\ T # {} /\ SectionEnd(s) \in T
  BY <1>2
<1>4. OutputSize = Max(T)
  BY DEF OutputSize
<1> HIDE DEF T
<1>5. OutputSize \in 0 .. n /\ SectionEnd(s) <= OutputSize
  BY <1>3, <1>4, MaxOfNaturals
<1>6. s \in 1 .. Len(module.section) /\ module.section[s].fileOffset \in Nat
  BY SectionTypes DEF OutputSections
<1>7. p \in module.section[s].fileOffset .. SectionEnd(s) - 1
  BY DEF FileRange
<1>8. SectionEnd(s) \in 0 .. n
  BY <1>2
<1>9. QED
  BY <1>5, <1>6, <1>7, <1>8

(* Ids increase, so a section has no more fragments than there are.        *)
LEMMA ListsFit ==
  ASSUME ModuleOK(module), NEW s \in 1 .. Len(module.section)
  PROVE  Len(module.section[s].frags) <= Len(module.fragment)
<1> DEFINE q == module.section[s].frags
           S == {i \in Nat : i + 1 <= Len(q) => i + 1 <= q[i + 1]}
<1>1. Len(q) \in Nat /\ Len(module.fragment) \in Nat
  BY SectionFacts DEF ModuleOK, WellFormed
<1>2. /\ \A k \in 1 .. Len(q) : q[k] \in 1 .. Len(module.fragment)
      /\ \A j, k \in 1 .. Len(q) : j < k => q[j] < q[k]
  BY DEF ModuleOK, WellFormed, SectionsOK, SectionOK
<1> HIDE DEF q
<1>3. 0 \in S
  BY <1>1, <1>2
<1>4. ASSUME NEW i \in S
      PROVE  i + 1 \in S
  <2> SUFFICES ASSUME (i + 1) + 1 <= Len(q)
               PROVE  (i + 1) + 1 <= q[(i + 1) + 1]
    OBVIOUS
  <2>1. i + 1 \in 1 .. Len(q) /\ (i + 1) + 1 \in 1 .. Len(q)
    BY <1>1
  <2>2. i + 1 <= q[i + 1]
    BY <1>1, <2>1
  <2>3. q[i + 1] < q[(i + 1) + 1] /\ q[i + 1] \in Nat
          /\ q[(i + 1) + 1] \in Nat
    BY <1>1, <1>2, <2>1
  <2>4. QED
    BY <2>2, <2>3
<1>5. S = Nat
  <2> HIDE DEF S
  <2>1. S \subseteq Nat
    BY DEF S
  <2>2. QED
    BY <1>3, <1>4, <2>1, NatSet
<1>6. CASE Len(q) = 0
  BY <1>1, <1>6 DEF q
<1>7. CASE Len(q) # 0
  <2>1. Len(q) - 1 \in S /\ (Len(q) - 1) + 1 = Len(q)
          /\ Len(q) \in 1 .. Len(q)
    <3> HIDE DEF S
    <3>1. QED
      BY <1>1, <1>5, <1>7
  <2>2. Len(q) <= q[Len(q)]
    BY <1>1, <2>1
  <2>3. q[Len(q)] <= Len(module.fragment) /\ q[Len(q)] \in Nat
    BY <1>1, <1>2, <2>1
  <2>4. QED
    BY <1>1, <2>2, <2>3 DEF q
<1>8. QED
  BY <1>6, <1>7

(* What the writer puts into a byte of an exclusive section.               *)
LEMMA HolderWrites ==
  ASSUME ModuleOK(module), NEW s \in OutputSections, Exclusive(s),
         NEW p \in FileRange(s), NEW k,
         Holds(s, k, p - module.section[s].fileOffset),
         FragmentsOf(module, s)[k].kind # "reserve"
  PROVE  WrittenByte(p) = ByteOf(FragmentsOf(module, s)[k],
                                 p - module.section[s].fileOffset
                                   - OffsetsIn(s)[k - 1])
<1> DEFINE t == p - module.section[s].fileOffset
<1>1. s \in 1 .. Len(module.section)
  BY DEF OutputSections
<1>2. /\ k \in 1 .. Len(module.section[s].frags)
      /\ Len(module.section[s].frags) \in Nat
      /\ Len(module.section[s].frags) <= Len(module.fragment)
      /\ Len(module.fragment) \in Nat
  BY <1>1, SectionTypes, ListsFit
     DEF Holds, ModuleOK, WellFormed, ModuleType
<1>3. p \in Int /\ t \in Int
  <2>1. \E n \in Nat : FileRange(s) = module.section[s].fileOffset ..
                                  module.section[s].fileOffset + n - 1
    BY <1>1, FileRangeBounds
  <2>2. QED
    BY <1>1, <2>1, SectionTypes
<1>4. t \in OffsetsIn(s)[k - 1] .. OffsetsIn(s)[k] - 1
  <2>1. OffsetsIn(s)[k - 1] \in Nat /\ OffsetsIn(s)[k] \in Nat
    BY <1>1, <1>2, SectionTypes, OffsetsStep DEF OffsetsIn
  <2>2. QED
    BY <1>3, <2>1 DEF Holds
<1>5. <<s, k>> \in WritersOf(p)
  <2>1. k \in 1 .. Len(module.fragment) /\ k <= Len(module.section[s].frags)
    BY <1>2
  <2>2. QED
    BY <1>4, <2>1 DEF WritersOf
<1>6. ASSUME NEW w \in WritersOf(p)
      PROVE  w = <<s, k>>
  <2>1. w = <<s, w[2]>> /\ Holds(s, w[2], t)
    BY WritersAreHolders
  <2> HIDE DEF t
  <2>2. w[2] = k
    BY <1>1, <1>3, <2>1, HoldsOnce DEF t
  <2>3. QED
    BY <2>1, <2>2
<1>7. WritersOf(p) = {<<s, k>>}
  BY <1>5, <1>6
<1> DEFINE z == CHOOSE w \in WritersOf(p) : \A v \in WritersOf(p) : v[1] <= w[1]
<1>8. z = <<s, k>>
  BY <1>1, <1>7
<1>9. WrittenByte(p) = ByteOf(FragmentsOf(module, z[1])[z[2]],
                              p - module.section[z[1]].fileOffset
                                - OffsetsIn(z[1])[z[2] - 1])
  BY <1>7 DEF WrittenByte
<1> HIDE DEF z
<1>10. z[1] = s /\ z[2] = k
  BY <1>8
<1>11. QED
  BY <1>9, <1>10
LEMMA NobodyWrites ==
  ASSUME ModuleOK(module), NEW s \in OutputSections, Exclusive(s),
         NEW p \in FileRange(s),
         \A k : Holds(s, k, p - module.section[s].fileOffset) =>
                 FragmentsOf(module, s)[k].kind = "reserve"
  PROVE  WrittenByte(p) = 0
<1>1. WritersOf(p) = {}
  BY WritersAreHolders
<1>2. QED
  BY <1>1 DEF WrittenByte

LEMMA WrittenIsLaidOut ==
  ASSUME ModuleOK(module), NEW s \in OutputSections, Exclusive(s),
         NEW p \in FileRange(s)
  PROVE  LET t    == p - module.section[s].fileOffset
             here == {k \in 1 .. Len(module.section[s].frags) :
                        OffsetsIn(s)[k - 1] <= t /\ t < OffsetsIn(s)[k]}
         IN  WrittenByte(p) =
               IF here = {} THEN 0
               ELSE LET k == Max(here)
                        f == FragmentsOf(module, s)[k]
                    IN  IF f.kind = "reserve" THEN 0
                        ELSE ByteOf(f, t - OffsetsIn(s)[k - 1])
<1> DEFINE t    == p - module.section[s].fileOffset
           here == {k \in 1 .. Len(module.section[s].frags) :
                      OffsetsIn(s)[k - 1] <= t /\ t < OffsetsIn(s)[k]}
<1>1. s \in 1 .. Len(module.section)
  BY DEF OutputSections
<1>2. p \in Int /\ t \in Int
  <2>1. \E n \in Nat : FileRange(s) = module.section[s].fileOffset ..
                                  module.section[s].fileOffset + n - 1
    BY <1>1, FileRangeBounds
  <2>2. QED
    BY <1>1, <2>1, SectionTypes
<1>3. \A k : Holds(s, k, t) <=> k \in here
  BY DEF Holds
<1>4. CASE here = {}
  BY <1>3, <1>4, NobodyWrites
<1>5. CASE here # {}
  <2> DEFINE k == Max(here)
             f == FragmentsOf(module, s)[k]
  <2>1. k \in here
    <3>1. here \in SUBSET (1 .. Len(module.section[s].frags))
            /\ Len(module.section[s].frags) \in Nat
      BY <1>1, SectionTypes
    <3> HIDE DEF here
    <3>2. QED
      BY <1>5, <3>1, MaxOfPositions
  <2>2. Holds(s, k, t)
    BY <1>3, <2>1
  <2> HIDE DEF k, here
  <2>3. CASE f.kind = "reserve"
    <3>1. \A j : Holds(s, j, t) => j = k
      <4> HIDE DEF t
      <4>1. QED
        BY <1>1, <1>2, <2>2, HoldsOnce
    <3>2. WrittenByte(p) = 0
      BY <2>3, <3>1, NobodyWrites
    <3>3. QED
      BY <1>5, <2>3, <3>2 DEF k, here
  <2>4. CASE f.kind # "reserve"
    <3>1. WrittenByte(p) = ByteOf(f, t - OffsetsIn(s)[k - 1])
      BY <2>2, <2>4, HolderWrites
    <3>2. QED
      BY <1>5, <2>4, <3>1 DEF k, here
  <2>5. QED
    BY <2>3, <2>4
<1>6. QED
  BY <1>4, <1>5

(* writer.zig: in every delivered file each fragment of each region is     *)
(* where the layout puts it, with zeros where a reserve lies between two   *)
(* of them; the fields of references are the only difference.              *)
THEOREM FragmentsReach == AssemblySpec => []FragmentsReachTheFile
<1>1. AInv => FragmentsReachTheFile
  <2> SUFFICES ASSUME AInv, phase = "done",
                      NEW s \in OutputSections, Exclusive(s),
                      NEW p \in FileRange(s) \
                                  {FieldPosition(x) : x \in Fixups}
               PROVE  image[p] = WrittenByte(p)
    <3>1. AInv => ModuleOK(module)
      BY DEF AInv, IInv
    <3>2. QED
      BY <3>1, WrittenIsLaidOut, SMTT(30) DEF FragmentsReachTheFile
  <2>1. /\ ModuleOK(module) /\ image = Patched
        /\ {r.fixup : r \in resolution} = Fixups
    BY DEF AInv, IInv, StagesOK
  <2>2. p \in 0 .. OutputSize - 1
    BY <2>1, RangesAreInTheFile
  <2>3. p \notin {FieldPosition(r.fixup) : r \in resolution}
    BY <2>1
  <2>4. QED
    BY <2>1, <2>2, <2>3 DEF Patched, PatchedByte
<1>2. QED
  BY AssemblyInvariance, <1>1, PTL
-----------------------------------------------------------------------------
(* References.                                                             *)

SectionId(x) == module.fragment[x.fragment].section

(* The field of a reference lies inside its fragment.                      *)
LEMMA FieldIsHeld ==
  ASSUME ModuleOK(module), NEW x \in Fixups
  PROVE  /\ SectionId(x) \in 1 .. Len(module.section)
         /\ x.ref.label \in Labels /\ x.ref.at \in Nat
         /\ x = [fragment |-> x.fragment, ref |-> x.ref]
         /\ x.ref.kind \in {"absolute", "pc_relative"}
         /\ module.fragment[x.fragment].kind = "isa" =>
              /\ module.fragment[x.fragment].text \in Texts
              /\ x.ref \in References[module.fragment[x.fragment].text]
         /\ \E k \in 1 .. Len(module.section[SectionId(x)].frags) :
              /\ module.section[SectionId(x)].frags[k] = x.fragment
              /\ FragmentsOf(module, SectionId(x))[k].kind # "reserve"
              /\ OffsetsIn(SectionId(x))[k - 1] \in Nat
              /\ FieldOffset(x) = OffsetsIn(SectionId(x))[k - 1] + x.ref.at
              /\ FieldOffset(x) \in Nat
              /\ Holds(SectionId(x), k, FieldOffset(x))
<1> DEFINE i == x.fragment
           f == module.fragment[i]
           s == f.section
<1>1. /\ FixupOK(module, x) /\ HomesOK(module) /\ WellFormed(module)
  BY DEF ModuleOK, StoresOK, FixupsOK, Fixups, BagToSet
<1>2. /\ i \in 1 .. Len(module.fragment) /\ x = [fragment |-> i, ref |-> x.ref]
      /\ x.ref.label \in Labels /\ f.kind \in {"bytes", "isa"}
      /\ x.ref.kind \in {"absolute", "pc_relative"}
      /\ x.ref.at \in 0 .. f.n - 1
      /\ f.kind = "isa" => x.ref \in References[f.text]
  BY <1>1 DEF FixupOK
<1>3. s \in 1 .. Len(module.section) /\ FragmentOK(f) /\ f.n \in Nat
  BY <1>1, <1>2, SMTT(30) DEF WellFormed, FragmentsOK, FragmentOK, Sized
<1> DEFINE k == CHOOSE k \in 1 .. Len(module.section[s].frags) :
                  module.section[s].frags[k] = i
           fs == FragmentsOf(module, s)
<1>4. k \in 1 .. Len(module.section[s].frags) /\ module.section[s].frags[k] = i
  BY <1>1, <1>2 DEF HomesOK
<1>5. FieldOffset(x) = OffsetsIn(s)[k - 1] + x.ref.at
  BY DEF FieldOffset
<1> HIDE DEF k
<1>6. /\ AllSized(fs) /\ k \in 1 .. Len(fs) /\ fs[k] = f
  BY <1>3, <1>1, <1>4, SectionTypes, FragmentsOfSection
<1>7. SectionId(x) = s
  BY DEF SectionId
<1>8. f.kind = "isa" => f.text \in Texts
  BY <1>3 DEF FragmentOK
<1> HIDE DEF fs, f
<1>9. /\ Offsets(fs)[k - 1] \in Nat /\ Offsets(fs)[k] \in Nat
      /\ Offsets(fs)[k] = Offsets(fs)[k - 1] + f.n
  <2>1. /\ Offsets(fs)[k - 1] \in Nat /\ Offsets(fs)[k] \in Nat
        /\ Offsets(fs)[k] = Offsets(fs)[k - 1]
             + LogicalFragmentSize(f, Offsets(fs)[k - 1])
    BY <1>6, OffsetsStep
  <2>2. LogicalFragmentSize(f, Offsets(fs)[k - 1]) = f.n
    BY <1>2 DEF LogicalFragmentSize
  <2>3. QED
    BY <2>1, <2>2
<1>10. /\ OffsetsIn(s)[k - 1] = Offsets(fs)[k - 1]
       /\ OffsetsIn(s)[k] = Offsets(fs)[k]
  BY DEF OffsetsIn, fs
<1>11. /\ FieldOffset(x) \in Nat /\ x.ref.at \in Nat
       /\ OffsetsIn(s)[k - 1] \in Nat
       /\ OffsetsIn(s)[k - 1] <= FieldOffset(x)
       /\ FieldOffset(x) < OffsetsIn(s)[k]
  BY <1>2, <1>3, <1>5, <1>9, <1>10
<1>12. Holds(s, k, FieldOffset(x)) /\ FragmentsOf(module, s)[k].kind # "reserve"
  BY <1>2, <1>4, <1>6, <1>11 DEF Holds, fs
<1>13. QED
  BY <1>2, <1>3, <1>4, <1>5, <1>7, <1>8, <1>11, <1>12 DEF f

LEMMA FieldIsInRange ==
  ASSUME ModuleOK(module), NEW x \in Fixups
  PROVE  /\ FieldPosition(x) \in FileRange(SectionId(x))
         /\ FieldPosition(x) = module.section[SectionId(x)].fileOffset
                                 + FieldOffset(x)
<1>1. FieldPosition(x) = module.section[SectionId(x)].fileOffset
                           + FieldOffset(x)
  BY DEF FieldPosition, SectionOfFixup, SectionId
<1> DEFINE s == SectionId(x)
<1>2. PICK k \in 1 .. Len(module.section[s].frags) :
           /\ FragmentsOf(module, s)[k].kind # "reserve"
           /\ FieldOffset(x) \in Nat
           /\ Holds(s, k, FieldOffset(x))
  BY FieldIsHeld
<1>3. s \in 1 .. Len(module.section)
  BY FieldIsHeld
<1> HIDE DEF s
<1>4. module.section[s].fileOffset + FieldOffset(x) \in FileRange(s)
  BY <1>2, <1>3, HeldIsInRange
<1>5. QED
  BY <1>1, <1>4 DEF s

(* Two references never share a byte of an exclusive region.               *)
LEMMA FieldsApart ==
  ASSUME ModuleOK(module), NEW x \in LiveFixups, NEW y \in Fixups,
         SectionOfFixup(x).kind = "main", SectionOfFixup(y).kind = "main",
         FieldPosition(x) = FieldPosition(y)
  PROVE  x = y
<1> DEFINE s == SectionId(x)
<1>1. /\ x \in Fixups /\ Exclusive(s)
      /\ module.fragment[x.fragment].kind = "isa"
  BY DEF LiveFixups, SectionId
<1>2. s \in OutputSections /\ SectionId(y) \in OutputSections
  BY <1>1, FieldIsHeld DEF OutputSections, SectionOfFixup, SectionId
<1>3. SectionId(y) = s
  <2>1. FieldPosition(x) \in FileRange(s) \cap FileRange(SectionId(y))
    BY <1>1, FieldIsInRange
  <2> HIDE DEF s
  <2>2. QED
    BY <1>1, <1>2, <2>1 DEF Exclusive, Disjoint
<1> HIDE DEF s
<1>4. s \in 1 .. Len(module.section) /\ module.section[s].fileOffset \in Nat
  BY <1>2, SectionTypes DEF OutputSections
<1>5. PICK k \in 1 .. Len(module.section[s].frags) :
           /\ module.section[s].frags[k] = x.fragment
           /\ OffsetsIn(s)[k - 1] \in Nat
           /\ FieldOffset(x) = OffsetsIn(s)[k - 1] + x.ref.at
           /\ FieldOffset(x) \in Nat
           /\ Holds(s, k, FieldOffset(x))
  BY <1>1, FieldIsHeld DEF s
<1>6. PICK j \in 1 .. Len(module.section[s].frags) :
           /\ module.section[s].frags[j] = y.fragment
           /\ FieldOffset(y) = OffsetsIn(s)[j - 1] + y.ref.at
           /\ FieldOffset(y) \in Nat
           /\ Holds(s, j, FieldOffset(y))
  BY <1>3, FieldIsHeld
<1>7. FieldOffset(x) = FieldOffset(y)
  <2>1. /\ FieldPosition(x) = module.section[s].fileOffset + FieldOffset(x)
        /\ FieldPosition(y) = module.section[s].fileOffset + FieldOffset(y)
    BY <1>1, <1>3, FieldIsInRange DEF s
  <2>2. \A a, b, c \in Nat : a + b = a + c => b = c
    OBVIOUS
  <2>3. QED
    BY <1>4, <1>5, <1>6, <2>1, <2>2, Zenon
<1>8. j = k
  <2>1. FieldOffset(x) \in Int
    BY <1>5
  <2>2. QED
    BY <1>4, <1>5, <1>6, <1>7, <2>1, HoldsOnce
<1>9. x.fragment = y.fragment
  BY <1>5, <1>6, <1>8
<1>10. x.ref.at = y.ref.at
  <2>1. x.ref.at \in Nat /\ y.ref.at \in Nat
    BY <1>1, FieldIsHeld
  <2>2. \A a, b, c \in Nat : a + b = a + c => b = c
    OBVIOUS
  <2>3. QED
    BY <1>5, <1>6, <1>7, <1>8, <2>1, <2>2, Zenon
<1> DEFINE t == module.fragment[x.fragment].text
<1>11. t \in Texts /\ x.ref \in References[t] /\ y.ref \in References[t]
  BY <1>1, <1>9, FieldIsHeld
<1>12. x.ref = y.ref
  <2> HIDE DEF t
  <2>1. QED
    BY <1>10, <1>11, ReferencesAssumption
<1>13. /\ x = [fragment |-> x.fragment, ref |-> x.ref]
       /\ y = [fragment |-> y.fragment, ref |-> y.ref]
  BY <1>1, FieldIsHeld
<1>14. QED
  BY <1>9, <1>12, <1>13

(* A byte holds a value in range, and the processor gets it back.          *)
LEMMA ByteHoldsValue ==
  ASSUME NEW v \in Int
  PROVE  /\ v \in 0 .. 255 => v % 256 = v
         /\ v \in -128 .. 127 =>
              v = IF v % 256 < 128 THEN v % 256 ELSE (v % 256) - 256
<1>1. v \in 0 .. 255 => v % 256 = v
  OBVIOUS
<1>2. v \in -128 .. -1 => v % 256 = v + 256
  OBVIOUS
<1>3. QED
  BY <1>1, <1>2
(* A live field of a delivered file holds the value of its own reference.  *)
LEMMA FieldIsPatched ==
  ASSUME AInv, phase = "done", NEW x \in LiveFixups
  PROVE  LET b == module.label[x.ref.label]
             v == LabelAddress(x.ref.label)
         IN  /\ b # Undefined
             /\ InRange(x, PatchValue(x, v))
             /\ image[FieldPosition(x)] = PatchValue(x, v) % 256
<1> DEFINE v == LabelAddress(x.ref.label)
           r == [fixup |-> x, value |-> v]
           p == FieldPosition(x)
<1>1. /\ ModuleOK(module) /\ x \in Fixups /\ image = Patched
      /\ resolution = Resolved /\ {q.fixup : q \in resolution} = Fixups
      /\ \A q \in resolution : Patchable(q)
  BY DEF AInv, IInv, StagesOK, LiveFixups
<1>2. \A q \in resolution :
        /\ q = [fixup |-> q.fixup, value |-> LabelAddress(q.fixup.ref.label)]
        /\ q.fixup \in Fixups
        /\ module.label[q.fixup.ref.label] # Undefined
  BY <1>1 DEF Resolved
<1>3. r \in resolution /\ module.label[x.ref.label] # Undefined
  <2>1. PICK q \in resolution : q.fixup = x
    BY <1>1
  <2>2. q = r
    BY <1>2, <2>1
  <2>3. QED
    BY <1>2, <2>1, <2>2
<1>4. SectionOfFixup(x).kind = "main" /\ InRange(x, PatchValue(x, v))
  BY <1>1, <1>3 DEF Patchable
<1>5. p \in 0 .. OutputSize - 1
  <2>1. SectionId(x) \in OutputSections
    BY <1>1, <1>4, FieldIsHeld DEF OutputSections, SectionOfFixup, SectionId
  <2>2. QED
    BY <1>1, <2>1, FieldIsInRange, RangesAreInTheFile
<1> HIDE DEF v
<1>6. ASSUME NEW q \in resolution, FieldPosition(q.fixup) = p
      PROVE  q = r
  <2>1. q.fixup \in Fixups /\ SectionOfFixup(q.fixup).kind = "main"
    BY <1>1, <1>2 DEF Patchable
  <2>2. q.fixup = x
    BY <1>1, <1>4, <1>6, <2>1, FieldsApart
  <2>3. QED
    BY <1>2, <2>2 DEF v
<1> HIDE DEF p
<1>7. PatchOf(p) = r
  <2>1. {q \in resolution : FieldPosition(q.fixup) = p} = {r}
    BY <1>3, <1>6 DEF p
  <2>2. \A q \in resolution : FieldPosition(q.fixup) = p =>
                               q.fixup.fragment <= r.fixup.fragment
    <3>1. x.fragment \in Int
      BY <1>1 DEF ModuleOK, StoresOK, FixupsOK, FixupOK, Fixups, BagToSet
    <3>2. QED
      BY <1>6, <3>1
  <2> HIDE DEF r
  <2>3. QED
    BY <2>1, <2>2 DEF PatchOf
<1>8. image[p] = PatchValue(x, v) % 256
  <2>1. p \in {FieldPosition(q.fixup) : q \in resolution}
    BY <1>3 DEF p
  <2>2. PatchedByte(p) = PatchValue(PatchOf(p).fixup, PatchOf(p).value) % 256
    BY <2>1 DEF PatchedByte
  <2>3. image[p] = PatchedByte(p)
    BY <1>1, <1>5 DEF Patched
  <2>4. QED
    BY <1>7, <2>2, <2>3
<1>9. QED
  BY <1>3, <1>4, <1>8 DEF v, p

LEMMA ReachedIsTarget ==
  ASSUME ModuleOK(module), NEW x \in Fixups, NEW v \in Int,
         InRange(x, PatchValue(x, v))
  PROVE  Reached(x, PatchValue(x, v) % 256) = v
<1> DEFINE o == SectionOfFixup(x).origin
           w == FieldOffset(x)
<1>1. o \in Int /\ w \in Int
  <2>1. o \in Nat
    BY FieldIsHeld, SectionTypes DEF SectionOfFixup, SectionId
  <2>2. QED
    BY <2>1, FieldIsHeld
<1>2. CASE x.ref.kind = "absolute"
  <2>1. PatchValue(x, v) = v /\ v \in 0 .. 255
    BY <1>2 DEF PatchValue, InRange
  <2>2. QED
    BY <1>2, <2>1, ByteHoldsValue DEF Reached
<1>3. CASE x.ref.kind # "absolute"
  <2> DEFINE d == v - (o + w + 1)
  <2>1. PatchValue(x, v) = d /\ d \in -128 .. 127
    BY <1>3 DEF PatchValue, InRange
  <2>2. Reached(x, d % 256) =
          o + w + 1 + (IF d % 256 < 128 THEN d % 256 ELSE (d % 256) - 256)
    BY <1>3 DEF Reached
  <2>3. d \in Int /\ o + w + 1 + d = v
    BY <1>1
  <2> HIDE DEF d, o, w
  <2>4. d = IF d % 256 < 128 THEN d % 256 ELSE (d % 256) - 256
    BY <2>1, <2>3, ByteHoldsValue, SMTT(30)
  <2>5. QED
    BY <2>1, <2>2, <2>3, <2>4
<1>4. QED
  BY <1>2, <1>3

(* assembly.zig: in every delivered file every live reference leads to the *)
(* fragment its label stands before, however the label was defined, moved  *)
(* or placed between encoding and patching.                                *)
THEOREM ReferencesReach == AssemblySpec => []ReferencesReachTheirLabels
<1>1. AInv => ReferencesReachTheirLabels
  <2> SUFFICES ASSUME AInv, phase = "done", NEW x \in LiveFixups
               PROVE  LET b == module.label[x.ref.label]
                      IN  /\ b # Undefined
                          /\ Reached(x, image[FieldPosition(x)]) =
                               module.section[b.section].origin
                                 + LabelOffset(module, b)
    BY DEF ReferencesReachTheirLabels
  <2> DEFINE l == x.ref.label
             b == module.label[l]
             v == LabelAddress(l)
  <2>1. /\ b # Undefined /\ InRange(x, PatchValue(x, v))
        /\ image[FieldPosition(x)] = PatchValue(x, v) % 256
    BY FieldIsPatched
  <2>2. /\ ModuleOK(module) /\ x \in Fixups /\ AllKnown(module)
    BY DEF AInv, IInv, PastEncoding, LiveFixups
  <2>3. l \in Labels
    BY <2>2, FieldIsHeld, SMTT(30)
  <2>4. v = module.section[b.section].origin + LabelOffset(module, b)
    BY <2>1, <2>2, <2>3 DEF AllKnown, Known, LabelAddress
  <2>5. v \in Int
    <3>1. /\ b.section \in 1 .. Len(module.section) /\ b.offset \in Nat
      BY <2>1, <2>2, <2>3
         DEF ModuleOK, WellFormed, LabelsOK, AnchorOK, ModuleType, LabelType
    <3>2. module.section[b.section].origin \in Nat
      BY <2>2, <3>1, SectionTypes
    <3>3. QED
      BY <3>1, <3>2 DEF LabelAddress
  <2> HIDE DEF v, b, l
  <2>6. Reached(x, image[FieldPosition(x)]) = v
    BY <2>1, <2>2, <2>5, ReachedIsTarget
  <2>7. QED
    BY <2>1, <2>4, <2>6 DEF b, l
<1>2. QED
  BY AssemblyInvariance, <1>1, PTL
-----------------------------------------------------------------------------
(* Chained regions.  In a source that lays out its file with output.org    *)
(* and output.section only, every place is in scratch output or in the     *)
(* last region of the file, so a region is finished, and its size final,   *)
(* when the next one begins behind it.                                     *)

\* The calls that choose a file offset themselves, or return to a region.
Placing == {"region.begin", "region.place", "region.file_align", "include"}

\* What would append to a region of the file after the source has ended.
LateOutput == {"emit", "reserve", "pad", "pad_to", "align", "output.org",
               "output.section"}

ChainsOnly ==
  Ops \cap Placing = {} /\ LateOps \cap (Placing \cup LateOutput) = {}

\* The file range of a region begins where it began.
SameRanges(m, m2) ==
  \A s \in 1 .. Len(m.section) :
    /\ m2.section[s].kind = m.section[s].kind
    /\ m2.section[s].fileOffset = m.section[s].fileOffset
    /\ m2.section[s].sizeAlign = m.section[s].sizeAlign

\* Region t begins behind region s, which cannot grow any more.
Behind(m, s, t) ==
  /\ \A k \in 1 .. Len(m.section[s].frags) :
       m.section[s].frags[k] <= m.watermark
  /\ m.section[s].fileOffset + FileSize(FragmentsOf(m, s))
       <= m.section[t].fileOffset

InOrder(m, s, t) ==
  s < t /\ m.section[s].kind = "main" /\ m.section[t].kind = "main"

Chained(m) ==
  /\ \A s \in 1 .. Len(m.section) : m.section[s].sizeAlign = 1
  /\ \A s, t \in 1 .. Len(m.section) : InOrder(m, s, t) => Behind(m, s, t)

\* A place in scratch output, or in the last region of the file.
OnTop(m, a) ==
  m.section[a.section].kind = "main" =>
    \A t \in 1 .. Len(m.section) : ~ InOrder(m, a.section, t)

(* A finished region stays behind the one before it.                       *)
LEMMA BehindKept ==
  ASSUME NEW m, ModuleOK(m), NEW m2, Later(m, m2), SameRanges(m, m2),
         NEW s \in 1 .. Len(m.section), NEW t \in 1 .. Len(m.section),
         Behind(m, s, t), m2.section[s].frags = m.section[s].frags
  PROVE  Behind(m2, s, t)
<1> DEFINE q  == m.section[s].frags
           fs == FragmentsOf(m, s)
           hs == FragmentsOf(m2, s)
<1>1. /\ WellFormed(m) /\ WellFormed(m2) /\ ModuleType(m) /\ ModuleType(m2)
      /\ s \in 1 .. Len(m2.section) /\ m2.section[s].frags = q
  BY DEF ModuleOK, Later, WellFormed, ModuleType, Grows
<1>2. /\ AllSized(fs) /\ AllSized(hs) /\ Len(fs) = Len(q) /\ Len(hs) = Len(q)
      /\ \A k \in 1 .. Len(q) : /\ fs[k] = m.fragment[q[k]]
                                /\ hs[k] = m2.fragment[q[k]]
  <2>1. q = m.section[s].frags /\ fs = FragmentsOf(m, s)
          /\ hs = FragmentsOf(m2, s)
    OBVIOUS
  <2> HIDE DEF q, fs, hs
  <2>2. /\ AllSized(fs) /\ Len(fs) = Len(q)
        /\ \A k \in 1 .. Len(q) : fs[k] = m.fragment[q[k]]
    BY <1>1, <2>1, FragmentsOfSection
  <2>3. /\ AllSized(hs) /\ Len(hs) = Len(q)
        /\ \A k \in 1 .. Len(q) : hs[k] = m2.fragment[q[k]]
    BY <1>1, <2>1, FragmentsOfSection
  <2>4. QED
    BY <2>2, <2>3
<1>3. \A k \in 1 .. Len(q) : q[k] \in 1 .. Len(m.fragment) /\ q[k] <= m.watermark
  BY <1>1 DEF WellFormed, SectionsOK, SectionOK, Behind
<1>4. /\ m2.section[s].fileOffset = m.section[s].fileOffset
      /\ m2.section[t].fileOffset = m.section[t].fileOffset
      /\ m.section[s].fileOffset + FileSize(fs) <= m.section[t].fileOffset
  BY DEF SameRanges, Behind
<1>5. hs = FragmentsOf(m2, s) /\ q = m2.section[s].frags
  BY <1>1
<1> HIDE DEF q, fs, hs
<1>6. \A k \in 1 .. Len(q) : SameShape(fs[k], hs[k])
  <2>1. m.watermark \in Nat /\ Len(m.fragment) \in Nat
    BY <1>1 DEF ModuleType
  <2>2. \A i \in 1 .. Len(m.fragment) :
          i <= m.watermark => HasSize(m.fragment[i])
    BY <2>1 DEF ModuleOK, StoresOK, Settled, HasSize
  <2>3. QED
    BY <1>2, <1>3, <2>2 DEF Later, Frozen
<1>7. FileSize(fs) = FileSize(hs)
  BY <1>2, <1>6, FileSizeOfShapes
<1>8. \A k \in 1 .. Len(q) : q[k] <= m2.watermark
  <2>1. /\ m.watermark \in Nat /\ m2.watermark \in Nat
        /\ m.watermark <= m2.watermark
        /\ \A i \in 1 .. Len(m.fragment) : i \in Nat
    BY <1>1 DEF ModuleType, Later
  <2>2. QED
    BY <1>3, <2>1, LeqTransitive, Zenon
<1>9. QED
  BY <1>4, <1>5, <1>7, <1>8 DEF Behind

LEMMA ChainedLater ==
  ASSUME NEW m, ModuleOK(m), NEW m2, Later(m, m2), SameRanges(m, m2),
         Chained(m), Len(m2.section) = Len(m.section),
         \A s, t \in 1 .. Len(m.section) :
           InOrder(m, s, t) => m2.section[s].frags = m.section[s].frags
  PROVE  Chained(m2)
<1>1. \A s \in 1 .. Len(m2.section) : m2.section[s].sizeAlign = 1
  BY DEF Chained, SameRanges
<1>2. ASSUME NEW s \in 1 .. Len(m2.section), NEW t \in 1 .. Len(m2.section),
             InOrder(m2, s, t)
      PROVE  Behind(m2, s, t)
  <2>1. s \in 1 .. Len(m.section) /\ t \in 1 .. Len(m.section)
          /\ InOrder(m, s, t)
    BY <1>2 DEF SameRanges, InOrder
  <2>2. QED
    BY <2>1, BehindKept DEF Chained
<1>3. QED
  BY <1>1, <1>2 DEF Chained

(* A finished chain makes the file ranges disjoint.                        *)
LEMMA ChainedIsDisjoint ==
  ASSUME ModuleOK(module), Chained(module)
  PROVE  \A s, t \in OutputSections : s # t => Disjoint(s, t)
<1>1. ASSUME NEW s \in OutputSections, NEW t \in OutputSections, s < t
      PROVE  Disjoint(s, t)
  <2>1. /\ s \in 1 .. Len(module.section) /\ t \in 1 .. Len(module.section)
        /\ InOrder(module, s, t)
    BY <1>1 DEF OutputSections, InOrder
  <2>2. /\ module.section[s].fileOffset + FileSize(FragmentsOf(module, s))
             <= module.section[t].fileOffset
        /\ module.section[s].sizeAlign = 1
    BY <2>1 DEF Chained, Behind
  <2>3. PICK n \in Nat : /\ FileRange(s) = module.section[s].fileOffset ..
                                     module.section[s].fileOffset + n - 1
                         /\ n = FileSize(FragmentsOf(module, s))
    BY <2>1, <2>2, FileRangeBounds
  <2>4. PICK z \in Nat : FileRange(t) = module.section[t].fileOffset ..
                                    module.section[t].fileOffset + z - 1
    BY <2>1, FileRangeBounds
  <2>5. /\ module.section[s].fileOffset \in Nat
        /\ module.section[t].fileOffset \in Nat
    BY <2>1, SectionTypes
  <2> DEFINE a == module.section[s].fileOffset
             b == module.section[t].fileOffset
  <2>6. /\ a \in Nat /\ b \in Nat /\ a + n <= b
        /\ FileRange(s) = a .. a + n - 1
        /\ FileRange(t) = b .. b + z - 1
    BY <2>2, <2>3, <2>4, <2>5
  <2> HIDE DEF a, b
  <2>7. (a .. a + n - 1) \cap (b .. b + z - 1) = {}
    BY <2>6
  <2>8. QED
    BY <2>6, <2>7 DEF Disjoint
<1>2. ASSUME NEW s \in OutputSections, NEW t \in OutputSections, s # t
      PROVE  Disjoint(s, t)
  <2>1. s < t \/ t < s
    BY <1>2 DEF OutputSections
  <2>2. Disjoint(t, s) => Disjoint(s, t)
    BY DEF Disjoint
  <2>3. QED
    BY <1>1, <2>1, <2>2
<1>3. QED
  BY <1>2

LEMMA SyncedRanges ==
  ASSUME IInv
  PROVE  /\ SameRanges(module, SyncedModule(module, active))
         /\ Len(SyncedModule(module, active).section) = Len(module.section)
<1> DEFINE m == ForOutputAccess(module)
<1>1. m.section = module.section /\ ModuleOK(m)
  BY EncodeKeepsSections, ForOutputAccessLater DEF IInv, Later
<1>2. active.section \in 1 .. Len(m.section)
  BY <1>1 DEF IInv, ActiveOK
<1>3. SyncedModule(module, active) = FoldMemo(m, active.section)
  BY DEF SyncedModule
<1> HIDE DEF m
<1>4. QED
  BY <1>1, <1>2, <1>3, FoldMemoLater DEF SameRanges, SameSections

LEMMA AppendRanges ==
  ASSUME NEW m, ModuleOK(m), NEW a, NEW f,
         SameRanges(module, m), Len(m.section) = Len(module.section),
         AppendTo(m, a, f)
  PROVE  SameRanges(module, module') /\ Len(module'.section) = Len(module.section)
<1> DEFINE s == f.section
           q == [m.section EXCEPT ![s].frags = Append(@, Len(m.fragment) + 1)]
<1>1. m.section \in Seq(SectionType) /\ ModuleType(m)
  BY DEF ModuleOK, WellFormed, ModuleType
<1>2. module'.section = q
  BY <1>1 DEF AppendTo, AddFragment, ModuleType
<1>3. ASSUME NEW t \in 1 .. Len(m.section)
      PROVE  /\ q[t].kind = m.section[t].kind
             /\ q[t].fileOffset = m.section[t].fileOffset
             /\ q[t].sizeAlign = m.section[t].sizeAlign
  <2>1. m.section[t] \in SectionType
    BY <1>1
  <2>2. \A y \in SectionType : \A e :
          /\ [y EXCEPT !.frags = e].kind = y.kind
          /\ [y EXCEPT !.frags = e].fileOffset = y.fileOffset
          /\ [y EXCEPT !.frags = e].sizeAlign = y.sizeAlign
    BY DEF SectionType
  <2>3. CASE t = s
    <3> DEFINE e == Append(m.section[t].frags, Len(m.fragment) + 1)
    <3>1. q[t] = [m.section[t] EXCEPT !.frags = e]
      BY <1>1, <2>3
    <3> HIDE DEF q, e
    <3>2. QED
      BY <2>1, <2>2, <3>1
  <2>4. CASE t # s
    <3>1. q[t] = m.section[t]
      BY <1>1, <2>4
    <3>2. QED
      BY <3>1
  <2>5. QED
    BY <2>3, <2>4
<1>4. Len(q) = Len(m.section)
  BY <1>1
<1> HIDE DEF q
<1>5. QED
  BY <1>2, <1>3, <1>4 DEF SameRanges
\* The new section of a step lies behind the active one, or is scratch.
NewRange ==
  LET n == Len(module.section) + 1
      s == active.section
  IN  /\ Len(module'.section) = n
      /\ module'.section[n].sizeAlign = 1
      /\ \/ module'.section[n].kind = "virtual"
         \/ /\ module.section[s].kind = "main" /\ stack' = stack
            /\ module.section[s].sizeAlign = 1 => Behind(module', s, n)

SameCount == Len(module'.section) = Len(module.section)

LEMMA EnterRanges ==
  ASSUME IInv, NEW k, NEW o, NEW fo,
         EnterNew(SyncedModule(module, active), NewSection(k, o, fo))
  PROVE  /\ SameRanges(module, module')
         /\ LET n == Len(module.section) + 1
            IN  /\ Len(module'.section) = n
                /\ module'.section[n] = NewSection(k, o, fo)
         /\ module'.fragment = SyncedModule(module, active).fragment
         /\ module'.watermark = SyncedModule(module, active).watermark
         /\ \A s \in 1 .. Len(module.section) :
              module'.section[s] = SyncedModule(module, active).section[s]
<1> DEFINE m == SyncedModule(module, active)
           x == NewSection(k, o, fo)
<1>1. /\ SameRanges(module, m) /\ Len(m.section) = Len(module.section)
      /\ ModuleOK(m)
  BY SyncedRanges, SyncedFacts DEF IInv, ActiveOK, Later
<1>2. module' = AddSection(m, x)
  BY DEF EnterNew
<1> HIDE DEF m, x
<1>3. /\ m.section \in Seq(SectionType) /\ ModuleType(m)
      /\ Len(m.section) \in Nat
  BY <1>1 DEF ModuleOK, WellFormed, ModuleType
<1>4. /\ module'.section = Append(m.section, x)
      /\ module'.fragment = m.fragment /\ module'.watermark = m.watermark
  BY <1>2, <1>3 DEF AddSection, ModuleType
<1>5. /\ Len(Append(m.section, x)) = Len(m.section) + 1
      /\ Append(m.section, x)[Len(m.section) + 1] = x
      /\ \A s \in 1 .. Len(m.section) : Append(m.section, x)[s] = m.section[s]
  BY <1>3
<1>6. QED
  BY <1>1, <1>4, <1>5 DEF SameRanges, m, x

LEMMA VirtualRange ==
  ASSUME IInv, NEW o, VirtualBegin(o)
  PROVE  SameRanges(module, module') /\ NewRange
<1>1. EnterNew(SyncedModule(module, active), NewSection("virtual", o, 0))
  BY DEF VirtualBegin
<1>2. QED
  BY <1>1, EnterRanges DEF NewRange, NewSection

(* output.org and output.section start behind everything that is there.    *)
LEMMA OutputRange ==
  ASSUME IInv, NEW o, OutputOrg(o) \/ OutputSection(o)
  PROVE  SameRanges(module, module') /\ NewRange
<1> DEFINE s  == active.section
           n  == Len(module.section) + 1
           m1 == ForOutputAccess(module)
           m  == SyncedModule(module, active)
           a  == SyncedActive(module, active)
           fo == module.section[s].fileOffset
           fs == FragmentsOf(m1, s)
<1>1. /\ module.section[s].kind = "main" /\ stack' = stack
      /\ \E z \in {a.offset, a.fileOffset} :
           EnterNew(m, NewSection("main", o, fo + z))
  BY DEF OutputOrg, OutputSection
<1>2. PICK z \in {a.offset, a.fileOffset} :
           EnterNew(m, NewSection("main", o, fo + z))
  BY <1>1
<1>3. /\ SameRanges(module, module') /\ Len(module'.section) = n
      /\ module'.section[n] = NewSection("main", o, fo + z)
      /\ module'.fragment = m.fragment /\ module'.watermark = m.watermark
      /\ \A t \in 1 .. Len(module.section) : module'.section[t] = m.section[t]
  BY <1>2, EnterRanges
<1>4. /\ ModuleOK(m1) /\ s \in 1 .. Len(m1.section)
      /\ m1.watermark = Len(m1.fragment) /\ m1.section = module.section
      /\ s \in 1 .. Len(module.section)
  BY ForOutputAccessLater, EncodeKeepsSections
     DEF IInv, ActiveOK, Later, SameSections
<1>5. m = FoldMemo(m1, s) /\ a = ActiveOn(m1, s, active.closed)
  BY DEF SyncedModule, SyncedActive
<1> HIDE DEF m1, s
<1>6. /\ m.fragment = m1.fragment /\ m.watermark = m1.watermark
      /\ m.section[s].frags = m1.section[s].frags
  BY <1>4, <1>5, FoldMemoLater DEF SameSections
<1>7. /\ SectionCursor(m1, s).offset = LogicalSize(fs)
      /\ SectionCursor(m1, s).fileOffset = FileSize(fs)
  BY <1>4, CursorIsSize
<1>8. AllSized(fs) /\ FileSize(fs) \in Nat /\ FileSize(fs) <= LogicalSize(fs)
        /\ LogicalSize(fs) \in Nat
  <2>1. AllSized(fs)
    BY <1>4, FragmentsOfSection DEF ModuleOK
  <2>2. FileSize(fs) \in Nat
    BY <2>1, FileSizeCovers
  <2> HIDE DEF fs
  <2>3. QED
    BY <2>1, <2>2, FileSizeBelow
<1>9. module.section[s].sizeAlign = 1 => z >= FileSize(fs) /\ z \in Nat
  <2> HIDE DEF fs, m
  <2>1. a.offset = LogicalSize(fs)
    BY <1>5, <1>7 DEF ActiveOn
  <2>2. a.fileOffset = AlignUp(FileSize(fs), module.section[s].sizeAlign)
    BY <1>4, <1>5, <1>7 DEF ActiveOn
  <2> HIDE DEF a
  <2>3. AlignUp(FileSize(fs), 1) = FileSize(fs)
    BY <1>8 DEF AlignUp
  <2>4. QED
    BY <1>2, <1>8, <2>1, <2>2, <2>3
<1>10. FragmentsOf(module', s) = fs
         /\ module'.section[s].frags = m1.section[s].frags
  BY <1>3, <1>4, <1>6 DEF FragmentsOf
<1>11. \A k \in 1 .. Len(m1.section[s].frags) :
         m1.section[s].frags[k] <= m1.watermark
  <2>1. \A k \in 1 .. Len(m1.section[s].frags) :
          m1.section[s].frags[k] \in 1 .. Len(m1.fragment)
    BY <1>4 DEF ModuleOK, WellFormed, SectionsOK, SectionOK
  <2>2. Len(m1.fragment) \in Nat
    BY <1>4 DEF ModuleOK, WellFormed, ModuleType
  <2>3. QED
    BY <1>4, <2>1, <2>2
<1>12. /\ fo \in Nat /\ module'.section[s].fileOffset = fo
       /\ module'.section[n].fileOffset = fo + z
       /\ module'.section[n].sizeAlign = 1
  BY <1>3, <1>4, SectionTypes DEF IInv, NewSection, SameRanges
<1> HIDE DEF fs, fo, n, m, a
<1>13. module.section[s].sizeAlign = 1 => Behind(module', s, n)
  <2>1. module.section[s].sizeAlign = 1 => fo + FileSize(fs) <= fo + z
    BY <1>8, <1>9, <1>12
  <2>2. QED
    BY <1>3, <1>6, <1>10, <1>11, <1>12, <2>1 DEF Behind
<1>14. QED
  BY <1>1, <1>3, <1>12, <1>13 DEF NewRange, n, s
LEMMA EmissionRanges ==
  ASSUME IInv, Emission
  PROVE  SameRanges(module, module') /\ SameCount
<1> DEFINE m == SyncedModule(module, active)
<1>1. /\ \A n \in {module, m} : /\ ModuleOK(n) /\ SameRanges(module, n)
                               /\ Len(n.section) = Len(module.section)
      /\ ModuleOK(module)
  BY SyncedRanges, SyncedFacts DEF IInv, ActiveOK, Later, SameRanges
<1>2. \E n \in {module, m} : \E a, f : AppendTo(n, a, f)
  <2>1. ASSUME NEW d \in Chunks, DataEmit(d)
        PROVE  \E a, f : AppendTo(module, a, f)
    BY <2>1 DEF DataEmit
  <2>2. ASSUME NEW n \in Sizes, ReserveSpace(n)
        PROVE  \E a, f : AppendTo(module, a, f)
    BY <2>2 DEF ReserveSpace
  <2>3. ASSUME NEW t \in Texts, IsaInstruction(t)
        PROVE  \E a, f : AppendTo(module, a, f)
    BY <2>3 DEF IsaInstruction
  <2>4. ASSUME NEW n \in Sizes, Pad(n)
        PROVE  \E a, f : AppendTo(m, a, f)
    BY <2>4 DEF Pad
  <2>5. ASSUME NEW n \in Sizes, PadTo(n)
        PROVE  \E a, f : AppendTo(m, a, f)
    BY <2>5 DEF PadTo
  <2>6. ASSUME NEW n \in Alignments, Align(n)
        PROVE  \E a, f : AppendTo(m, a, f)
    BY <2>6 DEF Align
  <2> HIDE DEF m
  <2>7. QED
    BY <2>1, <2>2, <2>3, <2>4, <2>5, <2>6 DEF Emission
<1>3. PICK n \in {module, m} : \E a, f : AppendTo(n, a, f)
  BY <1>2
<1> HIDE DEF m
<1>4. QED
  BY <1>1, <1>3, AppendRanges DEF SameCount

LEMMA QueryRanges ==
  ASSUME IInv, Query
  PROVE  SameRanges(module, module') /\ SameCount
<1>1. ModuleOK(module) /\ ModuleOK(ForOutputAccess(module))
  BY ForOutputAccessLater DEF IInv, Later
<1>2. ForOutputAccess(module).section = module.section
  BY <1>1, EncodeKeepsSections
<1>3. CASE ReadHere \/ FreezeBlock
  BY <1>3, SyncedRanges DEF ReadHere, FreezeBlock, SameCount
<1>4. CASE ReadOutput
  BY <1>2, <1>4 DEF ReadOutput, SameRanges, SameCount
<1>5. ASSUME NEW t \in StoreTargets(ForOutputAccess(module)), Store(t)
      PROVE  SameRanges(module, module') /\ SameCount
  <2>1. module' = StoreByte(ForOutputAccess(module), t[1], t[2], Stored)
    BY <1>5 DEF Store
  <2>2. module'.section = module.section
    BY <1>1, <1>2, <2>1, StoreKeepsSections
  <2>3. QED
    BY <2>2 DEF SameRanges, SameCount
<1>6. QED
  BY <1>3, <1>4, <1>5 DEF Query

LEMMA OriginRanges ==
  ASSUME IInv, NEW o, SetOrigin(o)
  PROVE  /\ SameRanges(module, module') /\ SameCount
         /\ \A s \in 1 .. Len(module.section) :
              module'.section[s].frags = module.section[s].frags
<1> DEFINE q == [module.section EXCEPT ![active.section].origin = o]
<1>1. module.section \in Seq(SectionType) /\ ModuleType(module)
  BY DEF IInv, ModuleOK, WellFormed, ModuleType
<1>2. module'.section = q
  BY <1>1 DEF SetOrigin, ModuleType
<1>3. ASSUME NEW t \in 1 .. Len(module.section)
      PROVE  /\ q[t].kind = module.section[t].kind
             /\ q[t].fileOffset = module.section[t].fileOffset
             /\ q[t].sizeAlign = module.section[t].sizeAlign
             /\ q[t].frags = module.section[t].frags
  <2>1. module.section[t] \in SectionType
    BY <1>1
  <2>2. \A y \in SectionType :
          /\ [y EXCEPT !.origin = o].kind = y.kind
          /\ [y EXCEPT !.origin = o].fileOffset = y.fileOffset
          /\ [y EXCEPT !.origin = o].sizeAlign = y.sizeAlign
          /\ [y EXCEPT !.origin = o].frags = y.frags
    BY DEF SectionType
  <2>3. q[t] \in {module.section[t], [module.section[t] EXCEPT !.origin = o]}
    BY <1>1
  <2> HIDE DEF q
  <2>4. QED
    BY <2>1, <2>2, <2>3
<1>4. Len(q) = Len(module.section)
  BY <1>1
<1> HIDE DEF q
<1>5. QED
  BY <1>2, <1>3, <1>4 DEF SameRanges, SameCount

(* Every step leaves the ranges where they are, or adds one behind.        *)
LEMMA RangesKept ==
  ASSUME IInv, ChainsOnly, callers = <<>>, Lower
  PROVE  SameRanges(module, module') /\ (SameCount \/ NewRange)
<1>1. CASE Emission
  BY <1>1, EmissionRanges
<1>2. CASE Query
  BY <1>2, QueryRanges
<1>3. CASE Regions
  <2>1. ASSUME NEW l \in Labels, DefineLabel(l)
        PROVE  module'.section = module.section
    BY <2>1 DEF DefineLabel, IInv, ModuleOK, WellFormed, ModuleType
  <2>2. ASSUME NEW o \in Origins, SetOrigin(o)
        PROVE  SameRanges(module, module') /\ SameCount
    BY <2>2, OriginRanges
  <2>3. ASSUME NEW n \in Alignments, FileAlign(n)
        PROVE  FALSE
    BY <2>3 DEF FileAlign, Called, ChainsOnly, Placing
  <2>4. ASSUME NEW o \in Origins, NEW fo \in FileOffsets, RegionBegin(o, fo)
        PROVE  FALSE
    BY <2>4 DEF RegionBegin, Called, ChainsOnly, Placing
  <2>5. ASSUME NEW o \in Origins, OutputOrg(o) \/ OutputSection(o)
        PROVE  SameRanges(module, module') /\ NewRange
    BY <2>5, OutputRange
  <2>6. ASSUME NEW o, VirtualBegin(o)
        PROVE  SameRanges(module, module') /\ NewRange
    BY <2>6, VirtualRange
  <2>7. CASE VirtualBeginHere
    BY <2>6, <2>7 DEF VirtualBeginHere
  <2>8. CASE VirtualEnd
    BY <2>8 DEF VirtualEnd, SameRanges, SameCount
  <2>9. ASSUME NEW l \in Labels, NEW o \in Origins, NEW fo \in FileOffsets,
               RegionPlace(l, o, fo)
        PROVE  FALSE
    BY <2>9 DEF RegionPlace, Called, ChainsOnly, Placing
  <2>10. module'.section = module.section =>
           SameRanges(module, module') /\ SameCount
    BY DEF SameRanges, SameCount
  <2>11. QED
    BY <1>3, <2>1, <2>2, <2>3, <2>4, <2>5, <2>6, <2>7, <2>8, <2>9, <2>10
       DEF Regions
<1>4. ~ Include /\ ~ EndIncluded /\ ~ BreakIncluded
  BY DEF Include, EndIncluded, BreakIncluded, Called, LateAllowed, ChainsOnly, Placing
<1>5. CASE EndSource \/ Refuse
  BY <1>5 DEF EndSource, Refuse, SameRanges, SameCount
<1>6. QED
  BY <1>1, <1>2, <1>3, <1>4, <1>5 DEF Lower, Call, Sources

LEMMA BehindTransitive ==
  ASSUME NEW m, ModuleOK(m), NEW r \in 1 .. Len(m.section),
         NEW s \in 1 .. Len(m.section), NEW t \in 1 .. Len(m.section),
         Behind(m, r, s), Behind(m, s, t)
  PROVE  Behind(m, r, t)
<1> DEFINE fo(x) == m.section[x].fileOffset
           fs(x) == FileSize(FragmentsOf(m, x))
<1>1. \A x \in {r, s, t} : fo(x) \in Nat /\ fs(x) \in Nat
  <2>1. ASSUME NEW x \in {r, s, t}
        PROVE  fo(x) \in Nat /\ fs(x) \in Nat
    <3>1. fo(x) \in Nat
      <4>1. m.section[x] \in SectionType
        BY DEF ModuleOK, WellFormed, ModuleType
      <4>2. \A y \in SectionType : y.fileOffset \in Nat
        BY DEF SectionType
      <4>3. QED
        BY <4>1, <4>2
    <3>2. AllSized(FragmentsOf(m, x))
      BY FragmentsOfSection DEF ModuleOK
    <3>3. fs(x) \in Nat
      BY <3>2, FileSizeCovers
    <3>4. QED
      BY <3>1, <3>3
  <2>2. QED
    BY <2>1
<1>2. fo(r) + fs(r) <= fo(s) /\ fo(s) + fs(s) <= fo(t)
  BY DEF Behind
<1> HIDE DEF fo, fs
<1>3. fo(r) + fs(r) <= fo(t)
  BY <1>1, <1>2
<1>4. QED
  BY <1>3 DEF Behind, fo, fs

(* A region entered behind the last one continues the chain.               *)
LEMMA ChainedEnters ==
  ASSUME IInv, Later(module, module'), SameRanges(module, module'), NewRange,
         Chained(module),
         \/ module'.section[Len(module.section) + 1].kind = "virtual"
         \/ OnTop(module, active),
         \A s \in 1 .. Len(module.section) :
           module'.section[s].frags = module.section[s].frags
  PROVE  Chained(module')
<1> DEFINE n == Len(module.section) + 1
           a == active.section
<1>1. /\ ModuleOK(module) /\ ModuleOK(module') /\ a \in 1 .. Len(module.section)
      /\ Len(module.section) \in Nat /\ Len(module'.section) = n
  BY DEF IInv, ActiveOK, Later, NewRange, ModuleOK, WellFormed, ModuleType
<1>2. /\ n \in 1 .. Len(module'.section)
      /\ \A s \in 1 .. n : s \in 1 .. Len(module.section) \/ s = n
      /\ \A s \in 1 .. Len(module.section) : s \in 1 .. Len(module'.section)
  BY <1>1
<1>3. \A s \in 1 .. Len(module'.section) : module'.section[s].sizeAlign = 1
  <2>1. module'.section[n].sizeAlign = 1
    BY DEF NewRange
  <2>2. \A s \in 1 .. Len(module.section) : module'.section[s].sizeAlign = 1
    BY DEF Chained, SameRanges
  <2>3. QED
    BY <1>1, <1>2, <2>1, <2>2
<1>4. ASSUME NEW s \in 1 .. Len(module.section),
             NEW t \in 1 .. Len(module.section), InOrder(module, s, t)
      PROVE  Behind(module', s, t)
  <2>1. Behind(module, s, t)
    BY <1>4 DEF Chained
  <2>2. module'.section[s].frags = module.section[s].frags
    OBVIOUS
  <2>3. QED
    BY <1>1, <2>1, <2>2, BehindKept
<1>5. ASSUME module'.section[n].kind = "main",
             NEW s \in 1 .. Len(module.section),
             module.section[s].kind = "main"
      PROVE  Behind(module', s, n)
  <2>1. /\ module.section[a].kind = "main" /\ Behind(module', a, n)
        /\ OnTop(module, active)
    BY <1>1, <1>5 DEF NewRange, Chained
  <2>2. ~ InOrder(module, a, s)
    BY <2>1 DEF OnTop
  <2>3. s = a \/ s < a
    BY <1>1, <1>5, <2>1, <2>2 DEF InOrder
  <2>4. CASE s < a
    <3>1. InOrder(module, s, a)
      BY <1>5, <2>1, <2>4 DEF InOrder
    <3>2. Behind(module', s, a)
      BY <1>1, <1>4, <3>1
    <3> HIDE DEF n, a
    <3>3. QED
      BY <1>1, <1>2, <2>1, <3>2, BehindTransitive
  <2>5. QED
    BY <2>1, <2>3, <2>4
<1>6. ASSUME NEW s \in 1 .. Len(module'.section),
             NEW t \in 1 .. Len(module'.section), InOrder(module', s, t)
      PROVE  Behind(module', s, t)
  <2>1. s < t /\ module'.section[s].kind = "main"
          /\ module'.section[t].kind = "main"
    BY <1>6 DEF InOrder
  <2>2. s \in 1 .. Len(module.section)
    BY <1>1, <2>1
  <2>3. module.section[s].kind = "main"
    BY <2>1, <2>2 DEF SameRanges
  <2>4. CASE t = n
    BY <1>5, <2>1, <2>2, <2>3, <2>4
  <2>5. CASE t \in 1 .. Len(module.section)
    <3>1. InOrder(module, s, t)
      BY <2>1, <2>3, <2>5 DEF SameRanges, InOrder
    <3>2. QED
      BY <1>4, <2>2, <2>5, <3>1
  <2>6. QED
    BY <1>1, <1>2, <2>4, <2>5
<1>7. QED
  BY <1>3, <1>6 DEF Chained

(* Late blocks append to no region of the file.                            *)
LEMMA LateKeepsLists ==
  ASSUME IInv, ChainsOnly, phase = "late", Lower
  PROVE  \A s \in 1 .. Len(module.section) :
           module'.section[s].frags = module.section[s].frags
<1>1. ~ Emission
  BY DEF Emission, DataEmit, ReserveSpace, IsaInstruction, Pad, PadTo, Align,
         Called, LateAllowed, ChainsOnly, LateOutput
<1>2. CASE Query
  BY <1>2, QueryForm DEF Looks, SameSections
<1>3. CASE Regions
  <2>1. ASSUME NEW l \in Labels, DefineLabel(l)
        PROVE  FALSE
    BY <2>1 DEF DefineLabel, Called, LateAllowed
  <2>2. ASSUME NEW o \in Origins, SetOrigin(o)
        PROVE  \A s \in 1 .. Len(module.section) :
                 module'.section[s].frags = module.section[s].frags
    BY <2>2, OriginRanges
  <2>3. ASSUME NEW n \in Alignments, FileAlign(n)
        PROVE  FALSE
    BY <2>3 DEF FileAlign, Called, ChainsOnly, Placing
  <2>4. ASSUME NEW o \in Origins, NEW fo \in FileOffsets, RegionBegin(o, fo)
        PROVE  FALSE
    BY <2>4 DEF RegionBegin, Called, ChainsOnly, Placing
  <2>5. ASSUME NEW o \in Origins, OutputOrg(o) \/ OutputSection(o)
        PROVE  FALSE
    BY <2>5
       DEF OutputOrg, OutputSection, Called, ChainsOnly, LateOutput
  <2>6. ASSUME NEW o, VirtualBegin(o)
        PROVE  \A s \in 1 .. Len(module.section) :
                 module'.section[s].frags = module.section[s].frags
    <3>1. \A s \in 1 .. Len(module.section) :
            module'.section[s] = SyncedModule(module, active).section[s]
      <4>1. EnterNew(SyncedModule(module, active), NewSection("virtual", o, 0))
        BY <2>6 DEF VirtualBegin
      <4>2. QED
        BY <4>1, EnterRanges
    <3>2. SameSections(module, SyncedModule(module, active))
      BY SyncedFacts DEF IInv, ActiveOK
    <3>3. QED
      BY <3>1, <3>2 DEF SameSections
  <2>7. CASE VirtualBeginHere
    BY <2>6, <2>7 DEF VirtualBeginHere
  <2>8. CASE VirtualEnd
    BY <2>8 DEF VirtualEnd
  <2>9. ASSUME NEW l \in Labels, NEW o \in Origins, NEW fo \in FileOffsets,
               RegionPlace(l, o, fo)
        PROVE  FALSE
    BY <2>9 DEF RegionPlace, Called, ChainsOnly, Placing
  <2>10. QED
    BY <1>3, <2>1, <2>2, <2>3, <2>4, <2>5, <2>6, <2>7, <2>8, <2>9
       DEF Regions
<1>4. CASE Sources
  BY <1>4
     DEF Sources, Include, EndIncluded, BreakIncluded, EndSource, Called, ChainsOnly, Placing
<1>5. CASE Refuse
  BY <1>5 DEF Refuse
<1>6. QED
  BY <1>1, <1>2, <1>3, <1>4, <1>5 DEF Lower, Call

(* The only region a late block opens here is scratch.                     *)
LEMMA LateScratch ==
  ASSUME IInv, ChainsOnly, callers = <<>>, phase = "late", Lower,
         ~ SameCount
  PROVE  module'.section[Len(module.section) + 1].kind = "virtual"
<1>1. ~ Emission /\ ~ Query
  BY EmissionRanges, QueryRanges
<1>2. ASSUME NEW o, VirtualBegin(o)
      PROVE  module'.section[Len(module.section) + 1].kind = "virtual"
  <2>1. EnterNew(SyncedModule(module, active), NewSection("virtual", o, 0))
    BY <1>2 DEF VirtualBegin
  <2>2. QED
    BY <2>1, EnterRanges DEF NewSection
<1>3. CASE Regions
  <2>1. ASSUME NEW l \in Labels, DefineLabel(l)
        PROVE  FALSE
    BY <2>1 DEF DefineLabel, Called, LateAllowed
  <2>2. ASSUME NEW o \in Origins, SetOrigin(o)
        PROVE  FALSE
    BY <2>2, OriginRanges
  <2>3. ASSUME NEW n \in Alignments, FileAlign(n)
        PROVE  FALSE
    BY <2>3 DEF FileAlign, Called, ChainsOnly, Placing
  <2>4. ASSUME NEW o \in Origins, NEW fo \in FileOffsets, RegionBegin(o, fo)
        PROVE  FALSE
    BY <2>4 DEF RegionBegin, Called, ChainsOnly, Placing
  <2>5. ASSUME NEW o \in Origins, OutputOrg(o) \/ OutputSection(o)
        PROVE  FALSE
    BY <2>5 DEF OutputOrg, OutputSection, Called, ChainsOnly, LateOutput
  <2>6. CASE VirtualEnd
    BY <2>6 DEF VirtualEnd, SameCount
  <2>7. ASSUME NEW l \in Labels, NEW o \in Origins, NEW fo \in FileOffsets,
               RegionPlace(l, o, fo)
        PROVE  FALSE
    BY <2>7 DEF RegionPlace, Called, ChainsOnly, Placing
  <2>8. QED
    BY <1>2, <1>3, <2>1, <2>2, <2>3, <2>4, <2>5, <2>6, <2>7
       DEF Regions, VirtualBeginHere
<1>4. ~ Sources /\ ~ Refuse
  BY DEF Sources, Include, EndIncluded, BreakIncluded, EndSource, Refuse, Called, ChainsOnly,
         Placing, SameCount
<1>5. QED
  BY <1>1, <1>3, <1>4 DEF Lower, Call

ChainInv ==
  /\ callers = <<>>
  /\ Chained(module)
  /\ phase = "lower" =>
       /\ Apart
       /\ OnTop(module, active)
       /\ \A i \in 1 .. Len(stack) : OnTop(module, stack[i])

LEMMA OnTopKept ==
  ASSUME SameRanges(module, module'), NEW a, NEW b,
         a.section \in 1 .. Len(module.section), b.section = a.section,
         OnTop(module, a),
         \/ SameCount
         \/ /\ NewRange
            /\ \/ module'.section[Len(module.section) + 1].kind = "virtual"
               \/ module.section[a.section].kind = "virtual"
  PROVE  OnTop(module', b)
<1>1. \A s \in 1 .. Len(module.section) :
        module'.section[s].kind = module.section[s].kind
  BY DEF SameRanges
<1>2. CASE SameCount
  BY <1>1, <1>2 DEF OnTop, InOrder, SameCount
<1>3. CASE /\ NewRange
           /\ module'.section[Len(module.section) + 1].kind = "virtual"
  <2>1. ASSUME module'.section[b.section].kind = "main",
               NEW t \in 1 .. Len(module'.section)
        PROVE  ~ InOrder(module', b.section, t)
    <3>1. t \in 1 .. Len(module.section) \/ t = Len(module.section) + 1
      BY <1>3 DEF NewRange
    <3>2. CASE t \in 1 .. Len(module.section)
      BY <1>1, <2>1, <3>2 DEF OnTop, InOrder
    <3>3. CASE t = Len(module.section) + 1
      BY <1>3, <3>3 DEF InOrder
    <3>4. QED
      BY <3>1, <3>2, <3>3
  <2>2. QED
    BY <2>1 DEF OnTop
<1>4. CASE module.section[a.section].kind = "virtual"
  BY <1>1, <1>4 DEF OnTop
<1>5. QED
  BY <1>2, <1>3, <1>4

(* Two distinct places cannot both be in the last region of the file.      *)
LEMMA OneOnTop ==
  ASSUME NEW m, ModuleOK(m), NEW a, NEW b,
         a.section \in 1 .. Len(m.section), b.section \in 1 .. Len(m.section),
         a.section # b.section, OnTop(m, a), OnTop(m, b),
         m.section[a.section].kind = "main"
  PROVE  m.section[b.section].kind = "virtual"
<1>1. m.section[b.section].kind \in {"main", "virtual"}
  <2>1. m.section[b.section] \in SectionType
    BY DEF ModuleOK, WellFormed, ModuleType
  <2>2. \A y \in SectionType : y.kind \in {"main", "virtual"}
    BY DEF SectionType
  <2>3. QED
    BY <2>1, <2>2
<1>2. a.section < b.section \/ b.section < a.section
  BY DEF ModuleOK, WellFormed, ModuleType
<1>3. QED
  BY <1>1, <1>2 DEF OnTop, InOrder

(* What the places are after a step of the source.                         *)
LEMMA PlacesOnTop ==
  ASSUME IInv, ChainsOnly, ChainInv, phase = "lower", Lower, phase' = "lower"
  PROVE  /\ Apart'
         /\ OnTop(module', active')
         /\ \A i \in 1 .. Len(stack') : OnTop(module', stack'[i])
<1>1. Looks \/ Appends \/ Enters \/ Closes \/ Leaves
  <2>1. [Next]_vars
    BY DEF Lower, Next
  <2>2. ~ Moves
    BY DEF Moves, ChainsOnly, Placing, ChainInv
  <2>3. QED
    BY <2>1, <2>2, StepForm DEF Forms
<1>2. SameRanges(module, module') /\ (SameCount \/ NewRange)
  BY RangesKept DEF ChainInv
<1>3. /\ ModuleOK(module) /\ active.section \in 1 .. Len(module.section)
      /\ \A i \in 1 .. Len(stack) :
           stack[i].section \in 1 .. Len(module.section)
      /\ Len(module.section) \in Nat
  BY DEF IInv, ActiveOK, ModuleOK, WellFormed, ModuleType
<1>4. /\ Apart /\ OnTop(module, active)
      /\ \A i \in 1 .. Len(stack) : OnTop(module, stack[i])
  BY DEF ChainInv
<1>5. Apart'
  BY <1>1, <1>4, ApartKept
<1>6. CASE Looks \/ Appends \/ Closes
  <2>1. /\ stack' = stack /\ active'.section = active.section
        /\ Len(module'.section) = Len(module.section)
    BY <1>6 DEF Looks, Appends, Closes, SamePlace, SameSections
  <2>2. SameCount
    BY <2>1 DEF SameCount
  <2>3. OnTop(module', active')
    BY <1>2, <1>3, <1>4, <2>1, <2>2, OnTopKept
  <2>4. \A i \in 1 .. Len(stack) : OnTop(module', stack[i])
    BY <1>2, <1>3, <1>4, <2>2, OnTopKept
  <2>5. QED
    BY <1>5, <2>1, <2>3, <2>4
<1>7. CASE Leaves
  <2>1. module' = module /\ active' = stack[Len(stack)]
    BY <1>7 DEF Leaves
  <2>2. /\ Len(stack) \in 1 .. Len(stack)
        /\ \A i \in 1 .. Len(stack') : /\ i \in 1 .. Len(stack)
                                       /\ stack'[i] = stack[i]
    BY <1>7, Popped
  <2>3. QED
    BY <1>4, <1>5, <2>1, <2>2
<1>8. CASE Enters
  <2> DEFINE n == Len(module.section) + 1
  <2>1. /\ Len(module'.section) = n /\ active'.section = n
        /\ NewRange
    BY <1>2, <1>3, <1>8 DEF Enters, ActiveOnNew, SameCount
  <2>2. OnTop(module', active')
    BY <1>3, <2>1 DEF OnTop, InOrder
  <2>3. CASE module'.section[n].kind = "virtual"
    <3>1. \A i \in 1 .. Len(stack) : OnTop(module', stack[i])
      BY <1>2, <1>3, <1>4, <2>1, <2>3, OnTopKept
    <3>2. \A a : a.section = active.section => OnTop(module', a)
      BY <1>2, <1>3, <1>4, <2>1, <2>3, OnTopKept
    <3>3. CASE stack' = stack
      BY <1>5, <2>2, <3>1, <3>3
    <3>4. CASE stack' # stack
      <4>1. PICK a \in ActiveType : /\ a.section = active.section
                                    /\ stack' = Append(stack, a)
        BY <1>8, <3>4 DEF Enters
      <4>2. \A i \in 1 .. Len(stack') :
              \/ i \in 1 .. Len(stack) /\ stack'[i] = stack[i]
              \/ stack'[i] = a
        BY <4>1, Pushed
      <4>3. \A i \in 1 .. Len(stack') : OnTop(module', stack'[i])
        BY <3>1, <3>2, <4>1, <4>2
      <4>4. QED
        BY <1>5, <2>2, <4>3
    <3>5. QED
      BY <3>3, <3>4
  <2>4. CASE module'.section[n].kind # "virtual"
    <3>1. module.section[active.section].kind = "main" /\ stack' = stack
      BY <2>1, <2>4 DEF NewRange
    <3>2. ASSUME NEW i \in 1 .. Len(stack)
          PROVE  OnTop(module', stack[i])
      <4>1. stack[i].section # active.section
        BY <1>4 DEF Apart
      <4>2. module.section[stack[i].section].kind = "virtual"
        BY <1>3, <1>4, <3>1, <4>1, OneOnTop
      <4>3. QED
        BY <1>2, <1>3, <1>4, <2>1, <4>2, OnTopKept
    <3>3. QED
      BY <1>5, <2>2, <3>1, <3>2
  <2>5. QED
    BY <2>3, <2>4
<1>9. QED
  BY <1>1, <1>6, <1>7, <1>8

LEMMA ChainInvKept ==
  ASSUME AInv, ChainsOnly, ChainInv, [AssemblyNext]_assemblyVars
  PROVE  ChainInv'
<1>1. IInv /\ ModuleOK(module)
  BY DEF AInv, IInv
<1>2. CASE Lower
  <2>1. [Next]_vars
    BY <1>2 DEF Lower, Next
  <2>2. Forms /\ Later(module, module')
    BY <1>1, <2>1, StepForm, IInvKept DEF Continues
  <2>3. SameRanges(module, module') /\ (SameCount \/ NewRange)
    BY <1>1, <1>2, RangesKept, SMTT(30) DEF ChainInv
  <2>4. phase \in {"lower", "late"}
    BY <1>2 DEF Lower, Call, Emission, Query, Regions, Sources, Refuse, Called,
         DataEmit, ReserveSpace, IsaInstruction, Pad, PadTo, Align, ReadHere,
         FreezeBlock, ReadOutput, Store, DefineLabel, SetOrigin, FileAlign,
         RegionBegin, OutputOrg, OutputSection, VirtualBegin,
         VirtualBeginHere, VirtualEnd, RegionPlace, Include, EndIncluded,
         BreakIncluded, EndSource, RefusedInClosedRegion, RefusedArgument, RefusedLabel,
         RefusedInVirtualOutput, RefusedNesting
  <2>5. callers' = <<>>
    <3>1. ~ Include /\ ~ EndIncluded /\ ~ BreakIncluded
      BY DEF Include, EndIncluded, BreakIncluded, Called, LateAllowed, ChainsOnly, Placing,
             ChainInv
    <3>2. CASE EndSource \/ Refuse
      BY <3>2 DEF EndSource, Refuse, ChainInv
    <3>3. CASE Emission \/ Query
      BY <1>1, <3>3, EmissionForm, QueryForm DEF Appends, Looks, ChainInv
    <3>4. CASE Regions
      BY <3>4
         DEF Regions, DefineLabel, SetOrigin, FileAlign, RegionBegin,
             OutputOrg, OutputSection, VirtualBegin, VirtualBeginHere,
             VirtualEnd, RegionPlace, EnterNew, ChainInv
    <3>5. QED
      BY <1>2, <3>1, <3>2, <3>3, <3>4 DEF Lower, Call, Sources
  <2>6. CASE phase = "lower"
    <3>1. phase' = "lower" =>
            /\ Apart'
            /\ OnTop(module', active')
            /\ \A i \in 1 .. Len(stack') : OnTop(module', stack'[i])
      BY <1>1, <1>2, <2>6, PlacesOnTop
    <3>2. Chained(module')
      <4>1. CASE SameCount
        <5>1. ~ Moves /\ ~ Enters
          <6>1. ~ Moves
            BY <2>6 DEF Moves, ChainsOnly, Placing, ChainInv
          <6>2. Len(module.section) \in Nat
            BY <1>1 DEF ModuleOK, WellFormed, ModuleType
          <6>3. QED
            BY <4>1, <6>1, <6>2 DEF Enters, SameCount
        <5>2. \A s \in 1 .. Len(module.section) :
                s # active.section =>
                  module'.section[s].frags = module.section[s].frags
          BY <2>2, <5>1
             DEF Forms, Looks, SameSections, Appends, Closes, Leaves
        <5>3. ASSUME NEW s \in 1 .. Len(module.section),
                     NEW t \in 1 .. Len(module.section),
                     InOrder(module, s, t)
              PROVE  module'.section[s].frags = module.section[s].frags
          <6>1. s # active.section
            BY <2>6, <5>3 DEF ChainInv, OnTop, InOrder
          <6>2. QED
            BY <5>2, <6>1
        <5>4. QED
          BY <1>1, <2>2, <2>3, <4>1, <5>3, ChainedLater
             DEF SameCount, ChainInv
      <4>2. CASE NewRange
        <5>1. Len(module'.section) # Len(module.section)
          BY <1>1, <4>2 DEF NewRange, ModuleOK, WellFormed, ModuleType
        <5>2. Enters
          BY <2>2, <2>6, <5>1
             DEF Forms, Looks, SameSections, Appends, Closes, Leaves, Moves,
                 ChainsOnly, Placing, ChainInv
        <5>3. QED
          BY <1>1, <2>2, <2>3, <2>6, <4>2, <5>2, ChainedEnters
             DEF Enters, ChainInv
      <4>3. QED
        BY <2>3, <4>1, <4>2
    <3>3. QED
      BY <2>5, <3>1, <3>2 DEF ChainInv
  <2>7. CASE phase = "late"
    <3>1. \A s \in 1 .. Len(module.section) :
            module'.section[s].frags = module.section[s].frags
      BY <1>1, <1>2, <2>7, LateKeepsLists
    <3>2. phase' # "lower"
      BY <2>2, <2>7
         DEF Forms, Looks, Proceeds, Appends, Enters, Closes, Leaves, Moves
    <3>3. CASE SameCount
      BY <1>1, <2>2, <2>3, <2>5, <3>1, <3>2, <3>3, ChainedLater
         DEF SameCount, ChainInv
    <3>4. CASE NewRange /\ ~ SameCount
      <4>1. module'.section[Len(module.section) + 1].kind = "virtual"
        BY <1>1, <1>2, <2>7, <3>4, LateScratch DEF ChainInv
      <4>2. QED
        BY <1>1, <2>2, <2>3, <2>5, <3>1, <3>2, <3>4, <4>1, ChainedEnters
           DEF ChainInv
    <3>5. QED
      BY <2>3, <3>3, <3>4
  <2>8. QED
    BY <2>4, <2>6, <2>7
<1>3. CASE EncodeAll
  <2> DEFINE m == EncodeFrom(module, 0)
  <2>1. /\ 0 \in 0 .. module.watermark
        /\ DefaultSection \in 1 .. Len(module.section)
    BY <1>1 DEF IInv, ActiveOK, ModuleOK, WellFormed, ModuleType,
                DefaultSection
  <2>2. Later(module, m) /\ ModuleOK(m) /\ m.section = module.section
    BY <1>1, <2>1, EncodeFromLater, EncodeKeepsSections DEF Later
  <2>3. /\ module' = FoldMemo(m, DefaultSection) /\ callers' = callers
        /\ phase' = "late"
    BY <1>3 DEF EncodeAll
  <2> HIDE DEF m
  <2>4. /\ Later(m, module') /\ SameSections(m, module')
        /\ SameRanges(m, module')
    BY <2>1, <2>2, <2>3, FoldMemoLater DEF SameRanges, SameSections
  <2>5. Later(module, module')
    BY <1>1, <2>2, <2>4, LaterTransitive
  <2>6. Chained(module')
    BY <1>1, <2>2, <2>4, <2>5, ChainedLater
       DEF ChainInv, SameSections, SameRanges
  <2>7. QED
    BY <2>3, <2>6 DEF ChainInv
<1>4. CASE \/ EndLateLayout \/ ResolveFixups \/ WriteOutput \/ PatchFixups
           \/ Deliver
  <2>1. module' = module /\ callers' = callers /\ phase' # "lower"
    BY <1>4 DEF EndLateLayout, ResolveFixups, WriteOutput, PatchFixups, Deliver
  <2>2. QED
    BY <2>1 DEF ChainInv
<1>5. CASE UNCHANGED assemblyVars
  BY <1>5 DEF assemblyVars, vars, ChainInv, Apart
<1>6. QED
  BY <1>2, <1>3, <1>4, <1>5 DEF AssemblyNext, Pipeline, Ended

(* api.zig: output.org and output.section begin a region behind everything *)
(* the one before it can ever hold, instructions that are not encoded yet  *)
(* included, so no two regions share a byte of the file.  Proved for       *)
(* sources that use no call that chooses a file offset itself or returns   *)
(* to an earlier region, and late blocks that append nothing to one.       *)
THEOREM ChainedRegions ==
  ASSUME ChainsOnly
  PROVE  AssemblySpec => []ChainedRegionsAreDisjoint
<1>1. AssemblyInit => ChainInv
  <2> SUFFICES ASSUME AssemblyInit PROVE ChainInv
    OBVIOUS
  <2>1. /\ module.section = <<NewSection("main", 0, 0)>>
        /\ stack = <<>> /\ callers = <<>>
        /\ active = ActiveOnNew(DefaultSection)
    BY DEF AssemblyInit, Init, EmptyModule
  <2>2. /\ Len(module.section) = 1
        /\ module.section[1] = NewSection("main", 0, 0)
    BY <2>1
  <2>3. Chained(module)
    BY <2>2 DEF Chained, InOrder, NewSection
  <2>4. Apart /\ OnTop(module, active)
    <3>1. active.section = 1 /\ Len(stack) = 0
      BY <2>1 DEF ActiveOnNew, DefaultSection
    <3>2. QED
      BY <2>2, <3>1 DEF Apart, OnTop, InOrder
  <2>5. QED
    BY <2>1, <2>3, <2>4 DEF ChainInv
<1>2. AInv /\ ChainInv /\ [AssemblyNext]_assemblyVars => ChainInv'
  BY ChainInvKept
<1>3. AInv /\ ChainInv => ChainedRegionsAreDisjoint
  BY ChainedIsDisjoint DEF AInv, IInv, ChainInv, ChainedRegionsAreDisjoint
<1>4. QED
  BY <1>1, <1>2, <1>3, AssemblyInvariance, PTL DEF AssemblySpec
=============================================================================
