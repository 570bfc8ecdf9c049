--------------------------- MODULE Lowering_proofs ---------------------------
(***************************************************************************)
(* Theorems about the lowering machine, for every value of its constants:  *)
(* its types and ids (Typing), the cursor memo (MemoCorrect), the layout a *)
(* cursor stands for (CursorsLaidOut, SavedCursors), the sizes below the   *)
(* watermark (SizesFinal), the fixup store (FixupsMatch), and the closed   *)
(* flag of the sources that neither include nor place a region             *)
(* (ClosedStays).                                                          *)
(*                                                                         *)
(* The inductive invariant is IInv: the module is ModuleOK and every       *)
(* cursor stands on a section of it.  Nothing in it depends on the phase,  *)
(* so the step lemmas serve the late blocks of Assembly too.               *)
(***************************************************************************)
EXTENDS Module_proofs

-----------------------------------------------------------------------------
(* The inductive invariant.                                                *)

ActiveOK(m, a) == a \in ActiveType /\ a.section \in 1 .. Len(m.section)

\* The stages of the lowering machine alone, without Assembly's.
Running == {"lower", "lowered", "failed"}

IInv ==
  /\ ModuleOK(module)
  /\ ActiveOK(module, active)
  /\ stack \in Seq(ActiveType)
  /\ \A i \in 1 .. Len(stack) : ActiveOK(module, stack[i])
  /\ callers \in Seq(ActiveType)
  /\ \A i \in 1 .. Len(callers) : ActiveOK(module, callers[i])
  /\ phase \in Phases

(* The forms a step can have.  Every action has one of them, whatever it   *)
(* does to the module on the way.                                          *)

\* A cursor that cannot become stale: it stands at the end of its section,
\* and everything there has its size.
SavedOK(m, a) ==
  /\ \A k \in 1 .. Len(m.section[a.section].frags) :
       m.section[a.section].frags[k] <= m.watermark
  /\ a.offset = LogicalSize(FragmentsOf(m, a.section))

\* The cursor may move, but the section and its openness stay.
SamePlace ==
  /\ active' \in ActiveType
  /\ active'.section = active.section
  /\ active'.closed = active.closed

\* The module becomes a later one; labels are defined in the source only.
Continues ==
  /\ Later(module, module')
  /\ phase # "lower" => NoNewLabels(module, module')

\* A source may end, and an assembly may be refused.
Proceeds ==
  \/ phase' \in {phase, "failed"}
  \/ phase = "lower" /\ phase' = "lowered"

\* Nothing is appended anywhere.
Looks ==
  /\ Continues /\ SameSections(module, module')
  /\ SamePlace /\ UNCHANGED <<stack, callers>>
  /\ Proceeds

\* Something may be appended to the active section, which is open.
Appends ==
  /\ Continues /\ ~active.closed
  /\ Len(module'.section) = Len(module.section)
  /\ \A s \in 1 .. Len(module.section) :
       /\ module'.section[s].closed = module.section[s].closed
       /\ s # active.section =>
            module'.section[s].frags = module.section[s].frags
  /\ SamePlace /\ UNCHANGED <<stack, callers, phase>>

\* A new section becomes the active one; the old place may be saved.
Enters ==
  /\ Continues
  /\ Len(module'.section) = Len(module.section) + 1
  /\ ~module'.section[Len(module.section) + 1].closed
  /\ \A s \in 1 .. Len(module.section) :
       /\ module'.section[s].frags = module.section[s].frags
       /\ module'.section[s].closed = module.section[s].closed
  /\ active' = ActiveOnNew(Len(module.section) + 1)
  /\ \/ stack' = stack
     \/ \E a \in ActiveType :
          /\ a.section = active.section /\ a.closed = active.closed
          /\ SavedOK(module', a)
          /\ stack' = Append(stack, a)
  /\ UNCHANGED <<callers, phase>>

\* The active section is closed, and the cursor with it.
Closes ==
  /\ Continues
  /\ Len(module'.section) = Len(module.section)
  /\ \A s \in 1 .. Len(module.section) :
       /\ module'.section[s].frags = module.section[s].frags
       /\ module'.section[s].closed =
            IF s = active.section THEN TRUE ELSE module.section[s].closed
  /\ active' \in ActiveType
  /\ active'.section = active.section /\ active'.closed
  /\ UNCHANGED <<stack, callers, phase>>

\* The place saved last becomes the active one.
Leaves ==
  /\ stack # <<>>
  /\ active' = stack[Len(stack)]
  /\ stack' = SubSeq(stack, 1, Len(stack) - 1)
  /\ UNCHANGED <<module, callers, phase>>

\* Some other section becomes the active one: sources and region.place.
Moves ==
  /\ \/ "include" \in Ops \/ "region.place" \in Ops \/ callers # <<>>
     \/ phase = "late"
  /\ stack' = <<>> \/ "region.place" \in Ops \/ phase = "late"
  /\ stack' = <<>> \/ stack' = stack
  /\ Continues
  /\ ActiveOK(module', active')
  /\ callers' \in Seq(ActiveType)
  /\ \A i \in 1 .. Len(callers') : ActiveOK(module, callers'[i])
  /\ UNCHANGED phase

Forms == Looks \/ Appends \/ Enters \/ Closes \/ Leaves \/ Moves

LEMMA StartOK == Init => IInv
<1> SUFFICES ASSUME Init PROVE IInv
  OBVIOUS
<1> DEFINE x == NewSection("main", 0, 0)
           a == ActiveOnNew(DefaultSection)
<1>1. /\ module.section = <<x>> /\ module.fragment = <<>>
      /\ module.label = [l \in Labels |-> Undefined]
      /\ module.watermark = 0 /\ module.fixup = EmptyBag
      /\ module = [section |-> <<x>>, fragment |-> <<>>,
                   label |-> [l \in Labels |-> Undefined],
                   fixup |-> EmptyBag, watermark |-> 0]
  BY DEF Init, EmptyModule
<1>2. /\ x \in SectionType /\ x.frags = <<>> /\ x.folded = 0
      /\ x.memo = StartOfRegion
  BY NewSectionType
<1>3. a \in ActiveType /\ a.section = 1
  BY DEF ActiveOnNew, ActiveType, DefaultSection
<1>4. active = a /\ stack = <<>> /\ callers = <<>> /\ phase = "lower"
  BY DEF Init
<1> HIDE DEF x, a
<1>5. /\ <<x>> \in Seq(SectionType) /\ Len(<<x>>) = 1 /\ <<x>>[1] = x
      /\ 1 .. 1 = {1}
  BY <1>2
<1>6. [l \in Labels |-> Undefined] \in [Labels -> LabelType]
  BY DEF Undefined, LabelType
<1>7. ModuleType(module)
  <2>1. Len(module.fragment) = 0 /\ module.fragment \in Seq(FragmentType)
    BY <1>1
  <2>2. module \in [section : Seq(SectionType), fragment : Seq(FragmentType),
                    label : [Labels -> LabelType], fixup : {module.fixup},
                    watermark : Nat]
    BY <1>1, <1>5, <1>6
  <2>3. QED
    BY <1>1, <2>1, <2>2 DEF ModuleType
<1>8. \A s \in 1 .. Len(module.section) :
        s = 1 /\ module.section[s] = x
  BY <1>1, <1>5
<1>9. WellFormed(module)
  <2>1. FragmentsOK(module)
    BY <1>1 DEF FragmentsOK
  <2>2. SectionsOK(module)
    BY <1>2, <1>8 DEF SectionsOK, SectionOK
  <2>3. LabelsOK(module)
    BY <1>1 DEF LabelsOK, AnchorOK
  <2>4. QED
    BY <1>7, <2>1, <2>2, <2>3 DEF WellFormed
<1>10. MemoOK(module)
  <2>1. ASSUME NEW s \in 1 .. Len(module.section)
        PROVE  MemoAt(module, s)
    <3>1. module.section[s] = x
      BY <1>8
    <3>2. AllSized(FragmentsOf(module, s))
      BY <1>9, FragmentsOfSection
    <3>3. 0 \in 0 .. Len(FragmentsOf(module, s))
      BY <3>2 DEF AllSized
    <3>4. Walk(FragmentsOf(module, s), 0, StartOfRegion)[0] = StartOfRegion
      BY <3>2, <3>3, StartIsCursor, WalkDef
    <3>5. QED
      BY <1>2, <3>1, <3>4 DEF MemoAt
  <2>2. QED
    BY <2>1 DEF MemoOK
<1>11. StoresOK(module)
  <2>1. HomesOK(module)
    BY <1>1, <1>2, <1>8 DEF HomesOK
  <2>2. DOMAIN module.fixup = {}
    BY <1>1 DEF EmptyBag, SetToBag
  <2>3. QED
    BY <1>1, <2>1, <2>2 DEF StoresOK, Settled, FixupsOK
<1>12. QED
  BY <1>1, <1>3, <1>4, <1>5, <1>9, <1>10, <1>11
     DEF IInv, ModuleOK, ActiveOK, Phases

-----------------------------------------------------------------------------
(* Which form each action has.                                             *)

LEMMA AppendToForm ==
  ASSUME IInv, NEW m, Later(module, m), SameSections(module, m),
         NoNewLabels(module, m), NEW a \in ActiveType,
         a.section = active.section, a.closed = active.closed,
         ~active.closed,
         NEW f \in FragmentType, Fresh(f), f.section = active.section,
         AppendTo(m, a, f)
  PROVE  Appends
<1> DEFINE m2 == AddFragment(m, f)
<1>1. module' = m2 /\ active' = Advanced(a, f)
        /\ UNCHANGED <<stack, callers, phase>>
  BY DEF AppendTo
<1>2. ModuleOK(m) /\ ModuleOK(module) /\ f.section \in 1 .. Len(m.section)
  BY DEF IInv, ActiveOK, Later, SameSections
<1>3. /\ Later(m, m2) /\ NoNewLabels(m, m2)
      /\ Len(m2.section) = Len(m.section)
      /\ \A t \in 1 .. Len(m.section) :
           /\ m2.section[t].closed = m.section[t].closed
           /\ t # f.section => m2.section[t].frags = m.section[t].frags
  BY <1>2, AddFragmentLater
<1> HIDE DEF m2
<1>4. Later(module, m2) /\ NoNewLabels(module, m2)
  BY <1>2, <1>3, LaterTransitive
<1>5. SamePlace
  <2>1. Sized(f)
    BY DEF Fresh, FragmentOK
  <2>2. QED
    BY <1>1, <2>1, AdvancedType DEF SamePlace
<1>6. QED
  BY <1>1, <1>3, <1>4, <1>5 DEF Appends, Continues, SameSections

LEMMA SyncedAppendForm ==
  ASSUME IInv, ~active.closed,
         NEW f \in FragmentType, Fresh(f), f.section = active.section,
         AppendTo(SyncedModule(module, active), SyncedActive(module, active), f)
  PROVE  Appends
<1> DEFINE m == SyncedModule(module, active)
           a == SyncedActive(module, active)
<1>1. /\ Later(module, m) /\ SameSections(module, m)
      /\ NoNewLabels(module, m)
      /\ a \in ActiveType /\ a.section = active.section
      /\ a.closed = active.closed
  BY SyncedFacts DEF IInv, ActiveOK
<1>2. AppendTo(m, a, f)
  OBVIOUS
<1> HIDE DEF m, a
<1>3. QED
  BY <1>1, <1>2, AppendToForm

LEMMA PlainAppendForm ==
  ASSUME IInv, ~active.closed,
         NEW f \in FragmentType, Fresh(f), f.section = active.section,
         AppendTo(module, active, f)
  PROVE  Appends
<1>1. /\ Later(module, module) /\ SameSections(module, module)
      /\ NoNewLabels(module, module)
  BY LaterReflexive DEF IInv, SameSections
<1>2. active \in ActiveType
  BY DEF IInv, ActiveOK
<1>3. QED
  BY <1>1, <1>2, AppendToForm

LEMMA EmissionForm ==
  ASSUME IInv, Emission
  PROVE  Appends
<1>1. active \in ActiveType /\ active.section \in Nat
  BY DEF IInv, ActiveOK, ActiveType
<1>2. ASSUME NEW d \in Chunks, DataEmit(d)
      PROVE  Appends
  <2>1. d \in Seq(Nat)
    BY ParameterAssumption
  <2>2. QED
    BY <1>1, <1>2, <2>1, BytesOK, PlainAppendForm DEF DataEmit
<1>3. ASSUME NEW n \in Sizes, ReserveSpace(n)
      PROVE  Appends
  <2>1. n \in Nat
    BY ParameterAssumption
  <2>2. QED
    BY <1>1, <1>3, <2>1, ReserveOK, PlainAppendForm DEF ReserveSpace
<1>4. ASSUME NEW t \in Texts, IsaInstruction(t)
      PROVE  Appends
  BY <1>1, <1>4, InstructionOK, PlainAppendForm DEF IsaInstruction
<1>5. ASSUME NEW n \in Sizes, Pad(n)
      PROVE  Appends
  <2>1. Padding(n) \in Seq(Nat)
    BY ParameterAssumption, PaddingType
  <2>2. QED
    BY <1>1, <1>5, <2>1, BytesOK, SyncedAppendForm DEF Pad
<1>6. ASSUME NEW n \in Sizes, PadTo(n)
      PROVE  Appends
  <2> DEFINE a == SyncedActive(module, active)
             size == n - Materialized(a.offset, a.fileOffset)
  <2>1. /\ ~active.closed /\ size >= 0
        /\ AppendTo(SyncedModule(module, active),
                    SyncedActive(module, active),
                    Bytes(active.section, Padding(size)))
    BY <1>6 DEF PadTo
  <2>2. a \in ActiveType
    BY SyncedFacts DEF IInv, ActiveOK
  <2>3. Materialized(a.offset, a.fileOffset) \in Nat
    <3> HIDE DEF a
    <3>1. a.offset \in Nat /\ a.fileOffset \in Nat
      BY <2>2 DEF ActiveType
    <3>2. QED
      BY <3>1 DEF Materialized
  <2>4. n \in Nat
    BY ParameterAssumption
  <2>5. size \in Nat
    <3> HIDE DEF a
    <3>1. QED
      BY <2>1, <2>3, <2>4
  <2> HIDE DEF size, a
  <2>6. Padding(size) \in Seq(Nat)
    BY <2>5, PaddingType
  <2>7. QED
    BY <1>1, <2>1, <2>6, BytesOK, SyncedAppendForm
<1>7. ASSUME NEW n \in Alignments, Align(n)
      PROVE  Appends
  <2>1. n \in Nat /\ n # 0 /\ Fill \in Nat
    BY <1>7, ParameterAssumption DEF Align, IsPowerOfTwo
  <2>2. QED
    BY <1>1, <1>7, <2>1, AlignmentOK, SyncedAppendForm DEF Align
<1>8. QED
  BY <1>2, <1>3, <1>4, <1>5, <1>6, <1>7 DEF Emission

(* A step that keeps the cursor only looks, if its module only looks.      *)
LEMMA LooksFrom ==
  ASSUME IInv, Continues, SameSections(module, module'),
         SamePlace, UNCHANGED <<stack, callers, phase>>
  PROVE  Looks
BY DEF Looks, Proceeds

LEMMA SamePlaceKept ==
  ASSUME IInv, UNCHANGED active
  PROVE  SamePlace
BY DEF SamePlace, IInv, ActiveOK

LEMMA StoreTargetSection ==
  ASSUME IInv, NEW m, Later(module, m), SameSections(module, m),
         NEW t \in StoreTargets(m)
  PROVE  t[1] \in 1 .. Len(m.section)
<1>1. WellFormed(m) /\ active.section \in 1 .. Len(m.section)
  BY DEF Later, ModuleOK, SameSections, IInv, ActiveOK
<1>2. CASE \E l \in {k \in Labels : m.label[k].section # 0} :
             t = <<m.label[l].section, m.label[l].offset>>
  <2>1. PICK l \in Labels : /\ m.label[l].section # 0
                            /\ t[1] = m.label[l].section
    BY <1>2
  <2>2. AnchorOK(m, m.label[l]) /\ m.label[l] # Undefined
    BY <1>1, <2>1 DEF WellFormed, LabelsOK, Undefined
  <2>3. QED
    BY <2>1, <2>2 DEF AnchorOK
<1>3. CASE \E n \in Sizes : t = <<active.section, n>>
  BY <1>1, <1>3
<1>4. QED
  BY <1>2, <1>3 DEF StoreTargets

LEMMA QueryForm ==
  ASSUME IInv, Query
  PROVE  Looks
<1>1. /\ ModuleOK(module)
      /\ active \in ActiveType
      /\ active.section \in 1 .. Len(module.section)
  BY DEF IInv, ActiveOK
<1>2. /\ Later(module, SyncedModule(module, active))
      /\ NoNewLabels(module, SyncedModule(module, active))
      /\ SameSections(module, SyncedModule(module, active))
      /\ SyncedActive(module, active) \in ActiveType
      /\ SyncedActive(module, active).section = active.section
      /\ SyncedActive(module, active).closed = active.closed
  BY <1>1, SyncedFacts
<1>3. /\ Later(module, ForOutputAccess(module))
      /\ NoNewLabels(module, ForOutputAccess(module))
      /\ SameSections(module, ForOutputAccess(module))
  BY <1>1, ForOutputAccessLater
<1>4. CASE ReadHere
  BY <1>2, <1>4, SamePlaceKept, LooksFrom DEF ReadHere, Continues
<1>5. CASE FreezeBlock
  BY <1>2, <1>5, LooksFrom DEF FreezeBlock, SamePlace, Continues
<1>6. CASE ReadOutput
  BY <1>3, <1>6, SamePlaceKept, LooksFrom DEF ReadOutput, Continues
<1>7. ASSUME NEW t \in StoreTargets(ForOutputAccess(module)), Store(t)
      PROVE  Looks
  <2> DEFINE m1 == ForOutputAccess(module)
             m2 == StoreByte(m1, t[1], t[2], Stored)
  <2>1. HolderOf(m1, t[1], t[2]) # {} /\ module' = m2
          /\ UNCHANGED <<active, stack, callers, phase>>
    BY <1>7 DEF Store
  <2>2. /\ Later(module, m1) /\ SameSections(module, m1) /\ ModuleOK(m1)
        /\ NoNewLabels(module, m1)
    BY <1>3 DEF Later
  <2>3. t \in StoreTargets(m1)
    OBVIOUS
  <2> HIDE DEF m1
  <2>4. t[1] \in 1 .. Len(m1.section)
    BY <2>2, <2>3, StoreTargetSection
  <2>5. Later(m1, m2) /\ SameSections(m1, m2) /\ NoNewLabels(m1, m2)
    BY <2>1, <2>2, <2>4, StoreByteLater
  <2> HIDE DEF m2
  <2>6. Later(module, m2) /\ NoNewLabels(module, m2)
    BY <1>1, <2>2, <2>5, LaterTransitive
  <2>7. SameSections(module, m2)
    BY <2>2, <2>5 DEF SameSections
  <2>8. QED
    BY <2>1, <2>6, <2>7, SamePlaceKept, LooksFrom DEF Continues
<1>8. QED
  BY <1>4, <1>5, <1>6, <1>7 DEF Query

LEMMA DefineLabelForm ==
  ASSUME IInv, NEW l \in Labels, DefineLabel(l)
  PROVE  Looks
<1> DEFINE s == active.section
           b == [section |-> s, offset |-> active.offset,
                 position |-> Len(module.section[s].frags)]
           m2 == [module EXCEPT !.label[l] = b]
           lab == [module.label EXCEPT ![l] = b]
<1>1. /\ WellFormed(module) /\ ModuleType(module) /\ ModuleOK(module)
      /\ module.label \in [Labels -> LabelType]
      /\ module.watermark \in Nat
      /\ module.watermark <= Len(module.fragment)
  BY DEF IInv, ModuleOK, WellFormed, ModuleType
<1>2. s \in 1 .. Len(module.section) /\ active.offset \in Nat /\ s \in Nat
  BY DEF IInv, ActiveOK, ActiveType
<1>3. Len(module.section[s].frags) \in Nat
  BY <1>1, <1>2, SectionFacts
<1>4. b \in LabelType /\ AnchorOK(module, b)
  BY <1>2, <1>3 DEF LabelType, AnchorOK
<1>5. /\ module' = m2 /\ UNCHANGED <<active, stack, callers, phase>>
      /\ module.label[l] = Undefined /\ phase = "lower"
  BY DEF DefineLabel, Called, LateAllowed
<1> HIDE DEF b, s
<1>6. /\ m2.section = module.section /\ m2.fragment = module.fragment
      /\ m2.label = lab /\ m2.watermark = module.watermark
      /\ m2.fixup = module.fixup
  BY <1>1 DEF ModuleType
<1>7. lab \in [Labels -> LabelType]
        /\ \A k \in Labels : lab[k] = IF k = l THEN b ELSE module.label[k]
  BY <1>1, <1>4
<1>8. ModuleType(m2)
  <2>1. m2 \in [section : Seq(SectionType), fragment : Seq(FragmentType),
                label : [Labels -> LabelType], fixup : {m2.fixup},
                watermark : Nat]
    BY <1>1, <1>6, <1>7 DEF ModuleType
  <2> HIDE DEF m2, lab
  <2>2. QED
    BY <1>1, <1>6, <2>1 DEF ModuleType
<1> HIDE DEF m2, lab
<1>9. \A k \in Labels :
        /\ AnchorOK(module, m2.label[k])
        /\ module.label[k] # Undefined => Follows(module, m2, k)
  BY <1>1, <1>4, <1>5, <1>6, <1>7 DEF WellFormed, LabelsOK, Follows
<1>10. \A i \in 1 .. Len(module.fragment) : FragmentOK(module.fragment[i])
  BY <1>1 DEF WellFormed, FragmentsOK
<1>13. Settled(m2)
  BY <1>1, <1>6 DEF ModuleOK, StoresOK, Settled
<1>14. FixupsOK(m2)
  <2>1. Len(module.fragment) \in Nat
    BY <1>1 DEF ModuleType
  <2>2. QED
    BY <1>1, <1>6, <2>1, FixupsKept DEF ModuleOK, StoresOK, Retains
<1>11. Later(module, m2) /\ SameSections(module, m2)
  BY <1>1, <1>6, <1>8, <1>9, <1>10, <1>13, <1>14, SameSectionsLater
     DEF SameShape
<1>12. QED
  BY <1>5, <1>11, SamePlaceKept, LooksFrom DEF Continues

LEMMA SetOriginForm ==
  ASSUME IInv, NEW o \in Nat, SetOrigin(o)
  PROVE  Looks
<1> DEFINE s == active.section
           x == [module.section[s] EXCEPT !.origin = o]
           m2 == [module EXCEPT !.section[s] = x]
<1>1. ModuleType(module) /\ ModuleOK(module) /\ s \in 1 .. Len(module.section)
  BY DEF IInv, ActiveOK, ModuleOK, WellFormed
<1>2. module' = m2 /\ UNCHANGED <<active, stack, callers, phase>>
  <2>1. [module EXCEPT !.section[s].origin = o] = m2
    OBVIOUS
  <2>2. QED
    BY <2>1 DEF SetOrigin
<1>3. module.section[s] \in SectionType
  BY <1>1, SectionFacts
<1> HIDE DEF s
<1>4. /\ x \in SectionType /\ x.frags = module.section[s].frags
      /\ x.folded = module.section[s].folded
      /\ x.memo = module.section[s].memo
      /\ x.closed = module.section[s].closed
      /\ x.kind = module.section[s].kind
  BY <1>3 DEF SectionType
<1> HIDE DEF x
<1>5. Later(module, m2) /\ NoNewLabels(module, m2)
  BY <1>1, <1>4, SetSection
<1>6. /\ Len(m2.section) = Len(module.section) /\ m2.section[s] = x
      /\ \A t \in 1 .. Len(module.section) :
           t # s => m2.section[t] = module.section[t]
  BY <1>1, <1>4, ReplaceSection
<1> HIDE DEF m2
<1>7. SameSections(module, m2)
  BY <1>4, <1>6 DEF SameSections
<1>8. QED
  BY <1>2, <1>5, <1>7, SamePlaceKept, LooksFrom DEF Continues

LEMMA FileAlignForm ==
  ASSUME IInv, NEW n \in Nat, FileAlign(n)
  PROVE  Closes
<1> DEFINE s == active.section
           m == SyncedModule(module, active)
           a == SyncedActive(module, active)
           x == [m.section[s] EXCEPT !.sizeAlign = n, !.closed = TRUE]
           m2 == [m EXCEPT !.section[s] = x]
           v == AlignUp(a.fileOffset, n)
<1>1. n # 0
  BY DEF FileAlign, IsPowerOfTwo
<1>2. /\ module' = m2
      /\ active' = [a EXCEPT !.fileOffset = v, !.closed = TRUE]
      /\ UNCHANGED <<stack, callers, phase>>
  BY DEF FileAlign
<1>3. ModuleOK(module) /\ active \in ActiveType
        /\ s \in 1 .. Len(module.section)
  BY DEF IInv, ActiveOK
<1>4. /\ Later(module, m) /\ SameSections(module, m)
      /\ NoNewLabels(module, m)
      /\ a \in ActiveType /\ a.section = s /\ a.closed = active.closed
  BY <1>3, SyncedFacts
<1> HIDE DEF m, a, s
<1>5. ModuleOK(m) /\ ModuleType(m) /\ s \in 1 .. Len(m.section)
  BY <1>3, <1>4 DEF Later, ModuleOK, WellFormed, SameSections
<1>6. m.section[s] \in SectionType
  BY <1>5, SectionFacts
<1>7. /\ x \in SectionType /\ x.frags = m.section[s].frags
      /\ x.folded = m.section[s].folded
      /\ x.memo = m.section[s].memo /\ x.closed = TRUE
  BY <1>1, <1>6 DEF SectionType
<1> HIDE DEF x
<1>8. Later(m, m2) /\ NoNewLabels(m, m2)
  BY <1>5, <1>7, SetSection
<1>9. /\ Len(m2.section) = Len(m.section) /\ m2.section[s] = x
      /\ \A t \in 1 .. Len(m.section) :
           t # s => m2.section[t] = m.section[t]
  BY <1>5, <1>7, ReplaceSection
<1> HIDE DEF m2
<1>10. Later(module, m2) /\ NoNewLabels(module, m2)
  BY <1>3, <1>4, <1>8, LaterTransitive
<1>11. v \in Nat
  <2>1. a.fileOffset \in Nat
    BY <1>4 DEF ActiveType
  <2>2. QED
    BY <1>1, <2>1, AlignUpBounds
<1> HIDE DEF v
<1>12. active' \in ActiveType /\ active'.section = s /\ active'.closed
  BY <1>2, <1>4, <1>11 DEF ActiveType
<1>13. \A t \in 1 .. Len(module.section) :
         /\ m2.section[t].frags = module.section[t].frags
         /\ m2.section[t].closed = IF t = s THEN TRUE
                                   ELSE module.section[t].closed
  BY <1>4, <1>7, <1>9 DEF SameSections
<1>14. QED
  BY <1>2, <1>4, <1>9, <1>10, <1>12, <1>13 DEF Closes, Continues,
     SameSections, s

(* A cursor that cannot become stale stays so.                             *)
LEMMA SavedKept ==
  ASSUME NEW m, ModuleOK(m), NEW m2, Later(m, m2),
         NEW a, a.section \in 1 .. Len(m.section), SavedOK(m, a),
         m2.section[a.section].frags = m.section[a.section].frags
  PROVE  SavedOK(m2, a)
<1> DEFINE s  == a.section
           q  == m.section[s].frags
           fs == FragmentsOf(m, s)
           hs == FragmentsOf(m2, s)
           n  == Len(q)
<1>1. /\ WellFormed(m) /\ WellFormed(m2) /\ ModuleType(m) /\ ModuleType(m2)
      /\ s \in 1 .. Len(m.section) /\ s \in 1 .. Len(m2.section)
      /\ m2.section[s].frags = q
  BY DEF ModuleOK, Later, WellFormed, ModuleType, Grows
<1>2. /\ AllSized(fs) /\ AllSized(hs) /\ Len(fs) = n /\ Len(hs) = n
      /\ \A k \in 1 .. n : /\ fs[k] = m.fragment[q[k]]
                           /\ hs[k] = m2.fragment[q[k]]
  <2>1. /\ q = m.section[s].frags /\ n = Len(q)
        /\ fs = FragmentsOf(m, s) /\ hs = FragmentsOf(m2, s)
    OBVIOUS
  <2> HIDE DEF s, q, n, fs, hs
  <2>2. /\ AllSized(fs) /\ Len(fs) = n
        /\ \A k \in 1 .. n : fs[k] = m.fragment[q[k]]
    BY <1>1, <2>1, FragmentsOfSection
  <2>3. /\ AllSized(hs) /\ Len(hs) = n
        /\ \A k \in 1 .. n : hs[k] = m2.fragment[q[k]]
    BY <1>1, <2>1, FragmentsOfSection
  <2>4. QED
    BY <2>2, <2>3
<1>3. \A k \in 1 .. n : q[k] \in 1 .. Len(m.fragment) /\ q[k] <= m.watermark
  BY <1>1 DEF WellFormed, SectionsOK, SectionOK, SavedOK
<1>4. /\ a.offset = Offsets(fs)[n]
      /\ SavedOK(m2, a) <=>
           /\ \A k \in 1 .. n : q[k] <= m2.watermark
           /\ a.offset = Offsets(hs)[n]
  BY <1>1, <1>2 DEF SavedOK, LogicalSize
<1> HIDE DEF s, q, fs, hs, n
<1>5. \A k \in 1 .. n : SameShape(fs[k], hs[k])
  <2>1. m.watermark \in Nat /\ Len(m.fragment) \in Nat
    BY <1>1 DEF ModuleType
  <2>2. \A i \in 1 .. Len(m.fragment) :
          i <= m.watermark => HasSize(m.fragment[i])
    BY <2>1 DEF ModuleOK, StoresOK, Settled, HasSize
  <2>3. QED
    BY <1>2, <1>3, <2>2 DEF Later, Frozen
<1>6. Offsets(fs)[n] = Offsets(hs)[n]
  <2>1. n \in Nat /\ n \in 0 .. n /\ n <= Len(fs) /\ n <= Len(hs)
    BY <1>2 DEF AllSized
  <2>2. QED
    BY <1>2, <1>5, <2>1, OffsetsOfPrefix
<1>7. \A k \in 1 .. n : q[k] <= m2.watermark
  <2>1. /\ m.watermark \in Nat /\ m2.watermark \in Nat
        /\ m.watermark <= m2.watermark
        /\ \A i \in 1 .. Len(m.fragment) : i \in Nat
    BY <1>1 DEF ModuleType, Later
  <2>2. QED
    BY <1>3, <2>1, LeqTransitive, Zenon
<1>8. QED
  BY <1>4, <1>6, <1>7

(* A synchronised cursor cannot become stale.                              *)
LEMMA SyncedIsSaved ==
  ASSUME NEW m, ModuleOK(m), NEW a \in ActiveType,
         a.section \in 1 .. Len(m.section)
  PROVE  SavedOK(SyncedModule(m, a), SyncedActive(m, a))
<1> DEFINE s  == a.section
           m1 == ForOutputAccess(m)
           m2 == FoldMemo(m1, s)
           b  == ActiveOn(m1, s, a.closed)
<1>1. /\ ModuleOK(m1) /\ s \in 1 .. Len(m1.section)
      /\ m1.watermark = Len(m1.fragment)
  BY ForOutputAccessLater DEF Later, SameSections
<1>2. SyncedModule(m, a) = m2 /\ SyncedActive(m, a) = b
  BY DEF SyncedModule, SyncedActive
<1> HIDE DEF m1
<1>3. b.section = s /\ b.offset = LogicalSize(FragmentsOf(m1, s))
  <2>1. b.section = s /\ b.offset = SectionCursor(m1, s).offset
    BY DEF ActiveOn
  <2> HIDE DEF b, s
  <2>2. QED
    BY <1>1, <2>1, CursorIsSize
<1>4. /\ Later(m1, m2) /\ SameSections(m1, m2)
      /\ m2.fragment = m1.fragment /\ m2.watermark = m1.watermark
  BY <1>1, FoldMemoLater
<1> HIDE DEF b, m2
<1>5. m2.section[s].frags = m1.section[s].frags
  BY <1>1, <1>4 DEF SameSections
<1>6. FragmentsOf(m2, s) = FragmentsOf(m1, s)
  BY <1>4, <1>5 DEF FragmentsOf
<1>7. \A k \in 1 .. Len(m1.section[s].frags) :
        m1.section[s].frags[k] <= m1.watermark
  <2>1. \A k \in 1 .. Len(m1.section[s].frags) :
          m1.section[s].frags[k] \in 1 .. Len(m1.fragment)
    BY <1>1 DEF ModuleOK, WellFormed, SectionsOK, SectionOK
  <2>2. Len(m1.fragment) \in Nat
    BY <1>1 DEF ModuleOK, WellFormed, ModuleType
  <2>3. QED
    BY <1>1, <2>1, <2>2
<1>8. QED
  BY <1>2, <1>3, <1>4, <1>5, <1>6, <1>7 DEF SavedOK

(* A step that continues in a new section enters it.                       *)
LEMMA EnterNewForm ==
  ASSUME IInv, NEW m, Later(module, m), SameSections(module, m),
         NoNewLabels(module, m),
         NEW k \in {"main", "virtual"}, NEW o \in Nat, NEW fo \in Nat,
         EnterNew(m, NewSection(k, o, fo)),
         \/ stack' = stack
         \/ \E a \in ActiveType :
              /\ a.section = active.section /\ a.closed = active.closed
              /\ SavedOK(m, a)
              /\ stack' = Append(stack, a)
  PROVE  Enters
<1> DEFINE x == NewSection(k, o, fo)
           m2 == AddSection(m, x)
<1>1. /\ module' = m2 /\ active' = ActiveOnNew(Len(m.section) + 1)
      /\ UNCHANGED <<callers, phase>>
  BY DEF EnterNew
<1>2. ModuleOK(module) /\ ModuleOK(m)
  BY DEF IInv, Later
<1>3. /\ x \in SectionType /\ x.frags = <<>> /\ x.folded = 0
      /\ x.memo = StartOfRegion /\ x.closed = FALSE
  BY NewSectionType
<1> HIDE DEF x
<1>4. /\ Later(m, m2) /\ NoNewLabels(m, m2)
      /\ Len(m2.section) = Len(m.section) + 1
      /\ m2.section[Len(m.section) + 1] = x
      /\ \A t \in 1 .. Len(m.section) : m2.section[t] = m.section[t]
  BY <1>2, <1>3, AddSectionLater
<1> HIDE DEF m2
<1>5. Later(module, m2) /\ NoNewLabels(module, m2)
  BY <1>2, <1>4, LaterTransitive
<1>6. /\ Len(m.section) = Len(module.section)
      /\ \A t \in 1 .. Len(module.section) :
           /\ m2.section[t].frags = module.section[t].frags
           /\ m2.section[t].closed = module.section[t].closed
  BY <1>4 DEF SameSections
<1>7. \A a : a.section = active.section /\ SavedOK(m, a) => SavedOK(m2, a)
  <2>1. active.section \in 1 .. Len(m.section)
    BY DEF IInv, ActiveOK, SameSections
  <2>2. m2.section[active.section].frags = m.section[active.section].frags
    BY <1>4, <2>1
  <2>3. QED
    BY <1>2, <1>4, <2>1, <2>2, SavedKept
<1>8. QED
  BY <1>1, <1>3, <1>4, <1>5, <1>6, <1>7 DEF Enters, Continues

LEMMA VirtualBeginForm ==
  ASSUME IInv, NEW o \in Nat, VirtualBegin(o)
  PROVE  Enters
<1> DEFINE m == SyncedModule(module, active)
           a == SyncedActive(module, active)
<1>1. /\ Later(module, m) /\ SameSections(module, m)
      /\ a \in ActiveType /\ a.section = active.section
      /\ a.closed = active.closed
      /\ NoNewLabels(module, m) /\ SavedOK(m, a)
  BY SyncedFacts, SyncedIsSaved DEF IInv, ActiveOK
<1>2. EnterNew(m, NewSection("virtual", o, 0)) /\ stack' = Append(stack, a)
  BY DEF VirtualBegin
<1> HIDE DEF m, a
<1>3. \E b \in ActiveType :
        /\ b.section = active.section /\ b.closed = active.closed
        /\ SavedOK(m, b)
        /\ stack' = Append(stack, b)
  BY <1>1, <1>2
<1>4. QED
  BY <1>1, <1>2, <1>3, EnterNewForm

LEMMA OutputForm ==
  ASSUME IInv, NEW o \in Nat,
         OutputOrg(o) \/ OutputSection(o)
  PROVE  Enters
<1> DEFINE m == SyncedModule(module, active)
           a == SyncedActive(module, active)
           base == module.section[active.section].fileOffset
<1>1. /\ Later(module, m) /\ SameSections(module, m)
      /\ a \in ActiveType /\ NoNewLabels(module, m)
  BY SyncedFacts DEF IInv, ActiveOK
<1>2. base \in Nat
  <2>1. module.section[active.section] \in SectionType
    BY SectionFacts DEF IInv, ActiveOK, ModuleOK, WellFormed
  <2>2. QED
    BY <2>1 DEF SectionType
<1>3. /\ stack' = stack
      /\ \/ EnterNew(m, NewSection("main", o, base + a.offset))
         \/ EnterNew(m, NewSection("main", o, base + a.fileOffset))
  BY DEF OutputOrg, OutputSection
<1> HIDE DEF m, a, base
<1>4. base + a.offset \in Nat /\ base + a.fileOffset \in Nat
  BY <1>1, <1>2 DEF ActiveType
<1>5. QED
  BY <1>1, <1>3, <1>4, EnterNewForm

LEMMA RegionPlaceForm ==
  ASSUME IInv, NEW l \in Labels, NEW o \in Nat, NEW fo \in Nat,
         RegionPlace(l, o, fo)
  PROVE  Moves
<1> DEFINE s == module.label[l].section
           x == [module.section[s] EXCEPT !.kind = "main", !.origin = o,
                                          !.fileOffset = fo]
           m == [module EXCEPT !.section[s] = x]
           m2 == FoldMemo(m, s)
<1>1. /\ WellFormed(module) /\ ModuleType(module) /\ ModuleOK(module)
      /\ callers \in Seq(ActiveType)
      /\ \A i \in 1 .. Len(callers) : ActiveOK(module, callers[i])
  BY DEF IInv, ModuleOK, WellFormed
<1>2. s \in 1 .. Len(module.section)
  BY <1>1 DEF RegionPlace, Placeable, WellFormed, LabelsOK, AnchorOK
<1>3. /\ module' = m2 /\ UNCHANGED <<stack, callers, phase>>
      /\ active' = ActiveOn(m, s, module.section[s].closed)
      /\ "region.place" \in Ops \/ phase = "late"
  <2>1. Promoted(module, s, o, fo) = m
    BY DEF Promoted
  <2>2. "region.place" \in Ops \/ phase = "late"
    BY DEF RegionPlace, Called
  <2>3. QED
    BY <2>1, <2>2 DEF RegionPlace
<1>4. module.section[s] \in SectionType
  BY <1>1, <1>2, SectionFacts
<1> HIDE DEF s
<1>5. /\ x \in SectionType /\ x.frags = module.section[s].frags
      /\ x.folded = module.section[s].folded
      /\ x.memo = module.section[s].memo
      /\ module.section[s].closed \in BOOLEAN
  BY <1>4 DEF SectionType
<1> HIDE DEF x
<1>6. Later(module, m) /\ NoNewLabels(module, m)
  BY <1>1, <1>2, <1>5, SetSection
<1>7. Len(m.section) = Len(module.section)
  BY <1>1, <1>2, <1>5, ReplaceSection
<1> HIDE DEF m
<1>8. ModuleOK(m) /\ s \in 1 .. Len(m.section)
  BY <1>2, <1>6, <1>7 DEF Later
<1>9. Later(m, m2) /\ SameSections(m, m2) /\ NoNewLabels(m, m2)
  BY <1>8, FoldMemoLater
<1>10. /\ active' \in ActiveType /\ active'.section = s
  BY <1>3, <1>5, <1>8, ActiveOnType
<1> HIDE DEF m2
<1>11. Later(module, m2) /\ NoNewLabels(module, m2)
  BY <1>1, <1>6, <1>9, LaterTransitive
<1>12. ActiveOK(module', active')
  BY <1>3, <1>8, <1>9, <1>10 DEF ActiveOK, SameSections
<1>13. QED
  BY <1>1, <1>3, <1>11, <1>12 DEF Moves, Continues

LEMMA IncludeForm ==
  ASSUME IInv, Include
  PROVE  Moves
<1>1. /\ ModuleOK(module) /\ Len(module.section) \in Nat
      /\ callers \in Seq(ActiveType) /\ ActiveOK(module, active)
      /\ active \in ActiveType
      /\ \A i \in 1 .. Len(callers) : ActiveOK(module, callers[i])
  BY DEF IInv, ActiveOK, ModuleOK, WellFormed, ModuleType
<1>2. DefaultSection \in 1 .. Len(module.section)
  BY <1>1 DEF ActiveOK, DefaultSection
<1>3. /\ module' = FoldMemo(module, DefaultSection)
      /\ active' = ActiveOn(module, DefaultSection, FALSE)
      /\ callers' = Append(callers, active)
      /\ UNCHANGED <<stack, phase>> /\ "include" \in Ops /\ stack = <<>>
  BY DEF Include, Called, LateAllowed
<1>4. /\ Later(module, module') /\ SameSections(module, module')
      /\ NoNewLabels(module, module')
  BY <1>1, <1>2, <1>3, FoldMemoLater
<1>5. active' \in ActiveType /\ active'.section = DefaultSection
  BY <1>1, <1>2, <1>3, ActiveOnType
<1>6. ActiveOK(module', active')
  BY <1>2, <1>4, <1>5 DEF ActiveOK, SameSections
<1>7. /\ callers' \in Seq(ActiveType)
      /\ Len(callers') = Len(callers) + 1 /\ Len(callers) \in Nat
      /\ \A i \in 1 .. Len(callers) : callers'[i] = callers[i]
      /\ callers'[Len(callers) + 1] = active
  BY <1>1, <1>3, AppendFacts
<1>8. \A i \in 1 .. Len(callers') : ActiveOK(module, callers'[i])
  <2>1. ASSUME NEW i \in 1 .. Len(callers')
        PROVE  ActiveOK(module, callers'[i])
    <3>1. i \in 1 .. Len(callers) \/ i = Len(callers) + 1
      BY <1>7
    <3>2. QED
      BY <1>1, <1>7, <3>1
  <2>2. QED
    BY <2>1
<1>9. QED
  BY <1>3, <1>4, <1>6, <1>7, <1>8 DEF Moves, Continues

\* The last element of a sequence and the sequence without it.
LEMMA LastFacts ==
  ASSUME NEW S, NEW q \in Seq(S), q # <<>>
  PROVE  /\ Len(q) \in 1 .. Len(q)
         /\ SubSeq(q, 1, Len(q) - 1) \in Seq(S)
         /\ Len(SubSeq(q, 1, Len(q) - 1)) = Len(q) - 1
         /\ \A i \in 1 .. Len(q) - 1 : SubSeq(q, 1, Len(q) - 1)[i] = q[i]
<1> DEFINE n == Len(q)
           p == SubSeq(q, 1, n - 1)
<1>1. n \in Nat /\ n # 0 /\ \A i \in 1 .. n : q[i] \in S
  OBVIOUS
<1> HIDE DEF n
<1>2. n - 1 \in Int /\ 1 \in Int /\ \A i \in 1 .. n - 1 : q[i] \in S
  BY <1>1
<1>3. /\ p \in Seq(S)
      /\ Len(p) = IF 1 <= n - 1 THEN n - 1 - 1 + 1 ELSE 0
      /\ \A i \in 1 .. n - 1 - 1 + 1 : p[i] = q[1 + i - 1]
  BY <1>2, SubSeqProperties
<1> HIDE DEF p
<1>4. Len(p) = n - 1 /\ \A i \in 1 .. n - 1 : p[i] = q[i]
  BY <1>1, <1>3
<1>5. QED
  BY <1>1, <1>3, <1>4 DEF p, n

LEMMA EndIncludedForm ==
  ASSUME IInv, EndIncluded
  PROVE  Moves
<1> DEFINE n == Len(callers)
           a == callers[n]
           o == SectionCursor(module, a.section).offset
<1>1. /\ ModuleOK(module)
      /\ callers \in Seq(ActiveType) /\ callers # <<>>
      /\ \A i \in 1 .. n : ActiveOK(module, callers[i])
  BY DEF IInv, EndIncluded
<1>2. /\ n \in 1 .. n
      /\ SubSeq(callers, 1, n - 1) \in Seq(ActiveType)
      /\ Len(SubSeq(callers, 1, n - 1)) = n - 1
      /\ \A i \in 1 .. n - 1 : SubSeq(callers, 1, n - 1)[i] = callers[i]
  BY <1>1, LastFacts
<1>3. /\ module' = FoldMemo(module, a.section)
      /\ active' = [a EXCEPT !.offset = o]
      /\ callers' = SubSeq(callers, 1, n - 1)
      /\ UNCHANGED <<stack, phase>> /\ stack = <<>>
  BY DEF EndIncluded
<1> HIDE DEF a, o
<1>4. a \in ActiveType /\ a.section \in 1 .. Len(module.section)
  BY <1>1, <1>2 DEF ActiveOK, a
<1> HIDE DEF n
<1>5. /\ Later(module, module') /\ SameSections(module, module')
      /\ NoNewLabels(module, module')
  BY <1>1, <1>3, <1>4, FoldMemoLater
<1>6. o \in Nat
  <2>1. SectionCursor(module, a.section) \in CursorType
    BY <1>1, <1>4, ActiveOnType
  <2>2. QED
    BY <2>1 DEF CursorType, o
<1>7. active' \in ActiveType /\ active'.section = a.section
  BY <1>3, <1>4, <1>6 DEF ActiveType
<1>8. ActiveOK(module', active')
  BY <1>4, <1>5, <1>7 DEF ActiveOK, SameSections
<1>9. callers' \in Seq(ActiveType)
        /\ \A i \in 1 .. Len(callers') : ActiveOK(module, callers'[i])
  <2>1. \A i \in 1 .. n - 1 : i \in 1 .. n
    BY <1>2
  <2>2. QED
    BY <1>1, <1>2, <1>3, <2>1
<1>10. QED
  BY <1>1, <1>3, <1>5, <1>8, <1>9 DEF Moves, Continues

LEMMA BreakIncludedForm ==
  ASSUME IInv, BreakIncluded
  PROVE  Moves
<1> DEFINE n == Len(callers)
<1>1. /\ ModuleOK(module)
      /\ callers \in Seq(ActiveType) /\ callers # <<>>
      /\ \A i \in 1 .. n : ActiveOK(module, callers[i])
  BY DEF IInv, BreakIncluded
<1>2. /\ n \in 1 .. n
      /\ SubSeq(callers, 1, n - 1) \in Seq(ActiveType)
      /\ Len(SubSeq(callers, 1, n - 1)) = n - 1
      /\ \A i \in 1 .. n - 1 : SubSeq(callers, 1, n - 1)[i] = callers[i]
  BY <1>1, LastFacts
<1>3. /\ active' = callers[n]
      /\ callers' = SubSeq(callers, 1, n - 1)
      /\ stack' = <<>> /\ UNCHANGED <<module, phase>>
  BY DEF BreakIncluded
<1> HIDE DEF n
<1>4. /\ callers' \in Seq(ActiveType)
      /\ \A i \in 1 .. Len(callers') : ActiveOK(module, callers'[i])
  <2>1. \A i \in 1 .. n - 1 : i \in 1 .. n
    BY <1>2
  <2>2. QED
    BY <1>1, <1>2, <1>3, <2>1
<1>5. ActiveOK(module', active') /\ Later(module, module') /\ NoNewLabels(module, module')
  BY <1>1, <1>2, <1>3, LaterReflexive
<1>6. QED
  BY <1>1, <1>3, <1>4, <1>5 DEF Moves, Continues

LEMMA RegionsForm ==
  ASSUME IInv, Regions
  PROVE  Forms
<1>1. ASSUME NEW l \in Labels, DefineLabel(l)
      PROVE  Looks
  BY <1>1, DefineLabelForm
<1>2. ASSUME NEW o \in Origins, SetOrigin(o)
      PROVE  Looks
  BY <1>2, SetOriginForm, ParameterAssumption
<1>3. ASSUME NEW n \in Alignments, FileAlign(n)
      PROVE  Closes
  BY <1>3, FileAlignForm, ParameterAssumption
<1>4. ASSUME NEW o \in Origins, NEW fo \in FileOffsets, RegionBegin(o, fo)
      PROVE  Enters
  <2>1. o \in Nat /\ fo \in Nat
    BY ParameterAssumption
  <2>2. /\ Later(module, module) /\ SameSections(module, module)
        /\ NoNewLabels(module, module)
    BY LaterReflexive DEF IInv, SameSections
  <2>3. EnterNew(module, NewSection("main", o, fo)) /\ stack' = stack
    BY <1>4 DEF RegionBegin
  <2>4. QED
    BY <2>1, <2>2, <2>3, EnterNewForm
<1>5. ASSUME NEW o \in Origins, OutputOrg(o) \/ OutputSection(o)
      PROVE  Enters
  BY <1>5, OutputForm, ParameterAssumption
<1>6. ASSUME NEW o \in Origins, VirtualBegin(o)
      PROVE  Enters
  BY <1>6, VirtualBeginForm, ParameterAssumption
<1>7. CASE VirtualBeginHere
  <2> DEFINE m == SyncedModule(module, active)
             a == SyncedActive(module, active)
             o == m.section[a.section].origin + a.offset
  <2>1. /\ Later(module, m) /\ a \in ActiveType
        /\ a.section \in 1 .. Len(m.section)
    BY SyncedFacts DEF IInv, ActiveOK, SameSections
  <2>2. VirtualBegin(o)
    BY <1>7 DEF VirtualBeginHere, Address
  <2> HIDE DEF m, a
  <2>3. m.section[a.section] \in SectionType
    BY <2>1, SectionFacts DEF Later, ModuleOK, WellFormed
  <2>4. o \in Nat
    BY <2>1, <2>3 DEF SectionType, ActiveType
  <2> HIDE DEF o
  <2>5. QED
    BY <2>2, <2>4, VirtualBeginForm DEF Forms
<1>8. CASE VirtualEnd
  BY <1>8 DEF VirtualEnd, Leaves, Forms
<1>9. ASSUME NEW l \in Labels, NEW o \in Origins, NEW fo \in FileOffsets,
             RegionPlace(l, o, fo)
      PROVE  Moves
  BY <1>9, RegionPlaceForm, ParameterAssumption
<1>10. QED
  BY <1>1, <1>2, <1>3, <1>4, <1>5, <1>6, <1>7, <1>8, <1>9
     DEF Regions, Forms

(* Every step of the machine has one of the forms.                         *)
LEMMA StepForm ==
  ASSUME IInv, [Next]_vars
  PROVE  Forms
<1>1. CASE Emission
  BY <1>1, EmissionForm DEF Forms
<1>2. CASE Query
  BY <1>2, QueryForm DEF Forms
<1>3. CASE Regions
  BY <1>3, RegionsForm
<1>4. CASE Include
  BY <1>4, IncludeForm DEF Forms
<1>5. CASE EndIncluded
  BY <1>5, EndIncludedForm DEF Forms
<1>11. CASE BreakIncluded
  BY <1>11, BreakIncludedForm DEF Forms
<1>6. ASSUME UNCHANGED <<module, active, stack, callers>>,
             Proceeds
      PROVE  Looks
  <2>1. Continues /\ SameSections(module, module)
    BY <1>6, LaterReflexive DEF IInv, SameSections, Continues
  <2>2. QED
    BY <1>6, <2>1, SamePlaceKept DEF Looks
<1>7. CASE EndSource
  BY <1>6, <1>7 DEF EndSource, Proceeds, Forms
<1>8. CASE Refuse
  BY <1>6, <1>8 DEF Refuse, Proceeds, Forms
<1>9. CASE UNCHANGED vars
  BY <1>6, <1>9 DEF vars, Proceeds, Forms
<1>10. QED
  BY <1>1, <1>2, <1>3, <1>4, <1>5, <1>7, <1>8, <1>9, <1>11
     DEF Next, Call, Sources, Finished

-----------------------------------------------------------------------------
(* The invariant is kept.                                                  *)

LEMMA ActiveKept ==
  ASSUME NEW m, ModuleOK(m), NEW m2, Len(m2.section) >= Len(m.section),
         ModuleOK(m2), NEW a, ActiveOK(m, a)
  PROVE  ActiveOK(m2, a)
<1>1. Len(m.section) \in Nat /\ Len(m2.section) \in Nat
  BY DEF ModuleOK, WellFormed, ModuleType
<1>2. QED
  BY <1>1 DEF ActiveOK

LEMMA IInvKept ==
  ASSUME IInv, [Next]_vars
  PROVE  IInv' /\ Continues
<1>1. Forms
  BY StepForm
<1>2. /\ ModuleOK(module) /\ ActiveOK(module, active)
      /\ stack \in Seq(ActiveType) /\ callers \in Seq(ActiveType)
      /\ \A i \in 1 .. Len(stack) : ActiveOK(module, stack[i])
      /\ \A i \in 1 .. Len(callers) : ActiveOK(module, callers[i])
      /\ phase \in Phases
      /\ Len(module.section) \in Nat
  BY DEF IInv, ModuleOK, WellFormed, ModuleType
<1>3. Continues
  <2>1. Leaves => Continues
    BY <1>2, LaterReflexive DEF Leaves, Continues
  <2>2. QED
    BY <1>1, <2>1 DEF Forms, Looks, Appends, Enters, Closes, Moves
<1>4. ModuleOK(module') /\ Len(module'.section) >= Len(module.section)
        /\ Len(module'.section) \in Nat
  BY <1>2, <1>3 DEF Continues, Later, Grows, ModuleOK, WellFormed, ModuleType
<1>5. \A a : ActiveOK(module, a) => ActiveOK(module', a)
  BY <1>2, <1>4, ActiveKept
<1>6. phase' \in Phases
  BY <1>1, <1>2
     DEF Forms, Looks, Proceeds, Phases, Appends, Enters, Closes, Leaves,
         Moves
<1>7. ActiveOK(module', active')
  <2>1. CASE Looks \/ Appends \/ Closes
    <3>1. active' \in ActiveType /\ active'.section = active.section
      BY <2>1 DEF Looks, Appends, Closes, SamePlace
    <3>2. QED
      BY <1>2, <1>5, <3>1 DEF ActiveOK
  <2>2. CASE Enters
    <3>1. active' = ActiveOnNew(Len(module'.section))
            /\ 1 <= Len(module'.section)
      BY <1>2, <2>2 DEF Enters
    <3>2. QED
      BY <1>4, <3>1 DEF ActiveOK, ActiveOnNew, ActiveType
  <2>3. CASE Leaves
    <3>1. Len(stack) \in 1 .. Len(stack)
      BY <1>2, <2>3, LastFacts DEF Leaves
    <3>2. QED
      BY <1>2, <1>5, <2>3, <3>1 DEF Leaves
  <2>4. CASE Moves
    BY <2>4 DEF Moves
  <2>5. QED
    BY <1>1, <2>1, <2>2, <2>3, <2>4 DEF Forms
<1>8. stack' \in Seq(ActiveType)
        /\ \A i \in 1 .. Len(stack') : ActiveOK(module', stack'[i])
  <2>1. CASE stack' = stack
    BY <1>2, <1>5, <2>1
  <2>2. CASE \E a \in ActiveType :
               /\ a.section = active.section /\ a.closed = active.closed
               /\ SavedOK(module', a)
               /\ stack' = Append(stack, a)
    <3>1. PICK a \in ActiveType :
            a.section = active.section /\ stack' = Append(stack, a)
      BY <2>2
    <3>2. /\ stack' \in Seq(ActiveType)
          /\ Len(stack) \in Nat /\ Len(stack') = Len(stack) + 1
          /\ \A i \in 1 .. Len(stack) : stack'[i] = stack[i]
          /\ stack'[Len(stack) + 1] = a
      BY <1>2, <3>1, AppendFacts
    <3>3. ActiveOK(module', a)
      BY <1>2, <1>5, <3>1 DEF ActiveOK
    <3>4. ASSUME NEW i \in 1 .. Len(stack')
          PROVE  ActiveOK(module', stack'[i])
      <4>1. i \in 1 .. Len(stack) \/ i = Len(stack) + 1
        BY <3>2
      <4>2. QED
        BY <1>2, <1>5, <3>2, <3>3, <4>1
    <3>5. QED
      BY <3>2, <3>4
  <2>3. CASE Leaves
    <3>1. stack # <<>> /\ stack' = SubSeq(stack, 1, Len(stack) - 1)
      BY <2>3 DEF Leaves
    <3>2. /\ stack' \in Seq(ActiveType)
          /\ Len(stack') = Len(stack) - 1 /\ Len(stack) \in 1 .. Len(stack)
          /\ \A i \in 1 .. Len(stack) - 1 : stack'[i] = stack[i]
      BY <1>2, <3>1, LastFacts
    <3>3. \A i \in 1 .. Len(stack) - 1 : i \in 1 .. Len(stack)
      BY <3>2
    <3>4. QED
      BY <1>2, <1>5, <3>2, <3>3
  <2>4. CASE stack' = <<>>
    BY <2>4
  <2>5. QED
    BY <1>1, <2>1, <2>2, <2>3, <2>4
       DEF Forms, Looks, Appends, Enters, Closes, Moves
<1>9. callers' \in Seq(ActiveType)
        /\ \A i \in 1 .. Len(callers') : ActiveOK(module', callers'[i])
  <2>1. CASE callers' = callers
    BY <1>2, <1>5, <2>1
  <2>2. CASE Moves
    BY <1>5, <2>2 DEF Moves
  <2>3. QED
    BY <1>1, <2>1, <2>2 DEF Forms, Looks, Appends, Enters, Closes, Leaves
<1>10. QED
  BY <1>3, <1>4, <1>6, <1>7, <1>8, <1>9 DEF IInv

(* The invariant holds in every behaviour of the machine.                  *)
THEOREM Invariance == Spec => []IInv
<1>1. Init => IInv
  BY StartOK
<1>2. IInv /\ [Next]_vars => IInv'
  BY IInvKept
<1>3. QED
  BY <1>1, <1>2, PTL DEF Spec

LEMMA IInvTypes == IInv => TypeOK
<1> SUFFICES ASSUME IInv PROVE TypeOK
  OBVIOUS
<1>1. /\ WellFormed(module) /\ ModuleType(module)
      /\ active \in ActiveType /\ active.section \in 1 .. Len(module.section)
      /\ stack \in Seq(ActiveType) /\ callers \in Seq(ActiveType)
      /\ \A i \in 1 .. Len(stack) :
           stack[i].section \in 1 .. Len(module.section)
      /\ \A i \in 1 .. Len(callers) :
           callers[i].section \in 1 .. Len(module.section)
  BY DEF IInv, ModuleOK, WellFormed, ActiveOK
<1>2. phase \in Phases
  BY DEF IInv
<1>3. IdsOK
  BY <1>1
     DEF IdsOK, WellFormed, FragmentsOK, SectionsOK, SectionOK, LabelsOK,
         AnchorOK
<1>4. /\ module.section \in Seq(SectionType)
      /\ module.fragment \in Seq(FragmentType)
      /\ module.label \in
           [Labels -> [section : Nat, offset : Nat, position : Nat]]
      /\ module.watermark \in 0 .. Len(module.fragment)
  BY <1>1 DEF ModuleType, LabelType
<1>5. QED
  BY <1>1, <1>2, <1>3, <1>4 DEF TypeOK

(* Types and ids: whatever statements a source runs, every fragment, label, *)
(* section and saved cursor refers to something that exists.               *)
THEOREM Typing == Spec => []TypeOK
BY Invariance, IInvTypes, PTL

(* section.zig: a folded prefix is never undone.  However many fragments,  *)
(* sections and sources there are, the memo of a section is what a walk    *)
(* over its prefix computes now.                                           *)
THEOREM MemoCorrect == Spec => []MemoIsFullWalk
<1>1. IInv => MemoIsFullWalk
  BY DEF IInv, ModuleOK, MemoOK, MemoAt, MemoIsFullWalk
<1>2. QED
  BY Invariance, <1>1, PTL

LEMMA IInvFixups == IInv => FixupsMatchInstructions
<1> SUFFICES ASSUME IInv PROVE FixupsMatchInstructions
  OBVIOUS
<1> DEFINE encoded == {i \in 1 .. Len(module.fragment) :
                         /\ module.fragment[i].kind = "isa"
                         /\ module.fragment[i].data # <<>>}
           S == UNION {{[fragment |-> i, ref |-> r] :
                          r \in References[module.fragment[i].text]} :
                       i \in encoded}
<1>1. FixupsOK(module)
  BY DEF IInv, ModuleOK, StoresOK
<1>2. BagToSet(FixupsOf(module, encoded)) = S
  BY DEF FixupsOf, BagToSet, SetToBag
<1>3. S \subseteq DOMAIN module.fixup
  BY <1>1 DEF FixupsOK
<1> HIDE DEF S
<1>4. BagToSet(FixupsOf(module, encoded)) \subseteq BagToSet(module.fixup)
  BY <1>2, <1>3 DEF BagToSet
<1>5. ASSUME NEW x \in BagToSet(module.fixup)
      PROVE  LET f == module.fragment[x.fragment]
             IN  /\ module.fixup[x] = 1
                 /\ f.data # <<>>
                 /\ f.kind = "isa" => x.ref \in References[f.text]
  BY <1>1 DEF FixupsOK, FixupOK, BagToSet
<1>6. QED
  BY <1>4, <1>5 DEF FixupsMatchInstructions

(* pass.zig: the facts of an instruction reach the fixup store exactly     *)
(* once, in whatever portions the instructions of a source are encoded and *)
(* whichever of them a store freezes in between.                           *)
THEOREM FixupsMatch == Spec => []FixupsMatchInstructions
BY Invariance, IInvFixups, PTL

LEMMA IInvCursors == IInv => CursorIsLaidOut
<1> SUFFICES ASSUME IInv PROVE CursorIsLaidOut
  OBVIOUS
<1> DEFINE m == ForOutputAccess(module)
<1>1. ModuleOK(m) /\ WellFormed(m)
  BY ForOutputAccessLater DEF IInv, Later, ModuleOK
<1> HIDE DEF m
<1>2. ASSUME NEW s \in 1 .. Len(m.section)
      PROVE  SectionCursor(m, s) =
               [offset     |-> LogicalSize(FragmentsOf(m, s)),
                fileOffset |-> FileSize(FragmentsOf(m, s))]
  BY <1>1, CursorIsSize
<1>3. QED
  BY <1>2 DEF CursorIsLaidOut, m

(* expression_materialization.zig: wherever a source asks, the cursor of   *)
(* every region is the logical size and the file size that layout.zig      *)
(* computes in the end: two different algorithms agree on every module.    *)
THEOREM CursorsLaidOut == Spec => []CursorIsLaidOut
BY Invariance, IInvCursors, PTL

(* pass.zig: what lies below the watermark keeps its size and its section, *)
(* in every step of every source.                                          *)
THEOREM SizesFinal == Spec => FinalSizesNeverChange
<1> DEFINE Final ==
      \A i \in 1 .. module.watermark :
        /\ i <= Len(module'.fragment)
        /\ module'.fragment[i].n = module.fragment[i].n
        /\ module'.fragment[i].section = module.fragment[i].section
<1>1. IInv /\ [Next]_vars => [Final]_vars
  <2>1. IInv => \A i \in 1 .. module.watermark :
                  i \in 1 .. Len(module.fragment) /\ HasSize(module.fragment[i])
    BY DEF IInv, ModuleOK, WellFormed, ModuleType, StoresOK, Settled, HasSize
  <2>2. QED
    BY <2>1, IInvKept DEF Continues, Later, Frozen, SameShape
<1>2. QED
  BY Invariance, <1>1, PTL DEF Spec, FinalSizesNeverChange

-----------------------------------------------------------------------------
(* Saved cursors.  Nothing is appended to a section while its cursor is    *)
(* saved, unless region.place returns to it: the places are all distinct.  *)

Apart ==
  \A i \in 1 .. Len(stack) :
    /\ stack[i].section # active.section
    /\ \A j \in 1 .. Len(stack) : i # j => stack[i].section # stack[j].section

\* A stack after a push: what was saved before, and a.
LEMMA Pushed ==
  ASSUME IInv, NEW a \in ActiveType, stack' = Append(stack, a)
  PROVE  \A i \in 1 .. Len(stack') :
           \/ i \in 1 .. Len(stack) /\ stack'[i] = stack[i]
           \/ i = Len(stack) + 1 /\ stack'[i] = a
<1>1. stack \in Seq(ActiveType) /\ Len(stack) \in Nat
  BY DEF IInv
<1>2. /\ Len(stack') = Len(stack) + 1
      /\ \A i \in 1 .. Len(stack) : stack'[i] = stack[i]
      /\ stack'[Len(stack) + 1] = a
  BY <1>1, AppendFacts
<1>3. QED
  BY <1>1, <1>2

\* A stack after a pop.
LEMMA Popped ==
  ASSUME IInv, Leaves
  PROVE  /\ Len(stack) \in 1 .. Len(stack)
         /\ \A i \in 1 .. Len(stack') : /\ i \in 1 .. Len(stack)
                                        /\ i # Len(stack)
                                        /\ stack'[i] = stack[i]
<1>1. /\ stack' = SubSeq(stack, 1, Len(stack) - 1) /\ stack # <<>>
      /\ stack \in Seq(ActiveType) /\ Len(stack) \in Nat
  BY DEF IInv, Leaves
<1>2. /\ Len(stack') = Len(stack) - 1 /\ Len(stack) \in 1 .. Len(stack)
      /\ \A i \in 1 .. Len(stack) - 1 : stack'[i] = stack[i]
  BY <1>1, LastFacts
<1>3. QED
  BY <1>1, <1>2

LEMMA ApartKept ==
  ASSUME IInv, Apart,
         Looks \/ Appends \/ Enters \/ Closes \/ Leaves
           \/ (Moves /\ stack' = <<>>)
  PROVE  Apart'
<1>1. /\ active.section \in 1 .. Len(module.section)
      /\ \A i \in 1 .. Len(stack) :
           stack[i].section \in 1 .. Len(module.section)
      /\ Len(module.section) \in Nat
      /\ Len(module.section) + 1 \notin 1 .. Len(module.section)
  BY DEF IInv, ActiveOK, ModuleOK, WellFormed, ModuleType
<1>2. CASE Looks \/ Appends \/ Closes
  <2>1. stack' = stack /\ active'.section = active.section
    BY <1>2 DEF Looks, Appends, Closes, SamePlace
  <2>2. QED
    BY <2>1 DEF Apart
<1>3. CASE Leaves
  <2>1. active' = stack[Len(stack)]
    BY <1>3 DEF Leaves
  <2>2. QED
    BY <1>3, <2>1, Popped DEF Apart
<1>4. CASE Enters
  <2>1. active'.section = Len(module.section) + 1
    BY <1>4 DEF Enters, ActiveOnNew
  <2>2. CASE stack' = stack
    BY <1>1, <2>1, <2>2 DEF Apart
  <2>3. CASE \E a \in ActiveType : /\ a.section = active.section
                                   /\ stack' = Append(stack, a)
    <3>1. PICK a \in ActiveType : /\ a.section = active.section
                                  /\ stack' = Append(stack, a)
      BY <2>3
    <3>2. \A i \in 1 .. Len(stack') :
            \/ i \in 1 .. Len(stack) /\ stack'[i] = stack[i]
            \/ i = Len(stack) + 1 /\ stack'[i] = a
      BY <3>1, Pushed
    <3>3. \A i \in 1 .. Len(stack') :
            stack'[i].section \in 1 .. Len(module.section)
      BY <1>1, <3>1, <3>2
    <3>4. ASSUME NEW i \in 1 .. Len(stack'), NEW j \in 1 .. Len(stack'),
                 i # j
          PROVE  stack'[i].section # stack'[j].section
      BY <3>1, <3>2, <3>4 DEF Apart
    <3>5. QED
      BY <1>1, <2>1, <3>3, <3>4 DEF Apart
  <2>4. QED
    BY <1>4, <2>2, <2>3 DEF Enters
<1>5. CASE Moves /\ stack' = <<>>
  <2>1. stack' = <<>>
    BY <1>5 DEF Moves
  <2>2. QED
    BY <2>1 DEF Apart
<1>6. QED
  BY <1>2, <1>3, <1>4, <1>5

SavedInv ==
  /\ phase \in Running
  /\ Apart
  /\ \A i \in 1 .. Len(stack) : SavedOK(module, stack[i])

LEMMA SavedInvKept ==
  ASSUME "region.place" \notin Ops, IInv, SavedInv, [Next]_vars
  PROVE  SavedInv'
<1>1. Looks \/ Appends \/ Enters \/ Closes \/ Leaves \/ (Moves /\ stack' = <<>>)
  BY StepForm DEF Forms, Moves, SavedInv, Running
<1>2. Apart'
  BY <1>1, ApartKept DEF SavedInv
<1>3. phase' \in Running
  BY <1>1
     DEF Looks, Proceeds, Running, Appends, Enters, Closes, Leaves, Moves,
         SavedInv
<1>4. /\ ModuleOK(module) /\ Later(module, module')
      /\ \A i \in 1 .. Len(stack) :
           stack[i].section \in 1 .. Len(module.section)
  BY IInvKept DEF IInv, ActiveOK, Continues
<1>5. ASSUME Looks \/ Appends \/ Enters \/ Closes,
             NEW i \in 1 .. Len(stack)
      PROVE  SavedOK(module', stack[i])
  <2>1. stack[i].section # active.section
    BY DEF SavedInv, Apart
  <2>2. module'.section[stack[i].section].frags =
          module.section[stack[i].section].frags
    BY <1>4, <1>5, <2>1
       DEF Looks, SameSections, Appends, Enters, Closes
  <2>3. SavedOK(module, stack[i])
    BY DEF SavedInv
  <2>4. QED
    BY <1>4, <2>2, <2>3, SavedKept
<1>6. ASSUME NEW i \in 1 .. Len(stack')
      PROVE  SavedOK(module', stack'[i])
  <2>1. CASE /\ Looks \/ Appends \/ Enters \/ Closes
             /\ stack' = stack
    BY <1>5, <2>1
  <2>2. CASE Enters /\ stack' # stack
    <3>1. PICK a \in ActiveType : /\ SavedOK(module', a)
                                  /\ stack' = Append(stack, a)
      BY <2>2 DEF Enters
    <3>2. \/ i \in 1 .. Len(stack) /\ stack'[i] = stack[i]
          \/ stack'[i] = a
      BY <3>1, Pushed
    <3>3. QED
      BY <1>5, <2>2, <3>1, <3>2
  <2>3. CASE Leaves
    <3>1. i \in 1 .. Len(stack) /\ stack'[i] = stack[i] /\ module' = module
      BY <2>3, Popped DEF Leaves
    <3>2. QED
      BY <3>1 DEF SavedInv
  <2>4. CASE Moves /\ stack' = <<>>
    <3>1. stack' = <<>>
      BY <2>4 DEF Moves
    <3>2. QED
      BY <3>1
  <2>5. QED
    BY <1>1, <2>1, <2>2, <2>3, <2>4 DEF Looks, Appends, Enters, Closes
<1>7. QED
  BY <1>2, <1>3, <1>6 DEF SavedInv

(* api.zig: the cursor virtual.begin saves is the end of its region when   *)
(* virtual.end restores it, whatever the scratch output in between did.    *)
(* Proved for sources without region.place, which can return to a region   *)
(* whose cursor is saved and append to it.                                 *)
THEOREM SavedCursors ==
  ASSUME "region.place" \notin Ops
  PROVE  Spec => []SavedCursorsAreCurrent
<1>1. Init => SavedInv
  BY DEF Init, SavedInv, Apart, Running
<1>2. IInv /\ SavedInv /\ [Next]_vars => SavedInv'
  BY SavedInvKept
<1>3. IInv /\ SavedInv => SavedCursorsAreCurrent
  <2> SUFFICES ASSUME IInv, SavedInv, NEW i \in 1 .. Len(stack)
               PROVE  stack[i].offset =
                        SectionCursor(module, stack[i].section).offset
    BY DEF SavedCursorsAreCurrent
  <2> DEFINE s == stack[i].section
  <2>2. /\ ModuleOK(module) /\ s \in 1 .. Len(module.section)
        /\ stack[i].offset = LogicalSize(FragmentsOf(module, s))
    BY DEF IInv, ActiveOK, SavedInv, SavedOK
  <2> HIDE DEF s
  <2>3. SectionCursor(module, s).offset = LogicalSize(FragmentsOf(module, s))
    BY <2>2, CursorIsSize
  <2>4. QED
    BY <2>2, <2>3 DEF s
<1>4. QED
  BY <1>1, <1>2, <1>3, Invariance, PTL DEF Spec

-----------------------------------------------------------------------------
(* Closed regions.  A source that neither includes another one nor places  *)
(* a scratch region keeps the flag of every cursor equal to that of its    *)
(* section; for that, no two cursors may stand on the same section.        *)

ClosedInv ==
  /\ phase \in Running
  /\ callers = <<>>
  /\ Apart
  /\ active.closed = module.section[active.section].closed
  /\ \A i \in 1 .. Len(stack) :
       stack[i].closed = module.section[stack[i].section].closed

LEMMA ClosedStart == Init => ClosedInv
<1> SUFFICES ASSUME Init PROVE ClosedInv
  OBVIOUS
<1> DEFINE x == NewSection("main", 0, 0)
<1>1. /\ module.section = <<x>>
      /\ active.section = 1 /\ active.closed = FALSE
      /\ stack = <<>> /\ callers = <<>>
  BY DEF Init, EmptyModule, ActiveOnNew, DefaultSection
<1>2. x.closed = FALSE
  BY NewSectionType
<1> HIDE DEF x
<1>3. module.section[active.section] = x
  <2>1. <<x>>[1] = x
    OBVIOUS
  <2>2. module.section[active.section] = <<x>>[1]
    BY <1>1, Zenon
  <2>3. QED
    BY <2>1, <2>2
<1>4. active.closed = module.section[active.section].closed
  BY <1>1, <1>2, <1>3, Zenon
<1>5. 1 .. Len(stack) = {} /\ callers = <<>>
  BY <1>1
<1>6. QED
  BY <1>4, <1>5 DEF ClosedInv, Init, Running, Apart

LEMMA ClosedKept ==
  ASSUME "include" \notin Ops, "region.place" \notin Ops,
         IInv, ClosedInv, [Next]_vars
  PROVE  /\ ClosedInv'
         /\ \A s \in 1 .. Len(module.section) :
              module.section[s].closed =>
                module'.section[s].frags = module.section[s].frags
<1>1. Looks \/ Appends \/ Enters \/ Closes \/ Leaves
  BY StepForm DEF Forms, Moves, ClosedInv, Running
<1>2. /\ active.section \in 1 .. Len(module.section)
      /\ \A i \in 1 .. Len(stack) :
           stack[i].section \in 1 .. Len(module.section)
      /\ Len(module.section) \in Nat
  BY DEF IInv, ActiveOK, ModuleOK, WellFormed, ModuleType
<1>3. /\ Apart' /\ phase' \in Running /\ callers' = <<>>
      /\ \A i \in 1 .. Len(stack) : stack[i].section # active.section
  <2>1. Apart' /\ Apart
    BY <1>1, ApartKept DEF ClosedInv
  <2>2. phase' \in Running /\ callers' = <<>>
    BY <1>1
       DEF ClosedInv, Looks, Proceeds, Running, Appends, Enters, Closes,
           Leaves
  <2>3. QED
    BY <2>1, <2>2 DEF Apart
<1>4. CASE Looks
  BY <1>2, <1>3, <1>4 DEF Looks, SamePlace, SameSections, ClosedInv
<1>5. CASE Appends
  BY <1>2, <1>3, <1>5 DEF Appends, SamePlace, ClosedInv
<1>6. CASE Closes
  BY <1>2, <1>3, <1>6 DEF Closes, ClosedInv
<1>7. CASE Leaves
  <2>1. active' = stack[Len(stack)] /\ module' = module
    BY <1>7 DEF Leaves
  <2>2. QED
    BY <1>3, <1>7, <2>1, Popped DEF ClosedInv
<1>8. CASE Enters
  <2> DEFINE n == Len(module.section) + 1
  <2>1. /\ active'.section = n /\ active'.closed = FALSE
        /\ ~module'.section[n].closed
        /\ \A s \in 1 .. Len(module.section) :
             /\ module'.section[s].frags = module.section[s].frags
             /\ module'.section[s].closed = module.section[s].closed
    BY <1>8 DEF Enters, ActiveOnNew
  <2>2. module'.section[n].closed = FALSE
    <3>1. /\ Len(module'.section) = n
          /\ ModuleType(module')
      BY <1>8 DEF Enters, Continues, Later, ModuleOK, WellFormed
    <3>2. n \in 1 .. Len(module'.section)
      BY <1>2, <3>1
    <3>3. module'.section[n] \in SectionType
      BY <3>1, <3>2, SectionFacts
    <3>4. \A x \in SectionType : x.closed \in BOOLEAN
      BY DEF SectionType
    <3>5. QED
      BY <2>1, <3>3, <3>4, Zenon
  <2> HIDE DEF n
  <2>3. CASE stack' = stack
    BY <1>2, <1>3, <2>1, <2>2, <2>3 DEF ClosedInv
  <2>4. CASE \E a \in ActiveType :
               /\ a.section = active.section /\ a.closed = active.closed
               /\ stack' = Append(stack, a)
    <3>1. PICK a \in ActiveType :
            /\ a.section = active.section /\ a.closed = active.closed
            /\ stack' = Append(stack, a)
      BY <2>4
    <3>2. \A i \in 1 .. Len(stack') :
            \/ i \in 1 .. Len(stack) /\ stack'[i] = stack[i]
            \/ i = Len(stack) + 1 /\ stack'[i] = a
      BY <3>1, Pushed
    <3>3. ASSUME NEW i \in 1 .. Len(stack')
          PROVE  stack'[i].closed = module'.section[stack'[i].section].closed
      BY <1>2, <2>1, <3>1, <3>2, SMTT(30) DEF ClosedInv
    <3>4. QED
      BY <1>3, <2>1, <2>2, <3>3 DEF ClosedInv
  <2>5. QED
    BY <1>8, <2>3, <2>4 DEF Enters
<1>9. QED
  BY <1>1, <1>4, <1>5, <1>6, <1>7, <1>8

(* section.zig: a region that region.file_align closed gets no fragment    *)
(* any more.  Proved for sources without include and region.place: with    *)
(* either of them it is false (include: the run ClosedRegion).             *)
THEOREM ClosedStays ==
  ASSUME "include" \notin Ops, "region.place" \notin Ops
  PROVE  Spec => ClosedRegionStaysClosed
<1> DEFINE Kept ==
      \A s \in 1 .. Len(module.section) :
        module.section[s].closed =>
          module'.section[s].frags = module.section[s].frags
           Inv == IInv /\ ClosedInv
<1>1. Init => Inv
  BY StartOK, ClosedStart
<1>2. Inv /\ [Next]_vars => Inv'
  BY IInvKept, ClosedKept
<1>3. Inv /\ [Next]_vars => [Kept]_vars
  BY ClosedKept
<1>4. QED
  BY <1>1, <1>2, <1>3, PTL DEF Spec, ClosedRegionStaysClosed
=============================================================================
