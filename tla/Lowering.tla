------------------------------ MODULE Lowering ------------------------------
(***************************************************************************)
(* The lowering machine of XIRASM: the output API statements of one source *)
(* (frontend/lower/api.zig, dispatched by frontend/lower/root.zig) and the *)
(* Module they build (frontend/module.zig, section.zig, fragment.zig).     *)
(*                                                                         *)
(* The environment is the source text: any sequence of the statements in   *)
(* Ops, with arguments from the parameter sets below.  Two facts about the *)
(* code make this hard:                                                    *)
(*                                                                         *)
(*  - an instruction has size 0 until it is encoded, and it is encoded     *)
(*    only when something needs its size (module.watermark);               *)
(*  - `active`, the place statements append to, is a COPY of a cursor:     *)
(*    virtual.begin saves one, include starts from a fresh one.            *)
(***************************************************************************)
EXTENDS Layout, Bags

CONSTANTS
  Texts,        \* instruction texts; every one of them can be encoded
  Encoding,     \* Encoding[t]: the bytes of t, its reference fields left 0
  References,   \* References[t]: a set of [label, at, kind], t's fixup facts
  Labels,
  Chunks,       \* byte sequences the emit calls append
  Fill,         \* the byte pad, pad_to and align write
  Stored,       \* the byte a store call writes
  Sizes,        \* arguments of reserve, pad and pad_to
  Alignments,   \* arguments of align and region.file_align
  Origins,      \* arguments of origin, region.*, output.* and virtual.begin
  FileOffsets,  \* arguments of region.begin and region.place
  Ops,          \* the calls the source uses
  LateOps,      \* the calls its late_layout blocks use
  MaxFragments, \* bound: fragments of a module
  MaxSections,  \* bound: sections of a module
  MaxIncludes   \* nested sources; max_include_depth of the code

ASSUME EncodingAssumption ==
  /\ Encoding \in [Texts -> Seq(Nat)]
  /\ \A t \in Texts : Len(Encoding[t]) > 0
  /\ "" \notin Texts

ASSUME ReferencesAssumption ==
  \A t \in Texts : \A r \in References[t] :
    /\ r.label \in Labels
    /\ r.at \in 0 .. Len(Encoding[t]) - 1
    /\ r.kind \in {"absolute", "pc_relative"}
    /\ \A q \in References[t] : q.at = r.at => q = r

ASSUME ParameterAssumption ==
  /\ Chunks \subseteq Seq(Nat)
  /\ Fill \in Nat /\ Stored \in Nat
  /\ Sizes \subseteq Nat
  /\ Alignments \subseteq Nat
  /\ Origins \subseteq Nat /\ FileOffsets \subseteq Nat

VARIABLES
  module,   \* the Module being built, a record
  active,   \* the ActiveOutput of the running source, a record
  stack,    \* output_stack: the actives saved by virtual.begin
  callers,  \* the actives of the sources suspended in an include
  phase     \* which stage of an assembly is running

vars == <<module, active, stack, callers, phase>>

Phases == {"lower", "lowered", "late", "resolve", "write", "patch",
           "deliver", "done", "failed"}

-----------------------------------------------------------------------------
(* The module.                                                             *)

NewSection(k, o, fo) ==
  [kind |-> k, origin |-> o, fileOffset |-> fo, sizeAlign |-> 1,
   closed |-> FALSE, frags |-> <<>>, folded |-> 0, memo |-> StartOfRegion]

\* A label's anchor: `position` fragments of its section precede it.
Undefined == [section |-> 0, offset |-> 0, position |-> 0]

EmptyModule ==
  [section   |-> <<NewSection("main", 0, 0)>>,
   fragment  |-> <<>>,
   label     |-> [l \in Labels |-> Undefined],
   fixup     |-> EmptyBag,
   watermark |-> 0]

DefaultSection == 1

FragmentsOf(m, s) ==
  [k \in 1 .. Len(m.section[s].frags) |-> m.fragment[m.section[s].frags[k]]]

\* Mutant of AddFragment: neighbouring reserves are merged.
AddFragmentMerged(m, f) ==
  LET last == Len(m.fragment)
  IN  IF /\ last > 0 /\ f.kind = "reserve"
         /\ m.fragment[last].kind = "reserve"
         /\ m.fragment[last].section = f.section
      THEN [m EXCEPT !.fragment[last].n = @ + f.n]
      ELSE [m EXCEPT !.fragment = Append(@, f),
                     !.section[f.section].frags = Append(@, last + 1)]

AddFragment(m, f) ==
  [m EXCEPT !.fragment = Append(@, f),
            !.section[f.section].frags = Append(@, Len(m.fragment) + 1)]

AddSection(m, s) == [m EXCEPT !.section = Append(@, s)]

-----------------------------------------------------------------------------
(* Encoding on demand (pass.zig) and the cursor memo (layout_cursor.zig).  *)

\* Mutant of Unencoded: encodes what already has bytes once more.
UnencodedAgain(m, start) ==
  {i \in start + 1 .. Len(m.fragment) : m.fragment[i].kind = "isa"}

Unencoded(m, start) ==
  {i \in start + 1 .. Len(m.fragment) :
     m.fragment[i].kind = "isa" /\ m.fragment[i].data = <<>>}

Encoded(f) == [f EXCEPT !.n = Len(Encoding[f.text]), !.data = Encoding[f.text]]

\* recordInstructionFixups, for every instruction encoded together.
FixupsOf(m, ids) ==
  SetToBag(UNION {{[fragment |-> i, ref |-> r] :
                      r \in References[m.fragment[i].text]} : i \in ids})

LabelOffset(m, b) == Offsets(FragmentsOf(m, b.section))[b.position]

\* Mutant of SyncAnchoredLabels: scratch regions have no final address yet,
\* so their labels are left alone.
SyncMainLabels(m) ==
  [m EXCEPT !.label = [l \in Labels |->
     IF \/ m.label[l].section = 0
        \/ m.section[m.label[l].section].kind = "virtual"
     THEN m.label[l]
     ELSE [m.label[l] EXCEPT !.offset = LabelOffset(m, m.label[l])]]]

SyncAnchoredLabels(m) ==
  [m EXCEPT !.label = [l \in Labels |->
     IF m.label[l].section = 0 THEN m.label[l]
     ELSE [m.label[l] EXCEPT !.offset = LabelOffset(m, m.label[l])]]]

\* Mutant of EncodeFrom: when nothing is left to encode, nothing is done.
EncodeFromIfNeeded(m, start) ==
  LET ids == Unencoded(m, start)
  IN  IF ids = {} THEN m
      ELSE SyncAnchoredLabels(
             [m EXCEPT
                !.fragment = [i \in 1 .. Len(m.fragment) |->
                                IF i \in ids THEN Encoded(m.fragment[i])
                                ELSE m.fragment[i]],
                !.fixup = @ (+) FixupsOf(m, ids)])

\* encodeInstructionFragmentsFrom: the labels move even if nothing is encoded.
EncodeFrom(m, start) ==
  LET ids == Unencoded(m, start)
  IN  SyncAnchoredLabels(
        [m EXCEPT
           !.fragment = [i \in 1 .. Len(m.fragment) |->
                           IF i \in ids THEN Encoded(m.fragment[i])
                           ELSE m.fragment[i]],
           !.fixup = @ (+) FixupsOf(m, ids)])

\* Mutant of ForOutputAccess: the watermark is one too high.
ForOutputAccessOneMore(m) ==
  IF m.watermark >= Len(m.fragment) THEN m
  ELSE [EncodeFrom(m, m.watermark) EXCEPT !.watermark = Len(m.fragment) + 1]

\* Make every fragment's size final; the watermark says how far that is done.
ForOutputAccess(m) ==
  IF m.watermark >= Len(m.fragment) THEN m
  ELSE [EncodeFrom(m, m.watermark) EXCEPT !.watermark = Len(m.fragment)]

\* Mutant of CursorWalk: continues the prefix without its offsets.
CursorWalkFromZero(m, s) ==
  Walk(FragmentsOf(m, s), m.section[s].folded, StartOfRegion)

\* The cursor of a section, walked on from the prefix folded in its memo.
CursorWalk(m, s) ==
  Walk(FragmentsOf(m, s), m.section[s].folded, m.section[s].memo)

SectionCursor(m, s) == CursorWalk(m, s)[Len(m.section[s].frags)]

\* The walk folds every fragment below the watermark and no other.
Foldable(m, s) ==
  {k \in m.section[s].folded + 1 .. Len(m.section[s].frags) :
     m.section[s].frags[k] <= m.watermark}

\* Mutant of FoldTo: folds instructions whose size is not known.
FoldToEnd(m, s) == Len(m.section[s].frags)

FoldTo(m, s) ==
  IF Foldable(m, s) = {} THEN m.section[s].folded ELSE Max(Foldable(m, s))

FoldMemo(m, s) ==
  [m EXCEPT !.section[s] =
     [@ EXCEPT !.folded = FoldTo(m, s), !.memo = CursorWalk(m, s)[FoldTo(m, s)]]]

-----------------------------------------------------------------------------
(* The active output: a section and a copy of its cursor.                  *)

\* An output cursor on section s; its file part obeys the size alignment.
ActiveOn(m, s, closed) ==
  LET c == SectionCursor(m, s)
  IN  [section |-> s, offset |-> c.offset,
       fileOffset |-> AlignUp(c.fileOffset, m.section[s].sizeAlign),
       closed |-> closed]

ActiveOnNew(s) ==
  [section |-> s, offset |-> 0, fileOffset |-> 0, closed |-> FALSE]

\* syncActiveOutput: the module afterwards, and the cursor.
SyncedModule(m, a) == FoldMemo(ForOutputAccess(m), a.section)
\* Mutant of SyncedActive: a recomputed cursor is an open one.
SyncedActiveOpen(m, a) == ActiveOn(ForOutputAccess(m), a.section, FALSE)

SyncedActive(m, a) == ActiveOn(ForOutputAccess(m), a.section, a.closed)

\* Any value expression that reads here() or file_offset() syncs a copy.
ActiveOfValue(m, a) == SyncedActive(m, a)

\* A condition of if or while is evaluated against the cursor as it stands.
ActiveOfCondition(m, a) == a

Address(m, a) == m.section[a.section].origin + a.offset

Advanced(a, f) ==
  [a EXCEPT !.offset     = NextOffset(f, a.offset),
            !.fileOffset = NextFileOffset(f, a.offset, a.fileOffset)]

-----------------------------------------------------------------------------
(* Stores: the byte of section s at offset t, if it is one.                *)

\* The fragment that holds the byte: its number within the section, or none.
HolderOf(m, s, t) ==
  LET off == Offsets(FragmentsOf(m, s))
  IN  {k \in 1 .. Len(m.section[s].frags) :
         /\ off[k - 1] <= t /\ t < off[k]
         /\ FragmentsOf(m, s)[k].kind \in {"bytes", "isa"}}

\* Storing into an encoded instruction freezes it into plain bytes.
StoreByte(m, s, t, byte) ==
  LET k == CHOOSE k \in HolderOf(m, s, t) : TRUE
      i == m.section[s].frags[k]
      f == m.fragment[i]
  IN  [m EXCEPT !.fragment[i] =
         [f EXCEPT !.kind = "bytes", !.text = "",
                   !.data[t - Offsets(FragmentsOf(m, s))[k - 1] + 1] = byte]]

\* A label names a byte of its own section, a number one of the current one.
StoreTargets(m) ==
  {<<m.label[l].section, m.label[l].offset>> :
      l \in {k \in Labels : m.label[k].section # 0}}
    \cup {<<active.section, t>> : t \in Sizes}

-----------------------------------------------------------------------------
(* Which calls may run.  Late-layout blocks run after the whole source, on *)
(* a module whose instructions are encoded, and may use fewer calls.       *)

LateAllowed ==
  {"emit", "reserve", "pad", "pad_to", "align", "store", "here", "load",
   "origin", "region.begin", "region.place", "region.file_align",
   "output.org", "output.section", "virtual.begin", "virtual.end"}

Called(op) ==
  \/ phase = "lower" /\ op \in Ops
  \/ phase = "late" /\ op \in LateOps \cap LateAllowed

\* The calls that require_open_output_region guards.
NeedsOpenRegion ==
  {"label", "isa", "emit", "reserve", "pad", "pad_to", "align",
   "output.org", "output.section"}

RoomForFragment == Len(module.fragment) < MaxFragments
RoomForSection == Len(module.section) < MaxSections

AppendTo(m, a, f) ==
  /\ RoomForFragment
  /\ module' = AddFragment(m, f)
  /\ active' = Advanced(a, f)
  /\ UNCHANGED <<stack, callers, phase>>

-----------------------------------------------------------------------------
(* Calls that append without knowing where they are.                       *)

DataEmit(d) ==
  /\ Called("emit") /\ ~active.closed
  /\ AppendTo(module, active, Bytes(active.section, d))

ReserveSpace(size) ==
  /\ Called("reserve") /\ ~active.closed
  /\ AppendTo(module, active, Reserve(active.section, size))

IsaInstruction(t) ==
  /\ Called("isa") /\ ~active.closed
  /\ AppendTo(module, active, Instruction(active.section, t))

DefineLabel(l) ==
  /\ Called("label") /\ ~active.closed
  /\ module.label[l] = Undefined
  /\ module' = [module EXCEPT !.label[l] =
                  [section  |-> active.section,
                   offset   |-> active.offset,
                   position |-> Len(module.section[active.section].frags)]]
  /\ UNCHANGED <<active, stack, callers, phase>>

SetOrigin(o) ==
  /\ Called("origin")
  /\ module' = [module EXCEPT !.section[active.section].origin = o]
  /\ UNCHANGED <<active, stack, callers, phase>>

-----------------------------------------------------------------------------
(* Calls that synchronise the cursor first.                                *)

Padding(size) == [i \in 1 .. size |-> Fill]

Pad(size) ==
  /\ Called("pad") /\ ~active.closed
  /\ AppendTo(SyncedModule(module, active), SyncedActive(module, active),
              Bytes(active.section, Padding(size)))

PadTo(target) ==
  LET a    == SyncedActive(module, active)
      size == target - Materialized(a.offset, a.fileOffset)
  IN  /\ Called("pad_to") /\ ~active.closed
      /\ size >= 0
      /\ AppendTo(SyncedModule(module, active), a,
                  Bytes(active.section, Padding(size)))

Align(alignment) ==
  /\ Called("align") /\ ~active.closed
  /\ IsPowerOfTwo(alignment)
  /\ AppendTo(SyncedModule(module, active), SyncedActive(module, active),
              Alignment(active.section, alignment, Fill))

FileAlign(alignment) ==
  /\ Called("region.file_align")
  /\ IsPowerOfTwo(alignment)
  /\ module' = [SyncedModule(module, active) EXCEPT
                  !.section[active.section] =
                     [@ EXCEPT !.sizeAlign = alignment, !.closed = TRUE]]
  /\ active' = LET a == SyncedActive(module, active)
               IN  [a EXCEPT !.fileOffset = AlignUp(@, alignment),
                             !.closed = TRUE]
  /\ UNCHANGED <<stack, callers, phase>>

\* const x = here(): the statement keeps its cursor, the module does not.
ReadHere ==
  /\ Called("here")
  /\ module' = SyncedModule(module, active)
  /\ UNCHANGED <<active, stack, callers, phase>>

\* defer and late_layout inside a block freeze the address they stand at, and
\* leave the statement list with the synchronised cursor.
FreezeBlock ==
  /\ Called("freeze")
  /\ stack = <<>>
  /\ module' = SyncedModule(module, active)
  /\ active' = SyncedActive(module, active)
  /\ UNCHANGED <<stack, callers, phase>>

\* An expression with load.*: encodes, but recomputes no cursor.
ReadOutput ==
  /\ Called("load")
  /\ module' = ForOutputAccess(module)
  /\ UNCHANGED <<active, stack, callers, phase>>

Store(target) ==
  /\ Called("store")
  /\ HolderOf(ForOutputAccess(module), target[1], target[2]) # {}
  /\ module' = StoreByte(ForOutputAccess(module), target[1], target[2], Stored)
  /\ UNCHANGED <<active, stack, callers, phase>>

-----------------------------------------------------------------------------
(* Calls that choose the region.                                           *)

\* Continue in a section created by this statement.
EnterNew(m, sec) ==
  /\ RoomForSection
  /\ module' = AddSection(m, sec)
  /\ active' = ActiveOnNew(Len(m.section) + 1)
  /\ UNCHANGED <<callers, phase>>

RegionBegin(o, fo) ==
  /\ Called("region.begin")
  /\ EnterNew(module, NewSection("main", o, fo))
  /\ UNCHANGED stack

\* Mutant of OutputOrg: computes the file offset from the cursor as it stands.
OutputOrgStale(o) ==
  /\ Called("output.org") /\ ~active.closed
  /\ module.section[active.section].kind = "main"
  /\ EnterNew(SyncedModule(module, active),
              NewSection("main", o,
                module.section[active.section].fileOffset + active.offset))
  /\ UNCHANGED stack

\* output.org continues the file after the logical size of the current
\* region, output.section after the part of it that is backed by the file.
OutputOrg(o) ==
  LET a == SyncedActive(module, active)
  IN  /\ Called("output.org") /\ ~active.closed
      /\ module.section[active.section].kind = "main"
      /\ EnterNew(SyncedModule(module, active),
                  NewSection("main", o,
                    module.section[active.section].fileOffset + a.offset))
      /\ UNCHANGED stack

\* Mutant of OutputSection: computes the file offset from the cursor as it
\* stands.
OutputSectionStale(o) ==
  /\ Called("output.section") /\ ~active.closed
  /\ module.section[active.section].kind = "main"
  /\ EnterNew(SyncedModule(module, active),
              NewSection("main", o,
                module.section[active.section].fileOffset + active.fileOffset))
  /\ UNCHANGED stack

OutputSection(o) ==
  LET a == SyncedActive(module, active)
  IN  /\ Called("output.section") /\ ~active.closed
      /\ module.section[active.section].kind = "main"
      /\ EnterNew(SyncedModule(module, active),
                  NewSection("main", o,
                    module.section[active.section].fileOffset + a.fileOffset))
      /\ UNCHANGED stack

\* Mutant of VirtualBegin: saves the cursor as it stands.
VirtualBeginStale(o) ==
  /\ Called("virtual.begin")
  /\ EnterNew(SyncedModule(module, active), NewSection("virtual", o, 0))
  /\ stack' = Append(stack, active)

\* The default origin of scratch output is the current address.
VirtualBegin(o) ==
  /\ Called("virtual.begin")
  /\ EnterNew(SyncedModule(module, active), NewSection("virtual", o, 0))
  /\ stack' = Append(stack, SyncedActive(module, active))

VirtualBeginHere ==
  VirtualBegin(Address(SyncedModule(module, active),
                       SyncedActive(module, active)))

VirtualEnd ==
  /\ Called("virtual.end")
  /\ stack # <<>>
  /\ active' = stack[Len(stack)]
  /\ stack' = SubSeq(stack, 1, Len(stack) - 1)
  /\ UNCHANGED <<module, callers, phase>>

\* Scratch output becomes part of the file, and emission goes on after it.
Promoted(m, s, o, fo) ==
  [m EXCEPT !.section[s] =
     [@ EXCEPT !.kind = "main", !.origin = o, !.fileOffset = fo]]

Placeable(l) ==
  /\ module.label[l] # Undefined
  /\ module.section[module.label[l].section].kind = "virtual"

RegionPlace(l, o, fo) ==
  LET s == module.label[l].section
  IN  /\ Called("region.place")
      /\ Placeable(l)
      /\ module' = FoldMemo(Promoted(module, s, o, fo), s)
      /\ active' = ActiveOn(Promoted(module, s, o, fo), s,
                            module.section[s].closed)
      /\ UNCHANGED <<stack, callers, phase>>

-----------------------------------------------------------------------------
(* Sources.  Every source starts on the default section, with a cursor of  *)
(* its own that is taken to be open.                                       *)

Include ==
  /\ Called("include")
  /\ stack = <<>>
  /\ Len(callers) + 1 < MaxIncludes
  /\ callers' = Append(callers, active)
  /\ module' = FoldMemo(module, DefaultSection)
  /\ active' = ActiveOn(module, DefaultSection, FALSE)
  /\ UNCHANGED <<stack, phase>>

\* The including source gets its own cursor back, its offset refreshed.
EndIncluded ==
  /\ phase = "lower"
  /\ callers # <<>> /\ stack = <<>>
  /\ LET a == callers[Len(callers)]
     IN  /\ module' = FoldMemo(module, a.section)
         /\ active' = [a EXCEPT !.offset =
                         SectionCursor(module, a.section).offset]
  /\ callers' = SubSeq(callers, 1, Len(callers) - 1)
  /\ UNCHANGED <<stack, phase>>

\* A break or continue of a loop around the include leaves the included source
\* as an error does: nothing is refreshed, and the scratch output it had open
\* is forgotten, not refused.  Several sources are left one after the other.
BreakIncluded ==
  /\ Called("break")
  /\ callers # <<>>
  /\ active' = callers[Len(callers)]
  /\ callers' = SubSeq(callers, 1, Len(callers) - 1)
  /\ stack' = <<>>
  /\ UNCHANGED <<module, phase>>

EndSource ==
  /\ phase = "lower"
  /\ callers = <<>> /\ stack = <<>>
  /\ phase' = "lowered"
  /\ UNCHANGED <<module, active, stack, callers>>

-----------------------------------------------------------------------------
(* Errors.  A refused call stops the assembly and its module is dropped.   *)

RefusedInClosedRegion ==
  active.closed /\ \E op \in NeedsOpenRegion : Called(op)

RefusedArgument ==
  \/ /\ Called("align") /\ ~active.closed
     /\ \E a \in Alignments : ~IsPowerOfTwo(a)
  \/ /\ Called("region.file_align")
     /\ \E a \in Alignments : ~IsPowerOfTwo(a)
  \/ /\ Called("pad_to") /\ ~active.closed
     /\ LET a == SyncedActive(module, active)
        IN  \E t \in Sizes : t < Materialized(a.offset, a.fileOffset)
  \/ /\ Called("store")
     /\ LET m == ForOutputAccess(module)
        IN  \E t \in StoreTargets(m) : HolderOf(m, t[1], t[2]) = {}

RefusedLabel ==
  \/ /\ Called("label") /\ ~active.closed
     /\ \E l \in Labels : module.label[l] # Undefined
  \/ /\ Called("region.place")
     /\ \E l \in Labels : ~Placeable(l)

RefusedInVirtualOutput ==
  \/ /\ Called("output.org") \/ Called("output.section")
     /\ ~active.closed
     /\ module.section[active.section].kind # "main"
  \/ (Called("include") \/ Called("freeze")) /\ stack # <<>>

\* virtual.end without a begin, a source (or the late blocks) that ends
\* inside virtual output, and sources nested too deep.
RefusedNesting ==
  \/ Called("virtual.end") /\ stack = <<>>
  \/ phase \in {"lower", "late"} /\ stack # <<>>
  \/ Called("include") /\ stack = <<>> /\ Len(callers) + 1 >= MaxIncludes

Refuse ==
  /\ \/ RefusedInClosedRegion
     \/ RefusedArgument
     \/ RefusedLabel
     \/ RefusedInVirtualOutput
     \/ RefusedNesting
  /\ phase' = "failed"
  /\ UNCHANGED <<module, active, stack, callers>>

-----------------------------------------------------------------------------
Init ==
  /\ module = EmptyModule
  /\ active = ActiveOnNew(DefaultSection)
  /\ stack = <<>>
  /\ callers = <<>>
  /\ phase = "lower"

Emission ==
  \/ \E d \in Chunks : DataEmit(d)
  \/ \E n \in Sizes : ReserveSpace(n)
  \/ \E t \in Texts : IsaInstruction(t)
  \/ \E n \in Sizes : Pad(n)
  \/ \E n \in Sizes : PadTo(n)
  \/ \E a \in Alignments : Align(a)

Query ==
  \/ ReadHere
  \/ FreezeBlock
  \/ ReadOutput
  \/ \E t \in StoreTargets(ForOutputAccess(module)) : Store(t)

Regions ==
  \/ \E l \in Labels : DefineLabel(l)
  \/ \E o \in Origins : SetOrigin(o)
  \/ \E a \in Alignments : FileAlign(a)
  \/ \E o \in Origins, fo \in FileOffsets : RegionBegin(o, fo)
  \/ \E o \in Origins : OutputOrg(o)
  \/ \E o \in Origins : OutputSection(o)
  \/ \E o \in Origins : VirtualBegin(o)
  \/ VirtualBeginHere
  \/ VirtualEnd
  \/ \E l \in Labels, o \in Origins, fo \in FileOffsets : RegionPlace(l, o, fo)

\* One API call of the running statement list.
Call == Emission \/ Query \/ Regions

Sources == Include \/ EndIncluded \/ BreakIncluded \/ EndSource

Finished == phase \in {"lowered", "failed"} /\ UNCHANGED vars

Next == Call \/ Sources \/ Refuse \/ Finished

Spec == Init /\ [][Next]_vars

-----------------------------------------------------------------------------
(* Properties.                                                             *)

SectionType ==
  [kind : {"main", "virtual"}, origin : Nat, fileOffset : Nat,
   sizeAlign : Nat \ {0}, closed : BOOLEAN, frags : Seq(Nat), folded : Nat,
   memo : [offset : Nat, fileOffset : Nat]]

FragmentType ==
  [kind : {"bytes", "reserve", "alignment", "isa"}, section : Nat, n : Nat,
   text : Texts \cup {""}, data : Seq(Nat)]

ActiveType ==
  [section : Nat, offset : Nat, fileOffset : Nat, closed : BOOLEAN]

\* Every id in the state names something that exists: fragments their
\* section, sections their fragments, labels an anchor inside a section.
IdsOK ==
  /\ \A i \in 1 .. Len(module.fragment) :
       module.fragment[i].section \in 1 .. Len(module.section)
  /\ \A s \in 1 .. Len(module.section) :
       /\ \A k \in 1 .. Len(module.section[s].frags) :
            module.section[s].frags[k] \in 1 .. Len(module.fragment)
       /\ module.section[s].folded <= Len(module.section[s].frags)
  /\ \A l \in Labels :
       module.label[l] # Undefined =>
         /\ module.label[l].section \in 1 .. Len(module.section)
         /\ module.label[l].position <=
              Len(module.section[module.label[l].section].frags)
  /\ active.section \in 1 .. Len(module.section)
  /\ \A i \in 1 .. Len(stack) : stack[i].section \in 1 .. Len(module.section)
  /\ \A i \in 1 .. Len(callers) :
       callers[i].section \in 1 .. Len(module.section)

\* The state has its types, and its ids stay inside the stores they index.
TypeOK ==
  /\ module.section \in Seq(SectionType)
  /\ module.fragment \in Seq(FragmentType)
  /\ module.label \in
       [Labels -> [section : Nat, offset : Nat, position : Nat]]
  /\ module.watermark \in 0 .. Len(module.fragment)
  /\ active \in ActiveType
  /\ stack \in Seq(ActiveType)
  /\ callers \in Seq(ActiveType)
  /\ phase \in Phases
  /\ IdsOK

\* section.zig:38-45: "a folded prefix never has to be undone".  Whatever is
\* appended, encoded, frozen by a store or promoted after a prefix was folded,
\* the memo is what a walk over that prefix would compute now.
MemoIsFullWalk ==
  \A s \in 1 .. Len(module.section) :
    module.section[s].memo =
      Walk(FragmentsOf(module, s), 0, StartOfRegion)[module.section[s].folded]

\* expression_materialization.zig:41-51: once synchronised, the cursor of a
\* region is its size and its real file size in the final layout of
\* layout.zig, which is computed by different code at the end.
CursorIsLaidOut ==
  LET m == ForOutputAccess(module)
  IN  \A s \in 1 .. Len(m.section) :
        SectionCursor(m, s) =
          [offset     |-> LogicalSize(FragmentsOf(m, s)),
           fileOffset |-> FileSize(FragmentsOf(m, s))]

\* pass.zig:738-745, "its facts reach this function exactly once": the fixup
\* store holds each reference of each encoded instruction once and nothing
\* else, although instructions are encoded piecemeal, by different callers,
\* and a store may freeze one in between.
FixupsMatchInstructions ==
  LET encoded == {i \in 1 .. Len(module.fragment) :
                    /\ module.fragment[i].kind = "isa"
                    /\ module.fragment[i].data # <<>>}
  IN  /\ BagToSet(FixupsOf(module, encoded)) \subseteq BagToSet(module.fixup)
      /\ \A x \in BagToSet(module.fixup) :
           LET f == module.fragment[x.fragment]
           IN  /\ module.fixup[x] = 1
               /\ f.data # <<>>
               /\ f.kind = "isa" => x.ref \in References[f.text]

\* api.zig:288-310: the cursor virtual.begin saves counts every instruction
\* before it, so it is still the region's cursor when virtual.end restores it.
SavedCursorsAreCurrent ==
  \A i \in 1 .. Len(stack) :
    stack[i].offset = SectionCursor(module, stack[i].section).offset

\* pass.zig:74-77: what is below the watermark "was encoded by an earlier call
\* and cannot change again"; nor is a fragment ever removed or moved.
FinalSizesNeverChange ==
  [][\A i \in 1 .. module.watermark :
       /\ i <= Len(module'.fragment)
       /\ module'.fragment[i].n = module.fragment[i].n
       /\ module'.fragment[i].section = module.fragment[i].section]_vars

\* section.zig:35: "Raw-size alignment closes the region, including for later
\* phases": nothing is ever appended to a section that region.file_align closed.
ClosedRegionStaysClosed ==
  [][\A s \in 1 .. Len(module.section) :
       module.section[s].closed =>
         module'.section[s].frags = module.section[s].frags]_vars

-----------------------------------------------------------------------------
(* Properties the documentation states and the code does not have.         *)

\* expr.zig:1647-1651: the caller makes the cursor current before evaluating
\* an expression that reads the current address.  So if (here() == x) and
\* const y = here() at the same place see the same address.
ConditionsSeeTheCurrentAddress ==
  phase = "lower" =>
    Address(module, ActiveOfCondition(module, active)) =
      Address(ForOutputAccess(module), ActiveOfValue(module, active))

\* document/language.md:2468: a label puts its name "on the current logical
\* output address".  Once every instruction size is known, label_addr gives
\* the address of the fragment the label stands before.
KnownLabelsAreCurrent ==
  module.watermark = Len(module.fragment) =>
    \A l \in Labels :
      module.label[l] # Undefined =>
        module.label[l].offset = LabelOffset(module, module.label[l])
=============================================================================
