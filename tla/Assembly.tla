------------------------------ MODULE Assembly ------------------------------
(***************************************************************************)
(* One whole flat assembly (assembly.zig): the source is lowered, every    *)
(* instruction is encoded, the late-layout blocks run, the fixups are      *)
(* resolved, the image is written and then patched, and main.zig delivers  *)
(* the file unless a reference stayed unresolved.                          *)
(***************************************************************************)
EXTENDS Lowering

VARIABLES
  resolution, \* the resolved fixups, each with the value of its target
  image       \* the output file: a function from file offsets to bytes

assemblyVars == <<vars, resolution, image>>

NoImage == [p \in {} |-> 0]

-----------------------------------------------------------------------------
(* Encoding and late layout.                                               *)

\* Everything is encoded, but the watermark is not advanced.  The late blocks
\* share one cursor that starts on the default section, with its real flag.
EncodeAll ==
  LET m == EncodeFrom(module, 0)
  IN  /\ phase = "lowered"
      /\ module' = FoldMemo(m, DefaultSection)
      /\ active' = ActiveOn(m, DefaultSection, m.section[DefaultSection].closed)
      /\ phase' = "late"
      /\ UNCHANGED <<stack, callers, resolution, image>>

EndLateLayout ==
  /\ phase = "late"
  /\ stack = <<>>
  /\ phase' = "resolve"
  /\ UNCHANGED <<module, active, stack, callers, resolution, image>>

-----------------------------------------------------------------------------
(* Fixups.  A reference to an undefined label stays pending.               *)

\* The entries of the fixup store.
Fixups == BagToSet(module.fixup)

LabelAddress(l) ==
  module.section[module.label[l].section].origin + module.label[l].offset

ResolveFixups ==
  /\ phase = "resolve"
  /\ resolution' =
       {[fixup |-> x, value |-> LabelAddress(x.ref.label)] :
          x \in {y \in Fixups : module.label[y.ref.label] # Undefined}}
  /\ phase' = "write"
  /\ UNCHANGED <<module, active, stack, callers, image>>

-----------------------------------------------------------------------------
(* The writer.                                                             *)

OutputSections ==
  {s \in 1 .. Len(module.section) : module.section[s].kind = "main"}

OffsetsIn(s) == Offsets(FragmentsOf(module, s))

\* Where the file bytes of a section end, the padding of its size included.
SectionEnd(s) ==
  module.section[s].fileOffset
    + AlignUp(FileSize(FragmentsOf(module, s)), module.section[s].sizeAlign)

FileRange(s) == module.section[s].fileOffset .. SectionEnd(s) - 1

\* A region without a byte still makes the file reach its file offset.
OutputSize == Max({0} \cup {SectionEnd(s) : s \in OutputSections})

\* Mutant of WritersOf: the last byte of each fragment is not written.
WritersOfShort(p) ==
  {w \in {<<s, k>> : s \in OutputSections, k \in 1 .. Len(module.fragment)} :
     LET s == w[1]
         k == w[2]
     IN  /\ k <= Len(module.section[s].frags)
         /\ FragmentsOf(module, s)[k].kind # "reserve"
         /\ p - module.section[s].fileOffset
              \in OffsetsIn(s)[k - 1] .. OffsetsIn(s)[k] - 2}

\* The section and the fragment number that write file byte p, if any.  A
\* reserve writes nothing, not even zeros.
WritersOf(p) ==
  {w \in {<<s, k>> : s \in OutputSections, k \in 1 .. Len(module.fragment)} :
     LET s == w[1]
         k == w[2]
     IN  /\ k <= Len(module.section[s].frags)
         /\ FragmentsOf(module, s)[k].kind # "reserve"
         /\ p - module.section[s].fileOffset
              \in OffsetsIn(s)[k - 1] .. OffsetsIn(s)[k] - 1}

\* Byte j of a fragment's file bytes, counted from 0.
ByteOf(f, j) == IF f.kind = "alignment" THEN f.data[1] ELSE f.data[j + 1]

\* Sections are written in creation order: the later region wins.
WrittenByte(p) ==
  IF WritersOf(p) = {} THEN 0
  ELSE LET w == CHOOSE w \in WritersOf(p) : \A v \in WritersOf(p) : v[1] <= w[1]
       IN  ByteOf(FragmentsOf(module, w[1])[w[2]],
                  p - module.section[w[1]].fileOffset - OffsetsIn(w[1])[w[2] - 1])

WriteOutput ==
  /\ phase = "write"
  /\ image' = [p \in 0 .. OutputSize - 1 |-> WrittenByte(p)]
  /\ phase' = "patch"
  /\ UNCHANGED <<module, active, stack, callers, resolution>>

-----------------------------------------------------------------------------
(* Patching.  Every reference field is one byte wide.                      *)

\* Where the field of a fixup is, relative to its section.
FieldOffset(x) ==
  LET s == module.fragment[x.fragment].section
      k == CHOOSE k \in 1 .. Len(module.section[s].frags) :
             module.section[s].frags[k] = x.fragment
  IN  OffsetsIn(s)[k - 1] + x.ref.at

SectionOfFixup(x) == module.section[module.fragment[x.fragment].section]

FieldPosition(x) == SectionOfFixup(x).fileOffset + FieldOffset(x)

\* Mutants of PatchValue: a displacement counted from the field itself, and
\* one that forgets where the region of the instruction is loaded.
PatchValueFromField(x, target) ==
  IF x.ref.kind = "absolute" THEN target
  ELSE target - (SectionOfFixup(x).origin + FieldOffset(x))

PatchValueWithoutOrigin(x, target) ==
  IF x.ref.kind = "absolute" THEN target ELSE target - (FieldOffset(x) + 1)

PatchValue(x, target) ==
  IF x.ref.kind = "absolute" THEN target
  ELSE target - (SectionOfFixup(x).origin + FieldOffset(x) + 1)

InRange(x, value) ==
  value \in (IF x.ref.kind = "absolute" THEN 0 .. 255 ELSE -128 .. 127)

Patchable(r) ==
  /\ SectionOfFixup(r.fixup).kind = "main"
  /\ InRange(r.fixup, PatchValue(r.fixup, r.value))

\* Fixups are patched in the order their instructions were encoded in.
PatchOf(p) ==
  CHOOSE r \in {q \in resolution : FieldPosition(q.fixup) = p} :
    \A q \in resolution :
      FieldPosition(q.fixup) = p => q.fixup.fragment <= r.fixup.fragment

PatchFixups ==
  /\ phase = "patch"
  /\ IF \A r \in resolution : Patchable(r)
     THEN /\ image' = [p \in DOMAIN image |->
                         IF p \in {FieldPosition(r.fixup) : r \in resolution}
                         THEN PatchValue(PatchOf(p).fixup, PatchOf(p).value) % 256
                         ELSE image[p]]
          /\ phase' = "deliver"
     ELSE phase' = "failed" /\ UNCHANGED image
  /\ UNCHANGED <<module, active, stack, callers, resolution>>

\* Mutant of Deliver: has no answer to unresolved references.
DeliverResolved ==
  /\ phase = "deliver"
  /\ {r.fixup : r \in resolution} = Fixups
  /\ phase' = "done"
  /\ UNCHANGED <<module, active, stack, callers, resolution, image>>

\* The command line refuses an image with unresolved references.
Deliver ==
  /\ phase = "deliver"
  /\ phase' = IF {r.fixup : r \in resolution} = Fixups
              THEN "done" ELSE "failed"
  /\ UNCHANGED <<module, active, stack, callers, resolution, image>>

-----------------------------------------------------------------------------
AssemblyInit == Init /\ resolution = {} /\ image = NoImage

Lower ==
  /\ Call \/ Sources \/ Refuse
  /\ UNCHANGED <<resolution, image>>

Pipeline ==
  EncodeAll \/ EndLateLayout \/ ResolveFixups \/ WriteOutput \/ PatchFixups
    \/ Deliver

Ended == phase \in {"done", "failed"} /\ UNCHANGED assemblyVars

AssemblyNext == Lower \/ Pipeline \/ Ended

\* The last statement of a source, or the one that is refused.
Conclude == (EndSource \/ Refuse) /\ UNCHANGED <<resolution, image>>

\* Statement lists are finite and the driver never waits: a source ends, or
\* is refused, and each stage is followed by the next one.
AssemblySpec ==
  /\ AssemblyInit
  /\ [][AssemblyNext]_assemblyVars
  /\ WF_assemblyVars(Pipeline \/ Conclude)

-----------------------------------------------------------------------------
(* Properties.                                                             *)

PastEncoding == phase \notin {"lower", "lowered", "failed"}

\* pass.zig:696-719: from the encode stage on, whatever a late block appends,
\* stores or places, every label is at the address the final layout gives the
\* fragment it is anchored before; the fixup pass reads label.offset.
LabelsMatchLayout ==
  PastEncoding =>
    \A l \in Labels :
      module.label[l] # Undefined =>
        module.label[l].offset = LabelOffset(module, module.label[l])

Disjoint(s, t) == FileRange(s) \cap FileRange(t) = {}

\* Regions whose file bytes nobody else writes.
Exclusive(s) == \A t \in OutputSections \ {s} : Disjoint(s, t)

\* Instructions that are still instructions; a store turns one into bytes.
LiveFixups ==
  {x \in Fixups : /\ module.fragment[x.fragment].kind = "isa"
                        /\ Exclusive(module.fragment[x.fragment].section)}

\* What the processor makes of a field when it executes the instruction: the
\* byte itself, or a signed displacement from the next instruction.
Reached(x, byte) ==
  IF x.ref.kind = "absolute" THEN byte
  ELSE SectionOfFixup(x).origin + FieldOffset(x) + 1
         + (IF byte < 128 THEN byte ELSE byte - 256)

\* assembly.zig:583-622: in a delivered file every reference of an instruction
\* is there and leads to the fragment its label stands before, however the
\* label was defined, moved, or placed between encoding and patching.
ReferencesReachTheirLabels ==
  phase = "done" =>
    \A x \in LiveFixups :
      LET b == module.label[x.ref.label]
      IN  /\ b # Undefined
          /\ Reached(x, image[FieldPosition(x)]) =
               module.section[b.section].origin + LabelOffset(module, b)

\* writer.zig:87-116: a delivered file holds each fragment of each region at
\* the region's file offset plus its layout offset, zeros where a reserve lies
\* between two of them, and the fields of references are the only difference.
FragmentsReachTheFile ==
  phase = "done" =>
    \A s \in {t \in OutputSections : Exclusive(t)} :
      \A p \in FileRange(s) \ {FieldPosition(x) : x \in Fixups} :
        LET t    == p - module.section[s].fileOffset
            here == {k \in 1 .. Len(module.section[s].frags) :
                       OffsetsIn(s)[k - 1] <= t /\ t < OffsetsIn(s)[k]}
        IN  image[p] =
              IF here = {} THEN 0
              ELSE LET k == Max(here)
                       f == FragmentsOf(module, s)[k]
                   IN  IF f.kind = "reserve" THEN 0
                       ELSE ByteOf(f, t - OffsetsIn(s)[k - 1])

\* api.zig:259-286: a file laid out only with output.org and output.section
\* has no two regions that share a file byte, whatever was encoded when.
ChainedRegionsAreDisjoint ==
  PastEncoding =>
    \A s, t \in OutputSections : s # t => Disjoint(s, t)

\* module.zig:137-139: after a store into an encoded instruction its text "is
\* no longer an encoding/fixup source of truth for the touched range", so a
\* byte the store wrote is the byte of the file.
StoresSurvivePatching ==
  phase = "done" =>
    \A s \in {t \in OutputSections : Exclusive(t)} :
      \A k \in 1 .. Len(module.section[s].frags) :
        LET f == FragmentsOf(module, s)[k]
        IN  f.kind = "bytes" =>
              \A j \in 0 .. f.n - 1 :
                f.data[j + 1] = Stored =>
                  image[module.section[s].fileOffset + OffsetsIn(s)[k - 1] + j]
                    = Stored

\* Every assembly comes to a verdict.
EveryAssemblyEnds == <>(phase \in {"done", "failed"})
=============================================================================
