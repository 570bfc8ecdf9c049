------------------------- MODULE LoweringRefinement -------------------------
(***************************************************************************)
(* Lowering implements EagerOutput.  The mapping gives every region the    *)
(* sizes its fragments will have once all of them are encoded; a call that *)
(* reads a cursor before it is synchronised computes a file offset or an   *)
(* origin this mapping cannot explain.                                     *)
(***************************************************************************)
EXTENDS MCLowering

\* A fragment with the size it will have.
Final(f) == IF f.kind = "isa" THEN Encoded(f) ELSE f

\* The fragments of section s of the module m, with their final sizes.
FinalFragments(m, s) ==
  [k \in 1 .. Len(m.section[s].frags) |-> Final(FragmentsOf(m, s)[k])]

RegionOf(m, s) ==
  [kind       |-> m.section[s].kind,
   origin     |-> m.section[s].origin,
   fileOffset |-> m.section[s].fileOffset,
   closed     |-> m.section[s].closed,
   len        |-> LogicalSize(FinalFragments(m, s)),
   real       |-> FileSize(FinalFragments(m, s))]

RegionsOf(m) == [s \in 1 .. Len(m.section) |-> RegionOf(m, s)]

SectionsOf(actives) == [i \in 1 .. Len(actives) |-> actives[i].section]

StatusOf(p) ==
  IF p = "lower" THEN "running" ELSE IF p = "failed" THEN "failed" ELSE "complete"

Eager == INSTANCE EagerOutput WITH
  InstructionSizes <- {Len(Encoding[t]) : t \in Texts},
  ChunkSizes <- {Len(d) : d \in Chunks},
  regions <- RegionsOf(module),
  current <- active.section,
  saved <- SectionsOf(stack),
  calling <- SectionsOf(callers),
  status <- StatusOf(phase)

\* The lowering machine is an assembler that knows every size at once: no
\* statement acts on a stale cursor (api.zig:152-519, document/language.md).
ImplementsEagerOutput == Eager!Spec
=============================================================================
