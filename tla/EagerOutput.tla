----------------------------- MODULE EagerOutput -----------------------------
(***************************************************************************)
(* What the output API promises a source: an assembler that knows the size *)
(* of every instruction the moment it is written, so that the current      *)
(* address and the file position are simply attributes of the region being *)
(* written.  There is no watermark, no memo and no copy of a cursor, and   *)
(* "closed" belongs to the region.  Lowering implements this although it   *)
(* encodes late and works with copies (see LoweringRefinement).            *)
(***************************************************************************)
EXTENDS Integers, Sequences

CONSTANTS
  InstructionSizes, ChunkSizes, Sizes, Alignments, Origins, FileOffsets

VARIABLES
  regions,  \* per region: kind, origin, fileOffset, closed and two sizes,
            \* len (logical) and real (backed by the file)
  current,  \* the region being written
  saved,    \* the regions virtual output will return to
  calling,  \* the regions the including sources were writing
  status    \* "running", "complete" or "failed"

vars == <<regions, current, saved, calling, status>>

Region(k, o, fo) ==
  [kind |-> k, origin |-> o, fileOffset |-> fo, closed |-> FALSE,
   len |-> 0, real |-> 0]

Init ==
  /\ regions = <<Region("main", 0, 0)>>
  /\ current = 1
  /\ saved = <<>>
  /\ calling = <<>>
  /\ status = "running"

Here == regions[current].origin + regions[current].len

Running == status = "running" /\ UNCHANGED status

Open == ~regions[current].closed

RoundUp(v, a) == ((v + a - 1) \div a) * a

\* The current region ends at `len`; initialized says that the file has to
\* hold everything up to there.
GrowTo(len, initialized) ==
  /\ regions' = [regions EXCEPT ![current].len = len,
                                ![current].real = IF initialized THEN len ELSE @]
  /\ UNCHANGED <<current, saved, calling>>

Write(size) ==
  Running /\ Open /\ GrowTo(regions[current].len + size, size > 0)

ReserveSpace(size) ==
  Running /\ Open /\ GrowTo(regions[current].len + size, FALSE)

PadTo(target) ==
  /\ Running /\ Open
  /\ target >= regions[current].len
  /\ GrowTo(target, target > regions[current].len)

Align(a) ==
  /\ Running /\ Open
  /\ LET len == RoundUp(regions[current].len, a)
     IN  GrowTo(len, len > regions[current].len)

Close ==
  /\ Running
  /\ regions' = [regions EXCEPT ![current].closed = TRUE]
  /\ UNCHANGED <<current, saved, calling>>

SetOrigin(o) ==
  /\ Running
  /\ regions' = [regions EXCEPT ![current].origin = o]
  /\ UNCHANGED <<current, saved, calling>>

Enter(region) ==
  /\ regions' = Append(regions, region)
  /\ current' = Len(regions) + 1

\* The three ways to say where the next region starts in the file.
RegionBegin(o, fo) ==
  Running /\ Enter(Region("main", o, fo)) /\ UNCHANGED <<saved, calling>>

ContinueFile(o, size) ==
  /\ Running /\ Open
  /\ regions[current].kind = "main"
  /\ Enter(Region("main", o, regions[current].fileOffset + size))
  /\ UNCHANGED <<saved, calling>>

OutputOrg(o) == ContinueFile(o, regions[current].len)
OutputSection(o) == ContinueFile(o, regions[current].real)

VirtualBegin(o) ==
  /\ Running
  /\ Enter(Region("virtual", o, 0))
  /\ saved' = Append(saved, current)
  /\ UNCHANGED calling

VirtualEnd ==
  /\ Running
  /\ saved # <<>>
  /\ current' = saved[Len(saved)]
  /\ saved' = SubSeq(saved, 1, Len(saved) - 1)
  /\ UNCHANGED <<regions, calling>>

Place(s, o, fo) ==
  /\ Running
  /\ regions[s].kind = "virtual"
  /\ regions' = [regions EXCEPT ![s].kind = "main", ![s].origin = o,
                                ![s].fileOffset = fo]
  /\ current' = s
  /\ UNCHANGED <<saved, calling>>

Include ==
  /\ Running
  /\ saved = <<>>
  /\ calling' = Append(calling, current)
  /\ current' = 1
  /\ UNCHANGED <<regions, saved>>

EndIncluded ==
  /\ Running
  /\ saved = <<>> /\ calling # <<>>
  /\ current' = calling[Len(calling)]
  /\ calling' = SubSeq(calling, 1, Len(calling) - 1)
  /\ UNCHANGED <<regions, saved>>

\* A source may also be left in the middle, with whatever it had saved.
BreakIncluded ==
  /\ Running
  /\ calling # <<>>
  /\ current' = calling[Len(calling)]
  /\ calling' = SubSeq(calling, 1, Len(calling) - 1)
  /\ saved' = <<>>
  /\ UNCHANGED regions

Stop ==
  /\ status = "running"
  /\ status' \in {"complete", "failed"}
  /\ status' = "complete" => saved = <<>> /\ calling = <<>>
  /\ UNCHANGED <<regions, current, saved, calling>>

Next ==
  \/ \E n \in InstructionSizes \cup ChunkSizes \cup Sizes : Write(n)
  \/ \E n \in Sizes : ReserveSpace(n) \/ PadTo(n)
  \/ \E a \in Alignments : Align(a)
  \/ Close
  \/ \E o \in Origins : \/ SetOrigin(o) \/ OutputOrg(o) \/ OutputSection(o)
                        \/ VirtualBegin(o)
                        \/ \E fo \in FileOffsets : RegionBegin(o, fo)
  \/ VirtualBegin(Here)
  \/ VirtualEnd
  \/ \E s \in 1 .. Len(regions), o \in Origins, fo \in FileOffsets :
       Place(s, o, fo)
  \/ Include
  \/ EndIncluded
  \/ BreakIncluded
  \/ Stop

Spec == Init /\ [][Next]_vars
=============================================================================
