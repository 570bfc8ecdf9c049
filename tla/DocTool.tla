------------------------------ MODULE DocTool ------------------------------
(***************************************************************************)
(* tools/doc_examples.py in the two parts it is modelled in: the fixture   *)
(* directory while documents are edited, extract and check run and are     *)
(* interrupted (DocExamples), and what one document defines while it is    *)
(* being written (DocWriting).  The parts share the operators of DocText   *)
(* and no state, so a behaviour is one of the one or of the other, and TLC *)
(* explores the sum of the two and not their product.                      *)
(***************************************************************************)
EXTENDS DocExamples, DocWriting

VARIABLE part   \* "directory" or "writing"

-----------------------------------------------------------------------------
\* There are no documents in the directory while one is being written, and
\* nothing is written while the directory changes.
ToolInit ==
    \/ part = "directory" /\ Init /\ draft = <<>> /\ added = 0
    \/ part = "writing" /\ WritingInit /\ Init /\ \A d \in Docs : docs[d] = NoDocument

ToolNext ==
    \/ part = "directory" /\ Next /\ UNCHANGED <<part, writingVars>>
    \/ part = "writing" /\ WritingNext /\ UNCHANGED <<part, vars>>

ToolSpec == ToolInit /\ [][ToolNext]_<<part, vars, writingVars>>

\* The variables of both parts have their shapes.
ToolTypeOK == TypeOK /\ WritingTypeOK
=============================================================================
