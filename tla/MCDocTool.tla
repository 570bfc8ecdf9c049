----------------------------- MODULE MCDocTool -----------------------------
(***************************************************************************)
(* tools/doc_examples.py for TLC: the constants of DocTool.                *)
(***************************************************************************)
EXTENDS DocTool

-----------------------------------------------------------------------------
MCLower == [c \in {"a", "A", "1"} |-> IF c = "A" THEN "a" ELSE c]

FenceLineOf(tokens) == [kind |-> "fence", tokens |-> tokens]
Plain(form, of) == [kind |-> "plain", form |-> form, of |-> of]
Word(w) == [eq |-> FALSE, word |-> w, value |-> NoNeedle]
Pair(k, v) == [eq |-> TRUE, word |-> k, value |-> v]

-----------------------------------------------------------------------------
(* The fixtures of a guide and its translation. *)

\* One example of the manual, opened by an info string.
Example(tokens, code) ==
    <<FenceLineOf(<<Word("asm")>> \o tokens), Plain("code", code), FenceLineOf(<<>>)>>
Named(id, code) == Example(<<Pair("id", id)>>, code)
Failing(id, code, needle) == Example(<<Pair("id", id), Pair("error", needle)>>, code)

Guide == [dirs |-> <<"document">>, stem |-> "guide"]
Chapter == [dirs |-> <<"document", "zh">>, stem |-> "guide"]

MCDocs == {Guide, Chapter}
MCTexts ==
    [d \in MCDocs |->
       IF d = Guide
       THEN {Named("x", "mov"), Failing("x", "mov", "unknown"),
             Named("x", "ret") \o Named("y", "mov")}
       ELSE {Named("x", "mov"), Named("x", "mov") \o Named("x", "ret")}]

-----------------------------------------------------------------------------
(* A document: the lines that follow any of three beginnings. *)

MCDoc == [dirs |-> <<"document">>, stem |-> "language"]
MCBytes == <<"A", "-", "1">>

OpenX == FenceLineOf(<<Word("asm"), Pair("id", "x")>>)
OpenY == FenceLineOf(<<Word("asm"), Pair("id", "y"), Pair("bytes", MCBytes)>>)
Code == Plain("code", NoNeedle)
Close == FenceLineOf(<<>>)

MCLines ==
    {OpenX, OpenY, Code, Close,
     FenceLineOf(<<Word("asm")>>),
     FenceLineOf(<<Word("text")>>),
     Plain("hex", <<"A", "a">>),
     Plain("bytes", <<"a", "1", "A">>),
     Plain("error", "unknown")}

MCBeginnings == {<<>>, <<OpenX, Code, Close>>, <<OpenX, Code, Close, OpenY, Code, Close>>}

-----------------------------------------------------------------------------
\* The repair that DocExamples promises is for documents like these.
ASSUME RepairAssumption == RowsReadBack /\ DocumentsHaveTheirOwnFiles
=============================================================================
