----------------------------- MODULE Activations -----------------------------
(***************************************************************************)
(* What is active while statements are lowered: sources loaded by include  *)
(* and import, blocks, loops, and calls of macros, procedures and value    *)
(* functions, on one stack, with the fields of LowerContext that describe  *)
(* it.  break, continue and return travel through the stack as errors and  *)
(* are caught by a loop or a value function; every other error ends the    *)
(* assembly.  The statements are chosen freely.                            *)
(***************************************************************************)
EXTENDS Integers, Sequences, FiniteSets, SequencesExt

CONSTANTS
    Identities,         \* normalized identities of source files
    Root,               \* the file given to the assembler
    MaxIncludeDepth,    \* max_include_depth (128)
    MaxCallDepth,       \* max_call_depth (128)
    MaxExpansions,      \* max_expansions (100000)
    MaxFrames,          \* bound: the statement nesting of the parser
    MaxVirtual,         \* bound: virtual outputs open in one source
    None

ASSUME RootAssumption == Root \in Identities
ASSUME LimitsAssumption == MaxIncludeDepth \in Nat \ {0} /\ MaxCallDepth \in Nat
ASSUME NoneAssumption == None \notin {"include", "import"}

VARIABLES
    frames,             \* the stack of activations
    imported,           \* imported_sources
    inLoop,             \* in_meta_loop
    callDepth, valueDepth,
    expansions,         \* macro_expansions
    evaluations,        \* history: evaluations an import has started
    status

vars == <<frames, imported, inLoop, callDepth, valueDepth, expansions, evaluations, status>>

-----------------------------------------------------------------------------
\* A frame keeps the loop flag it replaced.  A source has its own stack of
\* virtual outputs, of depth open.
Activation(kind, identity, mode) ==
    [kind |-> kind, saved |-> inLoop, identity |-> identity, mode |-> mode, open |-> 0]

SourceFrame(identity, mode) == Activation("source", identity, mode)
Frame(kind) == Activation(kind, None, None)

Calls == {"macro", "procedure", "value"}

OfKind(kinds) == {n \in DOMAIN frames : frames[n].kind \in kinds}
Innermost(kinds) == CHOOSE n \in OfKind(kinds) : \A m \in OfKind(kinds) : m <= n

Source == Innermost({"source"})
SourceStack == {frames[n].identity : n \in OfKind({"source"})}

\* context.scopes: everything but a source pushes one.
Scopes == Cardinality(DOMAIN frames) - Cardinality(OfKind({"source"}))

Running == status = "running"

\* Mutant of Restored: a loop that is left leaves the flag as it is.
RestoredAtCalls(n) ==
    LET changed == {m \in OfKind(Calls) : m > n}
    IN  IF changed = {} THEN inLoop
        ELSE frames[CHOOSE m \in changed : \A k \in changed : m <= k].saved

\* The flag after the frames above n have put back what they replaced.
Restored(n) ==
    LET changed == {m \in OfKind(Calls \cup {"loop"}) : m > n}
    IN  IF changed = {} THEN inLoop
        ELSE frames[CHOOSE m \in changed : \A k \in changed : m <= k].saved

Above(n, kinds) == Cardinality({m \in OfKind(kinds) : m > n})

\* Mutant of Unwind: only the innermost call is counted out.
UnwindOne(n) ==
    /\ frames' = SubSeq(frames, 1, n)
    /\ inLoop' = Restored(n)
    /\ callDepth' = IF Above(n, Calls) > 0 THEN callDepth - 1 ELSE callDepth
    /\ valueDepth' = valueDepth - Above(n, {"value"})

\* Mutant of Unwind: a procedure is left the way a value function is.
UnwindAllValues(n) ==
    /\ frames' = SubSeq(frames, 1, n)
    /\ inLoop' = Restored(n)
    /\ callDepth' = callDepth - Above(n, Calls)
    /\ valueDepth' = valueDepth - Above(n, {"procedure", "value"})

\* The defer statements of the frames above n.
Unwind(n) ==
    /\ frames' = SubSeq(frames, 1, n)
    /\ inLoop' = Restored(n)
    /\ callDepth' = callDepth - Above(n, Calls)
    /\ valueDepth' = valueDepth - Above(n, {"value"})

Fail(error) ==
    /\ Unwind(0)
    /\ status' = error
    /\ UNCHANGED <<imported, expansions, evaluations>>

Push(frame) == frames' = Append(frames, frame)

-----------------------------------------------------------------------------
(* include and import *)

Cyclic(identity) == identity \in SourceStack

\* Mutant of MayLoad: an import is allowed in blocks, as an include is.
MayLoadAnywhere(mode) == mode \in {"include", "import"}

\* An import is only allowed where no scope is open.
MayLoad(mode) == mode = "include" \/ Scopes = 0

Load(identity, mode) ==
    /\ Running
    /\ IF valueDepth > 0 THEN Fail("SideEffectInValueFunction")
       ELSE IF frames[Source].open > 0 THEN Fail("InvalidApiCall")
       ELSE IF ~MayLoad(mode) THEN Fail("InvalidMetaBlock")
       ELSE IF Cyclic(identity) THEN Fail("IncludeCycle")
       ELSE IF mode = "import" /\ identity \in imported THEN UNCHANGED vars
       ELSE IF Cardinality(OfKind({"source"})) >= MaxIncludeDepth THEN Fail("IncludeTooDeep")
       ELSE /\ Push(SourceFrame(identity, mode))
            /\ evaluations' = IF mode = "import" THEN [evaluations EXCEPT ![identity] = @ + 1] ELSE evaluations
            /\ UNCHANGED <<imported, inLoop, callDepth, valueDepth, expansions, status>>

\* Mutant of Remembered: what is remembered is the includes.
RememberedIncludes(source) ==
    IF source.mode = "include" THEN imported \cup {source.identity} ELSE imported

Remembered(source) ==
    IF source.mode = "import" THEN imported \cup {source.identity} ELSE imported

\* The last statement of a source was lowered; an import is remembered.
EndSource ==
    /\ Running /\ Last(frames).kind = "source"
    /\ LET source == Last(frames)
           n == Len(frames) - 1
       IN  IF source.open > 0 THEN Fail("UnclosedVirtualOutput")
           ELSE IF n = 0 THEN status' = "done" /\ UNCHANGED <<frames, imported, inLoop, callDepth, valueDepth, expansions, evaluations>>
           ELSE /\ frames' = SubSeq(frames, 1, n)
                /\ imported' = Remembered(source)
                /\ UNCHANGED <<inLoop, callDepth, valueDepth, expansions, evaluations, status>>

-----------------------------------------------------------------------------
(* Output *)

OutputAllowed == valueDepth = 0

SetFrames(new) == frames' = new /\ UNCHANGED <<imported, inLoop, callDepth, valueDepth, expansions, evaluations, status>>

\* What is written moves cursors only, which Lowering models.
Emit ==
    /\ Running
    /\ IF ~OutputAllowed THEN Fail("SideEffectInValueFunction") ELSE UNCHANGED vars

VirtualBegin ==
    /\ Running /\ frames[Source].open < MaxVirtual
    /\ IF ~OutputAllowed THEN Fail("SideEffectInValueFunction")
       ELSE SetFrames([frames EXCEPT ![Source].open = @ + 1])

VirtualEnd ==
    /\ Running
    /\ IF ~OutputAllowed THEN Fail("SideEffectInValueFunction")
       ELSE IF frames[Source].open = 0 THEN Fail("UnmatchedVirtualEnd")
       ELSE SetFrames([frames EXCEPT ![Source].open = @ - 1])

-----------------------------------------------------------------------------
(* Blocks, loops and calls *)

Block ==
    /\ Running /\ Len(frames) < MaxFrames
    /\ Push(Frame("block"))
    /\ UNCHANGED <<imported, inLoop, callDepth, valueDepth, expansions, evaluations, status>>

Loop ==
    /\ Running /\ Len(frames) < MaxFrames
    /\ Push(Frame("loop")) /\ inLoop' = TRUE
    /\ UNCHANGED <<imported, callDepth, valueDepth, expansions, evaluations, status>>

\* Macros emit, so a value function may not expand one; it may call procedures.
Call(kind) ==
    /\ Running
    /\ IF kind = "macro" /\ valueDepth > 0 THEN Fail("SideEffectInValueFunction")
       ELSE IF callDepth >= MaxCallDepth THEN Fail("MetaCallDepthExceeded")
       ELSE IF kind = "macro" /\ expansions >= MaxExpansions THEN Fail("MacroExpansionLimitExceeded")
       ELSE /\ Push(Frame(kind)) /\ inLoop' = FALSE
            /\ callDepth' = callDepth + 1
            /\ valueDepth' = IF kind = "value" THEN valueDepth + 1 ELSE valueDepth
            /\ expansions' = IF kind = "macro" THEN expansions + 1 ELSE expansions
            /\ UNCHANGED <<imported, evaluations, status>>

Leave(n) == Unwind(n) /\ UNCHANGED <<imported, expansions, evaluations, status>>

\* The last statement of a block or a call, or of a loop that is not repeated.
End ==
    /\ Running /\ Last(frames).kind # "source"
    /\ IF Last(frames).kind = "value" THEN Fail("missing return") ELSE Leave(Len(frames) - 1)

Break ==
    /\ Running
    /\ IF ~inLoop THEN Fail("break used outside of a Meta loop") ELSE Leave(Innermost({"loop"}) - 1)

Continue ==
    /\ Running
    /\ IF ~inLoop THEN Fail("continue used outside of a Meta loop") ELSE Leave(Innermost({"loop"}))

\* Whether return is allowed is decided by the depth of value functions.
Return ==
    /\ Running
    /\ IF valueDepth = 0 THEN Fail("InvalidMetaFunction") ELSE Leave(Innermost({"value"}) - 1)

Init ==
    /\ frames = <<[kind |-> "source", saved |-> FALSE, identity |-> Root, mode |-> "include", open |-> 0]>>
    /\ imported = {} /\ inLoop = FALSE /\ callDepth = 0 /\ valueDepth = 0 /\ expansions = 0
    /\ evaluations = [i \in Identities |-> 0] /\ status = "running"

Next ==
    \/ \E identity \in Identities : \E mode \in {"include", "import"} : Load(identity, mode)
    \/ EndSource \/ Emit \/ VirtualBegin \/ VirtualEnd
    \/ Block \/ Loop \/ \E kind \in Calls : Call(kind)
    \/ End \/ Break \/ Continue \/ Return

Spec == Init /\ [][Next]_vars

-----------------------------------------------------------------------------
\* The type invariant: the root source stays below everything until the end.
TypeOK ==
    /\ \A n \in DOMAIN frames : frames[n].kind \in {"source", "block", "loop"} \cup Calls
    /\ imported \subseteq Identities /\ inLoop \in BOOLEAN
    /\ callDepth \in 0..MaxCallDepth /\ valueDepth \in 0..MaxCallDepth
    /\ Running => frames # <<>> /\ frames[1].kind = "source"

\* The limits hold on every path: sources are nested no deeper than allowed
\* and none within itself, and after any mixture of break, continue, return
\* and ends the depths count exactly the calls that are active.
DepthsAreExact ==
    /\ callDepth = Cardinality(OfKind(Calls)) /\ callDepth <= MaxCallDepth
    /\ valueDepth = Cardinality(OfKind({"value"}))
    /\ Cardinality(OfKind({"source"})) = Cardinality(SourceStack)
    /\ Cardinality(SourceStack) <= MaxIncludeDepth

\* break and continue are accepted exactly where a loop surrounds the
\* statement without a call in between, whatever includes lie in between; a
\* call never breaks the loop of its caller.
LoopFlagIsExact ==
    Running => (inLoop <=> \E n \in OfKind({"loop"}) : \A m \in OfKind(Calls) : m < n)

\* import evaluates a source at most once in an assembly, by whatever chain
\* of includes and imports it is reached.
ImportsEvaluateOnce == \A i \in Identities : evaluations[i] <= 1

Popped == {n \in DOMAIN frames : n > Len(frames')}

\* An imported source is left by its own end only, so what is remembered as
\* imported was evaluated to the end.
ImportsEndWhole ==
    [][status' \in {"running", "done"} =>
         \A n \in Popped : frames[n].mode = "import" => n = Len(frames)]_vars
=============================================================================
