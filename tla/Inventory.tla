----------------------------- MODULE Inventory -----------------------------
(***************************************************************************)
(* build_inventory of tools/arm64/inventory.py: the depth-first walk over  *)
(* the tree of the Arm data, which inherits bits, conditions and the       *)
(* operation from node to node and writes a record for every instruction   *)
(* and alias.  The tree is met node by node: any of Nodes may be the next  *)
(* child.  The first require that fails ends the program without output.   *)
(***************************************************************************)
EXTENDS Encodeset

CONSTANTS
    Nodes,          \* [kind, name, encoding, condition, operation]: nodes there may be
    Root,           \* the one among them that is the A64 instruction set
    Expressions,    \* conditions and their parts: [op, name, left, right, parts]
    Depth,          \* how deep the tree of a condition is
    MaxDepth,       \* the deepest of them
    KnownFeatures,  \* features the Arm data declares
    Enabled,        \* baseline_features of scope.json
    Operations,     \* name |-> [alias, to]
    Groups,         \* groups of scope.json: name |-> "regular" or "scalable"
    MaxNodes        \* bound: nodes of the tree

\* A condition is a finite tree of the operators that baseline_possible knows,
\* and of others, whose operands are their parts.
ASSUME ConditionAssumption ==
    /\ MaxDepth \in Nat /\ Depth \in [Expressions -> 0 .. MaxDepth]
    /\ \A e \in Expressions :
         /\ e.op \in {"true", "false", "feature", "not", "and", "or", "other"}
         /\ e.op \in {"not", "and", "or"} => e.left \in Expressions /\ Depth[e.left] < Depth[e]
         /\ e.op \in {"and", "or"} => e.right \in Expressions /\ Depth[e.right] < Depth[e]
         /\ e.op = "other" => \A p \in e.parts : p \in Expressions /\ Depth[p] < Depth[e]

\* The slots of a word that some field of the tree covers.
FieldNames == UNION {{n.encoding[k].name : k \in DOMAIN n.encoding} : n \in Nodes}
Slots == [value : {"0", "1", "x"}, should : BOOLEAN, field : FieldNames,
          fieldBit : Nat, source : Nat \X Nat]

\* A node has a condition and fields, listed bit for bit.
ASSUME NodeAssumption ==
    /\ EncodingBits \in Nat /\ Absent \notin Slots
    /\ \A n \in Nodes :
         /\ n.condition \in Expressions
         /\ DOMAIN n.encoding = 1 .. Len(n.encoding) /\ Len(n.encoding) \in Nat
         /\ \A k \in DOMAIN n.encoding :
              /\ n.encoding[k].value \in Seq({"0", "1", "x"})
              /\ n.encoding[k].should \in Seq(BOOLEAN)

VARIABLES stack, records, entered, walk

walkVars == <<stack, records, entered, walk>>

-----------------------------------------------------------------------------
(* baseline_possible and feature_names *)

And(a, b) == IF a = "no" \/ b = "no" THEN "no" ELSE IF a = "yes" /\ b = "yes" THEN "yes" ELSE "open"
Not(a) == IF a = "open" THEN "open" ELSE IF a = "yes" THEN "no" ELSE "yes"
Or(a, b) == IF a = "yes" \/ b = "yes" THEN "yes" ELSE IF a = "no" /\ b = "no" THEN "no" ELSE "open"

\* The value of a condition whose parts have these values; what depends on
\* operands stays open.
Verdict(e, left, right) ==
    CASE e.op = "true"    -> "yes"
      [] e.op = "false"   -> "no"
      [] e.op = "feature" -> IF e.name \in Enabled THEN "yes" ELSE "no"
      [] e.op = "not"     -> Not(left)
      [] e.op = "and"     -> And(left, right)
      [] e.op = "or"      -> Or(left, right)
      [] e.op = "other"   -> "open"

Possible[e \in Expressions] == Verdict(e, Possible[e.left], Possible[e.right])

\* The features a condition names anywhere, in what stays open too.
FeatureNames[e \in Expressions] ==
    CASE e.op = "feature"        -> {e.name}
      [] e.op = "not"            -> FeatureNames[e.left]
      [] e.op \in {"and", "or"}  -> FeatureNames[e.left] \cup FeatureNames[e.right]
      [] e.op = "other"          -> UNION {FeatureNames[p] : p \in e.parts}
      [] OTHER                   -> {}

-----------------------------------------------------------------------------
(* operation: follow the aliases to the operation they stand for. *)

Followed(name) ==
    LET at[n \in 0 .. Cardinality(DOMAIN Operations)] ==
          IF n = 0 THEN name
          ELSE IF at[n - 1] \in DOMAIN Operations /\ Operations[at[n - 1]].alias
          THEN Operations[at[n - 1]].to
          ELSE at[n - 1]
    IN  at[Cardinality(DOMAIN Operations)]

\* Neither undefined nor a cycle of aliases.
Resolves(name) ==
    name # Absent => /\ Followed(name) \in DOMAIN Operations
                   /\ ~Operations[Followed(name)].alias

Terminal(name) == IF name = Absent THEN Absent ELSE Followed(name)

-----------------------------------------------------------------------------
(* walk *)

IsRecord(kind) == kind \in {"Instruction", "InstructionAlias"}

AllowedChildren(kind) ==
    IF kind = "Instruction" THEN {"Instruction", "InstructionAlias"}
    ELSE {"Instruction", "InstructionGroup"}

Path(frames) == [n \in DOMAIN frames |-> frames[n].name]

\* The frame of a child: what it inherits and what it says itself.
Child(parent, node) ==
    [name |-> node.name, kind |-> node.kind, names |-> {},
     bits |-> IF node.kind = "InstructionAlias" THEN parent.bits
              ELSE Merged(node.encoding, parent.bits, entered),
     conditions |-> Append(parent.conditions, node.condition),
     operation |-> IF node.operation # Absent THEN node.operation ELSE parent.operation]

OperationIsLegal(parent, node) ==
    LET own == IF node.operation # Absent THEN node.operation ELSE parent.operation
    IN  /\ Resolves(own)
        /\ node.kind = "InstructionAlias" =>
             Resolves(parent.operation) /\ Terminal(own) = Terminal(parent.operation)

\* Mutant of Classify: only the node's own condition is looked at.
ClassifyOwn(frames) ==
    IF Groups[frames[2].name] = "scalable" THEN "scalable-register-model"
    ELSE IF Possible[Last(Last(frames).conditions)] = "no"
    THEN "feature-or-condition-outside-baseline"
    ELSE "baseline-feature-filter"

Classify(frames) ==
    IF Groups[frames[2].name] = "scalable" THEN "scalable-register-model"
    ELSE IF \E c \in Range(Last(frames).conditions) : Possible[c] = "no"
    THEN "feature-or-condition-outside-baseline"
    ELSE "baseline-feature-filter"

Record(frames) ==
    LET top == Last(frames)
    IN  [id |-> Path(frames), kind |-> top.kind, conditions |-> top.conditions,
         features |-> UNION {FeatureNames[c] : c \in Range(top.conditions)},
         terminal |-> Terminal(top.operation),
         target |-> IF top.kind = "InstructionAlias" THEN Path(Front(frames)) ELSE Absent,
         encoding |-> Summary(top.bits), reason |-> Classify(frames)]

NodeIsLegal(parent, node) ==
    /\ node.name \notin parent.names
    /\ node.kind \in AllowedChildren(parent.kind)
    /\ node.kind # "InstructionAlias" => MergeIsLegal(node.encoding, parent.bits)
    /\ FeatureNames[node.condition] \subseteq KnownFeatures
    /\ OperationIsLegal(parent, node)
    /\ IsRecord(node.kind) =>
         LET path == Append(Path(stack), node.name)
         IN  /\ \A r \in records : r.id # path
             /\ Len(path) > 2 /\ path[2] \in DOMAIN Groups

Enter(node) ==
    LET parent == Last(stack)
        frames == Append([stack EXCEPT ![Len(stack)].names = @ \cup {node.name}], Child(parent, node))
    IN  /\ walk = "walking" /\ entered < MaxNodes
        /\ entered' = entered + 1
        /\ IF NodeIsLegal(parent, node)
           THEN /\ stack' = frames
                /\ records' = IF IsRecord(node.kind) THEN records \cup {Record(frames)} ELSE records
                /\ UNCHANGED walk
           ELSE walk' = "refused" /\ UNCHANGED <<stack, records>>

\* Mutant of Leave: the root is left as well.
LeaveRoot ==
    /\ walk = "walking" /\ Len(stack) >= 1
    /\ stack' = Front(stack)
    /\ UNCHANGED <<records, entered, walk>>

Leave ==
    /\ walk = "walking" /\ Len(stack) > 1
    /\ stack' = Front(stack)
    /\ UNCHANGED <<records, entered, walk>>

FinishWalk ==
    /\ walk = "walking" /\ Len(stack) = 1
    /\ walk' = "done"
    /\ UNCHANGED <<stack, records, entered>>

\* A root that fails a check ends the program before the first child.
ASSUME RootAssumption ==
    /\ Root \in Nodes /\ Root.kind = "InstructionSet"
    /\ MergeIsLegal(Root.encoding, NoBits)
    /\ FeatureNames[Root.condition] \subseteq KnownFeatures
    /\ Resolves(Root.operation)

\* The frame of the root, which has nothing to inherit.
RootFrame == [name |-> Root.name, kind |-> Root.kind, names |-> {},
              bits |-> Merged(Root.encoding, NoBits, 0),
              conditions |-> <<Root.condition>>, operation |-> Root.operation]

WalkInit ==
    /\ stack = <<RootFrame>>
    /\ records = {} /\ entered = 1 /\ walk = "walking"

WalkNext == (\E node \in Nodes : Enter(node)) \/ Leave \/ FinishWalk

WalkSpec == WalkInit /\ [][WalkNext]_walkVars

-----------------------------------------------------------------------------
\* The fragments of the node being visited are the pieces of its fields: each
\* is a run of bits of one field, they cover the covered bits once, in order,
\* and two of one field are apart because another field interrupts it.
FragmentsAreThePieces ==
    LET bits == Last(stack).bits
        fs == Summary(bits).fragments
        Span(f) == f.lsb .. f.lsb + f.width - 1
    IN  /\ UNION {Span(f) : f \in Range(fs)} = {p \in Places : bits[p] # Absent}
        /\ \A f \in Range(fs) : \A p \in Span(f) :
             bits[p].source = f.source /\ bits[p].fieldBit = f.fieldLsb + (p - f.lsb)
        /\ \A m, n \in DOMAIN fs : m < n =>
             /\ fs[m].lsb + fs[m].width <= fs[n].lsb
             /\ fs[m].source = fs[n].source => n > m + 1

\* What the stack holds.
NodeNames == {n.name : n \in Nodes}
Frames == [name : NodeNames, kind : {n.kind : n \in Nodes},
           names : SUBSET NodeNames, bits : [Places -> Slots \cup {Absent}],
           conditions : Seq(Expressions),
           operation : {n.operation : n \in Nodes} \cup {Absent}]

WalkTypeOK ==
    /\ stack \in Seq(Frames) /\ stack # <<>> /\ stack[1].kind = "InstructionSet"
    /\ \A r \in records :
         /\ IsRecord(r.kind) /\ r.id \in Seq(NodeNames) /\ r.conditions \in Seq(Expressions)
         /\ r.encoding.covered \subseteq Places
    /\ entered \in Nat
    /\ walk \in {"walking", "refused", "done"}

\* A bit a group or an instruction fixes is fixed to the same value in
\* everything below it, whatever the fields below say about it.
HardBitsAreInherited ==
    \A m, n \in DOMAIN stack : m <= n =>
      \A p \in Places :
        Hard(stack[m].bits[p]) =>
          Hard(stack[n].bits[p]) /\ stack[n].bits[p].value = stack[m].bits[p].value

Below(r, s) == Len(r.id) < Len(s.id) /\ SubSeq(s.id, 1, Len(r.id)) = r.id

\* The record of an instruction below another one has all its fixed bits.
RecordsRefineTheirParents ==
    \A r, s \in records : Below(r, s) =>
      /\ r.encoding.fixed \subseteq s.encoding.fixed
      /\ s.encoding.fixedOnes \cap r.encoding.fixed = r.encoding.fixedOnes
      /\ r.encoding.covered \subseteq s.encoding.covered

\* What the operands of an instruction may decide, and the decisions under
\* which a condition holds, from those under which its parts do.
Undecided == {e \in Expressions : e.op = "other"}
Decisions == [Undecided -> BOOLEAN]

Meaning(e, left, right) ==
    CASE e.op = "true"    -> Decisions
      [] e.op = "false"   -> {}
      [] e.op = "feature" -> IF e.name \in Enabled THEN Decisions ELSE {}
      [] e.op = "not"     -> Decisions \ left
      [] e.op = "and"     -> left \cap right
      [] e.op = "or"      -> left \cup right
      [] e.op = "other"   -> {decided \in Decisions : decided[e]}

Holds[e \in Expressions] == Meaning(e, Holds[e.left], Holds[e.right])

\* An instruction is left out of the baseline only if no operand can make its
\* conditions hold with the baseline's features.
DeferredIsImpossible ==
    \A r \in records : r.reason = "feature-or-condition-outside-baseline" =>
      \A decided \in Decisions : \E c \in Range(r.conditions) : decided \notin Holds[c]

\* Nothing below an instruction that is left out is selected.
SelectedUnderSelected ==
    \A r, s \in records : Below(r, s) /\ s.reason = "baseline-feature-filter" =>
      r.reason = "baseline-feature-filter"

\* The target an alias record names has a record of its own, with the same
\* word and the same operation.
AliasesNameTheirTwin ==
    \A r \in records : r.kind = "InstructionAlias" =>
      \E t \in records :
        /\ t.id = r.target /\ t.kind = "Instruction"
        /\ t.encoding = r.encoding /\ t.terminal = r.terminal

\* What a record says of its word is what the nodes above it and its own fields
\* say: a bit that is fixed stays fixed on the way down, the fragments are the
\* pieces of the fields, and the record of an instruction below another one
\* refines it (walk, merge_encoding and summarize_encoding).
EncodingsAreInherited ==
    /\ HardBitsAreInherited
    /\ FragmentsAreThePieces
    /\ RecordsRefineTheirParents

\* The baseline is closed: what is left out cannot be executed on it, nothing
\* below it is selected, and an alias stands beside the instruction it names
\* (baseline_possible, and walk with the alias records).
ScopeIsClosed ==
    /\ DeferredIsImpossible
    /\ SelectedUnderSelected
    /\ AliasesNameTheirTwin
=============================================================================
