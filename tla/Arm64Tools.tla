----------------------------- MODULE Arm64Tools -----------------------------
(***************************************************************************)
(* tools/arm64, one stage at a time: the walk over the Arm data            *)
(* (Inventory, over two families of nodes), the closure of the grammar     *)
(* (RuleClosure), the rule of one encoding (FormCompiler, with all         *)
(* commands and with those that encode whole operands), a batch of rows    *)
(* (Conversion), the forms of one mnemonic (FormSelection) and the files   *)
(* the programs exchange (Generation).  The stages share no state in the   *)
(* model, as the programs only hand files to each other: a behaviour is    *)
(* one of one stage while the others rest in a state they could be in, so  *)
(* that TLC explores the sum of the stages and every invariant is asked    *)
(* of every state.                                                         *)
(***************************************************************************)
EXTENDS FormCompiler, Generation, RuleClosure, Conversion, Inventory, FormSelection

CONSTANTS
    FieldNodes,         \* the nodes of a walk whose fields vary
    ConditionNodes      \* the nodes of a walk whose conditions vary

ASSUME FamilyAssumption == FieldNodes \subseteq Nodes /\ ConditionNodes \subseteq Nodes

\* There is something to compile and something to search.
ASSUME StageAssumption == Encodings # {} /\ Shapes # {} /\ Roots # {}

VARIABLE part       \* the stage that runs

allVars == <<part, vars, walkVars, closureVars, selection, batchVars, generationVars>>

-----------------------------------------------------------------------------
(* Where a stage rests while another one runs. *)

CompilerRests ==
    /\ encoding = (CHOOSE e \in Encodings : TRUE) /\ operands = (CHOOSE s \in Shapes : TRUE)
    /\ word = {} /\ owners = {} /\ fields = <<>> /\ constraints = <<>>
    /\ cursor = 0 /\ done = 0 /\ status = "refused"

GrammarRests ==
    /\ references = [r \in Rules |-> {}] /\ roots = (CHOOSE s \in Roots : TRUE) /\ pending = roots
    /\ visiting = <<>> /\ active = {} /\ visited = {} /\ search = "searching"

SelectionRests ==
    mnemonic = <<>> /\ nextForm = 1 /\ function = <<>> /\ rendering = "rendering"

ConversionRests ==
    /\ batch = "B1" /\ rows = <<>> /\ forms = {} /\ blocked = {}
    /\ failures = {} /\ alternatives = {} /\ reading = "reading"

ToolsInit ==
    /\ WalkInit /\ GenerationInit
    /\ \/ /\ part \in {"fields", "scope", "generate"}
          /\ CompilerRests /\ GrammarRests /\ SelectionRests /\ ConversionRests
       \/ /\ part \in {"compile", "encode"} /\ Init
          /\ GrammarRests /\ SelectionRests /\ ConversionRests
       \/ part = "close" /\ ClosureInit /\ CompilerRests /\ SelectionRests /\ ConversionRests
       \/ part = "select" /\ SelectionInit /\ CompilerRests /\ GrammarRests /\ ConversionRests
       \/ part = "convert" /\ BatchInit /\ CompilerRests /\ GrammarRests /\ SelectionRests

ToolsNext ==
    /\ UNCHANGED part
    /\ \/ /\ \/ part = "fields" /\ ((\E node \in FieldNodes : Enter(node)) \/ Leave \/ FinishWalk)
             \/ part = "scope" /\ ((\E node \in ConditionNodes : Enter(node)) \/ Leave \/ FinishWalk)
          /\ UNCHANGED <<vars, closureVars, selection, batchVars, generationVars>>
       \/ /\ \/ part = "compile" /\ Next
             \/ part = "encode" /\ WholeNext
          /\ UNCHANGED <<walkVars, closureVars, selection, batchVars, generationVars>>
       \/ /\ part = "close" /\ ClosureNext
          /\ UNCHANGED <<vars, walkVars, selection, batchVars, generationVars>>
       \/ /\ part = "select" /\ SelectionNext
          /\ UNCHANGED <<vars, walkVars, closureVars, batchVars, generationVars>>
       \/ /\ part = "convert" /\ BatchNext
          /\ UNCHANGED <<vars, walkVars, closureVars, selection, generationVars>>
       \/ /\ part = "generate" /\ GenerationNext
          /\ UNCHANGED <<vars, walkVars, closureVars, selection, batchVars>>

ToolsSpec == ToolsInit /\ [][ToolsNext]_allVars

-----------------------------------------------------------------------------

\* The variables of every stage have their shapes.
ToolsTypeOK == TypeOK /\ WalkTypeOK /\ ClosureTypeOK /\ BatchTypeOK

\* If every operand goes into the word whole, two operand lists that the
\* generated function accepts never give the same word, and an operand that
\* may be left out is one that is zero (compile_form and render).
EncodedWordsTellOperandsApart == part = "encode" => WordsTellOperandsApart
=============================================================================
