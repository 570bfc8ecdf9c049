----------------------------- MODULE Generation -----------------------------
(***************************************************************************)
(* The files of the A64 pipeline and the programs that write them:         *)
(* inventory.py exports the inventory of the pinned package,               *)
(* normalize_a64.py and normalize_a64_e5.py write rules/<batch>.json,      *)
(* generate_a64.py and generate_a64_e5.py write include/arm.  One program  *)
(* runs at a time and may be killed or fail at any step; between programs  *)
(* the developer may pin another package, plan, or put a file of his own   *)
(* into the inventory directory.  A version stands for a package and       *)
(* everything read from it.                                                *)
(***************************************************************************)
EXTENDS Integers, Sequences, FiniteSets, SequencesExt

CONSTANTS
    Versions,       \* packages that can be pinned
    Initial,        \* the package the checked-in files come from
    InventoryFiles, \* sequence: the artifacts of inventory.py
    Main,           \* batches generate_a64.py reads
    Extensions,     \* those of them that follow a plan
    MaxEvents,      \* bound: programs started and edits made
    NoFile,         \* no such file
    Torn            \* a file that was opened and not written

\* The artifacts are the keys of a dictionary; neither mark is a package.
ASSUME InventoryAssumption ==
    /\ InventoryFiles \in Seq(STRING)
    /\ \A m, n \in DOMAIN InventoryFiles : InventoryFiles[m] = InventoryFiles[n] => m = n
    /\ Initial \in Versions /\ Torn \notin Versions \cup {NoFile}

VARIABLES
    lock,           \* source-lock.json
    plan,           \* extension-batches.json and extension-batch-e5.json
    inventory,      \* the artifacts in the output directory of inventory.py
    staging,        \* those the running export has staged, and what they hold
    strays,         \* other names in the output directory
    rules,          \* rules/<batch>.json
    output,         \* include/arm
    program,        \* the program that runs
    todo,           \* the files it has left to write
    content,        \* what it writes
    opened,         \* it has opened the next file
    commands

generationVars == <<lock, plan, inventory, staging, strays, rules, output, program, todo, content, opened, commands>>
files == <<inventory, staging, strays, rules, output>>

Batches == Main \cup {"E5"}
MainFiles == <<"instructions.inc", "instructions-macros.inc", "manifest.json">>
E5Files == <<"instructions-e5.inc", "e5-manifest.json">>

Readable(files_) == \A f \in files_ : f \notin {NoFile, Torn}

-----------------------------------------------------------------------------
(* validate and render *)

\* Mutant of ValidBatch: the pin of the batch is not compared, as in validate_e5.
ValidBatchAnyPin(batch) ==
    LET data == rules[batch]
    IN  (batch \in Extensions => data.plan = plan) /\ data.complete

\* The batch is of the pinned package, follows the plan, and is complete.
ValidBatch(batch) ==
    LET data == rules[batch]
    IN  data.lock = lock /\ (batch \in Extensions => data.plan = plan) /\ data.complete

\* generate_a64.py takes only the operand shapes of E5 and only asks that it
\* is E5; the macros of the shared mnemonics dispatch on them.
CanRenderMain == Readable({rules[b] : b \in Batches}) /\ \A b \in Main : ValidBatch(b)

RenderedMain ==
    LET forms    == [b \in Main |-> rules[b].forms]
        dispatch == rules["E5"].forms
    IN  [f \in Range(MainFiles) |->
           CASE f = "instructions.inc"        -> [forms |-> forms]
             [] f = "instructions-macros.inc" -> [forms |-> forms, dispatch |-> dispatch]
             [] f = "manifest.json"           -> [forms |-> forms, dispatch |-> dispatch, lock |-> rules["B1"].lock]]

\* validate_e5 compares neither the pin nor the plan.
CanRenderE5 == Readable({rules["E5"]}) /\ rules["E5"].complete

RenderedE5 ==
    LET e5 == rules["E5"]
    IN  [f \in Range(E5Files) |->
           CASE f = "instructions-e5.inc" -> [dispatch |-> e5.forms]
             [] f = "e5-manifest.json"    -> [dispatch |-> e5.forms, lock |-> e5.lock]]

\* --check of the two generators and of inventory.py.
MainCheckPasses == CanRenderMain /\ \A f \in Range(MainFiles) : output[f] = RenderedMain[f]
E5CheckPasses == CanRenderE5 /\ \A f \in Range(E5Files) : output[f] = RenderedE5[f]
InventoryCheckPasses == strays = {} /\ \A f \in Range(InventoryFiles) : inventory[f] = lock

-----------------------------------------------------------------------------
(* The programs *)

Idle == program = "none" /\ commands < MaxEvents

Start(name, names, written) ==
    /\ program' = name /\ todo' = names /\ content' = written
    /\ opened' = FALSE /\ commands' = commands + 1
    /\ UNCHANGED <<lock, plan>>

\* The package is read against the lock; files that are not of the
\* inventory are refused before anything is staged, in a directory whose
\* name is new.
StartInventory ==
    /\ Idle /\ strays = {}
    /\ staging' = <<>>
    /\ Start("inventory", InventoryFiles, [f \in Range(InventoryFiles) |-> lock])
    /\ UNCHANGED <<inventory, strays, rules, output>>

\* Every artifact is staged, one after another, before the first is moved.
StageOpen ==
    /\ program = "inventory" /\ ~opened
    /\ \E n \in DOMAIN todo :
         /\ todo[n] \notin DOMAIN staging /\ \A m \in 1 .. n - 1 : todo[m] \in DOMAIN staging
         /\ staging' = [f \in DOMAIN staging \cup {todo[n]} |->
                          IF f = todo[n] THEN Torn ELSE staging[f]]
    /\ opened' = TRUE
    /\ UNCHANGED <<lock, plan, inventory, strays, rules, output, program, todo, content, commands>>

StageWrite ==
    /\ program = "inventory" /\ opened
    /\ staging' = [f \in DOMAIN staging |-> content[f]]
    /\ opened' = FALSE
    /\ UNCHANGED <<lock, plan, inventory, strays, rules, output, program, todo, content, commands>>

Move(f) ==
    /\ inventory' = [inventory EXCEPT ![f] = staging[f]]
    /\ staging' = Restrict(staging, DOMAIN staging \ {f})
    /\ todo' = Tail(todo)
    /\ UNCHANGED <<lock, plan, strays, rules, output, program, content, opened, commands>>

\* Mutant of Replace: an artifact is moved by the loop that stages it, as soon
\* as it is written.
ReplaceAsStaged ==
    /\ program = "inventory" /\ todo # <<>> /\ ~opened
    /\ Head(todo) \in DOMAIN staging
    /\ Move(Head(todo))

Replace ==
    /\ program = "inventory" /\ todo # <<>> /\ ~opened
    /\ Range(todo) = DOMAIN staging
    /\ Move(Head(todo))

\* normalize reads inventory.json and its lock; an incomplete batch is
\* written all the same, except for B1 and E5.
StartNormalize(batch) ==
    /\ Idle /\ inventory["inventory.json"] = lock
    /\ batch \in Extensions \cup {"E5"} => plan = lock
    /\ \E complete \in IF batch \in {"B1", "E5"} THEN {TRUE} ELSE BOOLEAN :
         Start("normalize", <<batch>>,
               [b \in {batch} |-> [lock |-> lock, forms |-> inventory["inventory.json"],
                                   plan |-> plan, complete |-> complete]])
    /\ UNCHANGED files

StartMain ==
    /\ Idle /\ CanRenderMain
    /\ Start("main", MainFiles, RenderedMain)
    /\ UNCHANGED files

StartE5 ==
    /\ Idle /\ CanRenderE5
    /\ Start("e5", E5Files, RenderedE5)
    /\ UNCHANGED files

Put(file, value) ==
    IF program = "normalize"
    THEN rules' = [rules EXCEPT ![file] = value] /\ UNCHANGED output
    ELSE output' = [output EXCEPT ![file] = value] /\ UNCHANGED rules

\* write_bytes truncates the file, then writes it.
Open ==
    /\ program \in {"normalize", "main", "e5"} /\ todo # <<>> /\ ~opened
    /\ Put(Head(todo), Torn)
    /\ opened' = TRUE
    /\ UNCHANGED <<lock, plan, inventory, staging, strays, program, todo, content, commands>>

Write ==
    /\ program \in {"normalize", "main", "e5"} /\ opened
    /\ Put(Head(todo), content[Head(todo)])
    /\ opened' = FALSE /\ todo' = Tail(todo)
    /\ UNCHANGED <<lock, plan, inventory, staging, strays, program, content, commands>>

End == program' = "none" /\ todo' = <<>> /\ content' = <<>> /\ opened' = FALSE

\* The staging directory is removed; no program looks into one it has not made.
ProgramEnds ==
    /\ program # "none" /\ todo = <<>>
    /\ End
    /\ staging' = <<>>
    /\ UNCHANGED <<lock, plan, inventory, strays, rules, output, commands>>

\* Killed, which leaves the staging directory where no program looks for it, or
\* stopped by an error of the file system, which removes it.
Kill ==
    /\ program # "none" /\ todo # <<>>
    /\ End
    /\ staging' = <<>>
    /\ UNCHANGED <<lock, plan, inventory, strays, rules, output, commands>>

\* The developer pins another package, or plans the batches for the pinned one.
Pin ==
    /\ Idle
    /\ \E v \in Versions : lock' = v
    /\ commands' = commands + 1
    /\ UNCHANGED <<plan, files, program, todo, content, opened>>

Plan ==
    /\ Idle
    /\ plan' = lock
    /\ commands' = commands + 1
    /\ UNCHANGED <<lock, files, program, todo, content, opened>>

\* The developer puts another file into the inventory directory, or removes it.
Clutter ==
    /\ Idle
    /\ strays' = {"extra"} \ strays
    /\ commands' = commands + 1
    /\ UNCHANGED <<lock, plan, inventory, staging, rules, output, program, todo, content, opened>>

\* The checked-in state; the inventory is not part of the repository.
GenerationInit ==
    /\ lock = Initial /\ plan = Initial
    /\ inventory = [f \in Range(InventoryFiles) |-> NoFile]
    /\ staging = <<>> /\ strays = {}
    /\ rules = [b \in Batches |-> [lock |-> Initial, forms |-> Initial, plan |-> Initial, complete |-> TRUE]]
    /\ output = [f \in Range(MainFiles) \cup Range(E5Files) |->
                   IF f \in Range(MainFiles) THEN RenderedMain[f] ELSE RenderedE5[f]]
    /\ program = "none" /\ todo = <<>> /\ content = <<>> /\ opened = FALSE /\ commands = 0

GenerationNext ==
    \/ StartInventory \/ StageOpen \/ StageWrite \/ Replace
    \/ \E b \in Batches : StartNormalize(b)
    \/ StartMain \/ StartE5 \/ Open \/ Write
    \/ ProgramEnds \/ Kill \/ Pin \/ Plan \/ Clutter

GenerationSpec == GenerationInit /\ [][GenerationNext]_generationVars

-----------------------------------------------------------------------------
\* If both checks pass, every instruction the main generator owns comes from
\* the pinned package, and the macros that share a mnemonic with E5 dispatch
\* on the operand shapes of the E5 functions that are there, although the two
\* generators read rules/e5.json at different times.
PassingChecksAgree ==
    (MainCheckPasses /\ E5CheckPasses) =>
      /\ output["instructions.inc"].forms = [b \in Main |-> lock]
      /\ output["instructions-macros.inc"].dispatch = output["instructions-e5.inc"].dispatch

\* A generator that ended has repaired whatever was there: its check passes.
FinishedMeansChecked ==
    /\ (program = "main" /\ todo = <<>>) => MainCheckPasses
    /\ (program = "e5" /\ todo = <<>>) => E5CheckPasses
    /\ (program = "inventory" /\ todo = <<>>) => InventoryCheckPasses

\* However exports were killed or failed, and whatever was pinned between them,
\* an artifact in the inventory directory is one that was written whole, and an
\* export that has begun to change the directory has every artifact of its
\* package whole on disk, moved or about to be: a program that fails while it
\* writes has changed nothing (the staged export of output_artifacts).
ArtifactsAreWhole ==
    /\ \A f \in Range(InventoryFiles) : inventory[f] \in Versions \cup {NoFile}
    /\ (program = "inventory" /\ todo # InventoryFiles) =>
         \A f \in Range(InventoryFiles) :
           inventory[f] = content[f] \/ (f \in DOMAIN staging /\ staging[f] = content[f])

\* The checks can be trusted: files they pass agree with each other and with
\* the pinned package, and a generator that ends passes its own.
ChecksCanBeTrusted == PassingChecksAgree /\ FinishedMeansChecked
=============================================================================
