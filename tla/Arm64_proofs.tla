---------------------------- MODULE Arm64_proofs ----------------------------
(***************************************************************************)
(* Theorems about tools/arm64: the files of the pipeline (Generation), for *)
(* every set of packages, artifacts and batches, and any number of         *)
(* programs, edits and kills; the search of rule_closure (RuleClosure),    *)
(* for every grammar and every set of roots; the conversion of a batch     *)
(* (Conversion), for every list of rows and whatever the tables know; the  *)
(* walk over the Arm data (Inventory), for every tree and every scope; the *)
(* rule of one encoding (FormCompiler), for every encoding and every       *)
(* sequence of commands: the bits and fields of the form, the values its   *)
(* selectors accept and the operands its words tell apart; the function of *)
(* one mnemonic (FormSelection), for every table of kinds and every list of*)
(* forms; and the stages together (Arm64Tools).                            *)
(***************************************************************************)
EXTENDS Arm64Tools, Recursion_proofs, SequenceTheorems, FiniteSetTheorems

(***************************************************************************)
(* The files of the pipeline.  The inductive invariant says where the      *)
(* program that runs stands: what it writes is still what its inputs say,  *)
(* and every file it has no longer to write holds it.                      *)
(***************************************************************************)

\* What a list of files names.
Names ==
  Range(InventoryFiles) \cup Range(MainFiles) \cup Range(E5Files) \cup Batches

Programs == {"none", "inventory", "normalize", "main", "e5"}

\* Every batch that can be read was normalized from the package it names.
OfOnePackage(data) == Readable({data}) => data.forms = data.lock

\* The files of a list that are not among those still to write.
Written(names, present) ==
  \A f \in Range(names) :
    (\A k \in 1 .. Len(todo) : todo[k] # f) => present[f] = content[f]

GInv ==
  /\ DOMAIN rules = Batches
  /\ DOMAIN inventory = Range(InventoryFiles)
  /\ DOMAIN output = Range(MainFiles) \cup Range(E5Files)
  /\ \A b \in Batches : OfOnePackage(rules[b])
  /\ program \in Programs
  /\ todo \in Seq(Names)
  /\ opened /\ program # "none" /\ program # "inventory" => todo # <<>>
  /\ program = "normalize" =>
       \A k \in 1 .. Len(todo) : OfOnePackage(content[todo[k]])
  /\ program = "inventory" =>
       /\ \A f \in Range(InventoryFiles) : content[f] = lock
       /\ Written(InventoryFiles, inventory)
  /\ program = "main" =>
       CanRenderMain /\ content = RenderedMain /\ Written(MainFiles, output)
  /\ program = "e5" =>
       CanRenderE5 /\ content = RenderedE5 /\ Written(E5Files, output)

\* What an export has staged: nothing is moved before all of it is whole, and
\* then what is still to move is what is there.
StagedWhole ==
  /\ strays = {}
  /\ \A m, n \in 1 .. Len(todo) : todo[m] = todo[n] => m = n
  /\ Range(todo) \subseteq Range(InventoryFiles)
  /\ DOMAIN staging \subseteq Range(todo)
  /\ ~opened => \A f \in DOMAIN staging : staging[f] = content[f]
  /\ todo # InventoryFiles => ~opened /\ DOMAIN staging = Range(todo)

ExportInv ==
  /\ lock \in Versions
  /\ \A f \in Range(InventoryFiles) : inventory[f] \in Versions \cup {NoFile}
  /\ program = "inventory" => StagedWhole

-----------------------------------------------------------------------------
(* Moving on in the list of files.                                         *)

LEMMA Rest ==
  ASSUME todo \in Seq(Names), todo # <<>>
  PROVE  /\ Tail(todo) \in Seq(Names)
         /\ \A k \in 1 .. Len(Tail(todo)) :
              k + 1 \in 1 .. Len(todo) /\ Tail(todo)[k] = todo[k + 1]
         /\ \A f : (\A k \in 1 .. Len(Tail(todo)) : Tail(todo)[k] # f) =>
              f = Head(todo) \/ \A k \in 1 .. Len(todo) : todo[k] # f
         /\ 1 \in 1 .. Len(todo) /\ Head(todo) = todo[1]
<1>1. /\ Tail(todo) \in Seq(Names) /\ Len(Tail(todo)) = Len(todo) - 1
      /\ \A k \in 1 .. Len(Tail(todo)) : Tail(todo)[k] = todo[k + 1]
      /\ Len(todo) \in Nat /\ Len(todo) # 0 /\ Head(todo) = todo[1]
  BY HeadTailProperties
<1>2. \A k \in 1 .. Len(Tail(todo)) : k + 1 \in 1 .. Len(todo)
  BY <1>1
<1>3. \A k \in 1 .. Len(todo) : k = 1 \/ k - 1 \in 1 .. Len(Tail(todo))
  BY <1>1
<1>4. ASSUME NEW f, \A k \in 1 .. Len(Tail(todo)) : Tail(todo)[k] # f,
             NEW k \in 1 .. Len(todo), todo[k] = f
      PROVE  f = Head(todo)
  <2>1. CASE k = 1
    BY <1>1, <1>4, <2>1
  <2>2. CASE k - 1 \in 1 .. Len(Tail(todo))
    <3>1. Tail(todo)[k - 1] = todo[k - 1 + 1] /\ k - 1 + 1 = k
      BY <1>1, <2>2
    <3>2. QED
      BY <1>4, <2>2, <3>1
  <2>3. QED
    BY <1>3, <2>1, <2>2
<1>5. QED
  BY <1>1, <1>2, <1>4

\* The next file gets its content.
LEMMA NextWritten ==
  ASSUME todo \in Seq(Names), todo # <<>>, NEW names, NEW present,
         Range(names) \subseteq DOMAIN present, Written(names, present),
         todo' = Tail(todo), content' = content
  PROVE  \A f \in Range(names) :
           (\A k \in 1 .. Len(todo') : todo'[k] # f) =>
             [present EXCEPT ![Head(todo)] = content[Head(todo)]][f]
               = content'[f]
<1> SUFFICES ASSUME NEW f \in Range(names),
                    \A k \in 1 .. Len(todo') : todo'[k] # f
             PROVE  [present EXCEPT ![Head(todo)] = content[Head(todo)]][f]
                      = content'[f]
  OBVIOUS
<1>1. f = Head(todo) \/ \A k \in 1 .. Len(todo) : todo[k] # f
  BY Rest
<1>2. QED
  BY <1>1 DEF Written

\* The next file is opened; it is among those still to write.
LEMMA NextOpened ==
  ASSUME todo \in Seq(Names), todo # <<>>, NEW names, NEW present, NEW value,
         Range(names) \subseteq DOMAIN present, Written(names, present)
  PROVE  Written(names, [present EXCEPT ![Head(todo)] = value])
<1> SUFFICES ASSUME NEW f \in Range(names),
                    \A k \in 1 .. Len(todo) : todo[k] # f
             PROVE  [present EXCEPT ![Head(todo)] = value][f] = content[f]
  BY DEF Written
<1>1. f # Head(todo)
  BY Rest
<1>2. QED
  BY <1>1 DEF Written

LEMMA ListsOfNames ==
  /\ InventoryFiles \in Seq(Names)
  /\ MainFiles \in Seq(Names)
  /\ E5Files \in Seq(Names)
<1>1. ASSUME NEW S, NEW q \in Seq(S), Range(q) \subseteq Names
      PROVE  q \in Seq(Names)
  <2>1. \A k \in 1 .. Len(q) : q[k] \in Names
    BY <1>1 DEF Range
  <2>2. QED
    BY <2>1
<1>2. /\ Range(InventoryFiles) \subseteq Names
      /\ Range(MainFiles) \subseteq Names /\ Range(E5Files) \subseteq Names
  BY DEF Names
<1>3. /\ MainFiles \in Seq({"instructions.inc", "instructions-macros.inc",
                             "manifest.json"})
      /\ E5Files \in Seq({"instructions-e5.inc", "e5-manifest.json"})
  BY DEF MainFiles, E5Files
<1>4. QED
  BY <1>1, <1>2, <1>3, InventoryAssumption

\* At the start every file of the list is still to be written.
LEMMA NothingWritten ==
  ASSUME NEW names, names \in Seq(Names), NEW f \in Range(names)
  PROVE  \E k \in 1 .. Len(names) : names[k] = f
BY DEF Range

-----------------------------------------------------------------------------
(* The steps.                                                              *)

LEMMA StartsOK ==
  ASSUME GInv,
         \/ StartInventory
         \/ \E b \in Batches : StartNormalize(b)
         \/ StartMain
         \/ StartE5
  PROVE  GInv'
<1>1. CASE StartInventory
  <2>1. /\ program' = "inventory" /\ todo' = InventoryFiles
        /\ content' = [f \in Range(InventoryFiles) |-> lock]
        /\ ~ opened' /\ lock' = lock
        /\ inventory' = inventory /\ rules' = rules /\ output' = output
    BY <1>1 DEF StartInventory, Start
  <2>2. InventoryFiles \in Seq(Names)
    BY ListsOfNames
  <2>3. Written(InventoryFiles, inventory)'
    BY <2>1, <2>2, NothingWritten DEF Written
  <2>4. QED
    BY <2>1, <2>2, <2>3 DEF GInv, Programs
<1>2. ASSUME NEW b \in Batches, StartNormalize(b)
      PROVE  GInv'
  <2>1. /\ program' = "normalize" /\ todo' = <<b>>
        /\ ~ opened' /\ lock' = lock /\ UNCHANGED files
        /\ inventory["inventory.json"] = lock
    BY <1>2 DEF StartNormalize, Start
  <2>2. OfOnePackage(content'[b])
    <3>1. PICK complete \in BOOLEAN :
            content' = [x \in {b} |->
                          [lock |-> lock, forms |-> inventory["inventory.json"],
                           plan |-> plan, complete |-> complete]]
      BY <1>2 DEF StartNormalize, Start
    <3>2. QED
      BY <2>1, <3>1 DEF OfOnePackage
  <2>3. /\ todo' \in Seq(Names) /\ todo' # <<>> /\ Len(todo') = 1
        /\ \A k \in 1 .. Len(todo') : todo'[k] = b
    BY <2>1 DEF Names
  <2>4. QED
    BY <2>1, <2>2, <2>3 DEF GInv, Programs, files
<1>3. CASE StartMain
  <2>1. /\ program' = "main" /\ todo' = MainFiles /\ content' = RenderedMain
        /\ ~ opened' /\ lock' = lock /\ plan' = plan /\ UNCHANGED files
        /\ CanRenderMain
    BY <1>3 DEF StartMain, Start
  <2>2. MainFiles \in Seq(Names)
    BY ListsOfNames
  <2>3. Written(MainFiles, output)'
    BY <2>1, <2>2, NothingWritten DEF Written
  <2>4. CanRenderMain' /\ RenderedMain' = RenderedMain
    BY <2>1 DEF CanRenderMain, RenderedMain, ValidBatch, files
  <2>5. QED
    BY <2>1, <2>2, <2>3, <2>4 DEF GInv, Programs, files
<1>4. CASE StartE5
  <2>1. /\ program' = "e5" /\ todo' = E5Files /\ content' = RenderedE5
        /\ ~ opened' /\ UNCHANGED files /\ CanRenderE5
    BY <1>4 DEF StartE5, Start
  <2>2. E5Files \in Seq(Names)
    BY ListsOfNames
  <2>3. Written(E5Files, output)'
    BY <2>1, <2>2, NothingWritten DEF Written
  <2>4. CanRenderE5' /\ RenderedE5' = RenderedE5
    BY <2>1 DEF CanRenderE5, RenderedE5, files
  <2>5. QED
    BY <2>1, <2>2, <2>3, <2>4 DEF GInv, Programs, files
<1>5. QED
  BY <1>1, <1>2, <1>3, <1>4

\* What is moved is what the export holds.
LEMMA MovesWhole ==
  ASSUME GInv, ExportInv, program = "inventory", todo # <<>>, ~opened,
         Range(todo) = DOMAIN staging
  PROVE  staging[Head(todo)] = content[Head(todo)] /\ Head(todo) \in Range(InventoryFiles)
<1>1. todo \in Seq(Names) /\ StagedWhole
  BY DEF GInv, ExportInv
<1>2. Head(todo) \in Range(todo)
  BY <1>1, Rest DEF Range
<1>3. QED
  BY <1>1, <1>2 DEF StagedWhole

LEMMA InventoryStepsOK ==
  ASSUME GInv, ExportInv, StageOpen \/ StageWrite \/ Replace
  PROVE  GInv'
<1>1. CASE StageOpen \/ StageWrite
  <2>1. /\ program = "inventory"
        /\ UNCHANGED <<lock, inventory, rules, output, program, todo, content>>
    BY <1>1 DEF StageOpen, StageWrite
  <2>2. QED
    BY <2>1 DEF GInv, Written
<1>2. CASE Replace
  <2>1. /\ program = "inventory" /\ todo # <<>>
        /\ inventory' = [inventory EXCEPT ![Head(todo)] = content[Head(todo)]]
        /\ todo' = Tail(todo)
        /\ UNCHANGED <<lock, rules, output, program, content>>
    BY <1>2, MovesWhole DEF Replace, Move
  <2>2. /\ todo \in Seq(Names) /\ Written(InventoryFiles, inventory)
        /\ DOMAIN inventory = Range(InventoryFiles)
    BY <2>1 DEF GInv
  <2>3. todo' \in Seq(Names)
    BY <2>1, <2>2, Rest
  <2>4. \A f \in Range(InventoryFiles) :
          (\A k \in 1 .. Len(todo') : todo'[k] # f) =>
            inventory'[f] = content'[f]
    BY <2>1, <2>2, NextWritten
  <2>5. QED
    BY <2>1, <2>3, <2>4 DEF GInv, Written
<1>3. QED
  BY <1>1, <1>2

LEMMA OpenOK ==
  ASSUME GInv, Open
  PROVE  GInv'
<1>1. /\ program \in {"normalize", "main", "e5"} /\ todo # <<>>
      /\ opened' /\ todo' = todo /\ content' = content
      /\ UNCHANGED <<lock, plan, inventory, program>>
      /\ Put(Head(todo), Torn)
  BY DEF Open
<1>2. todo \in Seq(Names)
  BY DEF GInv
<1>3. CASE program = "normalize"
  <2>1. rules' = [rules EXCEPT ![Head(todo)] = Torn] /\ output' = output
    BY <1>1, <1>3 DEF Put
  <2>2. \A b \in Batches : OfOnePackage(rules'[b])
    BY <2>1 DEF GInv, OfOnePackage, Readable
  <2>3. QED
    BY <1>1, <1>3, <2>1, <2>2 DEF GInv
<1>4. CASE program # "normalize"
  <2>1. output' = [output EXCEPT ![Head(todo)] = Torn] /\ rules' = rules
    BY <1>1, <1>4 DEF Put
  <2>2. /\ CanRenderMain' <=> CanRenderMain
        /\ RenderedMain' = RenderedMain
        /\ CanRenderE5' <=> CanRenderE5
        /\ RenderedE5' = RenderedE5
    BY <1>1, <2>1
       DEF CanRenderMain, RenderedMain, CanRenderE5, RenderedE5, ValidBatch
  <2>3. DOMAIN output = Range(MainFiles) \cup Range(E5Files)
    BY DEF GInv
  <2>4. ASSUME NEW names, Range(names) \subseteq DOMAIN output,
               Written(names, output)
        PROVE  Written(names, output)'
    BY <1>1, <1>2, <2>1, <2>4, NextOpened DEF Written
  <2>5. QED
    BY <1>1, <1>4, <2>1, <2>2, <2>3, <2>4 DEF GInv
<1>5. QED
  BY <1>3, <1>4

LEMMA WriteOK ==
  ASSUME GInv, Write
  PROVE  GInv'
<1>1. /\ program \in {"normalize", "main", "e5"} /\ opened
      /\ ~ opened' /\ todo' = Tail(todo) /\ content' = content
      /\ UNCHANGED <<lock, plan, inventory, program>>
      /\ Put(Head(todo), content[Head(todo)])
  BY DEF Write
<1>2. todo \in Seq(Names) /\ todo # <<>>
  BY <1>1 DEF GInv
<1>3. todo' \in Seq(Names)
  BY <1>1, <1>2, Rest
<1>4. CASE program = "normalize"
  <2>1. /\ rules' = [rules EXCEPT ![Head(todo)] = content[Head(todo)]]
        /\ output' = output
    BY <1>1, <1>4 DEF Put
  <2>2. OfOnePackage(content[Head(todo)])
    BY <1>2, <1>4, Rest DEF GInv
  <2>3. \A b \in Batches : OfOnePackage(rules'[b])
    BY <2>1, <2>2 DEF GInv
  <2>4. \A k \in 1 .. Len(todo') : OfOnePackage(content[todo'[k]])
    BY <1>1, <1>2, <1>4, Rest DEF GInv
  <2>5. QED
    BY <1>1, <1>3, <1>4, <2>1, <2>3, <2>4 DEF GInv
<1>5. CASE program # "normalize"
  <2>1. /\ output' = [output EXCEPT ![Head(todo)] = content[Head(todo)]]
        /\ rules' = rules
    BY <1>1, <1>5 DEF Put
  <2>2. /\ CanRenderMain' <=> CanRenderMain
        /\ RenderedMain' = RenderedMain
        /\ CanRenderE5' <=> CanRenderE5
        /\ RenderedE5' = RenderedE5
    BY <1>1, <2>1
       DEF CanRenderMain, RenderedMain, CanRenderE5, RenderedE5, ValidBatch
  <2>3. DOMAIN output = Range(MainFiles) \cup Range(E5Files)
    BY DEF GInv
  <2>4. ASSUME NEW names, Range(names) \subseteq DOMAIN output,
               Written(names, output)
        PROVE  Written(names, output)'
    BY <1>1, <1>2, <2>1, <2>4, NextWritten DEF Written
  <2>5. QED
    BY <1>1, <1>3, <1>5, <2>1, <2>2, <2>3, <2>4 DEF GInv
<1>6. QED
  BY <1>4, <1>5

LEMMA GenerationKeeps ==
  ASSUME GInv, ExportInv, [GenerationNext]_generationVars
  PROVE  GInv'
<1>1. CASE ProgramEnds \/ Kill
  <2>1. /\ program' = "none" /\ todo' = <<>> /\ ~ opened'
        /\ UNCHANGED <<inventory, rules, output>>
    BY <1>1 DEF ProgramEnds, Kill, End
  <2>2. QED
    BY <2>1 DEF GInv, Programs
<1>2. CASE Pin \/ Plan \/ Clutter
  <2>1. /\ program = "none" /\ program' = program /\ todo' = todo
        /\ opened' = opened /\ UNCHANGED <<inventory, rules, output>>
    BY <1>2 DEF Pin, Plan, Clutter, Idle, files
  <2>2. QED
    BY <2>1 DEF GInv
<1>3. CASE UNCHANGED generationVars
  <2>1. /\ UNCHANGED <<lock, plan, inventory, rules, output, program,
                       todo, content, opened>>
    BY <1>3 DEF generationVars
  <2>2. /\ CanRenderMain' <=> CanRenderMain
        /\ RenderedMain' = RenderedMain
        /\ CanRenderE5' <=> CanRenderE5
        /\ RenderedE5' = RenderedE5
    BY <2>1
       DEF CanRenderMain, RenderedMain, CanRenderE5, RenderedE5, ValidBatch
  <2>3. QED
    BY <2>1, <2>2 DEF GInv, Written
<1>4. QED
  BY <1>1, <1>2, <1>3, StartsOK, InventoryStepsOK, OpenOK, WriteOK
     DEF GenerationNext

LEMMA ExportKept ==
  ASSUME GInv, ExportInv, [GenerationNext]_generationVars
  PROVE  ExportInv'
<1>1. CASE StartInventory
  <2>1. /\ lock' = lock /\ inventory' = inventory /\ strays' = {} /\ strays = {}
        /\ todo' = InventoryFiles /\ ~opened' /\ staging' = <<>>
    BY <1>1 DEF StartInventory, Start
  <2>2. /\ InventoryFiles \in Seq(STRING)
        /\ \A m, n \in 1 .. Len(InventoryFiles) : InventoryFiles[m] = InventoryFiles[n] => m = n
    BY InventoryAssumption
  <2>3. DOMAIN staging' = {}
    BY <2>1
  <2>4. StagedWhole'
    BY <2>1, <2>2, <2>3 DEF StagedWhole
  <2>5. QED
    BY <2>1, <2>4 DEF ExportInv
<1>2. CASE StageOpen
  <2>1. /\ program = "inventory" /\ ~opened /\ opened'
        /\ UNCHANGED <<lock, inventory, strays, program, todo, content>>
    BY <1>2 DEF StageOpen
  <2>2. PICK n \in DOMAIN todo :
          /\ todo[n] \notin DOMAIN staging
          /\ DOMAIN staging' = DOMAIN staging \cup {todo[n]}
    BY <1>2 DEF StageOpen
  <2>3. DOMAIN staging' = DOMAIN staging \cup {todo[n]} /\ todo[n] \in Range(todo)
    BY <2>2 DEF Range
  <2>4. StagedWhole
    BY <2>1 DEF ExportInv
  <2>5. todo = InventoryFiles
    BY <2>2, <2>3, <2>4 DEF StagedWhole
  <2>6. StagedWhole'
    BY <2>1, <2>3, <2>4, <2>5 DEF StagedWhole
  <2>7. QED
    BY <2>1, <2>6 DEF ExportInv
<1>3. CASE StageWrite
  <2>1. /\ program = "inventory" /\ opened /\ ~opened'
        /\ staging' = [f \in DOMAIN staging |-> content[f]]
        /\ UNCHANGED <<lock, inventory, strays, program, todo, content>>
    BY <1>3 DEF StageWrite
  <2>2. StagedWhole
    BY <2>1 DEF ExportInv
  <2>3. StagedWhole'
    BY <2>1, <2>2 DEF StagedWhole
  <2>4. QED
    BY <2>1, <2>3 DEF ExportInv
<1>4. CASE Replace
  <2>1. /\ program = "inventory" /\ todo # <<>> /\ ~opened /\ opened' = opened
        /\ Range(todo) = DOMAIN staging
        /\ inventory' = [inventory EXCEPT ![Head(todo)] = staging[Head(todo)]]
        /\ staging' = Restrict(staging, DOMAIN staging \ {Head(todo)})
        /\ todo' = Tail(todo)
        /\ UNCHANGED <<lock, strays, program, content>>
    BY <1>4 DEF Replace, Move
  <2>2. StagedWhole /\ todo \in Seq(Names)
    BY <2>1 DEF GInv, ExportInv
  <2>3. /\ DOMAIN staging' = Range(todo) \ {Head(todo)}
        /\ \A f \in DOMAIN staging' : staging'[f] = staging[f]
    BY <2>1 DEF Restrict
  <2>4. /\ Len(Tail(todo)) = Len(todo) - 1 /\ Len(todo) \in Nat
        /\ Tail(todo) \in Seq(Names)
        /\ \A k \in 1 .. Len(Tail(todo)) :
              k + 1 \in 1 .. Len(todo) /\ Tail(todo)[k] = todo[k + 1]
        /\ 1 \in 1 .. Len(todo) /\ Head(todo) = todo[1]
    BY <2>1, <2>2, Rest, HeadTailProperties
  <2>5. \A m, n \in 1 .. Len(todo') : todo'[m] = todo'[n] => m = n
    <3> SUFFICES ASSUME NEW m \in 1 .. Len(Tail(todo)), NEW n \in 1 .. Len(Tail(todo)),
                        Tail(todo)[m] = Tail(todo)[n]
                 PROVE  m = n
      BY <2>1
    <3>1. m + 1 \in 1 .. Len(todo) /\ n + 1 \in 1 .. Len(todo) /\ todo[m + 1] = todo[n + 1]
      BY <2>4
    <3>2. m + 1 = n + 1
      BY <2>2, <3>1 DEF StagedWhole
    <3>3. QED
      BY <3>2
  <2>6. Range(todo') = Range(todo) \ {Head(todo)}
    <3>1. ASSUME NEW f \in Range(Tail(todo))
          PROVE  f \in Range(todo) /\ f # Head(todo)
      <4>1. PICK k \in 1 .. Len(Tail(todo)) : Tail(todo)[k] = f
        BY <2>4, <3>1 DEF Range
      <4>2. k + 1 \in 1 .. Len(todo) /\ todo[k + 1] = f /\ k + 1 # 1
        BY <2>4, <4>1
      <4>3. f # todo[1]
        BY <2>2, <2>4, <4>2 DEF StagedWhole
      <4>4. QED
        BY <2>2, <2>4, <4>2, <4>3 DEF Range
    <3>2. ASSUME NEW f \in Range(todo), f # Head(todo)
          PROVE  f \in Range(Tail(todo))
      <4>1. PICK k \in 1 .. Len(todo) : todo[k] = f
        BY <2>2, <3>2 DEF Range
      <4>2. \E j \in 1 .. Len(Tail(todo)) : Tail(todo)[j] = f
        BY <2>1, <2>2, <3>2, <4>1, Rest
      <4>3. DOMAIN Tail(todo) = 1 .. Len(Tail(todo))
        BY <2>4
      <4>4. QED
        BY <4>2, <4>3 DEF Range
    <3>3. QED
      BY <2>1, <3>1, <3>2
  <2>7. StagedWhole'
    BY <2>1, <2>2, <2>3, <2>5, <2>6 DEF StagedWhole
  <2>8. \A f \in Range(InventoryFiles) : inventory'[f] \in Versions \cup {NoFile}
    <3>1. staging[Head(todo)] = lock
      BY <2>1, MovesWhole DEF GInv
    <3>2. QED
      BY <2>1, <3>1 DEF GInv, ExportInv
  <2>9. QED
    BY <2>1, <2>7, <2>8 DEF ExportInv
<1>5. CASE \/ \E b \in Batches : StartNormalize(b)
           \/ StartMain \/ StartE5 \/ Open \/ Write
  <2>1. lock' = lock /\ inventory' = inventory /\ program' # "inventory"
    BY <1>5 DEF StartNormalize, StartMain, StartE5, Start, Open, Write, files
  <2>2. QED
    BY <2>1 DEF ExportInv
<1>6. CASE ProgramEnds \/ Kill
  <2>1. lock' = lock /\ inventory' = inventory /\ program' = "none"
    BY <1>6 DEF ProgramEnds, Kill, End
  <2>2. QED
    BY <2>1 DEF ExportInv
<1>7. CASE Pin \/ Plan \/ Clutter
  <2>1. lock' \in Versions /\ inventory' = inventory /\ program' = "none"
    BY <1>7 DEF Pin, Plan, Clutter, Idle, files, ExportInv
  <2>2. QED
    BY <2>1 DEF ExportInv
<1>8. CASE UNCHANGED generationVars
  BY <1>8 DEF generationVars, ExportInv, StagedWhole
<1>9. QED
  BY <1>1, <1>2, <1>3, <1>4, <1>5, <1>6, <1>7, <1>8 DEF GenerationNext

\* The invariant of the conversion and the two generators that the theorems
\* below read off.
THEOREM GenerationInvariance == GenerationSpec => [](GInv /\ ExportInv)
<1>1. GenerationInit => GInv /\ ExportInv
  BY InventoryAssumption
     DEF GenerationInit, GInv, ExportInv, OfOnePackage, Programs
<1>2. GInv /\ ExportInv /\ [GenerationNext]_generationVars => (GInv /\ ExportInv)'
  BY GenerationKeeps, ExportKept
<1>3. QED
  BY <1>1, <1>2, PTL DEF GenerationSpec

-----------------------------------------------------------------------------
(* The theorems.                                                           *)

(* inventory.py: however exports were killed or failed, the inventory      *)
(* directory holds no half-written artifact, and one that has begun to     *)
(* change it has the whole package on disk.                                *)
THEOREM WholeArtifacts == GenerationSpec => []ArtifactsAreWhole
<1>1. ASSUME GInv, ExportInv
      PROVE  ArtifactsAreWhole
  <2>1. \A f \in Range(InventoryFiles) : inventory[f] \in Versions \cup {NoFile}
    BY <1>1 DEF ExportInv
  <2>2. ASSUME program = "inventory", todo # InventoryFiles,
               NEW f \in Range(InventoryFiles)
        PROVE  inventory[f] = content[f] \/ (f \in DOMAIN staging /\ staging[f] = content[f])
    <3>1. /\ Written(InventoryFiles, inventory)
          /\ ~opened /\ DOMAIN staging = Range(todo)
          /\ \A g \in DOMAIN staging : staging[g] = content[g]
      BY <1>1, <2>2 DEF GInv, ExportInv, StagedWhole
    <3>2. CASE \A k \in 1 .. Len(todo) : todo[k] # f
      BY <2>2, <3>1, <3>2 DEF Written
    <3>3. CASE \E k \in 1 .. Len(todo) : todo[k] = f
      <4>1. f \in Range(todo)
        BY <1>1, <3>3 DEF GInv, Range
      <4>2. QED
        BY <3>1, <4>1
    <3>4. QED
      BY <3>2, <3>3
  <2>3. QED
    BY <2>1, <2>2 DEF ArtifactsAreWhole
<1>2. QED
  BY <1>1, GenerationInvariance, PTL

(* generate_a64.py, generate_a64_e5.py and inventory.py: whatever was      *)
(* killed, normalized and pinned before, files both checks pass come from  *)
(* the pinned package and agree on the macros they share, and a program    *)
(* that has written its last file passes its own check.                    *)
THEOREM ChecksAreTrusted == GenerationSpec => []ChecksCanBeTrusted
<1>1. GInv => PassingChecksAgree
  <2> SUFFICES ASSUME GInv, MainCheckPasses, E5CheckPasses
               PROVE  /\ output["instructions.inc"].forms = [b \in Main |-> lock]
                      /\ output["instructions-macros.inc"].dispatch
                           = output["instructions-e5.inc"].dispatch
    BY DEF PassingChecksAgree
  <2>1. /\ {"instructions.inc", "instructions-macros.inc", "manifest.json"}
             = Range(MainFiles)
        /\ "instructions-e5.inc" \in Range(E5Files)
    BY DEF MainFiles, E5Files, Range
  <2> DEFINE sent == [b \in Main |-> rules[b].forms]
             shapes == rules["E5"].forms
  <2>2. output["instructions.inc"].forms = sent
    <3>1. RenderedMain["instructions.inc"] = [forms |-> sent]
      BY <2>1 DEF RenderedMain
    <3>2. QED
      BY <2>1, <3>1 DEF MainCheckPasses
  <2>3. output["instructions-macros.inc"].dispatch = shapes
    <3>1. RenderedMain["instructions-macros.inc"]
            = [forms |-> sent, dispatch |-> shapes]
      BY <2>1 DEF RenderedMain
    <3> HIDE DEF sent, shapes
    <3>2. QED
      BY <2>1, <3>1 DEF MainCheckPasses
  <2>4. output["instructions-e5.inc"].dispatch = rules["E5"].forms
    BY <2>1 DEF E5CheckPasses, RenderedE5
  <2>5. ASSUME NEW b \in Main
        PROVE  rules[b].forms = lock
    <3>1. Readable({rules[b]}) /\ rules[b].lock = lock
      BY DEF MainCheckPasses, CanRenderMain, ValidBatch, Readable, Batches
    <3>2. QED
      BY <3>1 DEF GInv, OfOnePackage, Batches
  <2>6. QED
    BY <2>2, <2>3, <2>4, <2>5
<1>2. GInv /\ ExportInv => FinishedMeansChecked
  <2> SUFFICES ASSUME GInv, ExportInv, todo = <<>>
               PROVE  /\ program = "main" => MainCheckPasses
                      /\ program = "e5" => E5CheckPasses
                      /\ program = "inventory" => InventoryCheckPasses
    BY DEF FinishedMeansChecked
  <2>1. Len(todo) = 0
    OBVIOUS
  <2>2. QED
    BY <2>1 DEF GInv, ExportInv, StagedWhole, Written, MainCheckPasses,
                E5CheckPasses, InventoryCheckPasses
<1>3. QED
  BY <1>1, <1>2, GenerationInvariance, PTL DEF ChecksCanBeTrusted

-----------------------------------------------------------------------------
(***************************************************************************)
(* The closure of the grammar.  A rule that is marked may refer to one     *)
(* that is still in progress, so the marked rules are not closed while the *)
(* search runs: what is closed are the marked rules and those in progress  *)
(* together (Reached), but for the references that the calls in progress   *)
(* have not looked at.  When no call is in progress the two are the same.  *)
(***************************************************************************)
RuleNames == Rules \cup Undefined

Reached == active \cup visited

FrameSet == [name : Rules, rest : SUBSET RuleNames]

\* The calls in progress are those of the rules in progress, one of each, and
\* what they have looked at is reached.
StackOK(refs, s, act, reached) ==
  /\ s \in Seq(FrameSet)
  /\ act = {s[n].name : n \in 1 .. Len(s)}
  /\ \A m, n \in 1 .. Len(s) : s[m].name = s[n].name => m = n
  /\ \A n \in 1 .. Len(s) :
       /\ s[n].rest \subseteq refs[s[n].name]
       /\ refs[s[n].name] \ s[n].rest \subseteq reached

\* What is reached has to be.
Needed == \A S \in SUBSET RuleNames : Closed(S) => Reached \subseteq S

ClosureInv ==
  /\ ClosureTypeOK
  /\ StackOK(references, visiting, active, Reached)
  /\ active \cap visited = {}
  /\ \A r \in visited : references[r] \subseteq Reached
  /\ search # "refused" => roots \ pending \subseteq Reached
  /\ Needed
  /\ RefusedForAReason
  /\ search = "done" => visiting = <<>> /\ pending = {}

-----------------------------------------------------------------------------
(* The visiting. *)

LEMMA Ends ==
  ASSUME NEW s \in Seq(FrameSet), s # <<>>
  PROVE  /\ Len(s) \in Nat /\ Len(s) >= 1
         /\ Last(s) = s[Len(s)] /\ Last(s) \in FrameSet
         /\ Front(s) \in Seq(FrameSet) /\ Len(Front(s)) = Len(s) - 1
         /\ \A n \in 1 .. Len(s) - 1 : Front(s)[n] = s[n]
<1>1. Len(s) \in Nat /\ Len(s) >= 1
  BY EmptySeq, LenProperties
<1>2. Last(s) = s[Len(s)] /\ Last(s) \in FrameSet
  BY <1>1, ElementOfSeq DEF Last
<1>3. \A n \in 1 .. Len(s) - 1 : s[n] \in FrameSet
  BY <1>1, ElementOfSeq
<1>4. Front(s) = SubSeq(s, 1, Len(s) - 1)
  BY DEF Front
<1> DEFINE k == Len(s) - 1
<1>5. k \in Nat /\ Len(s) = k + 1
  BY <1>1
<1> HIDE DEF k
<1>6. /\ SubSeq(s, 1, k) \in Seq(FrameSet)
      /\ Len(SubSeq(s, 1, k)) = k
      /\ \A n \in 1 .. k : SubSeq(s, 1, k)[n] = s[n]
  <2>1. \A n \in 1 .. k : s[n] \in FrameSet
    BY <1>3, <1>5
  <2>2. /\ SubSeq(s, 1, k) \in Seq(FrameSet)
        /\ Len(SubSeq(s, 1, k)) = IF 1 <= k THEN k - 1 + 1 ELSE 0
        /\ \A n \in 1 .. k - 1 + 1 : SubSeq(s, 1, k)[n] = s[1 + n - 1]
    BY <1>5, <2>1, SubSeqProperties
  <2>3. k - 1 + 1 = k /\ (IF 1 <= k THEN k ELSE 0) = k /\ \A n \in 1 .. k : 1 + n - 1 = n
    BY <1>5
  <2> QED
    BY <2>2, <2>3
<1> QED
  BY <1>1, <1>2, <1>4, <1>6 DEF k

\* A call of visit begins.
LEMMA Pushed ==
  ASSUME NEW refs \in [Rules -> SUBSET RuleNames], NEW s, NEW act, NEW reached,
         StackOK(refs, s, act, reached), NEW name \in Rules \ act
  PROVE  StackOK(refs, Append(s, [name |-> name, rest |-> refs[name]]), act \cup {name}, reached)
<1> DEFINE f == [name |-> name, rest |-> refs[name]]
           t == Append(s, f)
<1>1. s \in Seq(FrameSet) /\ f \in FrameSet
  BY DEF StackOK, FrameSet
<1>2. t \in Seq(FrameSet) /\ Len(s) \in Nat /\ Len(t) = Len(s) + 1 /\ t[Len(t)] = f
      /\ \A n \in 1 .. Len(s) : t[n] = s[n]
  BY <1>1, AppendProperties
<1>3. 1 .. Len(t) = 1 .. Len(s) \cup {Len(t)}
  BY <1>2
<1>4. \A n \in 1 .. Len(s) : s[n].name \in act
  BY DEF StackOK
<1> HIDE DEF t, f
<1>5. f.name = name /\ f.rest = refs[name]
  BY DEF f
<1>6. act \cup {name} = {t[n].name : n \in 1 .. Len(t)}
  BY <1>2, <1>3, <1>5 DEF StackOK
<1>7. \A m, n \in 1 .. Len(t) : t[m].name = t[n].name => m = n
  BY <1>2, <1>3, <1>4, <1>5 DEF StackOK
<1>8. \A n \in 1 .. Len(t) :
        t[n].rest \subseteq refs[t[n].name] /\ refs[t[n].name] \ t[n].rest \subseteq reached
  BY <1>2, <1>3, <1>5 DEF StackOK
<1> QED
  BY <1>2, <1>6, <1>7, <1>8 DEF StackOK, t, f

\* The innermost call looks at a reference.
LEMMA Trimmed ==
  ASSUME NEW refs \in [Rules -> SUBSET RuleNames], NEW s, NEW act, NEW reached,
         StackOK(refs, s, act, reached), s # <<>>, NEW name
  PROVE  StackOK(refs, Append(Front(s), [Last(s) EXCEPT !.rest = @ \ {name}]), act, reached \cup {name})
<1> DEFINE f == [Last(s) EXCEPT !.rest = @ \ {name}]
           t == Append(Front(s), f)
<1>1. s \in Seq(FrameSet)
  BY DEF StackOK
<1>2. f \in FrameSet /\ f.name = s[Len(s)].name /\ f.rest = s[Len(s)].rest \ {name}
  BY <1>1, Ends DEF FrameSet
<1> HIDE DEF f
<1>3. t \in Seq(FrameSet) /\ Len(t) = Len(s) /\ t[Len(s)] = f
      /\ \A n \in 1 .. Len(s) - 1 : t[n] = s[n]
  <2>1. Front(s) \in Seq(FrameSet) /\ Len(Front(s)) = Len(s) - 1 /\ Len(s) \in Nat
        /\ \A n \in 1 .. Len(s) - 1 : Front(s)[n] = s[n]
    BY <1>1, Ends
  <2> QED
    BY <1>2, <2>1, AppendProperties
<1>4. Len(s) \in Nat /\ 1 .. Len(s) = 1 .. Len(s) - 1 \cup {Len(s)} /\ Len(s) \notin 1 .. Len(s) - 1
  BY <1>1, Ends
<1> HIDE DEF t
<1>5. \A n \in 1 .. Len(s) : t[n].name = s[n].name
  BY <1>2, <1>3, <1>4
<1>6. act = {t[n].name : n \in 1 .. Len(t)}
  BY <1>3, <1>5 DEF StackOK
<1>7. \A m, n \in 1 .. Len(t) : t[m].name = t[n].name => m = n
  BY <1>3, <1>5 DEF StackOK
<1>8. \A n \in 1 .. Len(t) :
        t[n].rest \subseteq refs[t[n].name] /\ refs[t[n].name] \ t[n].rest \subseteq reached \cup {name}
  <2> SUFFICES ASSUME NEW n \in 1 .. Len(s)
               PROVE  /\ t[n].rest \subseteq refs[s[n].name]
                      /\ refs[s[n].name] \ t[n].rest \subseteq reached \cup {name}
    BY <1>3, <1>5
  <2>1. s[n].rest \subseteq refs[s[n].name] /\ refs[s[n].name] \ s[n].rest \subseteq reached
    BY DEF StackOK
  <2>2. t[n].rest = s[n].rest \/ t[n].rest = s[n].rest \ {name}
    BY <1>2, <1>3, <1>4
  <2> QED
    BY <2>1, <2>2
<1> QED
  BY <1>3, <1>6, <1>7, <1>8 DEF StackOK, t, f

\* The innermost call ends.
LEMMA Popped ==
  ASSUME NEW refs \in [Rules -> SUBSET RuleNames], NEW s, NEW act, NEW reached,
         StackOK(refs, s, act, reached), s # <<>>
  PROVE  /\ StackOK(refs, Front(s), act \ {Last(s).name}, reached)
         /\ Last(s).name \in act
         /\ refs[Last(s).name] \ Last(s).rest \subseteq reached
<1> DEFINE t == Front(s)
<1>1. s \in Seq(FrameSet)
  BY DEF StackOK
<1>2. t \in Seq(FrameSet) /\ Len(t) = Len(s) - 1 /\ Last(s) = s[Len(s)]
      /\ \A n \in 1 .. Len(t) : t[n] = s[n]
  BY <1>1, Ends
<1>3. Len(s) \in Nat /\ Len(s) \in 1 .. Len(s)
      /\ 1 .. Len(s) = 1 .. Len(t) \cup {Len(s)} /\ Len(s) \notin 1 .. Len(t)
  BY <1>1, <1>2, Ends
<1> HIDE DEF t
<1>4. act \ {Last(s).name} = {t[n].name : n \in 1 .. Len(t)}
  <2>1. act = {s[n].name : n \in 1 .. Len(s)}
    BY DEF StackOK
  <2>2. \A n \in 1 .. Len(t) : s[n].name # s[Len(s)].name
    BY <1>3 DEF StackOK
  <2> QED
    BY <1>2, <1>3, <2>1, <2>2
<1>5. Last(s).name \in act /\ refs[Last(s).name] \ Last(s).rest \subseteq reached
  BY <1>2, <1>3 DEF StackOK
<1>6. /\ \A m, n \in 1 .. Len(t) : t[m].name = t[n].name => m = n
      /\ \A n \in 1 .. Len(t) :
           t[n].rest \subseteq refs[t[n].name] /\ refs[t[n].name] \ t[n].rest \subseteq reached
  BY <1>2, <1>3 DEF StackOK
<1> QED
  BY <1>2, <1>4, <1>5, <1>6 DEF StackOK, t

\* What is reached may grow.
LEMMA Grown ==
  ASSUME NEW refs, NEW s, NEW act, NEW reached, NEW more,
         StackOK(refs, s, act, reached), reached \subseteq more
  PROVE  StackOK(refs, s, act, more)
BY DEF StackOK

-----------------------------------------------------------------------------
(* The steps. *)

\* What visit does to a name that has to be reached: it is refused, or it and
\* nothing else is reached afterwards.
LEMMA Visited ==
  ASSUME ClosureInv, NEW name \in RuleNames, NEW s,
         StackOK(references, s, active, Reached \cup {name}),
         \A S \in SUBSET RuleNames : Closed(S) => name \in S,
         Visit(name, s), UNCHANGED <<references, roots, visited>>, search = "searching"
  PROVE  \/ /\ search' = "refused" /\ name \notin Rules
            /\ UNCHANGED <<visiting, active>>
            /\ RefusedForAReason'
         \/ /\ search' = "searching"
            /\ Reached' = Reached \cup {name} /\ active' \subseteq Rules
            /\ active' \cap visited = {}
            /\ StackOK(references, visiting', active', Reached')
            /\ Needed'
<1>1. ClosureTypeOK /\ Needed /\ active \cap visited = {} /\ references \in [Rules -> SUBSET RuleNames]
  BY DEF ClosureInv, ClosureTypeOK, RuleNames
<1>2. \A S : Closed(S)' <=> Closed(S)
  BY DEF Closed
<1>3. CASE name \notin Rules
  <2>1. search' = "refused" /\ UNCHANGED <<visiting, active>> /\ name \in Undefined
    BY <1>3 DEF Visit, RuleNames
  <2>2. RefusedForAReason'
    BY <1>2, <2>1 DEF RefusedForAReason, RuleNames
  <2> QED
    BY <1>3, <2>1, <2>2
<1>4. CASE name \in Reached
  <2>1. visiting' = s /\ active' = active /\ search' = "searching"
    BY <1>1, <1>4 DEF Visit, Reached, ClosureTypeOK
  <2>2. Reached' = Reached /\ Reached \cup {name} = Reached
    BY <1>4, <2>1 DEF Reached
  <2>3. Needed'
    BY <1>1, <1>2, <2>2 DEF Needed
  <2> QED
    BY <1>1, <2>1, <2>2, <2>3 DEF ClosureTypeOK
<1>5. CASE name \in Rules /\ name \notin Reached
  <2>1. /\ visiting' = Append(s, [name |-> name, rest |-> references[name]])
        /\ active' = active \cup {name} /\ search' = "searching"
    BY <1>5 DEF Visit, Reached
  <2>2. Reached' = Reached \cup {name}
    BY <2>1 DEF Reached
  <2>3. name \in Rules \ active
    BY <1>5 DEF Reached
  <2>4. StackOK(references, visiting', active', Reached')
    BY <1>1, <2>1, <2>2, <2>3, Pushed
  <2>5. Needed'
    BY <1>1, <1>2, <2>2 DEF Needed
  <2> QED
    BY <1>1, <1>5, <2>1, <2>2, <2>4, <2>5 DEF ClosureTypeOK, Reached
<1> QED
  BY <1>3, <1>4, <1>5

LEMMA RootStep ==
  ASSUME ClosureInv, NEW name \in RuleNames, VisitRoot(name)
  PROVE  ClosureInv'
<1>1. /\ search = "searching" /\ name \in pending /\ pending' = pending \ {name}
      /\ Visit(name, visiting) /\ UNCHANGED <<references, roots, visited>>
  BY DEF VisitRoot
<1>2. ClosureTypeOK /\ pending \subseteq roots /\ roots \ pending \subseteq Reached
  BY <1>1 DEF ClosureInv, ClosureTypeOK
<1>3. \A S \in SUBSET RuleNames : Closed(S) => name \in S
  BY <1>1, <1>2 DEF Closed
<1>4. StackOK(references, visiting, active, Reached \cup {name})
  BY Grown DEF ClosureInv
<1>5. CASE search' = "refused" /\ UNCHANGED <<visiting, active>> /\ RefusedForAReason'
  <2>1. Reached' = Reached /\ ClosureTypeOK'
    BY <1>1, <1>2, <1>5 DEF Reached, ClosureTypeOK
  <2>2. Needed'
    BY <1>1, <2>1 DEF ClosureInv, Needed, Closed
  <2> QED
    BY <1>1, <1>5, <2>1, <2>2 DEF ClosureInv
<1>6. CASE /\ search' = "searching"
           /\ Reached' = Reached \cup {name} /\ active' \subseteq Rules
           /\ active' \cap visited = {}
           /\ StackOK(references, visiting', active', Reached')
           /\ Needed'
  <2>1. ClosureTypeOK'
    BY <1>1, <1>2, <1>6 DEF ClosureTypeOK, StackOK, FrameSet, RuleNames
  <2>2. (roots \ pending)' \subseteq Reached'
    BY <1>1, <1>2, <1>6
  <2>3. \A r \in visited : references[r] \subseteq Reached'
    BY <1>6 DEF ClosureInv
  <2> QED
    BY <1>1, <1>6, <2>1, <2>2, <2>3 DEF ClosureInv, RefusedForAReason
<1> QED
  BY <1>1, <1>3, <1>4, <1>5, <1>6, Visited

LEMMA ChildStep ==
  ASSUME ClosureInv, NEW name \in RuleNames, VisitChild(name)
  PROVE  ClosureInv'
<1> DEFINE s == Append(Front(visiting), [Last(visiting) EXCEPT !.rest = @ \ {name}])
<1>1. /\ search = "searching" /\ visiting # <<>> /\ name \in Last(visiting).rest
      /\ Visit(name, s) /\ UNCHANGED <<references, roots, pending, visited>>
  BY DEF VisitChild
<1>2. ClosureTypeOK /\ roots \ pending \subseteq Reached /\ Needed
      /\ references \in [Rules -> SUBSET RuleNames] /\ StackOK(references, visiting, active, Reached)
  BY <1>1 DEF ClosureInv, ClosureTypeOK, RuleNames
<1>3. name \in references[Last(visiting).name] /\ Last(visiting).name \in Reached \cap Rules
  <2>1. visiting \in Seq(FrameSet)
    BY <1>2 DEF StackOK
  <2>2. Len(visiting) \in 1 .. Len(visiting) /\ Last(visiting) = visiting[Len(visiting)] /\ Last(visiting) \in FrameSet
    BY <1>1, <2>1, Ends
  <2> QED
    BY <1>1, <1>2, <2>2 DEF StackOK, Reached, FrameSet
<1>4. \A S \in SUBSET RuleNames : Closed(S) => name \in S
  BY <1>2, <1>3 DEF Closed, Needed
<1>5. StackOK(references, s, active, Reached \cup {name})
  BY <1>1, <1>2, Trimmed
<1> HIDE DEF s
<1>6. CASE search' = "refused" /\ UNCHANGED <<visiting, active>> /\ RefusedForAReason'
  <2>1. Reached' = Reached /\ ClosureTypeOK'
    BY <1>1, <1>2, <1>6 DEF Reached, ClosureTypeOK
  <2>2. Needed'
    BY <1>1, <2>1 DEF ClosureInv, Needed, Closed
  <2> QED
    BY <1>1, <1>6, <2>1, <2>2 DEF ClosureInv
<1>7. CASE /\ search' = "searching"
           /\ Reached' = Reached \cup {name} /\ active' \subseteq Rules
           /\ active' \cap visited = {}
           /\ StackOK(references, visiting', active', Reached')
           /\ Needed'
  <2>1. ClosureTypeOK'
    BY <1>1, <1>2, <1>7 DEF ClosureTypeOK, StackOK, FrameSet, RuleNames
  <2>2. (roots \ pending)' \subseteq Reached'
    BY <1>1, <1>2, <1>7
  <2>3. \A r \in visited : references[r] \subseteq Reached'
    BY <1>7 DEF ClosureInv
  <2> QED
    BY <1>1, <1>7, <2>1, <2>2, <2>3 DEF ClosureInv, RefusedForAReason
<1> QED
  BY <1>1, <1>4, <1>5, <1>6, <1>7, Visited

LEMMA ReturnStep ==
  ASSUME ClosureInv, Return
  PROVE  ClosureInv'
<1> DEFINE rule == Last(visiting).name
<1>1. /\ search = "searching" /\ visiting # <<>> /\ Last(visiting).rest = {}
      /\ visiting' = Front(visiting) /\ active' = active \ {rule}
      /\ visited' = visited \cup {rule} /\ UNCHANGED <<references, roots, pending, search>>
  BY DEF Return
<1>2. ClosureTypeOK /\ references \in [Rules -> SUBSET RuleNames] /\ StackOK(references, visiting, active, Reached)
  BY DEF ClosureInv, ClosureTypeOK, RuleNames
<1>3. /\ StackOK(references, visiting', active', Reached)
      /\ rule \in active /\ references[rule] \subseteq Reached
  BY <1>1, <1>2, Popped
<1> HIDE DEF rule
<1>4. Reached' = Reached
  BY <1>1, <1>3 DEF Reached
<1>5. ClosureTypeOK'
  BY <1>1, <1>2, <1>3 DEF ClosureTypeOK, StackOK, FrameSet, RuleNames
<1>6. Needed' /\ RefusedForAReason'
  BY <1>1, <1>4 DEF ClosureInv, Needed, Closed, RefusedForAReason
<1>7. (active \cap visited = {})' /\ (\A r \in visited : references[r] \subseteq Reached)'
  BY <1>1, <1>3, <1>4 DEF ClosureInv
<1> QED
  BY <1>1, <1>3, <1>4, <1>5, <1>6, <1>7 DEF ClosureInv

LEMMA FinishStep ==
  ASSUME ClosureInv, FinishClosure
  PROVE  ClosureInv'
BY DEF ClosureInv, FinishClosure, ClosureTypeOK, Reached, Needed, Closed, RefusedForAReason

LEMMA InitOK ==
  ASSUME ClosureInit
  PROVE  ClosureInv
<1>1. /\ visiting = <<>> /\ active = {} /\ visited = {} /\ search = "searching" /\ pending = roots
      /\ references \in [Rules -> SUBSET RuleNames] /\ roots \in SUBSET RuleNames
  BY RuleAssumption DEF ClosureInit, RuleNames
<1>2. StackOK(references, visiting, active, Reached)
  <2>1. visiting \in Seq(FrameSet) /\ Len(visiting) = 0
    BY <1>1, EmptySeq
  <2> QED
    BY <1>1, <2>1 DEF StackOK
<1>3. ClosureTypeOK
  BY <1>1, EmptySeq DEF ClosureTypeOK, RuleNames
<1> QED
  BY <1>1, <1>2, <1>3 DEF ClosureInv, Needed, Reached, RefusedForAReason

-----------------------------------------------------------------------------

LEMMA ClosureKeeps ==
  ASSUME ClosureInv, [ClosureNext]_closureVars
  PROVE  ClosureInv'
<1>1. CASE UNCHANGED closureVars
  BY <1>1 DEF closureVars, ClosureInv, ClosureTypeOK, Reached, Needed, Closed, RefusedForAReason
<1>2. ASSUME NEW name \in RuleNames, VisitRoot(name) PROVE ClosureInv'
  BY <1>2, RootStep
<1>3. ASSUME NEW name \in RuleNames, VisitChild(name) PROVE ClosureInv'
  BY <1>3, ChildStep
<1>4. QED
  BY <1>1, <1>2, <1>3, ReturnStep, FinishStep DEF ClosureNext, RuleNames

\* What is marked or in progress is closed but for the references that are
\* still to be looked at, and nothing in it is there without need.
THEOREM Searched == ClosureSpec => []ClosureInv
<1>1. ClosureInit => ClosureInv
  BY InitOK
<1>2. ClosureInv /\ [ClosureNext]_closureVars => ClosureInv'
  BY ClosureKeeps
<1> QED
  BY <1>1, <1>2, PTL DEF ClosureSpec

\* rule_closure returns the least set of rules that is closed under references,
\* or refuses a name that is in every closed set, and visits each rule once.
THEOREM ClosureExact == ClosureSpec => []ClosureIsExact
<1>1. ClosureInv => ClosureIsExact
  <2> SUFFICES ASSUME ClosureInv PROVE ClosureIsExact
    OBVIOUS
  <2>1. ClosureTypeOK /\ StackOK(references, visiting, active, Reached) /\ DOMAIN visiting = 1 .. Len(visiting)
    BY DEF ClosureInv, StackOK
  <2>2. EveryRuleOnce
    BY <2>1 DEF ClosureInv, EveryRuleOnce, StackOK
  <2>3. ASSUME search = "done" PROVE ResultIsTheClosure
    <3>1. visiting = <<>> /\ pending = {} /\ roots \subseteq Reached
      BY <2>3 DEF ClosureInv
    <3>2. active = {}
      BY <2>1, <3>1, EmptySeq DEF StackOK
    <3> QED
      BY <3>1, <3>2 DEF ClosureInv, Needed, RuleNames, Reached, ResultIsTheClosure, Closed
  <2> QED
    BY <2>2, <2>3 DEF ClosureInv, ClosureIsExact, ResultIsTheClosure
<1> QED
  BY <1>1, Searched, PTL
-----------------------------------------------------------------------------
(***************************************************************************)
(* A batch of rows.  The inductive invariant accounts for every row that   *)
(* was read: it has a failure, or its rule and the forms of all selected   *)
(* alternatives; and it ties the lists the file holds to each other, as    *)
(* the generators only look at each list by itself.                        *)
(***************************************************************************)

\* The form that alternative k of row n becomes.
FormOf(n, k) == [row |-> n, record |-> RecordOf[rows[n].encoding], alternative |-> k]

\* Row n has been dealt with: its failure is listed or it is converted in full.
RowTaken(n) ==
  \/ \E f \in failures : f.row = n
  \/ /\ RuleOf(rows[n]) # NoRule /\ ~RuleOf(rows[n]).forget
     /\ \A k \in Selected(RuleOf(rows[n])) : FormOf(n, k) \in forms

\* A failure that does not come from compile_form is of a row that memory_rule
\* does not know, if it was asked.
FailureOK(f) ==
  /\ f.row \in DOMAIN rows
  /\ f.record \in Records
  /\ f.reason # "compile" /\ Memory(rows[f.row]) =>
       rows[f.row].rules.memory = NoRule

BatchInv ==
  /\ BatchTypeOK
  /\ \A n \in DOMAIN rows : rows[n].encoding \in DOMAIN RecordOf
  /\ blocked = {f.record : f \in failures}
  /\ \A f \in failures : FailureOK(f)
  /\ forms # {} => alternatives # {}
  /\ \A a \in alternatives : a.converted \/ failures # {}
  /\ reading # "raised" => \A n \in DOMAIN rows : RowTaken(n)
  /\ reading = "written" => Accounted

\* Asking the tables again gives the same rule.
LEMMA SameTables ==
  ASSUME batch' = batch, NEW row
  PROVE  /\ RuleOf(row)' = RuleOf(row)
         /\ Memory(row)' = Memory(row)
<1>1. Extension' = Extension /\ Memory(row)' = Memory(row)
  BY DEF Memory, Extension
<1>2. AfterScalar(row)' = AfterScalar(row)
  BY <1>1 DEF AfterScalar, Or
<1>3. AfterMemory(row)' = AfterMemory(row)
  BY <1>1, <1>2 DEF AfterMemory
<1>4. RuleOf(row)' = RuleOf(row)
  BY <1>1, <1>3 DEF RuleOf, Or
<1>5. QED
  BY <1>1, <1>4

LEMMA SameRule ==
  ASSUME batch' = batch, NEW n, rows'[n] = rows[n]
  PROVE  /\ RuleOf(rows[n])' = RuleOf(rows[n])
         /\ Memory(rows[n])' = Memory(rows[n])
         /\ \A k : FormOf(n, k)' = FormOf(n, k)
<1>1. PICK row : row = rows[n] /\ row = rows'[n]
  OBVIOUS
<1>2. RuleOf(row)' = RuleOf(row) /\ Memory(row)' = Memory(row)
  BY SameTables
<1>3. QED
  BY <1>1, <1>2 DEF FormOf

\* memory_rule has no rule for a memory row that is ignored or has none: had it
\* one, it would be used in the place of none and of one to be forgotten.
LEMMA MemoryHasNone ==
  ASSUME NEW row \in XmlRows, Memory(row),
         RuleOf(row) = NoRule \/ RuleOf(row).forget
  PROVE  row.rules.memory = NoRule
<1>1. batch # "E5" /\ batch # "B1" /\ batch # "B4"
  BY DEF Memory, Extension
<1>2. SUFFICES ASSUME row.rules.memory # NoRule
               PROVE  FALSE
  OBVIOUS
<1>3. ~row.rules.memory.forget
  BY <1>2, BatchAssumption
<1>4. AfterMemory(row) # NoRule /\ ~AfterMemory(row).forget
  BY <1>2, <1>3 DEF AfterMemory
<1>5. RuleOf(row) = AfterMemory(row)
  BY <1>1, <1>4 DEF RuleOf, OrElse
<1>6. QED
  BY <1>4, <1>5

LEMMA RowAppended ==
  ASSUME BatchInv, NEW row \in XmlRows, ReadRow(row)
  PROVE  /\ rows' \in Seq(XmlRows) /\ Len(rows') = Len(rows) + 1
         /\ Len(rows') <= MaxRows /\ Len(rows) \in Nat
         /\ DOMAIN rows' = DOMAIN rows \cup {Len(rows) + 1}
         /\ rows'[Len(rows) + 1] = row
         /\ \A n \in DOMAIN rows : rows'[n] = rows[n]
         /\ row.encoding \in DOMAIN RecordOf
         /\ RecordOf[row.encoding] \in Records
         /\ \A n \in DOMAIN rows' : rows'[n].encoding \in DOMAIN RecordOf
         /\ batch' = batch
         /\ reading = "reading"
<1>1. /\ rows \in Seq(XmlRows) /\ rows' = Append(rows, row)
      /\ row.encoding \in DOMAIN RecordOf
      /\ Len(rows) < MaxRows /\ reading = "reading" /\ batch' = batch
  BY DEF ReadRow, BatchInv, BatchTypeOK, Raise, Reject, Compile
<1>2. /\ rows' \in Seq(XmlRows) /\ Len(rows') = Len(rows) + 1
      /\ Len(rows) \in Nat
      /\ DOMAIN rows = 1 .. Len(rows) /\ DOMAIN rows' = 1 .. Len(rows) + 1
      /\ rows'[Len(rows) + 1] = row
      /\ \A n \in 1 .. Len(rows) : rows'[n] = rows[n]
  BY <1>1
<1>3. DOMAIN rows' = DOMAIN rows \cup {Len(rows) + 1}
  BY <1>2
<1>4. Len(rows') <= MaxRows
  BY <1>1, <1>2, BatchAssumption
<1>5. RecordOf[row.encoding] \in Records
  BY <1>1 DEF Records, Range
<1>6. \A n \in DOMAIN rows' : rows'[n].encoding \in DOMAIN RecordOf
  BY <1>1, <1>2, <1>3 DEF BatchInv
<1>7. QED
  BY <1>1, <1>2, <1>3, <1>4, <1>5, <1>6

\* What was so of the rows before is still so of them, whichever list grows.
LEMMA EarlierRows ==
  ASSUME BatchInv, NEW row \in XmlRows, ReadRow(row),
         forms \subseteq forms', failures \subseteq failures',
         alternatives \subseteq alternatives'
  PROVE  /\ \A n \in DOMAIN rows : RowTaken(n)'
         /\ \A f \in failures : FailureOK(f)'
         /\ \A f \in forms : f.row \in DOMAIN rows' /\ f.record \in Records
         /\ \A a \in alternatives : a.row \in DOMAIN rows'
         /\ \A a \in alternatives : a.converted \/ failures' # {}
<1>1. /\ DOMAIN rows \subseteq DOMAIN rows' /\ batch' = batch
      /\ \A n \in DOMAIN rows : rows'[n] = rows[n]
      /\ reading = "reading"
  BY RowAppended
<1>2. ASSUME NEW n \in DOMAIN rows
      PROVE  RowTaken(n)'
  <2>1. RowTaken(n)
    BY <1>1 DEF BatchInv
  <2>2. rows'[n] = rows[n]
    BY <1>1
  <2>3. /\ RuleOf(rows[n])' = RuleOf(rows[n])
        /\ \A k : FormOf(n, k)' = FormOf(n, k)
    BY <1>1, <2>2, SameRule
  <2>4. CASE \E f \in failures : f.row = n
    BY <2>4 DEF RowTaken
  <2>5. CASE /\ RuleOf(rows[n]) # NoRule /\ ~RuleOf(rows[n]).forget
             /\ \A k \in Selected(RuleOf(rows[n])) : FormOf(n, k) \in forms
    BY <2>3, <2>5 DEF RowTaken, Selected
  <2>6. QED
    BY <2>1, <2>4, <2>5 DEF RowTaken
<1>3. ASSUME NEW f \in failures
      PROVE  FailureOK(f)'
  <2>1. FailureOK(f)
    BY DEF BatchInv
  <2>2. f.row \in DOMAIN rows
    BY <2>1 DEF FailureOK
  <2>3. rows'[f.row] = rows[f.row]
    BY <1>1, <2>2
  <2>4. Memory(rows[f.row])' = Memory(rows[f.row])
    BY <1>1, <2>3, SameRule
  <2>5. QED
    BY <1>1, <2>1, <2>2, <2>3, <2>4 DEF FailureOK, Records
<1>4. /\ \A f \in forms : f.row \in DOMAIN rows' /\ f.record \in Records
      /\ \A a \in alternatives : a.row \in DOMAIN rows'
  BY <1>1 DEF BatchInv, BatchTypeOK
<1>5. \A a \in alternatives : a.converted \/ failures' # {}
  BY DEF BatchInv
<1>6. QED
  BY <1>2, <1>3, <1>4, <1>5

LEMMA RaiseKeeps ==
  ASSUME BatchInv, NEW row \in XmlRows, ReadRow(row), Raise
  PROVE  BatchInv'
<1>1. /\ reading' = "raised" /\ batch' = batch /\ forms' = forms
      /\ blocked' = blocked /\ failures' = failures
      /\ alternatives' = alternatives
  BY DEF Raise
<1>2. /\ \A f \in failures : FailureOK(f)'
      /\ \A f \in forms : f.row \in DOMAIN rows' /\ f.record \in Records
      /\ \A a \in alternatives : a.row \in DOMAIN rows'
  BY <1>1, EarlierRows
<1>3. /\ rows' \in Seq(XmlRows) /\ Len(rows') <= MaxRows
      /\ \A n \in DOMAIN rows' : rows'[n].encoding \in DOMAIN RecordOf
  BY RowAppended
<1>4. BatchTypeOK'
  BY <1>1, <1>2, <1>3 DEF BatchInv, BatchTypeOK, Records
<1>5. QED
  BY <1>1, <1>2, <1>3, <1>4 DEF BatchInv

LEMMA RejectKeeps ==
  ASSUME BatchInv, NEW row \in XmlRows, ReadRow(row),
         NEW reason, Reject(row, reason),
         RuleOf(row) = NoRule \/ RuleOf(row).forget
  PROVE  BatchInv'
<1>0. PICK n : n = Len(rows) + 1
  OBVIOUS
<1> DEFINE record == RecordOf[row.encoding]
           f0 == [row |-> n, record |-> record, reason |-> reason]
<1>1. /\ batch' = batch /\ forms' = forms /\ alternatives' = alternatives
      /\ reading' = reading /\ blocked' = blocked \cup {record}
      /\ failures' = failures \cup {f0}
  BY <1>0 DEF Reject, Block
<1>2. /\ rows' \in Seq(XmlRows) /\ Len(rows') <= MaxRows
      /\ DOMAIN rows' = DOMAIN rows \cup {n}
      /\ rows'[n] = row /\ record \in Records /\ reading = "reading"
      /\ \A k \in DOMAIN rows' : rows'[k].encoding \in DOMAIN RecordOf
  BY <1>0, RowAppended
<1>3. f0.row = n /\ f0.record = record
  OBVIOUS
<1> HIDE DEF f0, record
<1>4. /\ \A k \in DOMAIN rows : RowTaken(k)'
      /\ \A f \in failures : FailureOK(f)'
      /\ \A f \in forms : f.row \in DOMAIN rows' /\ f.record \in Records
      /\ \A a \in alternatives : a.row \in DOMAIN rows'
  BY <1>1, EarlierRows
<1>5. FailureOK(f0)'
  <2>1. Memory(row)' = Memory(row)
    BY <1>1, SameTables
  <2>2. Memory(row) => row.rules.memory = NoRule
    BY MemoryHasNone
  <2>3. QED
    BY <1>2, <1>3, <2>1, <2>2 DEF FailureOK, Records
<1>6. RowTaken(n)'
  BY <1>1, <1>3 DEF RowTaken
<1>7. blocked' = {f.record : f \in failures'}
  BY <1>1, <1>3 DEF BatchInv
<1>8. BatchTypeOK'
  BY <1>1, <1>2, <1>4 DEF BatchInv, BatchTypeOK, Records
<1>9. QED
  BY <1>1, <1>2, <1>4, <1>5, <1>6, <1>7, <1>8 DEF BatchInv

LEMMA CompileKeeps ==
  ASSUME BatchInv, NEW row \in XmlRows, ReadRow(row),
         RuleOf(row) # NoRule, ~RuleOf(row).forget,
         Selected(RuleOf(row)) # {}, Compile(row, RuleOf(row))
  PROVE  BatchInv'
<1>0. PICK n : n = Len(rows) + 1
  OBVIOUS
<1> DEFINE record == RecordOf[row.encoding]
           S == Selected(RuleOf(row))
           F == Fails(RuleOf(row))
           new == {[row |-> n, record |-> record, alternative |-> k] : k \in S \ F}
           tried == {[row |-> n, alternative |-> k, converted |-> k \notin F] : k \in S}
           f0 == [row |-> n, record |-> record, reason |-> "compile"]
<1>1. /\ batch' = batch /\ reading' = reading
      /\ forms' = forms \cup new
      /\ alternatives' = alternatives \cup tried
      /\ \/ F = {} /\ blocked' = blocked /\ failures' = failures
         \/ F # {} /\ blocked' = blocked \cup {record} /\ failures' = failures \cup {f0}
  BY <1>0 DEF Compile, Block
<1>2. /\ rows' \in Seq(XmlRows) /\ Len(rows') <= MaxRows
      /\ DOMAIN rows' = DOMAIN rows \cup {n}
      /\ rows'[n] = row /\ record \in Records /\ reading = "reading"
      /\ \A k \in DOMAIN rows' : rows'[k].encoding \in DOMAIN RecordOf
  BY <1>0, RowAppended
<1>3. /\ f0.row = n /\ f0.record = record /\ f0.reason = "compile"
      /\ \A f \in new : f.row = n /\ f.record = record
      /\ \A a \in tried : a.row = n /\ (a.converted \/ F # {})
      /\ tried # {}
  <2>1. S # {}
    OBVIOUS
  <2> HIDE DEF S, F, record
  <2>2. \A f \in new : f.row = n /\ f.record = record
    OBVIOUS
  <2>3. ASSUME NEW a \in tried
        PROVE  a.row = n /\ (a.converted \/ F # {})
    <3>1. PICK k \in S : a = [row |-> n, alternative |-> k, converted |-> k \notin F]
      OBVIOUS
    <3>2. a.row = n /\ a.converted = (k \notin F)
      BY <3>1
    <3>3. QED
      BY <3>2
  <2>4. tried # {}
    BY <2>1
  <2>5. QED
    BY <2>2, <2>3, <2>4
<1>4. F = {} => \A k \in S : [row |-> n, record |-> record, alternative |-> k] \in forms'
  BY <1>1
<1>5. RuleOf(row)' = RuleOf(row) /\ S = Selected(RuleOf(row)')
  BY <1>1, SameTables
<1> HIDE DEF f0, new, tried, S, F
<1>6. /\ \A k \in DOMAIN rows : RowTaken(k)'
      /\ \A f \in failures : FailureOK(f)'
      /\ \A f \in forms : f.row \in DOMAIN rows' /\ f.record \in Records
      /\ \A a \in alternatives : a.row \in DOMAIN rows'
      /\ \A a \in alternatives : a.converted \/ failures' # {}
  BY <1>1, EarlierRows
<1>7. \A f \in failures' : FailureOK(f)'
  <2>1. FailureOK(f0)'
    BY <1>2, <1>3 DEF FailureOK, Records
  <2>2. QED
    BY <1>1, <1>6, <2>1
<1>8. RowTaken(n)'
  <2>1. CASE F # {}
    BY <1>1, <1>3, <2>1 DEF RowTaken
  <2>2. CASE F = {}
    <3>1. RuleOf(rows[n])' = RuleOf(row)
      BY <1>2, <1>5
    <3>2. \A k \in S : FormOf(n, k)' \in forms'
      BY <1>2, <1>4, <2>2 DEF FormOf
    <3>3. QED
      BY <3>1, <3>2 DEF RowTaken, Selected, S
  <2>3. QED
    BY <2>1, <2>2
<1>9. blocked' = {f.record : f \in failures'}
  BY <1>1, <1>3 DEF BatchInv
<1>10. /\ \A f \in forms' : f.row \in DOMAIN rows' /\ f.record \in Records
       /\ \A a \in alternatives' : a.row \in DOMAIN rows'
       /\ \A a \in alternatives' : a.converted \/ failures' # {}
  BY <1>1, <1>2, <1>3, <1>6
<1>11. alternatives' # {}
  BY <1>1, <1>3
<1>12. BatchTypeOK'
  BY <1>1, <1>2, <1>10 DEF BatchInv, BatchTypeOK, Records
<1>13. QED
  BY <1>1, <1>2, <1>6, <1>7, <1>8, <1>9, <1>10, <1>11, <1>12 DEF BatchInv

\* Nothing is asked again when no list grows.
LEMMA TakenStays ==
  ASSUME UNCHANGED <<batch, rows, forms, failures>>
  PROVE  /\ \A n : RowTaken(n) => RowTaken(n)'
         /\ \A f : FailureOK(f) => FailureOK(f)'
<1>1. ASSUME NEW n
      PROVE  /\ RuleOf(rows[n])' = RuleOf(rows[n])
             /\ Memory(rows[n])' = Memory(rows[n])
             /\ \A k : FormOf(n, k)' = FormOf(n, k)
  <2>1. batch' = batch /\ rows'[n] = rows[n]
    OBVIOUS
  <2>2. QED
    BY <2>1, SameRule
<1>2. ASSUME NEW n, RowTaken(n)
      PROVE  RowTaken(n)'
  BY <1>1, <1>2 DEF RowTaken, Selected
<1>3. ASSUME NEW f, FailureOK(f)
      PROVE  FailureOK(f)'
  BY <1>1, <1>3 DEF FailureOK, Records
<1>4. QED
  BY <1>2, <1>3

LEMMA FinishBatchKeeps ==
  ASSUME BatchInv, FinishBatch
  PROVE  BatchInv'
<1>1. /\ UNCHANGED <<batch, rows, forms, blocked, failures, alternatives>>
      /\ reading = "reading"
      /\ reading' = IF Accounted THEN "written" ELSE "raised"
  BY DEF FinishBatch
<1>2. Accounted' = Accounted
  BY <1>1 DEF Accounted, Converted, Records
<1>3. \A n : RowTaken(n) => RowTaken(n)'
  BY <1>1, TakenStays
<1>4. \A f : FailureOK(f) => FailureOK(f)'
  BY <1>1, TakenStays
<1>5. BatchTypeOK'
  BY <1>1 DEF BatchInv, BatchTypeOK, Records
<1>6. QED
  BY <1>1, <1>2, <1>3, <1>4, <1>5 DEF BatchInv

LEMMA BatchKeeps ==
  ASSUME BatchInv, [BatchNext]_batchVars
  PROVE  BatchInv'
<1>1. ASSUME NEW row \in XmlRows, ReadRow(row)
      PROVE  BatchInv'
  <2>1. \/ Raise
        \/ /\ RuleOf(row) = NoRule \/ RuleOf(row).forget
           /\ \/ Reject(row, "missing translation rule")
              \/ Reject(row, "ignored source rule")
        \/ /\ RuleOf(row) # NoRule /\ ~RuleOf(row).forget
           /\ Selected(RuleOf(row)) # {} /\ Compile(row, RuleOf(row))
    BY <1>1 DEF ReadRow
  <2>2. QED
    BY <1>1, <2>1, RaiseKeeps, RejectKeeps, CompileKeeps
<1>2. CASE FinishBatch
  BY <1>2, FinishBatchKeeps
<1>3. CASE UNCHANGED batchVars
  <2>1. UNCHANGED <<batch, rows, forms, blocked, failures, alternatives, reading>>
    BY <1>3 DEF batchVars
  <2>2. /\ \A n : RowTaken(n) => RowTaken(n)'
        /\ \A f : FailureOK(f) => FailureOK(f)'
    BY <2>1, TakenStays
  <2>3. Accounted' = Accounted
    BY <2>1 DEF Accounted, Converted, Records
  <2>4. BatchTypeOK'
    BY <2>1 DEF BatchInv, BatchTypeOK, Records
  <2>5. QED
    BY <2>1, <2>2, <2>3, <2>4 DEF BatchInv
<1>4. QED
  BY <1>1, <1>2, <1>3 DEF BatchNext

LEMMA BatchStarts ==
  ASSUME BatchInit
  PROVE  BatchInv
<1>1. Len(<<>>) = 0 /\ <<>> \in Seq(XmlRows) /\ DOMAIN <<>> = {}
  OBVIOUS
<1>2. QED
  BY <1>1, BatchAssumption DEF BatchInit, BatchInv, BatchTypeOK

LEMMA BatchComplete ==
  ASSUME BatchInv
  PROVE  BatchesAreComplete
<1>1. NoRecordIsLost
  BY DEF BatchInv, NoRecordIsLost, Accounted
<1>2. Validates => failures = {} \/ batch = "B1"
  BY DEF Validates
<1>3. reading = "written" /\ batch = "B1" => failures = {}
  BY DEF BatchInv, Accounted
<1>4. AcceptedMeansConverted
  <2>1. SUFFICES ASSUME reading = "written", Validates, NEW n \in DOMAIN rows
                 PROVE  /\ RuleOf(rows[n]) # NoRule /\ ~RuleOf(rows[n]).forget
                        /\ \A k \in Selected(RuleOf(rows[n])) : FormOf(n, k) \in forms
    BY DEF AcceptedMeansConverted, FormOf
  <2>2. failures = {}
    BY <1>2, <1>3, <2>1
  <2>3. RowTaken(n)
    BY <2>1 DEF BatchInv
  <2>4. QED
    BY <2>2, <2>3 DEF RowTaken
<1>5. WrittenMeansComplete
  <2>1. CASE reading = "written" /\ batch = "B1"
    <3>1. Validates
      BY <2>1 DEF BatchInv, Accounted, Validates
    <3>2. QED
      BY <3>1 DEF WrittenMeansComplete
  <2>2. CASE reading = "written" /\ batch = "E5"
    <3>1. failures = {} /\ Converted = Records /\ blocked = {}
      BY <2>2 DEF BatchInv, Accounted
    <3>2. Records # {}
      BY BatchAssumption DEF Records, Range
    <3>3. forms # {}
      BY <3>1, <3>2 DEF Converted
    <3>4. alternatives # {} /\ \A a \in alternatives : a.converted
      BY <3>1, <3>3 DEF BatchInv
    <3>5. Validates
      BY <2>2, <3>1, <3>4 DEF Validates
    <3>6. QED
      BY <3>5 DEF WrittenMeansComplete
  <2>3. QED
    BY <2>1, <2>2 DEF WrittenMeansComplete
<1>6. MemoryRowsUseTheirTable
  BY DEF BatchInv, FailureOK, MemoryRowsUseTheirTable
<1>7. QED
  BY <1>1, <1>4, <1>5, <1>6 DEF BatchesAreComplete

\* Normalizing accounts for every row it has read, in every state.
THEOREM RowsAreTaken == BatchSpec => []BatchInv
<1>1. BatchInit => BatchInv
  BY BatchStarts
<1>2. BatchInv /\ [BatchNext]_batchVars => BatchInv'
  BY BatchKeeps
<1>3. QED
  BY <1>1, <1>2, PTL DEF BatchSpec

\* Between the XML rows and a file that the generators accept no record and no
\* alternative is lost, whatever the tables know of the rows, however many
\* rows a record has, and whichever of its alternatives fails (normalize of
\* both normalizers, and validate).
THEOREM BatchesComplete == BatchSpec => []BatchesAreComplete
<1>1. BatchInv => BatchesAreComplete
  BY BatchComplete
<1>2. QED
  BY <1>1, RowsAreTaken, PTL

-----------------------------------------------------------------------------
(***************************************************************************)
(* The walk of the inventory.  Two arguments meet in it.  The trees of     *)
(* conditions are finite, so that Possible and Holds are defined, and the  *)
(* three values are sound (PossibleIsSound).  And the records below a node *)
(* of the stack went through a child its parent remembers (PathsOK): a new *)
(* record lies below records of the stack only and above none, and what it *)
(* has of them was handed down on the stack (NodesOK).                     *)
(***************************************************************************)

LEMMA DepthFacts ==
  /\ MaxDepth \in Nat
  /\ \A e \in Expressions : Depth[e] \in Nat /\ Depth[e] <= MaxDepth
BY ConditionAssumption

LEMMA TreeInduction ==
  ASSUME NEW S \in SUBSET Expressions,
         \A e \in Expressions :
           (\A d \in Expressions : Depth[d] < Depth[e] => d \in S) => e \in S
  PROVE  S = Expressions
<1> DEFINE N == {n \in Nat : \A e \in Expressions : Depth[e] < n => e \in S}
<1>1. 0 \in N
  BY DepthFacts
<1>2. ASSUME NEW n \in N
      PROVE  n + 1 \in N
  <2>1. ASSUME NEW e \in Expressions, Depth[e] < n + 1
        PROVE  e \in S
    BY <2>1, DepthFacts
  <2>2. QED
    BY <2>1
<1> HIDE DEF N
<1>3. N = Nat
  <2>1. N \subseteq Nat
    BY DEF N
  <2>2. QED
    BY <1>1, <1>2, <2>1, NatSet
<1>4. ASSUME NEW e \in Expressions
      PROVE  e \in S
  <2>1. Depth[e] + 1 \in N /\ Depth[e] < Depth[e] + 1
    BY <1>3, DepthFacts
  <2>2. QED
    BY <2>1 DEF N
<1>5. QED
  BY <1>4

\* A step that looks only at the parts of a condition has a fixed point.
LEMMA TreeRecursion ==
  ASSUME NEW V, V # {}, NEW Phi \in [[Expressions -> V] -> [Expressions -> V]],
         \A f, g \in [Expressions -> V] : \A e \in Expressions :
           (\A d \in Expressions : Depth[d] < Depth[e] => f[d] = g[d])
             => Phi[f][e] = Phi[g][e]
  PROVE  \E f \in [Expressions -> V] : Phi[f] = f
<1> DEFINE Upto(n) == \E f \in [Expressions -> V] :
                        \A e \in Expressions : Depth[e] < n => Phi[f][e] = f[e]
           N == {n \in Nat : Upto(n)}
<1>1. 0 \in N
  <2>1. PICK v \in V : TRUE
    OBVIOUS
  <2>2. [e \in Expressions |-> v] \in [Expressions -> V]
    OBVIOUS
  <2>3. \A e \in Expressions : ~(Depth[e] < 0)
    BY DepthFacts
  <2>4. QED
    BY <2>2, <2>3
<1>2. ASSUME NEW n \in N
      PROVE  n + 1 \in N
  <2>1. PICK f \in [Expressions -> V] :
               \A e \in Expressions : Depth[e] < n => Phi[f][e] = f[e]
    OBVIOUS
  <2>2. PICK g \in [Expressions -> V] : g = Phi[f]
    OBVIOUS
  <2>3. ASSUME NEW e \in Expressions, Depth[e] < n + 1
        PROVE  Phi[g][e] = g[e]
    <3>1. \A d \in Expressions : Depth[d] < Depth[e] => g[d] = f[d]
      BY <2>1, <2>2, <2>3, DepthFacts
    <3>2. Phi[g][e] = Phi[f][e]
      BY <3>1
    <3>3. QED
      BY <2>2, <3>2
  <2>4. QED
    BY <2>3
<1>3. N = Nat
  <2>1. N \subseteq Nat
    OBVIOUS
  <2> HIDE DEF N
  <2>2. QED
    BY <1>1, <1>2, <2>1, NatSet
<1>4. PICK f \in [Expressions -> V] :
             \A e \in Expressions : Depth[e] < MaxDepth + 1 => Phi[f][e] = f[e]
  <2>1. MaxDepth + 1 \in N
    <3> HIDE DEF N
    <3>1. QED
      BY <1>3, DepthFacts
  <2>2. QED
    BY <2>1
<1>5. \A e \in Expressions : Phi[f][e] = f[e]
  BY <1>4, DepthFacts
<1>6. Phi[f] = f
  BY <1>5
<1>7. QED
  BY <1>6

\* What Possible and Holds are from the parts of a condition.
PossibleOf(f, e) == Verdict(e, f[e.left], f[e.right])
HoldsOf(f, e) == Meaning(e, f[e.left], f[e.right])

Truths == {"yes", "no", "open"}

LEMMA PossibleDefined ==
  /\ Possible \in [Expressions -> Truths]
  /\ \A e \in Expressions : Possible[e] = PossibleOf(Possible, e)
<1> DEFINE Phi == [f \in [Expressions -> Truths] |-> [e \in Expressions |-> PossibleOf(f, e)]]
<1>1. ASSUME NEW f \in [Expressions -> Truths], NEW e \in Expressions
      PROVE  PossibleOf(f, e) \in Truths
  BY ConditionAssumption DEF PossibleOf, Verdict, Truths, Not, And, Or
<1>2. Phi \in [[Expressions -> Truths] -> [Expressions -> Truths]]
  BY <1>1
<1>3. ASSUME NEW f \in [Expressions -> Truths], NEW g \in [Expressions -> Truths],
             NEW e \in Expressions,
             \A d \in Expressions : Depth[d] < Depth[e] => f[d] = g[d]
      PROVE  PossibleOf(f, e) = PossibleOf(g, e)
  <2>1. /\ e.op \in {"not", "and", "or"} => f[e.left] = g[e.left]
        /\ e.op \in {"and", "or"} => f[e.right] = g[e.right]
    BY <1>3, ConditionAssumption
  <2>2. QED
    BY <2>1, ConditionAssumption DEF PossibleOf, Verdict
<1>4. PICK f \in [Expressions -> Truths] : Phi[f] = f
  <2>1. Truths # {}
    BY DEF Truths
  <2>2. \A h, g \in [Expressions -> Truths] : \A e \in Expressions :
           (\A d \in Expressions : Depth[d] < Depth[e] => h[d] = g[d])
             => Phi[h][e] = Phi[g][e]
    BY <1>3
  <2> HIDE DEF Phi
  <2>3. QED
    BY <1>2, <2>1, <2>2, TreeRecursion
<1>5. f = [e \in Expressions |-> PossibleOf(f, e)]
  BY <1>4
<1> DEFINE Body(h) == [e \in Expressions |-> Verdict(e, h[e.left], h[e.right])]
<1>6. Possible = [e \in Expressions |-> PossibleOf(Possible, e)]
  <2>1. Possible = CHOOSE h : h = Body(h)
    BY DEF Possible
  <2>2. f = Body(f)
    BY <1>5 DEF PossibleOf
  <2> DEFINE p == Possible
  <2>3. p = Body(p)
    <3> HIDE DEF Body, p
    <3>1. QED
      BY <2>1, <2>2 DEF p
  <2> HIDE DEF p
  <2>4. p = [e \in Expressions |-> PossibleOf(p, e)]
    BY <2>3 DEF PossibleOf
  <2>5. QED
    BY <2>4 DEF p
<1>7. \A e \in Expressions : Possible[e] = PossibleOf(Possible, e)
  <2>1. PICK h : h = Possible
    OBVIOUS
  <2>2. h = [e \in Expressions |-> PossibleOf(h, e)]
    BY <1>6, <2>1
  <2>3. \A e \in Expressions : h[e] = PossibleOf(h, e)
    BY <2>2
  <2>4. QED
    BY <2>1, <2>3
<1>8. Expressions = {e \in Expressions : Possible[e] \in Truths}
  <2> DEFINE S == {e \in Expressions : Possible[e] \in Truths}
  <2>1. ASSUME NEW e \in Expressions,
               \A d \in Expressions : Depth[d] < Depth[e] => d \in S
        PROVE  e \in S
    <3>1. /\ e.op \in {"not", "and", "or"} => Possible[e.left] \in Truths
          /\ e.op \in {"and", "or"} => Possible[e.right] \in Truths
      BY <2>1, ConditionAssumption
    <3>2. PossibleOf(Possible, e) \in Truths
      BY <3>1, ConditionAssumption DEF PossibleOf, Verdict, Truths, Not, And, Or
    <3>3. QED
      BY <1>7, <3>2
  <2>2. S \in SUBSET Expressions
    OBVIOUS
  <2> HIDE DEF S
  <2>3. S = Expressions
    BY <2>1, <2>2, TreeInduction
  <2>4. QED
    BY <2>3 DEF S
<1>9. Possible \in [Expressions -> Truths]
  <2>1. PICK h : h = Possible
    OBVIOUS
  <2>2. h = [e \in Expressions |-> PossibleOf(h, e)] /\ \A e \in Expressions : h[e] \in Truths
    BY <1>6, <1>8, <2>1
  <2>3. h \in [Expressions -> Truths]
    BY <2>2
  <2>4. QED
    BY <2>1, <2>3
<1>10. QED
  BY <1>7, <1>9

LEMMA HoldsDefined ==
  \A e \in Expressions : Holds[e] = HoldsOf(Holds, e)
<1> DEFINE V == SUBSET Decisions
           Phi == [f \in [Expressions -> V] |-> [e \in Expressions |-> HoldsOf(f, e)]]
<1>1. ASSUME NEW f \in [Expressions -> V], NEW e \in Expressions
      PROVE  HoldsOf(f, e) \in V
  <2>1. /\ e.op \in {"not", "and", "or"} => f[e.left] \subseteq Decisions
        /\ e.op \in {"and", "or"} => f[e.right] \subseteq Decisions
    BY ConditionAssumption
  <2> HIDE DEF Decisions
  <2>2. QED
    BY <2>1, ConditionAssumption DEF HoldsOf, Meaning
<1>2. Phi \in [[Expressions -> V] -> [Expressions -> V]]
  BY <1>1
<1>3. ASSUME NEW f \in [Expressions -> V], NEW g \in [Expressions -> V],
             NEW e \in Expressions,
             \A d \in Expressions : Depth[d] < Depth[e] => f[d] = g[d]
      PROVE  HoldsOf(f, e) = HoldsOf(g, e)
  <2>1. /\ e.op \in {"not", "and", "or"} => f[e.left] = g[e.left]
        /\ e.op \in {"and", "or"} => f[e.right] = g[e.right]
    BY <1>3, ConditionAssumption
  <2>2. QED
    BY <2>1, ConditionAssumption DEF HoldsOf, Meaning
<1>4. PICK f \in [Expressions -> V] : Phi[f] = f
  <2>1. V # {}
    OBVIOUS
  <2>2. \A h, g \in [Expressions -> V] : \A e \in Expressions :
           (\A d \in Expressions : Depth[d] < Depth[e] => h[d] = g[d])
             => Phi[h][e] = Phi[g][e]
    BY <1>3
  <2> HIDE DEF Phi, V
  <2>3. QED
    BY <1>2, <2>1, <2>2, TreeRecursion
<1>5. f = [e \in Expressions |-> HoldsOf(f, e)]
  BY <1>4
<1> DEFINE Body(h) == [e \in Expressions |-> Meaning(e, h[e.left], h[e.right])]
<1>6. Holds = [e \in Expressions |-> HoldsOf(Holds, e)]
  <2>1. Holds = CHOOSE h : h = Body(h)
    BY DEF Holds
  <2>2. f = Body(f)
    BY <1>5 DEF HoldsOf
  <2> DEFINE p == Holds
  <2>3. p = Body(p)
    <3> HIDE DEF Body, p
    <3>1. QED
      BY <2>1, <2>2 DEF p
  <2> HIDE DEF p
  <2>4. p = [e \in Expressions |-> HoldsOf(p, e)]
    BY <2>3 DEF HoldsOf
  <2>5. QED
    BY <2>4 DEF p
<1>7. PICK h : h = Holds
  OBVIOUS
<1>8. h = [e \in Expressions |-> HoldsOf(h, e)]
  BY <1>6, <1>7
<1>9. \A e \in Expressions : h[e] = HoldsOf(h, e)
  BY <1>8
<1>10. QED
  BY <1>7, <1>9

\* The three values tell the truth: "yes" holds whatever is decided, "no" never.
LEMMA PossibleIsSound ==
  \A e \in Expressions : \A decided \in Decisions :
    /\ Possible[e] = "yes" => decided \in Holds[e]
    /\ Possible[e] = "no" => decided \notin Holds[e]
<1> DEFINE Sound(e) == \A decided \in Decisions :
                         /\ Possible[e] = "yes" => decided \in Holds[e]
                         /\ Possible[e] = "no" => decided \notin Holds[e]
           S == {e \in Expressions : Sound(e)}
<1>1. ASSUME NEW e \in Expressions,
             \A d \in Expressions : Depth[d] < Depth[e] => d \in S
      PROVE  Sound(e)
  <2>1. TAKE decided \in Decisions
  <2>2. /\ e.op \in {"not", "and", "or"} =>
             e.left \in Expressions /\ Possible[e.left] \in Truths /\ Sound(e.left)
        /\ e.op \in {"and", "or"} =>
             e.right \in Expressions /\ Possible[e.right] \in Truths /\ Sound(e.right)
    BY <1>1, ConditionAssumption, PossibleDefined
  <2>3. Possible[e] = PossibleOf(Possible, e) /\ Holds[e] = HoldsOf(Holds, e)
    BY PossibleDefined, HoldsDefined
  <2>4. CASE e.op = "not"
    BY <2>2, <2>3, <2>4 DEF PossibleOf, HoldsOf, Verdict, Meaning, Not, Truths
  <2>5. CASE e.op = "and"
    BY <2>2, <2>3, <2>5 DEF PossibleOf, HoldsOf, Verdict, Meaning, And, Truths
  <2>6. CASE e.op = "or"
    BY <2>2, <2>3, <2>6 DEF PossibleOf, HoldsOf, Verdict, Meaning, Or, Truths
  <2>7. CASE e.op \in {"true", "false", "feature", "other"}
    BY <2>3, <2>7 DEF PossibleOf, HoldsOf, Verdict, Meaning
  <2>8. QED
    BY <2>4, <2>5, <2>6, <2>7, ConditionAssumption
<1>2. S \in SUBSET Expressions /\ \A e \in S : Sound(e)
  OBVIOUS
<1>3. \A e \in Expressions :
        (\A d \in Expressions : Depth[d] < Depth[e] => d \in S) => e \in S
  BY <1>1
<1> HIDE DEF S
<1>4. S = Expressions
  BY <1>2, <1>3, TreeInduction
<1>5. QED
  BY <1>2, <1>4

(* The bits of a word on the way down.                                     *)

BitMaps == [Places -> Slots \cup {Absent}]

\* What a fixed bit is: below, it is fixed to the same value; and what some
\* field covers stays covered.
Inherits(above, below) ==
  \A p \in Places :
    /\ Hard(above[p]) => Hard(below[p]) /\ below[p].value = above[p].value
    /\ above[p] # Absent => below[p] # Absent

LEMMA MergedInherits ==
  ASSUME NEW node \in Nodes, NEW parent \in BitMaps, NEW source \in Nat,
         MergeIsLegal(node.encoding, parent)
  PROVE  /\ Merged(node.encoding, parent, source) \in BitMaps
         /\ Inherits(parent, Merged(node.encoding, parent, source))
         /\ \A p \in Places : Covering(node.encoding, p) # {} =>
              Merged(node.encoding, parent, source)[p] \in Slots
<1> DEFINE enc == node.encoding
           m == Merged(enc, parent, source)
<1>1. ASSUME NEW p \in Places
      PROVE  /\ m[p] \in Slots \cup {Absent}
             /\ Hard(parent[p]) => Hard(m[p]) /\ m[p].value = parent[p].value
             /\ parent[p] # Absent => m[p] # Absent
             /\ Covering(enc, p) # {} => m[p] \in Slots
  <2>1. CASE Covering(enc, p) = {}
    <3>1. m[p] = parent[p]
      BY <2>1 DEF Merged
    <3>2. QED
      BY <2>1, <3>1 DEF BitMaps
  <2>2. CASE Covering(enc, p) # {}
    <3> DEFINE n == CHOOSE k \in DOMAIN enc : Covers(enc[k], p)
               field == enc[n]
               kept == Hard(parent[p])
               slot == [value |-> IF kept THEN parent[p].value ELSE Bit(field, p),
                        should |-> ~kept /\ Should(field, p),
                        field |-> field.name, fieldBit |-> p - field.start,
                        source |-> <<source, n>>]
    <3>1. m[p] = slot
      BY <2>2 DEF Merged
    <3>2. n \in DOMAIN enc /\ Covers(field, p)
      BY <2>2 DEF Covering
    <3> HIDE DEF n
    <3>3. /\ n \in Nat /\ field.value \in Seq({"0", "1", "x"})
          /\ field.should \in Seq(BOOLEAN) /\ field.name \in FieldNames
      BY <3>2, NodeAssumption DEF FieldNames
    <3>4. /\ p - field.start + 1 \in 1 .. field.width
          /\ Len(field.value) = field.width /\ Len(field.should) = field.width
          /\ p - field.start \in Nat
      <4>1. FieldIsLegal(field)
        BY <3>2 DEF MergeIsLegal
      <4> HIDE DEF field, enc
      <4>2. /\ field.start \in Nat /\ EncodingBits \in Nat
            /\ field.width \in Nat /\ p \in Int
            /\ Len(field.value) = field.width /\ Len(field.should) = field.width
        BY <4>1, NodeAssumption DEF FieldIsLegal, Places
      <4>3. p >= field.start /\ p <= field.start + field.width - 1
        BY <3>2, <4>2 DEF Covers
      <4>4. QED
        BY <4>2, <4>3, SMTT(30)
    <3>5. Bit(field, p) \in {"0", "1", "x"} /\ Should(field, p) \in BOOLEAN
      BY <3>3, <3>4 DEF Bit, Should
    <3>6. kept => parent[p] \in Slots /\ parent[p].value \in {"0", "1", "x"}
      BY DEF Hard, BitMaps, Slots
    <3> HIDE DEF field
    <3>7. (~kept /\ Should(field, p)) \in BOOLEAN
      OBVIOUS
    <3>8. (IF kept THEN parent[p].value ELSE Bit(field, p)) \in {"0", "1", "x"}
      BY <3>5, <3>6
    <3>9. slot \in Slots
      BY <3>3, <3>4, <3>7, <3>8 DEF Slots
    <3>10. slot # Absent
      BY <3>9, NodeAssumption
    <3>11. kept => /\ slot.value = parent[p].value /\ slot.value # "x"
                   /\ ~slot.should
      BY DEF Hard
    <3>12. kept => Hard(slot)
      BY <3>10, <3>11 DEF Hard
    <3> HIDE DEF slot, m
    <3>13. QED
      BY <3>1, <3>9, <3>10, <3>11, <3>12
  <2>3. QED
    BY <2>1, <2>2
<1>2. DOMAIN m = Places /\ m = [p \in Places |-> m[p]]
  BY DEF Merged
<1> HIDE DEF m
<1>3. QED
  BY <1>1, <1>2 DEF BitMaps, Inherits, m

\* What the record of a node below says of its word.
Refines(above, below) ==
  /\ above.fixed \subseteq below.fixed
  /\ below.fixedOnes \cap above.fixed = above.fixedOnes
  /\ above.covered \subseteq below.covered

LEMMA SummaryRefines ==
  ASSUME NEW a, NEW b, Inherits(a, b)
  PROVE  Refines(Summary(a), Summary(b))
BY DEF Refines, Summary, Inherits, OnesOf

LEMMA InheritsTransitive ==
  ASSUME NEW a, NEW b, NEW c, Inherits(a, b), Inherits(b, c)
  PROVE  Inherits(a, c)
BY DEF Inherits

LEMMA SummaryType ==
  ASSUME NEW a
  PROVE  Summary(a).covered \subseteq Places
BY DEF Summary

(* The fragments of a word.                                                *)

\* The slots that were filled before node `now`: those of one field are as far
\* apart in the word as in the field, and nothing between them is uncovered.
SlotsOK(bits, now) ==
  /\ \A p \in Places : bits[p] # Absent => bits[p].source[1] < now
  /\ \A p, q \in Places :
       p <= q /\ bits[p] # Absent /\ bits[q] # Absent /\ bits[p].source = bits[q].source =>
         /\ bits[q].fieldBit = bits[p].fieldBit + (q - p)
         /\ \A r \in p .. q : bits[r] # Absent

FragmentSet == [name : FieldNames, lsb : Nat, width : Nat, fieldLsb : Nat, source : Nat \X Nat]

\* fs are the pieces of the lowest n bits.
Pieces(bits, fs, n) ==
  /\ fs \in Seq(FragmentSet)
  /\ \A k \in 1 .. Len(fs) : fs[k].width >= 1 /\ fs[k].lsb + fs[k].width <= n
  /\ \A p \in Places : p < n /\ bits[p] # Absent =>
       \E k \in 1 .. Len(fs) : fs[k].lsb <= p /\ p < fs[k].lsb + fs[k].width
  /\ \A k \in 1 .. Len(fs) : \A p \in Places :
       fs[k].lsb <= p /\ p < fs[k].lsb + fs[k].width =>
         /\ bits[p] # Absent /\ bits[p].source = fs[k].source
         /\ bits[p].fieldBit = fs[k].fieldLsb + (p - fs[k].lsb)
  /\ \A k, l \in 1 .. Len(fs) : k < l =>
       /\ fs[k].lsb + fs[k].width <= fs[l].lsb
       /\ fs[k].source = fs[l].source => l > k + 1

\* Two slots of one field with nothing of another between them are one piece.
LEMMA SlotContinues ==
  ASSUME EncodingBits \in Nat, NEW bits \in BitMaps, NEW now, SlotsOK(bits, now), NEW fs, NEW n \in Places,
         Pieces(bits, fs, n), bits[n] # Absent, fs # <<>>,
         Last(fs).source = bits[n].source
  PROVE  Continues(Last(fs), bits[n], n)
<1> DEFINE L == Len(fs)
           last == fs[L]
<1>1. /\ fs \in Seq(FragmentSet) /\ L \in Nat /\ L >= 1 /\ L \in 1 .. L /\ Last(fs) = last
      /\ last \in FragmentSet
  BY DEF Pieces, Last
<1>2. /\ last.lsb \in Nat /\ last.width \in Nat /\ last.fieldLsb \in Nat
      /\ last.width >= 1 /\ last.lsb + last.width <= n /\ n \in Nat /\ n < EncodingBits
  <2>1. last.lsb \in Nat /\ last.width \in Nat /\ last.fieldLsb \in Nat
    BY <1>1 DEF FragmentSet
  <2>2. last.width >= 1 /\ last.lsb + last.width <= n
    BY <1>1 DEF Pieces
  <2>3. n \in Nat /\ n < EncodingBits
    BY DEF Places
  <2>4. QED
    BY <2>1, <2>2, <2>3
<1>q. PICK q : q = last.lsb + last.width - 1
  OBVIOUS
<1>3. q \in Places /\ q < n /\ last.lsb <= q /\ q < last.lsb + last.width /\ q \in Nat
  BY <1>2, <1>q DEF Places
<1>4. /\ bits[q] # Absent /\ bits[q].source = last.source
      /\ bits[q].fieldBit = last.fieldLsb + (q - last.lsb)
  BY <1>1, <1>3 DEF Pieces
<1>5. /\ bits[n].fieldBit = bits[q].fieldBit + (n - q)
      /\ \A r \in q .. n : bits[r] # Absent
  <2>1. bits[q].source = bits[n].source /\ q <= n
    BY <1>1, <1>2, <1>3, <1>4
  <2>2. QED
    BY <1>3, <1>4, <2>1 DEF SlotsOK
<1>6. q + 1 = n
  <2>1. SUFFICES ASSUME q + 1 # n PROVE FALSE
    OBVIOUS
  <2>2. PICK r : r = q + 1
    OBVIOUS
  <2>3. r \in Places /\ r < n /\ r \in q .. n /\ r > q
    BY <1>2, <1>3, <2>1, <2>2 DEF Places
  <2>4. PICK k \in 1 .. L : fs[k].lsb <= r /\ r < fs[k].lsb + fs[k].width
    <3>1. bits[r] # Absent
      BY <1>5, <2>3
    <3>2. QED
      BY <2>3, <3>1 DEF Pieces
  <2>5. fs[k] \in FragmentSet /\ fs[k].lsb \in Nat /\ fs[k].width \in Nat
    <3>1. fs[k] \in FragmentSet
      BY <1>1
    <3>2. QED
      BY <3>1 DEF FragmentSet
  <2>6. CASE k = L
    BY <1>2, <1>q, <2>2, <2>4, <2>6
  <2>7. CASE k < L
    <3>1. fs[k].lsb + fs[k].width <= last.lsb
      BY <1>1, <2>7 DEF Pieces
    <3>2. QED
      BY <1>2, <1>3, <2>3, <2>4, <2>5, <3>1
  <2>8. QED
    BY <1>1, <2>6, <2>7
<1>7. last.lsb + last.width = n /\ last.fieldLsb + last.width = bits[n].fieldBit
  <2> HIDE DEF last, L
  <2>1. last.lsb + last.width = n /\ n - q = 1
    BY <1>2, <1>3, <1>q, <1>6
  <2>2. bits[n].fieldBit = last.fieldLsb + (q - last.lsb) + 1
    BY <1>4, <1>5, <2>1
  <2>3. (q - last.lsb) + 1 = last.width /\ q - last.lsb \in Int
    BY <1>2, <1>3, <1>q
  <2>4. last.fieldLsb + (q - last.lsb) + 1 = last.fieldLsb + last.width
    BY <1>2, <2>3
  <2>5. QED
    BY <2>1, <2>2, <2>4
<1>8. QED
  BY <1>1, <1>7 DEF Continues

LEMMA PiecesGrow ==
  ASSUME EncodingBits \in Nat, NEW bits \in BitMaps, NEW now, SlotsOK(bits, now),
         NEW fs, NEW n \in Places, Pieces(bits, fs, n)
  PROVE  Pieces(bits, AddSlot(fs, bits[n], n), n + 1)
<1> DEFINE L == Len(fs)
           slot == bits[n]
           gs == AddSlot(fs, slot, n)
<1>1. /\ fs \in Seq(FragmentSet) /\ L \in Nat /\ n \in Nat /\ n < EncodingBits
      /\ slot \in Slots \cup {Absent}
      /\ \A k \in 1 .. L : /\ fs[k] \in FragmentSet /\ fs[k].lsb \in Nat /\ fs[k].width \in Nat
                           /\ fs[k].fieldLsb \in Nat
                           /\ fs[k].width >= 1 /\ fs[k].lsb + fs[k].width <= n
  <2>1. /\ fs \in Seq(FragmentSet)
        /\ \A k \in 1 .. L : fs[k].width >= 1 /\ fs[k].lsb + fs[k].width <= n
    BY DEF Pieces
  <2>2. L \in Nat /\ \A k \in 1 .. L : fs[k] \in FragmentSet
    BY <2>1
  <2>3. n \in Nat /\ n < EncodingBits
    BY DEF Places
  <2>4. slot \in Slots \cup {Absent}
    BY DEF BitMaps
  <2> HIDE DEF L, slot
  <2>5. QED
    BY <2>1, <2>2, <2>3, <2>4 DEF FragmentSet
<1>2. \A p \in Places : p \in Nat
  BY <1>1 DEF Places
<1>3. CASE slot = Absent
  <2>1. gs = fs
    BY <1>3 DEF AddSlot
  <2>2. \A k \in 1 .. L : fs[k].lsb + fs[k].width <= n + 1
    BY <1>1
  <2>3. \A p \in Places : p < n + 1 /\ bits[p] # Absent => p < n
    BY <1>1, <1>2, <1>3
  <2>4. Pieces(bits, fs, n + 1)
    BY <2>2, <2>3 DEF Pieces
  <2>5. QED
    BY <2>1, <2>4
<1>4. CASE slot # Absent /\ fs # <<>> /\ Continues(Last(fs), slot, n)
  <2> DEFINE last == fs[L]
             wider == [last EXCEPT !.width = last.width + 1]
  <2>1. L >= 1 /\ L \in 1 .. L /\ Last(fs) = last
    BY <1>1, <1>4 DEF Last
  <2>2. /\ last \in FragmentSet /\ last.lsb \in Nat /\ last.width \in Nat /\ last.fieldLsb \in Nat
        /\ last.source = slot.source
        /\ last.lsb + last.width = n /\ last.fieldLsb + last.width = slot.fieldBit
    BY <1>1, <1>4, <2>1 DEF Continues
  <2>3. gs = [fs EXCEPT ![L].width = @ + 1]
    BY <1>4 DEF AddSlot
  <2>4. gs = [fs EXCEPT ![L] = wider]
    BY <2>3
  <2>5. /\ wider \in FragmentSet /\ wider.lsb = last.lsb /\ wider.width = last.width + 1
        /\ wider.fieldLsb = last.fieldLsb /\ wider.source = last.source
    BY <2>2, SMTT(30) DEF FragmentSet
  <2> HIDE DEF wider, gs
  <2>6. /\ gs \in Seq(FragmentSet) /\ Len(gs) = L /\ gs[L] = wider
        /\ \A k \in 1 .. L : k # L => gs[k] = fs[k]
    BY <1>1, <2>1, <2>4, <2>5, ReplaceFacts
  <2>7. \A k \in 1 .. L : gs[k].width >= 1 /\ gs[k].lsb + gs[k].width <= n + 1
    BY <1>1, <2>2, <2>5, <2>6
  <2>8. ASSUME NEW p \in Places, p < n + 1, bits[p] # Absent
        PROVE  \E k \in 1 .. L : gs[k].lsb <= p /\ p < gs[k].lsb + gs[k].width
    <3>1. CASE p = n
      BY <1>1, <2>1, <2>2, <2>5, <2>6, <3>1
    <3>2. CASE p # n
      <4>1. p < n
        BY <1>1, <1>2, <2>8, <3>2
      <4>2. PICK k \in 1 .. L : fs[k].lsb <= p /\ p < fs[k].lsb + fs[k].width
        BY <2>8, <4>1 DEF Pieces
      <4>3. CASE k = L
        BY <1>2, <2>1, <2>2, <2>5, <2>6, <4>2, <4>3
      <4>4. CASE k # L
        BY <2>6, <4>2, <4>4
      <4>5. QED
        BY <4>3, <4>4
    <3>3. QED
      BY <3>1, <3>2
  <2>9. ASSUME NEW k \in 1 .. L, NEW p \in Places, gs[k].lsb <= p, p < gs[k].lsb + gs[k].width
        PROVE  /\ bits[p] # Absent /\ bits[p].source = gs[k].source
               /\ bits[p].fieldBit = gs[k].fieldLsb + (p - gs[k].lsb)
    <3>1. CASE k # L
      <4>1. gs[k] = fs[k]
        BY <2>6, <3>1
      <4>2. QED
        BY <2>9, <4>1 DEF Pieces
    <3>2. CASE k = L /\ p = n
      BY <1>1, <1>4, <2>2, <2>5, <2>6, <3>2
    <3>3. CASE k = L /\ p # n
      <4>1. last.lsb <= p /\ p < last.lsb + last.width
        BY <1>1, <1>2, <2>2, <2>5, <2>6, <2>9, <3>3
      <4>2. /\ bits[p] # Absent /\ bits[p].source = last.source
            /\ bits[p].fieldBit = last.fieldLsb + (p - last.lsb)
        BY <2>1, <4>1 DEF Pieces
      <4>3. QED
        BY <2>5, <2>6, <3>3, <4>2
    <3>4. QED
      BY <3>1, <3>2, <3>3
  <2>10. ASSUME NEW k \in 1 .. L, NEW l \in 1 .. L, k < l
         PROVE  /\ gs[k].lsb + gs[k].width <= gs[l].lsb
                /\ gs[k].source = gs[l].source => l > k + 1
    <3>1. k # L /\ gs[k] = fs[k] /\ gs[l].lsb = fs[l].lsb /\ gs[l].source = fs[l].source
      BY <1>1, <2>5, <2>6, <2>10
    <3>2. QED
      BY <2>10, <3>1 DEF Pieces
  <2>11. QED
    BY <2>6, <2>7, <2>8, <2>9, <2>10 DEF Pieces, gs
<1>5. CASE slot # Absent /\ ~(fs # <<>> /\ Continues(Last(fs), slot, n))
  <2> DEFINE piece == [name |-> slot.field, lsb |-> n, width |-> 1,
                       fieldLsb |-> slot.fieldBit, source |-> slot.source]
  <2>1. gs = Append(fs, piece)
    BY <1>5 DEF AddSlot
  <2>2. slot.field \in FieldNames /\ slot.fieldBit \in Nat /\ slot.source \in Nat \X Nat
    BY <1>1, <1>5 DEF Slots
  <2>3. /\ piece \in FragmentSet /\ piece.lsb = n /\ piece.width = 1
        /\ piece.fieldLsb = slot.fieldBit /\ piece.source = slot.source
    BY <1>1, <2>2 DEF FragmentSet
  <2> HIDE DEF piece, gs
  <2>4. /\ gs \in Seq(FragmentSet) /\ Len(gs) = L + 1 /\ gs[L + 1] = piece
        /\ \A k \in 1 .. L : gs[k] = fs[k]
    BY <1>1, <2>1, <2>3, AppendFacts
  <2>5. \A k \in 1 .. L + 1 : k \in 1 .. L \/ k = L + 1
    BY <1>1
  <2>6. \A k \in 1 .. L : k \in 1 .. L + 1
    BY <1>1
  <2>7. \A k \in 1 .. L + 1 : gs[k].width >= 1 /\ gs[k].lsb + gs[k].width <= n + 1
    BY <1>1, <2>3, <2>4, <2>5
  <2>8. ASSUME NEW p \in Places, p < n + 1, bits[p] # Absent
        PROVE  \E k \in 1 .. L + 1 : gs[k].lsb <= p /\ p < gs[k].lsb + gs[k].width
    <3>1. CASE p = n
      BY <1>1, <2>3, <2>4, <3>1
    <3>2. CASE p # n
      <4>1. p < n
        BY <1>1, <1>2, <2>8, <3>2
      <4>2. PICK k \in 1 .. L : fs[k].lsb <= p /\ p < fs[k].lsb + fs[k].width
        BY <2>8, <4>1 DEF Pieces
      <4>3. QED
        BY <2>4, <2>6, <4>2
    <3>3. QED
      BY <3>1, <3>2
  <2>9. ASSUME NEW k \in 1 .. L + 1, NEW p \in Places,
               gs[k].lsb <= p, p < gs[k].lsb + gs[k].width
        PROVE  /\ bits[p] # Absent /\ bits[p].source = gs[k].source
               /\ bits[p].fieldBit = gs[k].fieldLsb + (p - gs[k].lsb)
    <3>1. CASE k \in 1 .. L
      <4>1. gs[k] = fs[k]
        BY <2>4, <3>1
      <4>2. QED
        BY <2>9, <3>1, <4>1 DEF Pieces
    <3>2. CASE k = L + 1
      <4>1. /\ gs[k].lsb = n /\ gs[k].width = 1
            /\ gs[k].fieldLsb = slot.fieldBit /\ gs[k].source = slot.source
        BY <2>3, <2>4, <3>2
      <4>2. n \in Nat /\ p \in Nat
        BY <1>1, <1>2 DEF Places
      <4>3. p = n
        BY <2>9, <4>1, <4>2
      <4>4. gs[k].fieldLsb + (p - gs[k].lsb) = slot.fieldBit
        BY <2>2, <4>1, <4>2, <4>3
      <4>5. QED
        BY <1>1, <1>5, <4>1, <4>3, <4>4
    <3>3. QED
      BY <2>5, <3>1, <3>2
  <2>10. ASSUME NEW k \in 1 .. L + 1, NEW l \in 1 .. L + 1, k < l
         PROVE  /\ gs[k].lsb + gs[k].width <= gs[l].lsb
                /\ gs[k].source = gs[l].source => l > k + 1
    <3>1. k \in 1 .. L
      BY <1>1, <2>10
    <3>2. CASE l \in 1 .. L
      <4>1. gs[k] = fs[k] /\ gs[l] = fs[l]
        BY <2>4, <3>1, <3>2
      <4>2. QED
        BY <2>10, <3>1, <3>2, <4>1 DEF Pieces
    <3>3. CASE l = L + 1
      <4>1. gs[k].lsb + gs[k].width <= gs[l].lsb
        BY <1>1, <2>3, <2>4, <3>1, <3>3
      <4>2. ASSUME gs[k].source = gs[l].source, k = L
            PROVE  FALSE
        <5>1. fs # <<>> /\ Last(fs) = fs[L]
          BY <1>1, <3>1 DEF Last
        <5>2. Last(fs).source = bits[n].source
          BY <2>3, <2>4, <3>1, <3>3, <4>2, <5>1
        <5>3. Continues(Last(fs), bits[n], n)
          BY <1>5, <5>1, <5>2, SlotContinues
        <5>4. QED
          BY <1>5, <5>1, <5>3
      <4>3. QED
        BY <1>1, <3>1, <3>3, <4>1, <4>2
    <3>4. QED
      BY <2>5, <3>2, <3>3
  <2>11. QED
    BY <2>4, <2>7, <2>8, <2>9, <2>10 DEF Pieces, gs
<1>6. QED
  BY <1>3, <1>4, <1>5

LEMMA AddSlotType ==
  ASSUME NEW fs \in Seq(FragmentSet), NEW slot \in Slots \cup {Absent}, NEW p \in Nat
  PROVE  AddSlot(fs, slot, p) \in Seq(FragmentSet)
<1>1. CASE slot = Absent
  BY <1>1 DEF AddSlot
<1>2. CASE slot # Absent /\ fs # <<>> /\ Continues(Last(fs), slot, p)
  <2> DEFINE wider == [fs[Len(fs)] EXCEPT !.width = fs[Len(fs)].width + 1]
  <2>1. Len(fs) \in 1 .. Len(fs) /\ fs[Len(fs)] \in FragmentSet
    BY <1>2
  <2>2. wider \in FragmentSet
    <3>1. PICK last : last = fs[Len(fs)]
      OBVIOUS
    <3>2. last.width + 1 \in Nat
      BY <2>1, <3>1 DEF FragmentSet
    <3>3. [last EXCEPT !.width = last.width + 1] \in FragmentSet
      BY <2>1, <3>1, <3>2 DEF FragmentSet
    <3>4. QED
      BY <3>1, <3>3
  <2>3. AddSlot(fs, slot, p) = [fs EXCEPT ![Len(fs)] = wider]
    BY <1>2 DEF AddSlot
  <2> HIDE DEF wider
  <2>4. QED
    BY <2>1, <2>2, <2>3, ReplaceFacts
<1>3. CASE slot # Absent /\ ~(fs # <<>> /\ Continues(Last(fs), slot, p))
  <2> DEFINE piece == [name |-> slot.field, lsb |-> p, width |-> 1,
                       fieldLsb |-> slot.fieldBit, source |-> slot.source]
  <2>1. piece \in FragmentSet
    BY <1>3 DEF Slots, FragmentSet
  <2>2. AddSlot(fs, slot, p) = Append(fs, piece)
    BY <1>3 DEF AddSlot
  <2> HIDE DEF piece
  <2>3. QED
    BY <2>1, <2>2, AppendFacts
<1>4. QED
  BY <1>1, <1>2, <1>3

LEMMA FragmentsDefined ==
  ASSUME NEW bits \in BitMaps
  PROVE  /\ FragmentsTo(bits)[0] = <<>>
         /\ \A n \in Places :
              FragmentsTo(bits)[n + 1] = AddSlot(FragmentsTo(bits)[n], bits[n], n)
<1> DEFINE D == Seq(FragmentSet)
           N == EncodingBits
           g == [x \in (1 .. N) \X D |-> AddSlot(x[2], bits[x[1] - 1], x[1] - 1)]
           Body(f) == [n \in 0 .. N |->
                         IF n = 0 THEN <<>> ELSE AddSlot(f[n - 1], bits[n - 1], n - 1)]
           w == FragmentsTo(bits)
<1>1. N \in Nat /\ <<>> \in D
  BY NodeAssumption
<1>2. g \in [((0 + 1) .. N) \X D -> D]
  <2>1. ASSUME NEW x \in (1 .. N) \X D
        PROVE  AddSlot(x[2], bits[x[1] - 1], x[1] - 1) \in D
    <3>1. x[2] \in D /\ x[1] - 1 \in Nat /\ x[1] - 1 \in Places
      BY <1>1 DEF Places
    <3>2. bits[x[1] - 1] \in Slots \cup {Absent}
      BY <3>1 DEF BitMaps
    <3>3. QED
      BY <3>1, <3>2, AddSlotType
  <2>2. QED
    BY <2>1
<1>3. PICK f \in [0 .. N -> D] :
        f[0] = <<>> /\ \A k \in 1 .. N : f[k] = g[<<k, f[k - 1]>>]
  <2> HIDE DEF g, D
  <2>1. 0 \in Nat /\ 0 <= N
    BY <1>1
  <2>2. \E f : Recurses(f, 0, N, D, <<>>, g)
    BY <1>1, <1>2, <2>1, RecursionExists
  <2>3. 0 + 1 = 1
    OBVIOUS
  <2>4. QED
    BY <2>2, <2>3 DEF Recurses
<1>4. ASSUME NEW k \in 1 .. N
      PROVE  f[k] = AddSlot(f[k - 1], bits[k - 1], k - 1)
  <2> HIDE DEF D
  <2>1. <<k, f[k - 1]>> \in (1 .. N) \X D
    BY <1>1, <1>3
  <2>2. PICK x : x = <<k, f[k - 1]>>
    OBVIOUS
  <2>3. /\ x \in (1 .. N) \X D /\ x[1] = k /\ x[2] = f[k - 1]
        /\ f[k] = g[x]
    BY <1>3, <2>1, <2>2
  <2>4. g[x] = AddSlot(x[2], bits[x[1] - 1], x[1] - 1)
    BY <2>3
  <2>5. QED
    BY <2>3, <2>4
<1>5. f = Body(f)
  <2>1. ASSUME NEW n \in 0 .. N
        PROVE  f[n] = IF n = 0 THEN <<>> ELSE AddSlot(f[n - 1], bits[n - 1], n - 1)
    BY <1>1, <1>3, <1>4
  <2>2. QED
    BY <2>1
<1>6. w = CHOOSE h : h = Body(h)
  BY DEF FragmentsTo
<1>7. w = Body(w)
  <2> HIDE DEF Body, w
  <2>1. QED
    BY <1>5, <1>6 DEF w
<1> HIDE DEF w
<1>8. w[0] = <<>>
  BY <1>1, <1>7
<1>9. ASSUME NEW n \in Places
      PROVE  w[n + 1] = AddSlot(w[n], bits[n], n)
  <2>1. n + 1 \in 0 .. N /\ n + 1 # 0 /\ (n + 1) - 1 = n
    BY <1>1 DEF Places
  <2>2. QED
    BY <1>7, <2>1
<1>10. QED
  BY <1>8, <1>9 DEF w

\* The fragments of a word are its pieces.
LEMMA FragmentsArePieces ==
  ASSUME NEW bits \in BitMaps, NEW now, SlotsOK(bits, now)
  PROVE  Pieces(bits, Fragments(bits), EncodingBits)
<1> DEFINE S == {n \in Nat : n <= EncodingBits => Pieces(bits, FragmentsTo(bits)[n], n)}
<1>0. EncodingBits \in Nat
  BY NodeAssumption
<1>1. 0 \in S
  <2>1. \A p \in Places : ~(p < 0)
    BY <1>0 DEF Places
  <2>2. Pieces(bits, <<>>, 0)
    BY <2>1 DEF Pieces
  <2>3. QED
    BY <2>2, FragmentsDefined
<1>2. ASSUME NEW n \in S
      PROVE  n + 1 \in S
  <2>1. SUFFICES ASSUME n + 1 <= EncodingBits
                 PROVE  Pieces(bits, FragmentsTo(bits)[n + 1], n + 1)
    OBVIOUS
  <2>2. n \in Places /\ n <= EncodingBits
    BY <1>0, <2>1 DEF Places
  <2>3. Pieces(bits, FragmentsTo(bits)[n], n)
    BY <2>2
  <2>4. QED
    BY <1>0, <2>2, <2>3, FragmentsDefined, PiecesGrow
<1>3. S \in SUBSET Nat
  OBVIOUS
<1> HIDE DEF S
<1>4. S = Nat
  BY <1>1, <1>2, <1>3, NatSet
<1>5. EncodingBits \in S
  BY <1>0, <1>4
<1>6. QED
  BY <1>0, <1>5 DEF S, Fragments

LEMMA SlotsLater ==
  ASSUME NEW bits \in BitMaps, NEW now \in Nat, SlotsOK(bits, now)
  PROVE  SlotsOK(bits, now + 1)
<1>1. ASSUME NEW p \in Places, bits[p] # Absent
      PROVE  bits[p].source[1] < now + 1
  <2>1. bits[p].source \in Nat \X Nat
    BY <1>1 DEF BitMaps, Slots
  <2>2. bits[p].source[1] \in Nat /\ bits[p].source[1] < now
    BY <1>1, <2>1 DEF SlotsOK
  <2>3. QED
    BY <2>2
<1>2. QED
  BY <1>1 DEF SlotsOK

\* The fields of a new node are new, and each covers a run of bits.
LEMMA MergedSlots ==
  ASSUME NEW node \in Nodes, NEW parent \in BitMaps, NEW now \in Nat,
         SlotsOK(parent, now), MergeIsLegal(node.encoding, parent)
  PROVE  SlotsOK(Merged(node.encoding, parent, now), now + 1)
<1> DEFINE enc == node.encoding
           m == Merged(enc, parent, now)
           Chosen(p) == CHOOSE k \in DOMAIN enc : Covers(enc[k], p)
<1>0. /\ m \in BitMaps /\ EncodingBits \in Nat
      /\ \A p \in Places : p \in Nat
      /\ \A p \in Places : parent[p] # Absent => m[p] # Absent
  <2>1. m \in BitMaps /\ Inherits(parent, m)
    BY MergedInherits
  <2>2. QED
    BY <2>1, NodeAssumption DEF Inherits, Places
<1>1. ASSUME NEW p \in Places, Covering(enc, p) = {}
      PROVE  m[p] = parent[p] /\ (m[p] # Absent => m[p].source[1] \in Nat /\ m[p].source[1] < now)
  <2>1. m[p] = parent[p]
    BY <1>1 DEF Merged
  <2>2. parent[p] # Absent => parent[p].source \in Nat \X Nat
    BY DEF BitMaps, Slots
  <2>3. parent[p] # Absent => parent[p].source[1] < now
    BY DEF SlotsOK
  <2> HIDE DEF m
  <2>4. QED
    BY <2>1, <2>2, <2>3
<1>2. ASSUME NEW p \in Places, Covering(enc, p) # {}
      PROVE  /\ m[p] # Absent /\ m[p].source = <<now, Chosen(p)>>
             /\ m[p].fieldBit = p - enc[Chosen(p)].start
             /\ Chosen(p) \in DOMAIN enc /\ Covers(enc[Chosen(p)], p)
  <2>1. Chosen(p) \in DOMAIN enc /\ Covers(enc[Chosen(p)], p)
    BY <1>2 DEF Covering
  <2>2. m[p].source = <<now, Chosen(p)>> /\ m[p].fieldBit = p - enc[Chosen(p)].start
    BY <1>2 DEF Merged
  <2>3. m[p] # Absent
    BY <1>2, MergedInherits, NodeAssumption
  <2>4. QED
    BY <2>1, <2>2, <2>3
<1>3. \A k \in DOMAIN enc : enc[k].start \in Nat /\ enc[k].width \in Nat
  <2>1. \A k \in DOMAIN enc : FieldIsLegal(enc[k])
    BY DEF MergeIsLegal
  <2>2. QED
    BY <1>0, <2>1 DEF FieldIsLegal, Places
<1> HIDE DEF m, Chosen, enc
<1>4. ASSUME NEW p \in Places, m[p] # Absent
      PROVE  m[p].source[1] < now + 1
  <2>1. CASE Covering(enc, p) = {}
    BY <1>1, <1>4, <2>1
  <2>2. CASE Covering(enc, p) # {}
    BY <1>2, <2>2
  <2>3. QED
    BY <2>1, <2>2
<1>5. ASSUME NEW p \in Places, NEW q \in Places,
             p <= q, m[p] # Absent, m[q] # Absent, m[p].source = m[q].source
      PROVE  /\ m[q].fieldBit = m[p].fieldBit + (q - p)
             /\ \A r \in p .. q : m[r] # Absent
  <2>1. \A r \in p .. q : r \in Places
    BY <1>0 DEF Places
  <2>2. CASE Covering(enc, p) = {} /\ Covering(enc, q) = {}
    <3>1. m[p] = parent[p] /\ m[q] = parent[q]
      BY <1>1, <2>2
    <3>2. /\ m[q].fieldBit = m[p].fieldBit + (q - p)
          /\ \A r \in p .. q : parent[r] # Absent
      BY <1>5, <3>1 DEF SlotsOK
    <3>3. QED
      BY <1>0, <2>1, <3>2
  <2>3. CASE Covering(enc, p) # {} /\ Covering(enc, q) # {}
    <3>1. PICK k : k = Chosen(p)
      OBVIOUS
    <3>2. k = Chosen(q)
      <4>1. <<now, Chosen(p)>> = <<now, Chosen(q)>>
        BY <1>2, <1>5, <2>3
      <4>2. QED
        BY <3>1, <4>1
    <3>3. /\ k \in DOMAIN enc /\ Covers(enc[k], p) /\ Covers(enc[k], q)
          /\ m[p].fieldBit = p - enc[k].start /\ m[q].fieldBit = q - enc[k].start
      BY <1>2, <2>3, <3>1, <3>2
    <3>4. PICK field : field = enc[k]
      OBVIOUS
    <3>5. /\ field.start \in Nat /\ field.width \in Nat /\ p \in Nat /\ q \in Nat
          /\ p >= field.start /\ q <= field.start + field.width - 1
      BY <1>0, <1>3, <3>3, <3>4 DEF Covers
    <3>6. ASSUME NEW r \in p .. q
          PROVE  m[r] # Absent
      <4>1. Covers(field, r)
        BY <3>5 DEF Covers
      <4>2. Covering(enc, r) # {} /\ r \in Places
        BY <2>1, <3>3, <3>4, <4>1 DEF Covering
      <4>3. QED
        BY <1>2, <4>2
    <3>7. m[q].fieldBit = m[p].fieldBit + (q - p)
      BY <3>3, <3>4, <3>5
    <3>8. QED
      BY <3>6, <3>7
  <2>4. CASE Covering(enc, p) = {} /\ Covering(enc, q) # {}
    <3>1. m[p].source[1] < now /\ m[q].source = <<now, Chosen(q)>>
      BY <1>1, <1>2, <1>5, <2>4
    <3>2. m[p].source[1] = now
      BY <1>5, <3>1
    <3>3. QED
      BY <3>1, <3>2
  <2>5. CASE Covering(enc, p) # {} /\ Covering(enc, q) = {}
    <3>1. m[q].source[1] < now /\ m[p].source = <<now, Chosen(p)>>
      BY <1>1, <1>2, <1>5, <2>5
    <3>2. m[q].source[1] = now
      BY <1>5, <3>1
    <3>3. QED
      BY <3>1, <3>2
  <2>6. QED
    BY <2>2, <2>3, <2>4, <2>5
<1>6. SlotsOK(m, now + 1)
  BY <1>4, <1>5 DEF SlotsOK
<1>7. QED
  BY <1>6 DEF m, enc

(* The walk.                                                               *)

\* The path id goes through the first k nodes of the stack.
Through(id, k) ==
  Len(id) >= k /\ \A i \in 1 .. k : id[i] = stack[i].name

\* r is the record of this node.
Describes(r, frame) ==
  /\ r.kind = frame.kind
  /\ r.encoding = Summary(frame.bits)
  /\ r.conditions = frame.conditions
  /\ r.terminal = Terminal(frame.operation)

\* What a node has of the one above it.
HandedDown(above, below) ==
  /\ Inherits(above.bits, below.bits)
  /\ Range(above.conditions) \subseteq Range(below.conditions)

\* Every record below the nodes of the stack went through a child that its
\* parent remembers, and the record of a node of the stack is of that node.
PathsOK ==
  \A r \in records : \A k \in 1 .. Len(stack) :
    Through(r.id, k) =>
      IF Len(r.id) = k THEN Describes(r, stack[k])
      ELSE r.id[k + 1] \in stack[k].names

NodesOK ==
  /\ \A m, n \in 1 .. Len(stack) : m <= n => HandedDown(stack[m], stack[n])
  /\ \A k \in 1 .. Len(stack) - 1 : stack[k + 1].name \in stack[k].names
  /\ \A k \in 1 .. Len(stack) : IsRecord(stack[k].kind) =>
       \E r \in records : Len(r.id) = k /\ Through(r.id, k)

\* The reason of a record, from its own path and conditions.
ReasonOf(r) ==
  IF Groups[r.id[2]] = "scalable" THEN "scalable-register-model"
  ELSE IF \E c \in Range(r.conditions) : Possible[c] = "no"
  THEN "feature-or-condition-outside-baseline"
  ELSE "baseline-feature-filter"

RecordsOK ==
  /\ \A r \in records : Len(r.id) >= 2 /\ r.reason = ReasonOf(r)
  /\ \A r, s \in records : Below(r, s) =>
       Refines(r.encoding, s.encoding) /\ Range(r.conditions) \subseteq Range(s.conditions)
  /\ AliasesNameTheirTwin

\* Every slot came from a node that was entered before.
SlotsInv == \A k \in 1 .. Len(stack) : SlotsOK(stack[k].bits, entered)

WalkInv ==
  /\ WalkTypeOK
  /\ SlotsInv
  /\ NodesOK
  /\ PathsOK
  /\ RecordsOK

LEMMA InheritsReflexive ==
  \A a : Inherits(a, a)
BY DEF Inherits

\* The stack after a node is entered.
StackWith(frames, node, child) ==
  LET L == Len(stack)
  IN  /\ L \in Nat /\ L >= 1
      /\ frames \in Seq(Frames) /\ Len(frames) = L + 1
      /\ \A k \in 1 .. L - 1 : frames[k] = stack[k]
      /\ frames[L] = [stack[L] EXCEPT !.names = stack[L].names \cup {node.name}]
      /\ frames[L + 1] = child
      /\ Last(frames) = child
      /\ Front(frames) \in Seq(Frames) /\ Len(Front(frames)) = L
      /\ \A k \in 1 .. L : Front(frames)[k] = frames[k]

\* The child of the top of the stack: its own name, what it inherits, and no
\* children yet.
ChildOK(parent, node, child) ==
  /\ child \in Frames /\ child.name = node.name /\ child.kind = node.kind
  /\ child.names = {} /\ HandedDown(parent, child)
  /\ node.kind = "InstructionAlias" => child.bits = parent.bits

LEMMA ChildFacts ==
  ASSUME WalkTypeOK, NEW parent \in Frames, NEW node \in Nodes,
         NodeIsLegal(parent, node)
  PROVE  ChildOK(parent, node, Child(parent, node))
<1> DEFINE bits == IF node.kind = "InstructionAlias" THEN parent.bits
                   ELSE Merged(node.encoding, parent.bits, entered)
           conditions == Append(parent.conditions, node.condition)
           operation == IF node.operation # Absent THEN node.operation ELSE parent.operation
           child == Child(parent, node)
<1>1. /\ parent.bits \in BitMaps /\ parent.conditions \in Seq(Expressions)
      /\ parent.operation \in {n.operation : n \in Nodes} \cup {Absent}
      /\ entered \in Nat /\ node.condition \in Expressions
  BY NodeAssumption DEF Frames, BitMaps, WalkTypeOK
<1>2. bits \in BitMaps /\ Inherits(parent.bits, bits)
  <2>1. CASE node.kind = "InstructionAlias"
    BY <1>1, <2>1, InheritsReflexive
  <2>2. CASE node.kind # "InstructionAlias"
    <3>1. MergeIsLegal(node.encoding, parent.bits)
      BY <2>2 DEF NodeIsLegal
    <3>2. QED
      BY <1>1, <2>2, <3>1, MergedInherits
  <2>3. QED
    BY <2>1, <2>2
<1>3. /\ conditions \in Seq(Expressions)
      /\ Range(parent.conditions) \subseteq Range(conditions)
  <2>1. /\ conditions \in Seq(Expressions)
        /\ Len(conditions) = Len(parent.conditions) + 1 /\ Len(parent.conditions) \in Nat
        /\ \A k \in 1 .. Len(parent.conditions) : conditions[k] = parent.conditions[k]
    BY <1>1, AppendFacts
  <2> HIDE DEF conditions
  <2>2. DOMAIN parent.conditions = 1 .. Len(parent.conditions)
        /\ DOMAIN conditions = 1 .. Len(conditions)
    BY <1>1, <2>1
  <2>3. QED
    BY <2>1, <2>2 DEF Range
<1>4. operation \in {n.operation : n \in Nodes} \cup {Absent}
  BY <1>1
<1>5. child = [name |-> node.name, kind |-> node.kind, names |-> {}, bits |-> bits,
               conditions |-> conditions, operation |-> operation]
  BY DEF Child
<1>6. node.name \in NodeNames /\ node.kind \in {n.kind : n \in Nodes}
  BY DEF NodeNames
<1>7. node.kind = "InstructionAlias" => bits = parent.bits
  OBVIOUS
<1> HIDE DEF bits, conditions, operation, child
<1>8. child \in Frames
  BY <1>2, <1>3, <1>4, <1>5, <1>6 DEF Frames, BitMaps
<1>9. HandedDown(parent, child)
  BY <1>2, <1>3, <1>5 DEF HandedDown
<1>10. QED
  BY <1>5, <1>7, <1>8, <1>9 DEF ChildOK, child

LEMMA TopFacts ==
  ASSUME WalkTypeOK
  PROVE  /\ stack \in Seq(Frames) /\ Len(stack) \in Nat /\ Len(stack) >= 1
         /\ DOMAIN stack = 1 .. Len(stack)
         /\ Last(stack) = stack[Len(stack)] /\ Last(stack) \in Frames
         /\ \A k \in 1 .. Len(stack) : stack[k] \in Frames
<1>1. stack \in Seq(Frames) /\ stack # <<>>
  BY DEF WalkTypeOK
<1>2. Len(stack) \in Nat /\ Len(stack) >= 1 /\ DOMAIN stack = 1 .. Len(stack)
  BY <1>1
<1>3. QED
  BY <1>1, <1>2 DEF Last

LEMMA FragmentsOfStack ==
  ASSUME WalkTypeOK, SlotsInv
  PROVE  FragmentsAreThePieces
<1> DEFINE bits == Last(stack).bits
           fs == Fragments(bits)
           Span(f) == f.lsb .. f.lsb + f.width - 1
<1>1. bits \in BitMaps /\ SlotsOK(bits, entered) /\ EncodingBits \in Nat
  <2>1. Len(stack) \in 1 .. Len(stack) /\ Last(stack) = stack[Len(stack)] /\ Last(stack) \in Frames
    BY TopFacts
  <2>2. QED
    BY <2>1, NodeAssumption DEF SlotsInv, Frames, BitMaps
<1>2. Pieces(bits, fs, EncodingBits)
  BY <1>1, FragmentsArePieces
<1>3. Summary(bits).fragments = fs
  BY DEF Summary
<1> HIDE DEF bits, fs
<1>4. /\ fs \in Seq(FragmentSet) /\ DOMAIN fs = 1 .. Len(fs)
      /\ Range(fs) = {fs[k] : k \in 1 .. Len(fs)}
  BY <1>2 DEF Pieces, Range
<1>5. ASSUME NEW k \in 1 .. Len(fs)
      PROVE  /\ fs[k].lsb \in Nat /\ fs[k].width \in Nat
             /\ fs[k].lsb + fs[k].width <= EncodingBits
             /\ \A p : p \in Span(fs[k]) <=>
                  p \in Places /\ fs[k].lsb <= p /\ p < fs[k].lsb + fs[k].width
  <2>1. fs[k] \in FragmentSet
    BY <1>4
  <2>2. fs[k].lsb \in Nat /\ fs[k].width \in Nat
    BY <2>1 DEF FragmentSet
  <2>3. fs[k].lsb + fs[k].width <= EncodingBits
    BY <1>2 DEF Pieces
  <2>4. QED
    BY <1>1, <2>2, <2>3 DEF Places
<1> HIDE DEF Span
<1>6. UNION {Span(f) : f \in Range(fs)} = {p \in Places : bits[p] # Absent}
  <2>1. ASSUME NEW p \in Places, bits[p] # Absent
        PROVE  \E f \in Range(fs) : p \in Span(f)
    <3>1. p < EncodingBits
      BY <1>1 DEF Places
    <3>2. PICK k \in 1 .. Len(fs) : fs[k].lsb <= p /\ p < fs[k].lsb + fs[k].width
      BY <1>2, <2>1, <3>1 DEF Pieces
    <3>3. p \in Span(fs[k]) /\ fs[k] \in Range(fs)
      BY <1>4, <1>5, <3>2
    <3>4. QED
      BY <3>3
  <2>2. ASSUME NEW f \in Range(fs), NEW p \in Span(f)
        PROVE  p \in Places /\ bits[p] # Absent
    <3>1. PICK k \in 1 .. Len(fs) : f = fs[k]
      BY <1>4
    <3>2. p \in Places /\ fs[k].lsb <= p /\ p < fs[k].lsb + fs[k].width
      BY <1>5, <2>2, <3>1
    <3>3. QED
      BY <1>2, <3>2 DEF Pieces
  <2>3. QED
    BY <2>1, <2>2
<1>7. ASSUME NEW f \in Range(fs), NEW p \in Span(f)
      PROVE  bits[p].source = f.source /\ bits[p].fieldBit = f.fieldLsb + (p - f.lsb)
  <2>1. PICK k \in 1 .. Len(fs) : f = fs[k]
    BY <1>4
  <2>2. p \in Places /\ fs[k].lsb <= p /\ p < fs[k].lsb + fs[k].width
    BY <1>5, <1>7, <2>1
  <2>3. QED
    BY <1>2, <2>1, <2>2 DEF Pieces
<1>8. \A m, n \in DOMAIN fs : m < n =>
         /\ fs[m].lsb + fs[m].width <= fs[n].lsb
         /\ fs[m].source = fs[n].source => n > m + 1
  BY <1>2, <1>4 DEF Pieces
<1>9. QED
  BY <1>3, <1>6, <1>7, <1>8 DEF FragmentsAreThePieces, bits, Span

LEMMA SlotsKept ==
  ASSUME WalkTypeOK, SlotsInv
  PROVE  \A k \in 1 .. Len(stack) : SlotsOK(stack[k].bits, entered + 1)
<1>1. ASSUME NEW k \in 1 .. Len(stack)
      PROVE  SlotsOK(stack[k].bits, entered + 1)
  <2>1. stack[k].bits \in BitMaps /\ entered \in Nat
    BY TopFacts DEF Frames, BitMaps, WalkTypeOK
  <2>2. SlotsOK(stack[k].bits, entered)
    BY DEF SlotsInv
  <2>3. QED
    BY <2>1, <2>2, SlotsLater
<1>2. QED
  BY <1>1

LEMMA ChildSlots ==
  ASSUME WalkTypeOK, NEW parent \in Frames, NEW node \in Nodes,
         NodeIsLegal(parent, node), SlotsOK(parent.bits, entered)
  PROVE  SlotsOK(Child(parent, node).bits, entered + 1)
<1>1. parent.bits \in BitMaps /\ entered \in Nat
  BY DEF Frames, BitMaps, WalkTypeOK
<1>2. CASE node.kind = "InstructionAlias"
  <2>1. Child(parent, node).bits = parent.bits
    BY <1>2 DEF Child
  <2>2. QED
    BY <1>1, <2>1, SlotsLater
<1>3. CASE node.kind # "InstructionAlias"
  <2>1. Child(parent, node).bits = Merged(node.encoding, parent.bits, entered)
    BY <1>3 DEF Child
  <2>2. MergeIsLegal(node.encoding, parent.bits)
    BY <1>3 DEF NodeIsLegal
  <2>3. QED
    BY <1>1, <2>1, <2>2, MergedSlots
<1>4. QED
  BY <1>2, <1>3

LEMMA FramesGrow ==
  ASSUME WalkTypeOK, NEW node \in Nodes, NEW child \in Frames
  PROVE  StackWith(Append([stack EXCEPT ![Len(stack)].names = @ \cup {node.name}], child),
                   node, child)
<1> DEFINE L == Len(stack)
           top == [stack[L] EXCEPT !.names = stack[L].names \cup {node.name}]
           q == [stack EXCEPT ![L] = top]
           frames == Append(q, child)
<1>1. /\ stack \in Seq(Frames) /\ L \in Nat /\ L >= 1 /\ L \in 1 .. L
      /\ stack[L] \in Frames
  BY TopFacts
<1>2. [stack EXCEPT ![L].names = @ \cup {node.name}] = q
  OBVIOUS
<1>3. top \in Frames
  BY <1>1 DEF Frames, NodeNames
<1> HIDE DEF top
<1>4. /\ q \in Seq(Frames) /\ Len(q) = L /\ q[L] = top
      /\ \A k \in 1 .. L : k # L => q[k] = stack[k]
  BY <1>1, <1>3, ReplaceFacts
<1> HIDE DEF q
<1>5. /\ frames \in Seq(Frames) /\ Len(frames) = L + 1
      /\ \A k \in 1 .. L : frames[k] = q[k]
      /\ frames[L + 1] = child
  BY <1>1, <1>4, AppendFacts
<1>6. Last(frames) = child
  BY <1>5 DEF Last
<1>7. Front(frames) = q
  <2>1. Front(frames) = SubSeq(frames, 1, L)
    BY <1>5 DEF Front
  <2>2. SubSeq(frames, 1, L) \in Seq(Frames) /\ Len(SubSeq(frames, 1, L)) = L
        /\ \A k \in 1 .. L : SubSeq(frames, 1, L)[k] = frames[k]
    BY <1>1, <1>5
  <2> HIDE DEF frames
  <2>3. QED
    BY <1>4, <1>5, <2>1, <2>2
<1>8. \A k \in 1 .. L - 1 : frames[k] = stack[k]
  BY <1>1, <1>4, <1>5
<1>9. frames[L] = top
  BY <1>1, <1>4, <1>5
<1> HIDE DEF frames
<1>10. StackWith(frames, node, child)
  BY <1>1, <1>4, <1>5, <1>6, <1>7, <1>8, <1>9 DEF StackWith, top
<1>11. QED
  BY <1>2, <1>10 DEF frames

LEMMA StackGrows ==
  ASSUME WalkInv, NEW node, NEW child, StackWith(stack', node, child),
         ChildOK(stack[Len(stack)], node, child),
         records \subseteq records',
         IsRecord(node.kind) =>
           \E r \in records' : /\ Len(r.id) = Len(stack) + 1
                               /\ \A i \in 1 .. Len(stack) + 1 : r.id[i] = stack'[i].name
  PROVE  NodesOK'
<1> DEFINE L == Len(stack)
<1>0. PICK n : n = L
  OBVIOUS
<1>1. /\ n \in Nat /\ n >= 1 /\ Len(stack') = n + 1
      /\ \A k \in 1 .. n - 1 : stack'[k] = stack[k]
      /\ stack'[n] = [stack[n] EXCEPT !.names = stack[n].names \cup {node.name}]
      /\ stack'[n + 1] = child
  BY <1>0 DEF StackWith
<1>2. /\ stack[n] \in Frames /\ NodesOK /\ ChildOK(stack[n], node, child)
      /\ Len(stack) = n
  BY <1>0, <1>1, TopFacts DEF WalkInv
<1>3. /\ stack'[n].bits = stack[n].bits /\ stack'[n].conditions = stack[n].conditions
      /\ stack'[n].name = stack[n].name /\ stack'[n].kind = stack[n].kind
      /\ stack'[n].names = stack[n].names \cup {node.name}
  BY <1>1, <1>2 DEF Frames
<1>4. \A k \in 1 .. n : /\ stack'[k].bits = stack[k].bits
                        /\ stack'[k].conditions = stack[k].conditions
                        /\ stack'[k].name = stack[k].name
                        /\ stack'[k].kind = stack[k].kind
  <2>1. ASSUME NEW k \in 1 .. n, k # n
        PROVE  stack'[k] = stack[k]
    BY <1>1, <2>1
  <2>2. QED
    BY <1>3, <2>1
<1>5. ASSUME NEW a \in 1 .. n + 1, NEW b \in 1 .. n + 1, a <= b
      PROVE  HandedDown(stack'[a], stack'[b])
  <2>1. CASE b <= n
    <3>1. a \in 1 .. n /\ b \in 1 .. n
      BY <1>1, <1>5, <2>1
    <3>2. HandedDown(stack[a], stack[b])
      BY <1>2, <1>5, <3>1 DEF NodesOK
    <3>3. QED
      BY <1>4, <3>1, <3>2 DEF HandedDown
  <2>2. CASE b = n + 1 /\ a <= n
    <3>1. a \in 1 .. n /\ n \in 1 .. n
      BY <1>1, <1>5, <2>2
    <3>2. HandedDown(stack[a], stack[n]) /\ HandedDown(stack[n], child)
      BY <1>2, <3>1 DEF NodesOK, ChildOK
    <3>3. HandedDown(stack[a], child)
      BY <3>2, InheritsTransitive DEF HandedDown
    <3>4. QED
      BY <1>1, <1>4, <2>2, <3>1, <3>3 DEF HandedDown
  <2>3. CASE a = n + 1 /\ b = n + 1
    BY <2>3, InheritsReflexive DEF HandedDown
  <2>4. QED
    BY <1>1, <1>5, <2>1, <2>2, <2>3
<1>6. ASSUME NEW k \in 1 .. n
      PROVE  stack'[k + 1].name \in stack'[k].names
  <2>1. CASE k = n
    BY <1>1, <1>2, <1>3, <2>1 DEF ChildOK
  <2>2. CASE k < n
    <3>1. k \in 1 .. n - 1 /\ k + 1 \in 1 .. n
      BY <1>1, <2>2
    <3>2. stack[k + 1].name \in stack[k].names
      BY <1>2, <3>1 DEF NodesOK
    <3>3. QED
      BY <1>1, <1>4, <3>1, <3>2
  <2>3. QED
    BY <1>1, <2>1, <2>2
<1>7. ASSUME NEW k \in 1 .. n + 1, IsRecord(stack'[k].kind)
      PROVE  \E r \in records' : Len(r.id) = k /\ Through(r.id, k)'
  <2>1. CASE k = n + 1
    <3>1. IsRecord(node.kind)
      BY <1>1, <1>2, <1>7, <2>1 DEF ChildOK
    <3>2. PICK r \in records' : /\ Len(r.id) = n + 1
                                /\ \A i \in 1 .. n + 1 : r.id[i] = stack'[i].name
      BY <1>0, <3>1
    <3>3. QED
      BY <1>1, <2>1, <3>2 DEF Through
  <2>2. CASE k \in 1 .. n
    <3>1. IsRecord(stack[k].kind)
      BY <1>4, <1>7, <2>2
    <3>2. PICK r \in records : Len(r.id) = k /\ Through(r.id, k)
      BY <1>2, <2>2, <3>1 DEF NodesOK
    <3>3. Through(r.id, k)'
      BY <1>1, <1>4, <2>2, <3>2 DEF Through
    <3>4. QED
      BY <3>2, <3>3
  <2>3. QED
    BY <1>1, <2>1, <2>2
<1>8. Len(stack') - 1 = n
  BY <1>1
<1>9. QED
  BY <1>1, <1>5, <1>6, <1>7, <1>8 DEF NodesOK

\* No record lies at or below the child: its name is new to the parent.
LEMMA NothingBelow ==
  ASSUME WalkInv, NEW node, NEW child, StackWith(stack', node, child),
         ChildOK(stack[Len(stack)], node, child),
         node.name \notin stack[Len(stack)].names,
         NEW r \in records
  PROVE  ~(/\ Len(r.id) >= Len(stack) + 1
           /\ \A i \in 1 .. Len(stack) + 1 : r.id[i] = stack'[i].name)
<1>0. PICK n : n = Len(stack)
  OBVIOUS
<1>1. /\ n \in Nat /\ n >= 1
      /\ \A k \in 1 .. n - 1 : stack'[k] = stack[k]
      /\ stack'[n].name = stack[n].name
      /\ stack'[n + 1].name = node.name
  <2>1. stack[n] \in Frames
    BY <1>0, TopFacts DEF WalkInv
  <2>2. QED
    BY <1>0, <2>1 DEF StackWith, ChildOK, Frames
<1>2. SUFFICES ASSUME Len(r.id) >= n + 1, \A i \in 1 .. n + 1 : r.id[i] = stack'[i].name
               PROVE  FALSE
  BY <1>0
<1>3. Len(r.id) \in Nat
  BY DEF WalkInv, WalkTypeOK
<1>4. Through(r.id, n)
  BY <1>1, <1>2, <1>3 DEF Through
<1>5. n \in 1 .. Len(stack) /\ Len(r.id) # n
  BY <1>0, <1>1, <1>2, <1>3
<1>6. r.id[n + 1] \in stack[n].names
  BY <1>4, <1>5 DEF WalkInv, PathsOK
<1>7. r.id[n + 1] = node.name
  BY <1>1, <1>2
<1>8. QED
  BY <1>0, <1>6, <1>7

LEMMA PathsGrow ==
  ASSUME WalkInv, NEW node, NEW child, StackWith(stack', node, child),
         ChildOK(stack[Len(stack)], node, child),
         node.name \notin stack[Len(stack)].names,
         \A r \in records' : \/ r \in records
                             \/ /\ Len(r.id) = Len(stack) + 1
                                /\ \A i \in 1 .. Len(stack) + 1 : r.id[i] = stack'[i].name
                                /\ Describes(r, child)
  PROVE  PathsOK'
<1>0. PICK n : n = Len(stack)
  OBVIOUS
<1>1. /\ n \in Nat /\ n >= 1 /\ Len(stack') = n + 1
      /\ \A k \in 1 .. n - 1 : stack'[k] = stack[k]
      /\ stack'[n] = [stack[n] EXCEPT !.names = stack[n].names \cup {node.name}]
      /\ stack'[n + 1] = child
  BY <1>0 DEF StackWith
<1>2. /\ stack[n] \in Frames /\ child.name = node.name
      /\ Len(stack) = n
  BY <1>0, <1>1, TopFacts DEF WalkInv, ChildOK
<1>3. \A k \in 1 .. n : /\ stack'[k].bits = stack[k].bits
                        /\ stack'[k].conditions = stack[k].conditions
                        /\ stack'[k].operation = stack[k].operation
                        /\ stack'[k].name = stack[k].name
                        /\ stack'[k].kind = stack[k].kind
                        /\ stack[k].names \subseteq stack'[k].names
  <2>1. ASSUME NEW k \in 1 .. n, k # n
        PROVE  stack'[k] = stack[k]
    BY <1>1, <2>1
  <2>2. /\ stack'[n].bits = stack[n].bits
        /\ stack'[n].conditions = stack[n].conditions
        /\ stack'[n].operation = stack[n].operation
        /\ stack'[n].name = stack[n].name
        /\ stack'[n].kind = stack[n].kind
        /\ stack'[n].names = stack[n].names \cup {node.name}
    BY <1>1, <1>2 DEF Frames
  <2>3. QED
    BY <2>1, <2>2
<1>4. SUFFICES ASSUME NEW r \in records', NEW k \in 1 .. n + 1, Through(r.id, k)'
               PROVE  IF Len(r.id) = k THEN Describes(r, stack'[k])
                      ELSE r.id[k + 1] \in stack'[k].names
  BY <1>1 DEF PathsOK, Describes
<1>5. \A i \in 1 .. k : r.id[i] = stack'[i].name
  BY <1>4 DEF Through
<1>6. CASE r \in records /\ k \in 1 .. n
  <2>1. Through(r.id, k)
    BY <1>1, <1>3, <1>4, <1>6 DEF Through
  <2>2. IF Len(r.id) = k THEN Describes(r, stack[k]) ELSE r.id[k + 1] \in stack[k].names
    BY <1>2, <1>6, <2>1 DEF WalkInv, PathsOK
  <2>3. QED
    BY <1>3, <1>6, <2>2 DEF Describes
<1>7. CASE r \in records /\ k = n + 1
  <2>1. Len(r.id) >= n + 1 /\ \A i \in 1 .. n + 1 : r.id[i] = stack'[i].name
    BY <1>4, <1>5, <1>7 DEF Through
  <2>2. QED
    BY <1>0, <1>7, <2>1, NothingBelow
<1>8. CASE r \notin records
  <2>1. /\ Len(r.id) = n + 1 /\ Describes(r, child)
        /\ \A i \in 1 .. n + 1 : r.id[i] = stack'[i].name
    BY <1>0, <1>8
  <2>2. CASE k = n + 1
    BY <1>1, <2>1, <2>2
  <2>3. CASE k = n
    <3>1. Len(r.id) # k /\ r.id[k + 1] = node.name
      BY <1>1, <1>2, <2>1, <2>3
    <3>2. QED
      BY <1>1, <1>2, <2>3, <3>1 DEF Frames
  <2>4. CASE k < n
    <3>1. k \in 1 .. n - 1 /\ k + 1 \in 1 .. n + 1 /\ k + 1 \in 1 .. n /\ Len(r.id) # k
      BY <1>1, <2>1, <2>4
    <3>2. stack[k + 1].name \in stack[k].names
      BY <1>2, <3>1 DEF WalkInv, NodesOK
    <3>3. r.id[k + 1] = stack[k + 1].name /\ stack[k].names \subseteq stack'[k].names
      <4>1. PICK j : j = k + 1
        OBVIOUS
      <4>2. r.id[j] = stack'[j].name /\ stack'[j].name = stack[j].name
        BY <1>3, <2>1, <3>1, <4>1
      <4>3. k \in 1 .. n
        BY <1>1, <3>1
      <4>4. QED
        BY <1>3, <4>1, <4>2, <4>3
    <3>4. r.id[k + 1] \in stack'[k].names
      BY <3>2, <3>3
    <3>5. QED
      BY <3>1, <3>4
  <2>5. QED
    BY <1>1, <2>2, <2>3, <2>4
<1>9. QED
  BY <1>1, <1>6, <1>7, <1>8

\* The id of a record is as long as the stack was and names its nodes.
LEMMA PathFacts ==
  ASSUME NEW q \in Seq(Frames)
  PROVE  /\ Path(q) \in Seq(NodeNames) /\ Len(Path(q)) = Len(q)
         /\ \A i \in 1 .. Len(q) : Path(q)[i] = q[i].name
<1>1. Len(q) \in Nat /\ DOMAIN q = 1 .. Len(q) /\ \A i \in 1 .. Len(q) : q[i] \in Frames
  OBVIOUS
<1>2. \A i \in 1 .. Len(q) : q[i].name \in NodeNames
  BY <1>1 DEF Frames
<1>3. Path(q) = [i \in 1 .. Len(q) |-> q[i].name]
  BY <1>1 DEF Path
<1>4. Path(q) \in [1 .. Len(q) -> NodeNames]
  BY <1>2, <1>3
<1>5. QED
  BY <1>1, <1>3, <1>4

\* What the record of a node says.
RecordWritten(t, frames, child) ==
  /\ t.id \in Seq(NodeNames) /\ Len(t.id) = Len(frames)
  /\ \A i \in 1 .. Len(frames) : t.id[i] = frames[i].name
  /\ Len(t.id) >= 2 /\ t.reason = ReasonOf(t)
  /\ Describes(t, child)
  /\ t.conditions \in Seq(Expressions) /\ t.encoding.covered \subseteq Places
  /\ t.kind = "InstructionAlias" => t.target = Path(Front(frames))

LEMMA RecordFacts ==
  ASSUME NEW frames \in Seq(Frames), Len(frames) >= 2,
         NEW child \in Frames, Last(frames) = child
  PROVE  RecordWritten(Record(frames), frames, child)
<1> DEFINE t == Record(frames)
<1>1. /\ t.id = Path(frames) /\ t.kind = child.kind /\ t.conditions = child.conditions
      /\ t.terminal = Terminal(child.operation) /\ t.encoding = Summary(child.bits)
      /\ t.reason = Classify(frames)
      /\ t.kind = "InstructionAlias" => t.target = Path(Front(frames))
  BY DEF Record
<1> HIDE DEF t
<1>2. /\ t.id \in Seq(NodeNames) /\ Len(t.id) = Len(frames)
      /\ \A i \in 1 .. Len(frames) : t.id[i] = frames[i].name
  BY <1>1, PathFacts
<1>3. t.id[2] = frames[2].name
  <2>1. 2 \in 1 .. Len(frames)
    OBVIOUS
  <2>2. QED
    BY <1>2, <2>1
<1>4. t.reason = ReasonOf(t)
  BY <1>1, <1>3 DEF Classify, ReasonOf
<1>5. child.conditions \in Seq(Expressions)
  BY DEF Frames
<1>6. t.encoding.covered \subseteq Places
  BY <1>1, SummaryType
<1>7. QED
  BY <1>1, <1>2, <1>4, <1>5, <1>6 DEF RecordWritten, Describes, t

LEMMA Extensionality ==
  \A S, V : \A f, g \in [S -> V] : (\A i \in S : f[i] = g[i]) => f = g
OBVIOUS

\* The record of a node above it was there before, and the record of a node
\* below an instruction has what the instruction has.
LEMMA RecordsGrow ==
  ASSUME WalkInv, NEW node \in Nodes, NEW child, child = Child(stack[Len(stack)], node),
         NodeIsLegal(stack[Len(stack)], node),
         ChildOK(stack[Len(stack)], node, child),
         StackWith(stack', node, child), NEW t, RecordWritten(t, stack', child),
         records' = records \cup {t}
  PROVE  RecordsOK'
<1>0. PICK n : n = Len(stack)
  OBVIOUS
<1>1. /\ n \in Nat /\ n >= 1 /\ Len(stack') = n + 1
      /\ \A k \in 1 .. n - 1 : stack'[k] = stack[k]
      /\ stack'[n] = [stack[n] EXCEPT !.names = stack[n].names \cup {node.name}]
      /\ stack'[n + 1] = child
      /\ Front(stack') \in Seq(Frames) /\ Len(Front(stack')) = n
      /\ \A k \in 1 .. n : Front(stack')[k] = stack'[k]
  BY <1>0 DEF StackWith
<1>2. /\ stack[n] \in Frames /\ child.name = node.name /\ child.kind = node.kind
      /\ Len(stack) = n
      /\ WalkTypeOK /\ NodesOK /\ PathsOK /\ RecordsOK
  BY <1>0, <1>1, TopFacts DEF WalkInv, ChildOK
<1>3. \A k \in 1 .. n : stack'[k].name = stack[k].name
  <2>1. ASSUME NEW k \in 1 .. n, k # n
        PROVE  stack'[k] = stack[k]
    BY <1>1, <2>1
  <2>2. stack'[n].name = stack[n].name
    BY <1>1, <1>2 DEF Frames
  <2>3. QED
    BY <2>1, <2>2
<1>4. /\ t.id \in Seq(NodeNames) /\ Len(t.id) = n + 1
      /\ \A i \in 1 .. n + 1 : t.id[i] = stack'[i].name
      /\ t.reason = ReasonOf(t) /\ Describes(t, child) /\ Len(t.id) >= 2
      /\ t.kind = "InstructionAlias" => t.target = Path(Front(stack'))
  BY <1>1 DEF RecordWritten
<1>5. \A r \in records : r.id \in Seq(NodeNames)
  BY <1>2 DEF WalkTypeOK
<1>6. ASSUME NEW r \in records, Below(r, t)
      PROVE  Refines(r.encoding, t.encoding) /\ Range(r.conditions) \subseteq Range(t.conditions)
  <2>1. PICK k : k = Len(r.id)
    OBVIOUS
  <2>2. k \in Nat /\ k <= n /\ r.id \in Seq(NodeNames) /\ SubSeq(t.id, 1, k) = r.id
    BY <1>1, <1>4, <1>5, <1>6, <2>1 DEF Below
  <2>3. k >= 2
    BY <1>2, <2>1 DEF RecordsOK
  <2>4. \A i \in 1 .. k : r.id[i] = t.id[i]
    BY <1>1, <1>4, <2>2
  <2>5. Through(r.id, k)
    BY <1>1, <1>3, <1>4, <2>1, <2>2, <2>4 DEF Through
  <2>6. k \in 1 .. n
    BY <1>1, <2>2, <2>3
  <2>7. Describes(r, stack[k])
    BY <1>2, <2>1, <2>5, <2>6 DEF PathsOK
  <2>8. HandedDown(stack[k], stack[n]) /\ HandedDown(stack[n], child)
    <3>1. n \in 1 .. n
      BY <1>1
    <3>2. QED
      BY <1>0, <1>2, <2>6, <3>1 DEF NodesOK, ChildOK
  <2>9. /\ Inherits(stack[k].bits, child.bits)
        /\ Range(stack[k].conditions) \subseteq Range(child.conditions)
    BY <2>8, InheritsTransitive DEF HandedDown
  <2>10. Refines(Summary(stack[k].bits), Summary(child.bits))
    BY <2>9, SummaryRefines
  <2>11. QED
    BY <1>4, <2>7, <2>9, <2>10 DEF Describes
<1>7. ASSUME NEW s \in records
      PROVE  ~Below(t, s)
  <2>1. SUFFICES ASSUME Below(t, s) PROVE FALSE
    OBVIOUS
  <2>2. /\ s.id \in Seq(NodeNames) /\ Len(s.id) \in Nat /\ Len(s.id) > n + 1
        /\ SubSeq(s.id, 1, n + 1) = t.id
    BY <1>4, <1>5, <2>1 DEF Below
  <2>3. \A i \in 1 .. n + 1 : s.id[i] = t.id[i]
    BY <1>1, <2>2
  <2>4. Len(s.id) >= n + 1 /\ \A i \in 1 .. n + 1 : s.id[i] = stack'[i].name
    BY <1>1, <1>4, <2>2, <2>3
  <2>5. node.name \notin stack[Len(stack)].names
    BY DEF NodeIsLegal
  <2>6. QED
    BY <1>0, <2>4, <2>5, NothingBelow
<1>8. ~Below(t, t)
  BY <1>1, <1>4 DEF Below
<1>9. ASSUME t.kind = "InstructionAlias"
      PROVE  \E r \in records : /\ r.id = t.target /\ r.kind = "Instruction"
                                /\ r.encoding = t.encoding /\ r.terminal = t.terminal
  <2>1. node.kind = "InstructionAlias" /\ stack[n].kind = "Instruction"
    BY <1>0, <1>2, <1>4, <1>9 DEF Describes, NodeIsLegal, AllowedChildren
  <2>2. n \in 1 .. n
    BY <1>1
  <2>3. PICK r \in records : Len(r.id) = n /\ Through(r.id, n)
    BY <1>2, <2>1, <2>2 DEF NodesOK, IsRecord
  <2>4. Describes(r, stack[n])
    BY <1>2, <2>2, <2>3 DEF PathsOK
  <2>5. r.id = t.target
    <3>1. /\ t.target = Path(Front(stack')) /\ t.target \in Seq(NodeNames)
          /\ Len(t.target) = n /\ \A i \in 1 .. n : t.target[i] = Front(stack')[i].name
      BY <1>1, <1>4, <1>9, PathFacts
    <3>2. \A i \in 1 .. n : t.target[i] = r.id[i]
      BY <1>1, <1>3, <2>3, <3>1 DEF Through
    <3>3. r.id \in Seq(NodeNames)
      BY <1>5
    <3>4. t.target \in [1 .. n -> NodeNames] /\ r.id \in [1 .. n -> NodeNames]
      BY <1>1, <2>3, <3>1, <3>3
    <3>5. PICK S : S = 1 .. n
      OBVIOUS
    <3>6. /\ t.target \in [S -> NodeNames] /\ r.id \in [S -> NodeNames]
          /\ \A i \in S : t.target[i] = r.id[i]
      BY <3>2, <3>4, <3>5
    <3>7. QED
      BY <3>6, Extensionality
  <2>6. r.encoding = t.encoding
    BY <1>0, <1>4, <2>1, <2>4 DEF ChildOK, Describes
  <2>7. r.terminal = t.terminal
    <3>1. child.operation = IF node.operation # Absent THEN node.operation ELSE stack[n].operation
      BY <1>0 DEF Child
    <3>2. Terminal(child.operation) = Terminal(stack[n].operation)
      BY <1>0, <2>1, <3>1 DEF NodeIsLegal, OperationIsLegal
    <3>3. QED
      BY <1>4, <2>4, <3>2 DEF Describes
  <2>8. QED
    BY <2>1, <2>3, <2>4, <2>5, <2>6, <2>7 DEF Describes
<1>10. \A r \in records' : Len(r.id) >= 2 /\ r.reason = ReasonOf(r)
  BY <1>2, <1>4 DEF RecordsOK
<1>11. \A r, s \in records' : Below(r, s) =>
         Refines(r.encoding, s.encoding) /\ Range(r.conditions) \subseteq Range(s.conditions)
  <2>1. \A r, s \in records : Below(r, s) =>
         Refines(r.encoding, s.encoding) /\ Range(r.conditions) \subseteq Range(s.conditions)
    BY <1>2 DEF RecordsOK
  <2>2. ASSUME NEW r \in records', NEW s \in records', Below(r, s)
        PROVE  Refines(r.encoding, s.encoding) /\ Range(r.conditions) \subseteq Range(s.conditions)
    <3>1. CASE r \in records /\ s \in records
      BY <2>1, <2>2, <3>1
    <3>2. CASE r \in records /\ s = t
      BY <1>6, <2>2, <3>2
    <3>3. CASE r = t /\ (s \in records \/ s = t)
      BY <1>7, <1>8, <2>2, <3>3
    <3>4. QED
      BY <3>1, <3>2, <3>3
  <2>3. QED
    BY <2>2
<1>12. AliasesNameTheirTwin'
  <2>1. \A r \in records : r.kind = "InstructionAlias" =>
          \E u \in records : /\ u.id = r.target /\ u.kind = "Instruction"
                             /\ u.encoding = r.encoding /\ u.terminal = r.terminal
    BY <1>2 DEF RecordsOK, AliasesNameTheirTwin
  <2>2. QED
    BY <1>9, <2>1 DEF AliasesNameTheirTwin
<1>13. QED
  BY <1>10, <1>11, <1>12 DEF RecordsOK, ReasonOf, Refines, Below

LEMMA EnterPreserves ==
  ASSUME WalkInv, NEW node \in Nodes, Enter(node)
  PROVE  WalkInv'
<1> DEFINE L == Len(stack)
           parent == stack[L]
           child == Child(parent, node)
           frames == Append([stack EXCEPT ![L].names = @ \cup {node.name}], child)
<1>1. /\ WalkTypeOK /\ L \in Nat /\ L >= 1 /\ parent \in Frames /\ Last(stack) = parent
      /\ entered \in Nat
  BY TopFacts DEF WalkInv, WalkTypeOK
<1>2. CASE ~NodeIsLegal(parent, node)
  <2>1. walk' = "refused" /\ UNCHANGED <<stack, records>> /\ entered' = entered + 1
    BY <1>1, <1>2 DEF Enter
  <2>2. WalkTypeOK'
    BY <1>1, <2>1 DEF WalkTypeOK
  <2>3. NodesOK' /\ PathsOK'
    BY <2>1 DEF WalkInv, NodesOK, PathsOK, Through
  <2>4. RecordsOK'
    BY <2>1 DEF WalkInv, RecordsOK, AliasesNameTheirTwin
  <2>5. SlotsInv'
    BY <1>1, <2>1, SlotsKept DEF WalkInv, SlotsInv
  <2>6. QED
    BY <2>2, <2>3, <2>4, <2>5 DEF WalkInv
<1>3. CASE NodeIsLegal(parent, node)
  <2>1. /\ stack' = frames /\ entered' = entered + 1 /\ walk' = walk
        /\ records' = IF IsRecord(node.kind) THEN records \cup {Record(frames)} ELSE records
    BY <1>1, <1>3 DEF Enter
  <2>2. ChildOK(parent, node, child)
    BY <1>1, <1>3, ChildFacts
  <2>3. child \in Frames /\ child.kind = node.kind
    BY <2>2 DEF ChildOK
  <2>4. StackWith(frames, node, child)
    <3> HIDE DEF child
    <3>1. QED
      BY <1>1, <2>3, FramesGrow
  <2>5. /\ frames \in Seq(Frames) /\ Len(frames) = L + 1 /\ frames[L + 1] = child
        /\ Last(frames) = child
    BY <2>4 DEF StackWith
  <2>6. PICK t : t = Record(frames)
    OBVIOUS
  <2>7. PICK c : c = child
    OBVIOUS
  <2> HIDE DEF frames, child
  <2>8. StackWith(stack', node, c) /\ ChildOK(parent, node, c) /\ c \in Frames
    BY <2>1, <2>2, <2>3, <2>4, <2>7
  <2>9. RecordWritten(t, stack', c)
    BY <1>1, <2>1, <2>3, <2>5, <2>6, <2>7, RecordFacts
  <2>10. /\ Len(t.id) = L + 1 /\ \A i \in 1 .. L + 1 : t.id[i] = stack'[i].name
         /\ Describes(t, c)
    BY <2>1, <2>5, <2>9 DEF RecordWritten
  <2>11. node.name \notin parent.names
    BY <1>3 DEF NodeIsLegal
  <2>12. records \subseteq records' /\ (IsRecord(node.kind) => t \in records')
         /\ \A r \in records' : r \in records \/ r = t
    BY <2>1, <2>6
  <2>13. NodesOK'
    BY <2>8, <2>10, <2>12, StackGrows
  <2>14. PathsOK'
    BY <2>8, <2>10, <2>11, <2>12, PathsGrow
  <2>15. RecordsOK'
    <3>1. CASE IsRecord(node.kind)
      BY <1>3, <2>1, <2>6, <2>7, <2>8, <2>9, <3>1, RecordsGrow DEF child
    <3>2. CASE ~IsRecord(node.kind)
      BY <2>1, <3>2 DEF WalkInv, RecordsOK, AliasesNameTheirTwin
    <3>3. QED
      BY <3>1, <3>2
  <2>16. WalkTypeOK'
    <3>1. stack' \in Seq(Frames) /\ stack' # <<>>
      BY <1>1, <2>1, <2>5
    <3>2. stack'[1].kind = "InstructionSet"
      <4>1. stack[1].kind = "InstructionSet"
        BY <1>1 DEF WalkTypeOK
      <4>2. CASE L = 1
        <5>1. stack'[1] = [stack[1] EXCEPT !.names = stack[1].names \cup {node.name}]
          BY <2>8, <4>2 DEF StackWith
        <5>2. QED
          BY <1>1, <4>1, <4>2, <5>1 DEF Frames
      <4>3. CASE L # 1
        <5>1. 1 \in 1 .. L - 1
          BY <1>1, <4>3
        <5>2. stack'[1] = stack[1]
          BY <2>8, <5>1 DEF StackWith
        <5>3. QED
          BY <4>1, <5>2
      <4>4. QED
        BY <4>2, <4>3
    <3>3. ASSUME NEW r \in records'
          PROVE  /\ IsRecord(r.kind) /\ r.id \in Seq(NodeNames)
                 /\ r.conditions \in Seq(Expressions) /\ r.encoding.covered \subseteq Places
      <4>1. CASE r \in records
        BY <1>1, <4>1 DEF WalkTypeOK
      <4>2. CASE r \notin records
        <5>1. r = t /\ IsRecord(node.kind)
          BY <2>1, <2>6, <4>2
        <5>2. r.kind = node.kind
          BY <2>3, <2>7, <2>10, <5>1 DEF Describes
        <5>3. QED
          BY <2>9, <5>1, <5>2 DEF RecordWritten
      <4>3. QED
        BY <4>1, <4>2
    <3>4. entered' \in Nat /\ walk' \in {"walking", "refused", "done"}
      BY <1>1, <2>1 DEF WalkTypeOK
    <3>5. QED
      BY <3>1, <3>2, <3>3, <3>4 DEF WalkTypeOK
  <2>17. SlotsInv'
    <3>1. SlotsOK(c.bits, entered + 1)
      <4>1. SlotsOK(parent.bits, entered)
        BY <1>1 DEF WalkInv, SlotsInv
      <4>2. QED
        BY <1>1, <1>3, <2>7, <4>1, ChildSlots DEF child
    <3>2. ASSUME NEW k \in 1 .. L
          PROVE  stack'[k].bits = stack[k].bits
      <4>1. CASE k = L
        BY <1>1, <2>8, <4>1 DEF StackWith, Frames
      <4>2. CASE k # L
        <5>1. k \in 1 .. L - 1
          BY <1>1, <4>2
        <5>2. QED
          BY <2>8, <5>1 DEF StackWith
      <4>3. QED
        BY <4>1, <4>2
    <3>3. Len(stack') = L + 1 /\ stack'[L + 1] = c
      BY <2>8 DEF StackWith
    <3>4. ASSUME NEW k \in 1 .. L + 1
          PROVE  SlotsOK(stack'[k].bits, entered + 1)
      <4>1. CASE k = L + 1
        BY <3>1, <3>3, <4>1
      <4>2. CASE k \in 1 .. L
        <5>1. SlotsOK(stack[k].bits, entered + 1)
          BY <1>1, <4>2, SlotsKept DEF WalkInv
        <5>2. QED
          BY <3>2, <4>2, <5>1
      <4>3. QED
        BY <1>1, <4>1, <4>2
    <3>5. QED
      BY <2>1, <3>3, <3>4 DEF SlotsInv
  <2>18. QED
    BY <2>13, <2>14, <2>15, <2>16, <2>17 DEF WalkInv
<1>4. QED
  BY <1>2, <1>3

\* Only the last node of the stack goes, and the ones above it stay.
LEMMA LeavePreserves ==
  ASSUME WalkInv, Leave
  PROVE  WalkInv'
<1>0. PICK n : n = Len(stack)
  OBVIOUS
<1>1. /\ WalkTypeOK /\ stack \in Seq(Frames) /\ n \in Nat /\ n > 1 /\ Len(stack) = n
      /\ stack' = Front(stack) /\ UNCHANGED <<records, entered, walk>>
  BY <1>0, TopFacts DEF WalkInv, Leave
<1>2. /\ stack' \in Seq(Frames) /\ Len(stack') = n - 1
      /\ \A k \in 1 .. n - 1 : stack'[k] = stack[k]
  <2>1. Front(stack) = SubSeq(stack, 1, n - 1)
    BY <1>1 DEF Front
  <2>2. QED
    BY <1>1, <2>1
<1>3. WalkTypeOK'
  <2>1. 1 \in 1 .. n - 1
    BY <1>1
  <2>2. stack' # <<>> /\ stack'[1] = stack[1]
    BY <1>1, <1>2, <2>1
  <2>3. QED
    BY <1>1, <1>2, <2>2 DEF WalkTypeOK
<1>4. \A id : \A k \in 1 .. n - 1 : Through(id, k)' <=> Through(id, k)
  BY <1>1, <1>2 DEF Through
<1>5. NodesOK'
  <2>1. \A a, b \in 1 .. n - 1 : a <= b => HandedDown(stack'[a], stack'[b])
    BY <1>1, <1>2 DEF WalkInv, NodesOK
  <2>2. ASSUME NEW k \in 1 .. n - 1 - 1
        PROVE  stack'[k + 1].name \in stack'[k].names
    <3>1. k \in 1 .. n - 1 /\ k + 1 \in 1 .. n - 1
      BY <1>1
    <3>2. stack[k + 1].name \in stack[k].names
      BY <1>1, <3>1 DEF WalkInv, NodesOK
    <3>3. QED
      BY <1>2, <3>1, <3>2
  <2>3. ASSUME NEW k \in 1 .. n - 1, IsRecord(stack'[k].kind)
        PROVE  \E r \in records' : Len(r.id) = k /\ Through(r.id, k)'
    <3>1. k \in 1 .. n /\ IsRecord(stack[k].kind)
      BY <1>1, <1>2, <2>3
    <3>2. PICK r \in records : Len(r.id) = k /\ Through(r.id, k)
      BY <1>1, <3>1 DEF WalkInv, NodesOK
    <3>3. QED
      BY <1>1, <1>4, <3>2
  <2>4. QED
    BY <1>2, <2>1, <2>2, <2>3 DEF NodesOK
<1>6. PathsOK'
  <2>1. ASSUME NEW r \in records', NEW k \in 1 .. n - 1, Through(r.id, k)'
        PROVE  IF Len(r.id) = k THEN Describes(r, stack'[k])
               ELSE r.id[k + 1] \in stack'[k].names
    <3>1. r \in records /\ k \in 1 .. n /\ Through(r.id, k) /\ stack'[k] = stack[k]
      BY <1>1, <1>2, <1>4, <2>1
    <3>2. QED
      BY <1>1, <3>1 DEF WalkInv, PathsOK
  <2>2. QED
    BY <1>2, <2>1 DEF PathsOK, Describes
<1>7. RecordsOK'
  BY <1>1 DEF WalkInv, RecordsOK, AliasesNameTheirTwin
<1>8. SlotsInv'
  <2>1. \A k \in 1 .. n - 1 : k \in 1 .. n
    BY <1>1
  <2>2. QED
    BY <1>1, <1>2, <2>1 DEF WalkInv, SlotsInv
<1>9. QED
  BY <1>3, <1>5, <1>6, <1>7, <1>8 DEF WalkInv

LEMMA StackRests ==
  ASSUME WalkInv, UNCHANGED <<stack, records, entered>>,
         walk' \in {"walking", "refused", "done"}
  PROVE  WalkInv'
<1>1. WalkTypeOK'
  BY DEF WalkInv, WalkTypeOK
<1>2. NodesOK' /\ PathsOK' /\ SlotsInv'
  BY DEF WalkInv, NodesOK, PathsOK, Through, SlotsInv
<1>3. RecordsOK'
  BY DEF WalkInv, RecordsOK, AliasesNameTheirTwin
<1>4. QED
  BY <1>1, <1>2, <1>3 DEF WalkInv

LEMMA WalkInitially ==
  ASSUME WalkInit
  PROVE  WalkInv
<1> DEFINE bits == Merged(Root.encoding, NoBits, 0)
           conditions == <<Root.condition>>
<1>1. bits \in BitMaps /\ SlotsOK(bits, 1)
  <2>1. NoBits \in BitMaps /\ SlotsOK(NoBits, 0)
    BY DEF NoBits, SlotsOK, BitMaps
  <2>2. Root \in Nodes /\ MergeIsLegal(Root.encoding, NoBits) /\ 0 \in Nat
    BY RootAssumption
  <2>3. bits \in BitMaps
    BY <2>1, <2>2, MergedInherits
  <2>4. SlotsOK(bits, 0 + 1)
    BY <2>1, <2>2, MergedSlots
  <2>5. QED
    BY <2>3, <2>4
<1>2. /\ RootFrame = [name |-> Root.name, kind |-> Root.kind, names |-> {}, bits |-> bits,
                      conditions |-> conditions, operation |-> Root.operation]
      /\ conditions \in Seq(Expressions)
  BY RootAssumption, NodeAssumption DEF RootFrame
<1> HIDE DEF bits, conditions
<1>10. RootFrame \in Frames
  BY <1>1, <1>2, RootAssumption DEF Frames, NodeNames, BitMaps
<1>3. /\ stack = <<RootFrame>> /\ records = {} /\ entered = 1 /\ walk = "walking"
      /\ Len(stack) = 1 /\ stack[1] = RootFrame /\ stack \in Seq(Frames) /\ stack # <<>>
  BY <1>10 DEF WalkInit
<1>4. RootFrame.kind = "InstructionSet"
  BY <1>2, RootAssumption
<1>5. WalkTypeOK
  BY <1>3, <1>4 DEF WalkTypeOK
<1>6. NodesOK
  <2>1. HandedDown(stack[1], stack[1])
    BY InheritsReflexive DEF HandedDown
  <2>2. ~IsRecord(stack[1].kind)
    BY <1>3, <1>4 DEF IsRecord
  <2>3. \A k \in 1 .. Len(stack) : k = 1
    BY <1>3
  <2>4. QED
    BY <1>3, <2>1, <2>2, <2>3 DEF NodesOK
<1>7. PathsOK /\ RecordsOK
  BY <1>3 DEF PathsOK, RecordsOK, AliasesNameTheirTwin
<1>8. SlotsInv
  <2>1. \A k \in 1 .. Len(stack) : k = 1
    BY <1>3
  <2>2. QED
    BY <1>1, <1>2, <1>3, <2>1 DEF SlotsInv
<1>9. QED
  BY <1>5, <1>6, <1>7, <1>8 DEF WalkInv

LEMMA WalkKeeps ==
  ASSUME WalkInv, [WalkNext]_walkVars
  PROVE  WalkInv'
<1>1. ASSUME NEW node \in Nodes, Enter(node)
      PROVE  WalkInv'
  BY <1>1, EnterPreserves
<1>2. CASE Leave
  BY <1>2, LeavePreserves
<1>3. CASE FinishWalk \/ UNCHANGED walkVars
  <2>1. UNCHANGED <<stack, records, entered>> /\ walk' \in {"walking", "refused", "done"}
    BY <1>3 DEF FinishWalk, walkVars, WalkInv, WalkTypeOK
  <2>2. QED
    BY <2>1, StackRests
<1>4. QED
  BY <1>1, <1>2, <1>3 DEF WalkNext

\* WalkInv is inductive.
THEOREM WalkInvariance == WalkSpec => []WalkInv
<1>1. WalkInit => WalkInv
  BY WalkInitially
<1>2. WalkInv /\ [WalkNext]_walkVars => WalkInv'
  BY WalkKeeps
<1>3. QED
  BY <1>1, <1>2, PTL DEF WalkSpec

\* EncodingsAreInherited: a bit that a node fixes stays fixed below it, the
\* fragments of a word are the pieces of its fields, and a record refines the
\* records above it (walk, merge_encoding and summarize_encoding).
THEOREM EncodingsInherited == WalkSpec => []EncodingsAreInherited
<1>1. WalkInv => EncodingsAreInherited
  <2>1. SUFFICES ASSUME WalkInv PROVE EncodingsAreInherited
    OBVIOUS
  <2>2. HardBitsAreInherited
    <3>1. ASSUME NEW m \in DOMAIN stack, NEW n \in DOMAIN stack, m <= n, NEW p \in Places,
                 Hard(stack[m].bits[p])
          PROVE  Hard(stack[n].bits[p]) /\ stack[n].bits[p].value = stack[m].bits[p].value
      <4>1. m \in 1 .. Len(stack) /\ n \in 1 .. Len(stack)
        BY <2>1, TopFacts DEF WalkInv
      <4>2. Inherits(stack[m].bits, stack[n].bits)
        BY <2>1, <3>1, <4>1 DEF WalkInv, NodesOK, HandedDown
      <4>3. QED
        BY <3>1, <4>2 DEF Inherits
    <3>2. QED
      BY <3>1 DEF HardBitsAreInherited
  <2>3. RecordsRefineTheirParents
    BY <2>1 DEF WalkInv, RecordsOK, RecordsRefineTheirParents, Refines
  <2>4. FragmentsAreThePieces
    BY <2>1, FragmentsOfStack DEF WalkInv
  <2>5. QED
    BY <2>2, <2>3, <2>4 DEF EncodingsAreInherited
<1>2. QED
  BY <1>1, WalkInvariance, PTL

\* ScopeIsClosed: what is left out cannot be executed, nothing selected lies
\* below it, and an alias record stands beside its instruction.
THEOREM ScopeClosed == WalkSpec => []ScopeIsClosed
<1>1. WalkInv => ScopeIsClosed
  <2>1. SUFFICES ASSUME WalkInv PROVE ScopeIsClosed
    OBVIOUS
  <2>2. /\ \A r \in records : r.id \in Seq(NodeNames) /\ r.conditions \in Seq(Expressions)
                              /\ Len(r.id) >= 2 /\ r.reason = ReasonOf(r)
        /\ \A r, s \in records : Below(r, s) => Range(r.conditions) \subseteq Range(s.conditions)
    BY <2>1 DEF WalkInv, WalkTypeOK, RecordsOK
  <2>3. DeferredIsImpossible
    <3>1. ASSUME NEW r \in records, r.reason = "feature-or-condition-outside-baseline",
                 NEW decided \in Decisions
          PROVE  \E c \in Range(r.conditions) : decided \notin Holds[c]
      <4>1. PICK c \in Range(r.conditions) : Possible[c] = "no"
        BY <2>2, <3>1 DEF ReasonOf
      <4>2. c \in Expressions
        BY <2>2, <4>1 DEF Range
      <4>3. QED
        BY <3>1, <4>1, <4>2, PossibleIsSound
    <3>2. QED
      BY <3>1 DEF DeferredIsImpossible
  <2>4. SelectedUnderSelected
    <3>1. ASSUME NEW r \in records, NEW s \in records, Below(r, s),
                 s.reason = "baseline-feature-filter"
          PROVE  r.reason = "baseline-feature-filter"
      <4>1. PICK k : k = Len(r.id)
        OBVIOUS
      <4>2. /\ k \in Nat /\ k >= 2 /\ Len(s.id) \in Nat /\ k < Len(s.id)
            /\ r.id \in Seq(NodeNames) /\ s.id \in Seq(NodeNames)
            /\ r.id = SubSeq(s.id, 1, k)
        BY <2>2, <3>1, <4>1 DEF Below
      <4>3. 2 \in 1 .. k
        BY <4>2
      <4>4. r.id[2] = s.id[2]
        BY <4>2, <4>3
      <4>5. Range(r.conditions) \subseteq Range(s.conditions)
        BY <2>2, <3>1
      <4>6. Groups[s.id[2]] # "scalable" /\ \A c \in Range(s.conditions) : Possible[c] # "no"
        BY <2>2, <3>1 DEF ReasonOf
      <4>7. QED
        BY <2>2, <4>4, <4>5, <4>6 DEF ReasonOf
    <3>2. QED
      BY <3>1 DEF SelectedUnderSelected
  <2>5. QED
    BY <2>1, <2>3, <2>4 DEF WalkInv, RecordsOK, ScopeIsClosed
<1>2. QED
  BY <1>1, WalkInvariance, PTL

-----------------------------------------------------------------------------
(***************************************************************************)
(* One rule and the word it assigns.  The commands only look at bits that  *)
(* have an owner, so the invariant says what owners are: the bits of the   *)
(* masks and the diagram, which have their values, and the fields, which   *)
(* lie apart from them and from each other.                                *)
(***************************************************************************)

\* A sequence of whatever it holds.
IsSequence(s) == s \in Seq(Range(s))

LEMMA SequenceFacts ==
  ASSUME NEW s, IsSequence(s)
  PROVE  /\ Len(s) \in Nat /\ DOMAIN s = 1 .. Len(s)
         /\ \A k \in 1 .. Len(s) : s[k] \in Range(s)
         /\ \A x \in Range(s) : \E k \in 1 .. Len(s) : x = s[k]
BY DEF IsSequence, Range

LEMMA SequenceOf ==
  ASSUME NEW S, NEW s \in Seq(S)
  PROVE  IsSequence(s)
<1>1. Len(s) \in Nat /\ s \in [1 .. Len(s) -> Range(s)]
  BY DEF Range
<1>2. QED
  BY <1>1, FunctionIsSequence DEF IsSequence

LEMMA MadeSequence ==
  ASSUME NEW n \in Nat, NEW s, s = [k \in 1 .. n |-> s[k]]
  PROVE  IsSequence(s) /\ Len(s) = n
<1>1. s \in [1 .. n -> Range(s)]
  BY DEF Range
<1>2. QED
  BY <1>1, FunctionIsSequence DEF IsSequence

LEMMA ReplacedSequence ==
  ASSUME NEW s, IsSequence(s), NEW i \in 1 .. Len(s), NEW e
  PROVE  /\ IsSequence([s EXCEPT ![i] = e])
         /\ Len([s EXCEPT ![i] = e]) = Len(s)
<1> DEFINE S == Range(s) \cup {e}
<1>1. s \in Seq(S) /\ e \in S
  <2>1. Len(s) \in Nat /\ s \in [1 .. Len(s) -> S]
    BY DEF IsSequence, Range
  <2>2. QED
    BY <2>1, FunctionIsSequence
<1> HIDE DEF S
<1>2. /\ [s EXCEPT ![i] = e] \in Seq(S)
      /\ Len([s EXCEPT ![i] = e]) = Len(s)
  BY <1>1, ReplaceFacts
<1>3. QED
  BY <1>2, SequenceOf

LEMMA JoinedSequence ==
  ASSUME NEW a, NEW b, IsSequence(a), IsSequence(b)
  PROVE  /\ IsSequence(a \o b)
         /\ Len(a \o b) = Len(a) + Len(b)
         /\ \A k \in 1 .. Len(a) : (a \o b)[k] = a[k]
         /\ \A k \in 1 .. Len(b) : (a \o b)[Len(a) + k] = b[k]
<1> DEFINE S == Range(a) \cup Range(b)
<1>1. a \in Seq(S) /\ b \in Seq(S)
  <2>1. /\ Len(a) \in Nat /\ a \in [1 .. Len(a) -> S]
        /\ Len(b) \in Nat /\ b \in [1 .. Len(b) -> S]
    BY DEF IsSequence, Range
  <2>2. QED
    BY <2>1, FunctionIsSequence
<1> HIDE DEF S
<1>2. a \o b \in Seq(S)
  BY <1>1
<1>3. /\ Len(a \o b) = Len(a) + Len(b)
      /\ \A k \in 1 .. Len(a) : (a \o b)[k] = a[k]
      /\ \A k \in 1 .. Len(b) : (a \o b)[Len(a) + k] = b[k]
  BY <1>1
<1>4. QED
  BY <1>2, <1>3, SequenceOf

\* What flat holds are indices of operands.
LEMMA FlatIndices ==
  ASSUME NEW ops, IsSequence(ops)
  PROVE  Flat(ops) \in Seq(1 .. Len(ops))
<1> DEFINE D == Seq(1 .. Len(ops))
           N == Len(ops)
           Add(q, n) == IF ops[n].literal = None THEN Append(q, n) ELSE q
           g == [x \in (1 .. N) \X D |-> Add(x[2], x[1])]
           Body(f) == [n \in 0 .. N |->
                         IF n = 0 THEN <<>> ELSE Add(f[n - 1], n)]
           w == FlatTo(ops)
<1>1. N \in Nat /\ <<>> \in D
  BY SequenceFacts
<1>2. g \in [((0 + 1) .. N) \X D -> D]
  <2>1. ASSUME NEW x \in (1 .. N) \X D
        PROVE  Add(x[2], x[1]) \in D
    <3>1. x[2] \in D /\ x[1] \in 1 .. Len(ops)
      OBVIOUS
    <3>2. Append(x[2], x[1]) \in D
      BY <3>1, AppendFacts
    <3>3. QED
      BY <3>1, <3>2
  <2>2. QED
    BY <2>1
<1>3. PICK f \in [0 .. N -> D] :
        f[0] = <<>> /\ \A k \in 1 .. N : f[k] = g[<<k, f[k - 1]>>]
  <2> HIDE DEF g, D
  <2>1. 0 \in Nat /\ 0 <= N
    BY <1>1
  <2>2. \E f : Recurses(f, 0, N, D, <<>>, g)
    BY <1>1, <1>2, <2>1, RecursionExists
  <2>3. 0 + 1 = 1
    OBVIOUS
  <2>4. QED
    BY <2>2, <2>3 DEF Recurses
<1>4. ASSUME NEW k \in 1 .. N
      PROVE  f[k] = Add(f[k - 1], k)
  <2> HIDE DEF D, Add
  <2>1. <<k, f[k - 1]>> \in (1 .. N) \X D
    BY <1>1, <1>3
  <2>2. PICK x : x = <<k, f[k - 1]>>
    OBVIOUS
  <2>3. /\ x \in (1 .. N) \X D /\ x[1] = k /\ x[2] = f[k - 1]
        /\ f[k] = g[x]
    BY <1>3, <2>1, <2>2
  <2>4. g[x] = Add(x[2], x[1])
    BY <2>3
  <2>5. QED
    BY <2>3, <2>4
<1>5. f = Body(f)
  <2>1. ASSUME NEW n \in 0 .. N
        PROVE  f[n] = IF n = 0 THEN <<>> ELSE Add(f[n - 1], n)
    <3> HIDE DEF D, Add, g
    <3>1. QED
      BY <1>1, <1>3, <1>4
  <2>2. QED
    BY <2>1
<1>6. w = CHOOSE h : h = Body(h)
  BY DEF FlatTo
<1>7. w = Body(w)
  <2> HIDE DEF Body, w
  <2>1. QED
    BY <1>5, <1>6 DEF w
<1> HIDE DEF w
<1> DEFINE S == {n \in Nat : n <= N => w[n] \in D}
<1>8. 0 \in S
  BY <1>1, <1>7
<1>9. ASSUME NEW n \in S
      PROVE  n + 1 \in S
  <2>1. SUFFICES ASSUME n + 1 <= N
                 PROVE  w[n + 1] \in D
    OBVIOUS
  <2>2. /\ n + 1 \in 1 .. Len(ops) /\ n + 1 \in 0 .. N /\ n + 1 # 0 /\ (n + 1) - 1 = n
        /\ w[n] \in D
    BY <1>1, <2>1
  <2>3. Append(w[n], n + 1) \in D
    BY <2>2, AppendFacts
  <2>4. w[n + 1] = Add(w[n], n + 1)
    BY <1>7, <2>2
  <2>5. QED
    BY <2>2, <2>3, <2>4
<1>10. S \in SUBSET Nat
  OBVIOUS
<1> HIDE DEF S
<1>11. S = Nat
  BY <1>8, <1>9, <1>10, NatSet
<1>12. w[Len(ops)] \in D
  BY <1>1, <1>11 DEF S
<1>13. QED
  BY <1>12 DEF Flat, w

\* The operand at the cursor is one.
LEMMA CurrentIsAnOperand ==
  ASSUME IsSequence(operands), cursor \in Nat, HasCurrent
  PROVE  Current \in 1 .. Len(operands)
<1>1. Flat(operands) \in Seq(1 .. Len(operands))
  BY FlatIndices
<1>2. PICK flat \in Seq(1 .. Len(operands)) : flat = Flat(operands)
  BY <1>1
<1>3. cursor + 1 \in 1 .. Len(flat)
  BY <1>2 DEF HasCurrent
<1>4. QED
  BY <1>2, <1>3 DEF Current

\* The bits of several lists of fields.
LEMMA JoinedFields ==
  ASSUME NEW a, NEW b, IsSequence(a), IsSequence(b)
  PROVE  Dynamic(a \o b) = Dynamic(a) \cup Dynamic(b)
<1> DEFINE s == a \o b
<1>1. /\ DOMAIN s = 1 .. Len(s) /\ DOMAIN a = 1 .. Len(a) /\ DOMAIN b = 1 .. Len(b)
      /\ Len(a) \in Nat /\ Len(b) \in Nat
      /\ Len(s) = Len(a) + Len(b)
      /\ \A k \in 1 .. Len(a) : s[k] = a[k]
      /\ \A k \in 1 .. Len(b) : s[Len(a) + k] = b[k]
  BY JoinedSequence, SequenceFacts
<1> HIDE DEF s
<1>2. ASSUME NEW n \in DOMAIN s
      PROVE  FieldMask(s[n]) \subseteq Dynamic(a) \cup Dynamic(b)
  <2>1. CASE n \in DOMAIN a
    BY <1>1, <2>1 DEF Dynamic
  <2>2. CASE n \notin DOMAIN a
    <3>1. n - Len(a) \in DOMAIN b /\ s[n] = b[n - Len(a)]
      <4>1. PICK k : k = n - Len(a)
        OBVIOUS
      <4>2. k \in 1 .. Len(b) /\ n = Len(a) + k
        BY <1>1, <2>2, <4>1
      <4>3. QED
        BY <1>1, <4>1, <4>2
    <3>2. QED
      BY <3>1 DEF Dynamic
  <2>3. QED
    BY <2>1, <2>2
<1>3. ASSUME NEW n \in DOMAIN a
      PROVE  FieldMask(a[n]) \subseteq Dynamic(s)
  <2>1. n \in DOMAIN s /\ s[n] = a[n]
    BY <1>1
  <2>2. QED
    BY <2>1 DEF Dynamic
<1>4. ASSUME NEW n \in DOMAIN b
      PROVE  FieldMask(b[n]) \subseteq Dynamic(s)
  <2>1. Len(a) + n \in DOMAIN s /\ s[Len(a) + n] = b[n]
    BY <1>1
  <2>2. QED
    BY <2>1 DEF Dynamic
<1>5. /\ \A n \in DOMAIN s : FieldMask(s[n]) \subseteq Dynamic(a) \cup Dynamic(b)
      /\ \A n \in DOMAIN a : FieldMask(a[n]) \subseteq Dynamic(s)
      /\ \A n \in DOMAIN b : FieldMask(b[n]) \subseteq Dynamic(s)
  BY <1>2, <1>3, <1>4
<1>6. Dynamic(s) \subseteq Dynamic(a) \cup Dynamic(b)
  BY <1>5 DEF Dynamic
<1>7. Dynamic(a) \subseteq Dynamic(s) /\ Dynamic(b) \subseteq Dynamic(s)
  BY <1>5 DEF Dynamic
<1>8. QED
  BY <1>6, <1>7 DEF s

\* The bits a value of some width puts into a word.
LEMMA ShiftedOnes ==
  ASSUME NEW v, NEW width \in Int, NEW lsb \in Int
  PROVE  Shifted(Ones(v, width), lsb) \subseteq Mask(lsb, width)
<1>1. ASSUME NEW b \in Ones(v, width)
      PROVE  lsb + b \in Mask(lsb, width)
  <2>1. b \in 0 .. width - 1
    BY DEF Ones
  <2>2. QED
    BY <2>1 DEF Mask
<1>2. QED
  BY <1>1 DEF Shifted

LEMMA MaskInWord ==
  ASSUME NEW width \in Int, NEW lsb \in Int, InWord(lsb, width)
  PROVE  Mask(lsb, width) \subseteq Word
BY WidthAssumption DEF InWord, Mask, Word

\* What a command asks of a field: where it lies is for insert to check.
Asked(f, of, most) ==
    f.operand \in of /\ f.lsb \in Int /\ f.width \in Int /\ f.width <= most

\* Every command that encodes the whole operand asks for fields of it that
\* are no wider than the generators take.
LEMMA TakenFields ==
  ASSUME NEW c \in Commands, c.name \in OperandCommands
  PROVE  /\ IsSequence(Takes(c).fields)
         /\ \A n \in DOMAIN Takes(c).fields :
              Asked(Takes(c).fields[n], {Current}, MaxFieldWidth)
<1> DEFINE Good(fs) == IsSequence(fs) /\ \A n \in DOMAIN fs : Asked(fs[n], {Current}, MaxFieldWidth)
<1>0. /\ c.at \in Int /\ c.rest \in Int /\ c.width \in Int /\ c.width <= MaxFieldWidth
      /\ c.places \in Seq(Int)
      /\ MaxFieldWidth \in Nat /\ MaxFieldWidth >= 1
      /\ RegBits \in 1 .. MaxFieldWidth /\ CondBits \in 1 .. MaxFieldWidth
  <2>1. c.name \notin StaticCommands
    BY DEF OperandCommands, StaticCommands
  <2>2. QED
    BY <2>1, WidthAssumption, CommandAssumption
<1>1. ASSUME NEW lsb \in Int, NEW width \in Int, width <= MaxFieldWidth, NEW kind, NEW of
      PROVE  Good(<<Field(Current, lsb, width, kind, of)>>)
  <2> DEFINE f == Field(Current, lsb, width, kind, of)
  <2>1. Asked(f, {Current}, MaxFieldWidth)
    BY <1>1 DEF Field, Asked
  <2> HIDE DEF f
  <2>2. /\ <<f>> \in Seq({f}) /\ DOMAIN <<f>> = {1} /\ <<f>>[1] = f
    OBVIOUS
  <2>3. IsSequence(<<f>>)
    BY <2>2, SequenceOf
  <2>4. QED
    BY <2>1, <2>2, <2>3 DEF f
<1>2. CASE c.name \in {"R", "R4", "REven", "RNoZr"}
  <2>1. Takes(c) = Register(c)
    BY <1>2 DEF Takes
  <2>2. PICK w : w = IF c.name = "R4" THEN RegBits - 1 ELSE RegBits
    OBVIOUS
  <2>3. w \in Int /\ w <= MaxFieldWidth
    BY <1>0, <2>2
  <2>4. Takes(c).fields = <<Field(Current, c.at, w, "plain", 0)>>
    BY <2>1, <2>2 DEF Register
  <2>5. QED
    BY <1>0, <1>1, <2>3, <2>4
<1>3. CASE c.name \in {"Cond", "InvCond"}
  <2>1. Takes(c) = Condition(c)
    BY <1>3 DEF Takes
  <2>2. PICK k : k = IF c.name = "InvCond" THEN "xor" ELSE "plain"
    OBVIOUS
  <2>3. Takes(c).fields = <<Field(Current, c.at, CondBits, k, 1)>>
    BY <2>1, <2>2 DEF Condition
  <2>4. CondBits \in Int /\ CondBits <= MaxFieldWidth
    BY <1>0
  <2>5. QED
    BY <1>0, <1>1, <2>3, <2>4
<1>4. CASE c.name = "Urange"
  <2>1. Takes(c) = Biased(c)
    BY <1>4 DEF Takes
  <2>2. PICK w : w = BitLength(c.high - c.low)
    OBVIOUS
  <2>3. Takes(c).fields = <<Field(Current, c.at, w, "bias", c.low)>>
    BY <1>4, <2>1, <2>2 DEF Biased, Immediate
  <2>4. w \in 0 .. MaxFieldWidth
    BY <1>4, <2>2, CommandAssumption
  <2>5. w \in Int /\ w <= MaxFieldWidth
    BY <1>0, <2>4
  <2>6. QED
    BY <1>0, <1>1, <2>3, <2>5
<1>5. CASE c.name \in {"Usubmod", "Usubzero", "Usum"}
  <2>1. Takes(c) = Biased(c)
    BY <1>5 DEF Takes
  <2>2. \E kind, of : Takes(c).fields = <<Field(Current, c.at, c.width, kind, of)>>
    BY <1>5, <2>1 DEF Biased, Immediate
  <2>3. QED
    BY <1>0, <1>1, <2>2
<1>6. CASE c.name \in {"Sbits", "Sscaled", "Uscaled"}
  <2>1. Takes(c) = Scaled(c)
    BY <1>6 DEF Takes
  <2>2. Takes(c).fields = <<Field(Current, c.at, c.width, "slice", c.shift)>>
    BY <2>1 DEF Scaled, Immediate
  <2>3. QED
    BY <1>0, <1>1, <2>2
<1>7. CASE c.name = "Offset"
  <2>1. Takes(c) = Address(c)
    BY <1>7 DEF Takes
  <2> DEFINE f == Field(Current, c.at, 1, "slice", 0)
             h == Field(Current, c.rest, c.width - 1, "slice", 1)
  <2>2. Takes(c).fields = <<f, h>>
    BY <2>1 DEF Address, Immediate
  <2>3. Asked(f, {Current}, MaxFieldWidth) /\ Asked(h, {Current}, MaxFieldWidth)
    BY <1>0 DEF Field, Asked
  <2> HIDE DEF f, h
  <2>4. PICK s : s = <<f, h>>
    OBVIOUS
  <2>5. /\ s \in Seq({f, h}) /\ Len(s) = 2 /\ s[1] = f /\ s[2] = h
        /\ DOMAIN s = 1 .. 2
    <3>1. s \in Seq({f, h}) /\ Len(s) = 2 /\ s[1] = f /\ s[2] = h
      BY <2>4
    <3>2. QED
      BY <3>1
  <2>6. IsSequence(s)
    BY <2>5, SequenceOf
  <2>7. \A n \in DOMAIN s : Asked(s[n], {Current}, MaxFieldWidth)
    BY <2>3, <2>5
  <2>8. QED
    BY <2>2, <2>4, <2>6, <2>7
<1>8. CASE c.name \in {"Ubits", "Usubone"}
  <2>1. Takes(c) = Counted(c)
    BY <1>8 DEF Takes
  <2>2. \E kind, of : Takes(c).fields = <<Field(Current, c.at, c.width, kind, of)>>
    BY <1>8, <2>1 DEF Counted, Immediate
  <2>3. QED
    BY <1>0, <1>1, <2>2
<1>9. CASE c.name = "Ufields"
  <2>1. Takes(c) = Scattered(c)
    BY <1>9 DEF Takes
  <2> DEFINE places == Reverse(c.places)
             fs == [n \in DOMAIN places |-> Field(Current, places[n], 1, "slice", n - 1)]
  <2>2. Takes(c).fields = fs
    BY <2>1 DEF Scattered, Immediate
  <2>3. /\ Len(c.places) \in Nat /\ DOMAIN places = 1 .. Len(c.places)
        /\ \A n \in DOMAIN places : places[n] \in Int
    BY <1>0 DEF Reverse
  <2> HIDE DEF places
  <2>4. ASSUME NEW n \in DOMAIN fs
        PROVE  Asked(fs[n], {Current}, MaxFieldWidth)
    <3>1. fs[n] = Field(Current, places[n], 1, "slice", n - 1) /\ places[n] \in Int
      BY <2>3
    <3>2. QED
      BY <1>0, <3>1 DEF Field, Asked
  <2>5. fs = [n \in 1 .. Len(c.places) |-> fs[n]]
    BY <2>3
  <2> HIDE DEF fs
  <2>6. IsSequence(fs)
    BY <2>3, <2>5, MadeSequence
  <2>7. QED
    BY <2>2, <2>4, <2>6
<1>10. CASE c.name = "Ulist"
  <2>1. Takes(c) = Listed(c)
    BY <1>10 DEF Takes
  <2>2. PICK w : w = BitLength(Len(c.options) - 1)
    OBVIOUS
  <2>3. Takes(c).fields = <<Field(Current, c.at, Larger(1, w), "lookup", c.options)>>
    BY <2>1, <2>2 DEF Listed, Immediate
  <2>4. w \in 0 .. MaxFieldWidth
    BY <1>10, <2>2, CommandAssumption
  <2>5. Larger(1, w) \in Int /\ Larger(1, w) <= MaxFieldWidth
    BY <1>0, <2>4 DEF Larger
  <2>6. QED
    BY <1>0, <1>1, <2>3, <2>5
<1>11. QED
  BY <1>2, <1>3, <1>4, <1>5, <1>6, <1>7, <1>8, <1>9, <1>10 DEF OperandCommands

-----------------------------------------------------------------------------
\* The bits the masks and the diagram of the encoding give values to.
Given == encoding.fixed \cup encoding.row

Placed(list) ==
    \A n \in DOMAIN list :
      /\ Asked(list[n], 1 .. Len(operands), MaxFieldWidth)
      /\ InWord(list[n].lsb, list[n].width)

Separate(list) ==
    \A m, n \in DOMAIN list : m # n => FieldMask(list[m]) \cap FieldMask(list[n]) = {}

OperandsOK ==
    encoding \in Encodings /\ cursor \in Nat /\ IsSequence(operands) /\ Len(operands) <= MaxArity

FieldsOK == IsSequence(fields) /\ Placed(fields) /\ Separate(fields)

BitsOK ==
    /\ word \subseteq owners /\ owners \subseteq Word
    /\ Dynamic(fields) \subseteq owners /\ Given \subseteq owners
    /\ Dynamic(fields) \cap (word \cup Given) = {}
    /\ word \cap Given = encoding.ones \cup encoding.rowOnes

\* A rule is only read when the diagram agrees with the masks.
DiagramOK ==
    status # "refused" =>
      \A b \in encoding.fixed \cap encoding.row : b \in encoding.ones <=> b \in encoding.rowOnes

FormInv == OperandsOK /\ FieldsOK /\ BitsOK /\ DiagramOK

\* insert without a value.
LEMMA FieldsInserted ==
  ASSUME NEW new, IsSequence(new),
         \A n \in DOMAIN new : Asked(new[n], 1 .. Len(operands), MaxFieldWidth),
         FieldsFit(new), InsertFields(new), FieldsOK, BitsOK,
         encoding' = encoding, Len(operands') = Len(operands)
  PROVE  FieldsOK' /\ BitsOK'
<1> DEFINE s == fields \o new
<1>0. fields' = s /\ owners' = owners \cup Dynamic(new) /\ word' = word
  BY DEF InsertFields
<1>1. /\ IsSequence(s)
      /\ DOMAIN s = 1 .. Len(s) /\ DOMAIN fields = 1 .. Len(fields) /\ DOMAIN new = 1 .. Len(new)
      /\ Len(fields) \in Nat /\ Len(new) \in Nat
      /\ Len(s) = Len(fields) + Len(new)
      /\ \A k \in 1 .. Len(fields) : s[k] = fields[k]
      /\ \A k \in 1 .. Len(new) : s[Len(fields) + k] = new[k]
  BY JoinedSequence, SequenceFacts DEF FieldsOK
<1>2. Dynamic(s) = Dynamic(fields) \cup Dynamic(new)
  BY JoinedFields DEF FieldsOK
<1>3. /\ \A n \in DOMAIN new : InWord(new[n].lsb, new[n].width)
      /\ \A n \in DOMAIN new : FieldMask(new[n]) \cap owners = {}
      /\ Separate(new)
  BY DEF FieldsFit, Separate
<1>4. \A n \in DOMAIN fields : FieldMask(fields[n]) \subseteq owners
  BY DEF BitsOK, Dynamic
<1> HIDE DEF s
<1>5. ASSUME NEW n \in DOMAIN s
      PROVE  \/ n \in DOMAIN fields /\ s[n] = fields[n]
             \/ \E k \in DOMAIN new : n = Len(fields) + k /\ s[n] = new[k]
  <2>1. CASE n \in DOMAIN fields
    BY <1>1, <2>1
  <2>2. CASE n \notin DOMAIN fields
    <3>1. PICK k : k = n - Len(fields)
      OBVIOUS
    <3>2. k \in DOMAIN new /\ n = Len(fields) + k
      BY <1>1, <2>2, <3>1
    <3>3. QED
      BY <1>1, <3>2
  <2>3. QED
    BY <2>1, <2>2
<1>6. ASSUME NEW n \in DOMAIN s
      PROVE  /\ Asked(s[n], 1 .. Len(operands), MaxFieldWidth)
             /\ InWord(s[n].lsb, s[n].width)
  BY <1>3, <1>5 DEF FieldsOK, Placed
<1>7. ASSUME NEW m \in DOMAIN s, NEW n \in DOMAIN s, m # n
      PROVE  FieldMask(s[m]) \cap FieldMask(s[n]) = {}
  <2>1. CASE m \in DOMAIN fields /\ s[m] = fields[m]
    <3>1. CASE n \in DOMAIN fields /\ s[n] = fields[n]
      BY <1>7, <2>1, <3>1 DEF FieldsOK, Separate
    <3>2. CASE \E k \in DOMAIN new : n = Len(fields) + k /\ s[n] = new[k]
      BY <1>3, <1>4, <2>1, <3>2
    <3>3. QED
      BY <1>5, <3>1, <3>2
  <2>2. CASE \E k \in DOMAIN new : m = Len(fields) + k /\ s[m] = new[k]
    <3>1. CASE n \in DOMAIN fields /\ s[n] = fields[n]
      BY <1>3, <1>4, <2>2, <3>1
    <3>2. CASE \E k \in DOMAIN new : n = Len(fields) + k /\ s[n] = new[k]
      <4>1. PICK j \in DOMAIN new, k \in DOMAIN new :
              /\ m = Len(fields) + j /\ s[m] = new[j]
              /\ n = Len(fields) + k /\ s[n] = new[k]
        BY <2>2, <3>2
      <4>2. j # k
        BY <1>7, <4>1
      <4>3. QED
        BY <1>3, <4>1, <4>2 DEF Separate
    <3>3. QED
      BY <1>5, <3>1, <3>2
  <2>3. QED
    BY <1>5, <2>1, <2>2
<1>8. FieldsOK'
  <2>1. IsSequence(s)
    BY <1>1
  <2>2. Placed(s)
    BY <1>6 DEF Placed
  <2>3. Separate(s)
    BY <1>7 DEF Separate
  <2>4. IsSequence(fields')
    BY <1>0, <2>1
  <2>5. Placed(fields)'
    BY <1>0, <2>2 DEF Placed
  <2>6. Separate(fields)'
    BY <1>0, <2>3 DEF Separate
  <2>7. QED
    BY <2>4, <2>5, <2>6 DEF FieldsOK
<1>9. Dynamic(new) \subseteq Word
  <2>1. ASSUME NEW n \in DOMAIN new
        PROVE  FieldMask(new[n]) \subseteq Word
    BY <1>3, MaskInWord DEF Asked, FieldMask
  <2>2. QED
    BY <2>1 DEF Dynamic
<1>10. Dynamic(new) \cap owners = {}
  BY <1>3 DEF Dynamic
<1>11. /\ Dynamic(fields)' = Dynamic(s) /\ Given' = Given
  BY <1>0 DEF Dynamic, Given
<1>12. QED
  BY <1>0, <1>2, <1>8, <1>9, <1>10, <1>11 DEF BitsOK

\* insert with a value.
LEMMA StaticInserted ==
  ASSUME NEW value, NEW lsb \in Int, NEW width \in Int,
         StaticFits(lsb, width, value, Shifted(Ones(value, width), lsb)),
         InsertStatic(lsb, width, Shifted(Ones(value, width), lsb)),
         FieldsOK, BitsOK, UNCHANGED <<encoding, operands>>
  PROVE  FieldsOK' /\ BitsOK'
<1> DEFINE ones == Shifted(Ones(value, width), lsb)
<1>1. ones \subseteq Mask(lsb, width)
  BY ShiftedOnes
<1>2. Mask(lsb, width) \subseteq Word
  BY MaskInWord DEF StaticFits
<1>3. /\ word' = word \cup ones /\ owners' = owners \cup Mask(lsb, width) /\ fields' = fields
  BY DEF InsertStatic
<1>4. /\ ones \cap Dynamic(fields) = {}
      /\ \A b \in Mask(lsb, width) \cap (owners \ Dynamic(fields)) : b \in word <=> b \in ones
  BY DEF StaticFits
<1> HIDE DEF ones
<1>5. Dynamic(fields)' = Dynamic(fields) /\ Given' = Given /\ encoding' = encoding
  BY <1>3 DEF Given
<1>6. ones \cap Given \subseteq word
  BY <1>1, <1>4 DEF BitsOK
<1>7. BitsOK'
  BY <1>1, <1>2, <1>3, <1>4, <1>5, <1>6 DEF BitsOK
<1>8. FieldsOK'
  BY <1>3 DEF FieldsOK, Placed, Separate, IsSequence
<1>9. QED
  BY <1>7, <1>8

\* What a command does not change keeps what is known of it.
LEMMA KeptWord ==
  ASSUME FieldsOK, BitsOK, UNCHANGED <<encoding, word, owners, fields>>,
         Len(operands') = Len(operands)
  PROVE  FieldsOK' /\ BitsOK'
<1>1. FieldsOK'
  BY DEF FieldsOK, Placed, Separate, IsSequence
<1>2. BitsOK'
  BY DEF BitsOK, Given
<1>3. QED
  BY <1>1, <1>2

LEMMA Refused ==
  ASSUME FormInv, Refuse
  PROVE  FormInv'
<1>1. FieldsOK' /\ BitsOK'
  BY KeptWord DEF FormInv, Refuse
<1>2. OperandsOK' /\ DiagramOK'
  BY DEF FormInv, OperandsOK, DiagramOK, Refuse, IsSequence
<1>3. QED
  BY <1>1, <1>2 DEF FormInv

LEMMA FormInit == Init => FormInv
<1> SUFFICES ASSUME Init
             PROVE  FormInv
  OBVIOUS
<1>1. /\ encoding.fixed \subseteq Word /\ encoding.row \subseteq Word
      /\ encoding.ones \subseteq encoding.fixed /\ encoding.rowOnes \subseteq encoding.row
      /\ operands \in Seq(Range(operands)) /\ Len(operands) <= MaxArity
  BY MaskAssumption, ShapeAssumption DEF Init
<1>2. OperandsOK
  BY <1>1 DEF Init, OperandsOK, IsSequence
<1>3. fields = <<>> /\ DOMAIN fields = {} /\ fields \in Seq({})
  BY DEF Init
<1>4. FieldsOK
  BY <1>3, SequenceOf DEF FieldsOK, Placed, Separate
<1>5. Dynamic(fields) = {}
  BY <1>3 DEF Dynamic
<1>6. BitsOK
  BY <1>1, <1>5 DEF BitsOK, Given, Init
<1>7. DiagramOK
  BY DEF DiagramOK, Init
<1>8. QED
  BY <1>2, <1>4, <1>6, <1>7 DEF FormInv

LEMMA FormNext == FormInv /\ [Next]_vars => FormInv'
<1> SUFFICES ASSUME FormInv, [Next]_vars
             PROVE  FormInv'
  OBVIOUS
<1>0. OperandsOK /\ FieldsOK /\ BitsOK /\ DiagramOK
  BY DEF FormInv
<1>1. CASE UNCHANGED vars
  <2>1. FieldsOK' /\ BitsOK'
    BY <1>0, <1>1, KeptWord DEF vars
  <2>2. OperandsOK' /\ DiagramOK'
    BY <1>0, <1>1 DEF OperandsOK, DiagramOK, IsSequence, vars
  <2>3. QED
    BY <2>1, <2>2 DEF FormInv
<1>2. ASSUME NEW c \in Commands, StaticCommand(c), ~Refuse
      PROVE  FormInv'
  <2>1. PICK value :
          /\ StaticFits(c.at, c.width, value, Shifted(Ones(value, c.width), c.at))
          /\ InsertStatic(c.at, c.width, Shifted(Ones(value, c.width), c.at))
          /\ UNCHANGED <<encoding, operands, constraints, cursor, status>>
    BY <1>2 DEF StaticCommand
  <2>2. c.at \in Int /\ c.width \in Int
    BY CommandAssumption
  <2>3. FieldsOK' /\ BitsOK'
    BY <1>0, <2>1, <2>2, StaticInserted
  <2>4. OperandsOK' /\ DiagramOK'
    BY <1>0, <2>1 DEF OperandsOK, DiagramOK, IsSequence
  <2>5. QED
    BY <2>3, <2>4 DEF FormInv
<1>3. ASSUME NEW c \in Commands, CursorCommand(c), ~Refuse
      PROVE  FormInv'
  <2>1. /\ UNCHANGED <<encoding, operands, word, owners, fields, status>>
        /\ cursor' = cursor + 1 \/ (cursor > 0 /\ cursor' = cursor - 1)
    BY <1>3 DEF CursorCommand
  <2>2. FieldsOK' /\ BitsOK'
    BY <1>0, <2>1, KeptWord
  <2>3. OperandsOK' /\ DiagramOK'
    BY <1>0, <2>1 DEF OperandsOK, DiagramOK, IsSequence
  <2>4. QED
    BY <2>2, <2>3 DEF FormInv
<1>4. ASSUME NEW c \in Commands, CheckCommand(c), ~Refuse
      PROVE  FormInv'
  <2>1. PICK op :
          /\ HasCurrent
          /\ operands' = [operands EXCEPT ![Current] = op]
          /\ UNCHANGED <<encoding, word, owners, fields, constraints, cursor, status>>
    BY <1>4 DEF CheckCommand
  <2>2. IsSequence(operands') /\ Len(operands') = Len(operands)
    BY <1>0, <2>1, CurrentIsAnOperand, ReplacedSequence DEF OperandsOK
  <2>3. FieldsOK' /\ BitsOK'
    BY <1>0, <2>1, <2>2, KeptWord
  <2>4. OperandsOK' /\ DiagramOK'
    BY <1>0, <2>1, <2>2 DEF OperandsOK, DiagramOK
  <2>5. QED
    BY <2>3, <2>4 DEF FormInv
<1>5. ASSUME NEW c \in Commands, SliceCommand(c), ~Refuse
      PROVE  FormInv'
  <2> DEFINE f == Field(Current, c.at, c.width, "slice", c.shift)
  <2>1. /\ HasCurrent /\ FieldsFit(<<f>>) /\ InsertFields(<<f>>)
        /\ UNCHANGED <<encoding, operands, constraints, cursor, status>>
    BY <1>5 DEF SliceCommand
  <2>2. Asked(f, 1 .. Len(operands), MaxFieldWidth)
    <3>1. c.name \notin StaticCommands
      BY <1>5 DEF SliceCommand, SliceCommands, StaticCommands
    <3>2. c.at \in Int /\ c.width \in Int /\ c.width <= MaxFieldWidth
      BY <3>1, CommandAssumption
    <3>3. Current \in 1 .. Len(operands)
      BY <1>0, <2>1, CurrentIsAnOperand DEF OperandsOK
    <3>4. QED
      BY <3>2, <3>3 DEF Asked, Field
  <2> HIDE DEF f
  <2>3. PICK new : new = <<f>>
    OBVIOUS
  <2>4. new \in Seq({f}) /\ Len(new) = 1 /\ new[1] = f
    BY <2>3
  <2>5. DOMAIN new = 1 .. 1
    BY <2>4
  <2>6. IsSequence(new) /\ \A n \in DOMAIN new : Asked(new[n], 1 .. Len(operands), MaxFieldWidth)
    BY <2>2, <2>4, <2>5, SequenceOf
  <2>7. FieldsOK' /\ BitsOK'
    BY <1>0, <2>1, <2>3, <2>6, FieldsInserted
  <2>8. OperandsOK' /\ DiagramOK'
    BY <1>0, <2>1 DEF OperandsOK, DiagramOK, IsSequence
  <2>9. QED
    BY <2>7, <2>8 DEF FormInv
<1>6. ASSUME NEW c \in Commands, PairCommand(c), ~Refuse
      PROVE  FormInv'
  <2>1. /\ HasCurrent
        /\ operands' = operands \/ \E op : operands' = [operands EXCEPT ![Current] = op]
        /\ cursor' \in {cursor, cursor + 1}
        /\ UNCHANGED <<encoding, word, owners, fields, status>>
    BY <1>6 DEF PairCommand
  <2>2. IsSequence(operands') /\ Len(operands') = Len(operands)
    <3>1. CASE operands' = operands
      BY <1>0, <3>1 DEF OperandsOK
    <3>2. ASSUME NEW op, operands' = [operands EXCEPT ![Current] = op]
          PROVE  IsSequence(operands') /\ Len(operands') = Len(operands)
      BY <1>0, <2>1, <3>2, CurrentIsAnOperand, ReplacedSequence DEF OperandsOK
    <3>3. QED
      BY <2>1, <3>1, <3>2
  <2>3. FieldsOK' /\ BitsOK'
    BY <1>0, <2>1, <2>2, KeptWord
  <2>4. OperandsOK' /\ DiagramOK'
    BY <1>0, <2>1, <2>2 DEF OperandsOK, DiagramOK
  <2>5. QED
    BY <2>3, <2>4 DEF FormInv
<1>7. ASSUME NEW c \in Commands, OperandCommand(c), ~Refuse
      PROVE  FormInv'
  <2>1. /\ c.name \in OperandCommands
        /\ HasCurrent /\ FieldsFit(Takes(c).fields) /\ InsertFields(Takes(c).fields)
        /\ \E op : operands' = [operands EXCEPT ![Current] = op]
        /\ cursor' = cursor + 1
        /\ UNCHANGED <<encoding, status>>
    BY <1>7 DEF OperandCommand
  <2>2. Current \in 1 .. Len(operands)
    BY <1>0, <2>1, CurrentIsAnOperand DEF OperandsOK
  <2>3. IsSequence(operands') /\ Len(operands') = Len(operands)
    <3>1. PICK op : operands' = [operands EXCEPT ![Current] = op]
      BY <2>1
    <3>2. QED
      BY <1>0, <2>2, <3>1, ReplacedSequence DEF OperandsOK
  <2>4. /\ IsSequence(Takes(c).fields)
        /\ \A n \in DOMAIN Takes(c).fields :
             Asked(Takes(c).fields[n], 1 .. Len(operands), MaxFieldWidth)
    BY <2>1, <2>2, TakenFields DEF Asked
  <2>5. FieldsOK' /\ BitsOK'
    BY <1>0, <2>1, <2>3, <2>4, FieldsInserted
  <2>6. OperandsOK' /\ DiagramOK'
    BY <1>0, <2>1, <2>3 DEF OperandsOK, DiagramOK
  <2>7. QED
    BY <2>5, <2>6 DEF FormInv
<1>8. ASSUME Finish, ~Refuse
      PROVE  FormInv'
  <2>1. /\ status = "rule"
        /\ owners' = owners \cup (encoding.zeros \ owners) /\ owners' = Word
        /\ UNCHANGED <<encoding, operands, word, fields, constraints, cursor>>
    BY <1>8 DEF Finish
  <2>2. FieldsOK'
    BY <1>0, <2>1 DEF FieldsOK, Placed, Separate, IsSequence
  <2>3. BitsOK'
    BY <1>0, <2>1 DEF BitsOK, Given
  <2>4. OperandsOK' /\ DiagramOK'
    BY <1>0, <2>1 DEF OperandsOK, DiagramOK, IsSequence
  <2>5. QED
    BY <2>2, <2>3, <2>4 DEF FormInv
<1>9. CASE Refuse
  BY <1>9, Refused
<1>10. QED
  BY <1>1, <1>2, <1>3, <1>4, <1>5, <1>6, <1>7, <1>8, <1>9 DEF Next, Command

\* The generators take a form of which the invariant holds.
LEMMA FormIsValid ==
  ASSUME FormInv, Compiled
  PROVE  Valid(Form)
<1>0. OperandsOK /\ FieldsOK /\ BitsOK /\ DiagramOK
  BY DEF FormInv
<1>1. /\ Form.word = word /\ Form.fields = fields /\ Form.operands = operands
      /\ Form.fixed = encoding.fixed /\ Form.ones = encoding.ones
  BY DEF Form
<1>2. word \subseteq Word
  BY <1>0 DEF BitsOK
<1>3. word \cap encoding.fixed = encoding.ones
  <2>1. /\ encoding.ones \subseteq encoding.fixed /\ encoding.rowOnes \subseteq encoding.row
    BY <1>0, MaskAssumption DEF OperandsOK
  <2>2. \A b \in encoding.fixed \cap encoding.row : b \in encoding.ones <=> b \in encoding.rowOnes
    BY <1>0 DEF DiagramOK, Compiled
  <2>3. QED
    BY <1>0, <2>1, <2>2 DEF BitsOK, Given
<1>4. ASSUME NEW n \in DOMAIN fields
      PROVE  /\ FieldInWord(Form, fields[n])
             /\ FieldMask(fields[n]) \cap (word \cup encoding.fixed) = {}
             /\ \A m \in 1 .. n - 1 : FieldMask(fields[n]) \cap FieldMask(fields[m]) = {}
  <2>1. /\ Asked(fields[n], 1 .. Len(operands), MaxFieldWidth)
        /\ InWord(fields[n].lsb, fields[n].width)
    BY <1>0 DEF FieldsOK, Placed
  <2>2. DOMAIN operands = 1 .. Len(operands) /\ DOMAIN fields = 1 .. Len(fields) /\ Len(fields) \in Nat
    BY <1>0, SequenceFacts DEF OperandsOK, FieldsOK
  <2>3. FieldInWord(Form, fields[n])
    BY <1>1, <2>1, <2>2, WidthAssumption DEF FieldInWord, Asked, InWord
  <2>4. FieldMask(fields[n]) \cap (word \cup encoding.fixed) = {}
    BY <1>0 DEF BitsOK, Dynamic, Given
  <2>5. ASSUME NEW m \in 1 .. n - 1
        PROVE  FieldMask(fields[n]) \cap FieldMask(fields[m]) = {}
    <3>1. m \in DOMAIN fields /\ m # n
      BY <2>2
    <3>2. QED
      BY <1>0, <3>1 DEF FieldsOK, Separate
  <2>6. QED
    BY <2>3, <2>4, <2>5
<1>5. Len(operands) <= MaxArity
  BY <1>0 DEF OperandsOK
<1>6. QED
  BY <1>1, <1>2, <1>3, <1>4, <1>5 DEF Valid

LEMMA BitsSurvive ==
  ASSUME FormInv, NEW args
  PROVE  Emit(Form, args) \cap Given = encoding.ones \cup encoding.rowOnes
<1>0. OperandsOK /\ FieldsOK /\ BitsOK
  BY DEF FormInv
<1>1. Form.word = word /\ Form.fields = fields
  BY DEF Form
<1>2. ASSUME NEW f \in Range(fields)
      PROVE  Shifted(Ones(Transformed(f, args), f.width), f.lsb) \cap Given = {}
  <2>1. PICK n \in DOMAIN fields : f = fields[n]
    BY DEF Range
  <2>2. f.lsb \in Int /\ f.width \in Int
    BY <1>0, <2>1 DEF FieldsOK, Placed, Asked
  <2>3. Shifted(Ones(Transformed(f, args), f.width), f.lsb) \subseteq FieldMask(f)
    BY <2>2, ShiftedOnes DEF FieldMask
  <2>4. FieldMask(f) \cap Given = {}
    BY <1>0, <2>1 DEF BitsOK, Dynamic
  <2>5. QED
    BY <2>3, <2>4
<1>3. Emit(Form, args) \cap Given = word \cap Given
  <2> DEFINE Bits(f) == Shifted(Ones(Transformed(f, args), f.width), f.lsb)
  <2>1. Emit(Form, args) = word \cup UNION {Bits(f) : f \in Range(fields)}
    BY <1>1 DEF Emit
  <2>2. \A f \in Range(fields) : Bits(f) \cap Given = {}
    BY <1>2
  <2> HIDE DEF Bits
  <2>3. QED
    BY <2>1, <2>2
<1>4. QED
  BY <1>0, <1>3 DEF BitsOK

\* Whatever the masks and the diagram of an encoding, and whatever the commands
\* of its rule, in any order and any number: a form that is compiled is one the
\* generators take - its fields lie in the word, apart from each other and from
\* every bit that is fixed or one - and no operand that is accepted changes a
\* bit the architecture fixes, prefers or shows in its diagram (compile_form,
\* validate and the generated functions).
THEOREM FormsFit == Spec => []CompiledFormsFit
<1>1. FormInv => CompiledFormsFit
  <2>1. FormInv => CompiledFormsAreValid
    BY FormIsValid DEF CompiledFormsAreValid
  <2>2. FormInv => FixedBitsSurvive
    BY BitsSurvive DEF FixedBitsSurvive, Given
  <2>3. QED
    BY <2>1, <2>2 DEF CompiledFormsFit
<1>2. QED
  BY <1>1, FormInit, FormNext, PTL DEF Spec


-----------------------------------------------------------------------------
(***************************************************************************)
(* The forms of one mnemonic.  The invariant says which of them the        *)
(* function has alternatives of and that these are in the order of their   *)
(* priorities; that a key stands for one list of operand classes is a      *)
(* matter of numbers.                                                      *)
(***************************************************************************)

LEMMA KeysGrow ==
  \A x \in Nat \ {0} : \A d \in 0 .. 511 : x * 512 + d \in Nat \ {0} /\ x * 512 + d # 1
OBVIOUS

LEMMA DigitFacts ==
  /\ \A o \in Operands : Digit(o) \in 0 .. 511
  /\ \A o, p \in Operands : Digit(o) = Digit(p) => o = p
<1> DEFINE Place(kind) == CHOOSE n \in DOMAIN KINDS : KINDS[n] = kind
<1>1. DOMAIN KINDS \subseteq 1 .. 64
  <2>1. PICK n \in Nat : n = Len(KINDS) /\ n <= 64 /\ DOMAIN KINDS = 1 .. n
    BY SelectionAssumption
  <2>2. 1 .. n \subseteq 1 .. 64
    <3>1. n <= 64
      BY <2>1
    <3>2. QED
      BY <3>1
  <2>3. QED
    BY <2>1, <2>2
<1>2. ASSUME NEW kind \in Range(KINDS)
      PROVE  Place(kind) \in 1 .. 64 /\ KINDS[Place(kind)] = kind
  <2>1. \E n \in DOMAIN KINDS : KINDS[n] = kind
    BY DEF Range
  <2>2. PICK n : n = Place(kind)
    OBVIOUS
  <2>3. n \in DOMAIN KINDS /\ KINDS[n] = kind
    BY <2>1, <2>2
  <2>4. n \in 1 .. 64
    BY <1>1, <2>3
  <2>5. QED
    BY <2>2, <2>3, <2>4
<1>3. \A o : Digit(o) = Place(o.kind) - 1 + o.list * 64
  BY DEF Digit, IndexOf
<1>4. ASSUME NEW o \in Operands
      PROVE  Place(o.kind) \in 1 .. 64 /\ KINDS[Place(o.kind)] = o.kind /\ o.list \in 0 .. 7
  <2>1. o.kind \in Range(KINDS) /\ o.list \in 0 .. 7
    BY DEF Operands
  <2> HIDE DEF Place
  <2>2. QED
    BY <1>2, <2>1
<1> HIDE DEF Place
<1>5. ASSUME NEW o \in Operands
      PROVE  Digit(o) \in 0 .. 511
  <2>1. PICK k, l : k = Place(o.kind) /\ l = o.list
    OBVIOUS
  <2>2. k \in 1 .. 64 /\ l \in 0 .. 7 /\ Digit(o) = k - 1 + l * 64
    BY <1>3, <1>4, <2>1
  <2>3. QED
    BY <2>2
<1>6. ASSUME NEW o \in Operands, NEW p \in Operands, Digit(o) = Digit(p)
      PROVE  o = p
  <2>1. PICK k, l, m, n : k = Place(o.kind) /\ l = o.list /\ m = Place(p.kind) /\ n = p.list
    OBVIOUS
  <2>2. /\ k \in 1 .. 64 /\ l \in 0 .. 7 /\ m \in 1 .. 64 /\ n \in 0 .. 7
        /\ k - 1 + l * 64 = m - 1 + n * 64
    BY <1>3, <1>4, <1>6, <2>1
  <2>3. k = m /\ l = n
    BY <2>2
  <2>4. o.kind = p.kind /\ o.list = p.list
    BY <1>4, <2>1, <2>3
  <2>5. QED
    BY <2>4 DEF Operands
<1>7. QED
  BY <1>5, <1>6

LEMMA SignatureDefined ==
  ASSUME NEW ops \in Seq(Operands)
  PROVE  /\ SignatureTo(ops)[0] = 1
         /\ \A k \in 1 .. Len(ops) :
              SignatureTo(ops)[k] = SignatureTo(ops)[k - 1] * 512 + Digit(ops[k])
         /\ \A k \in 0 .. Len(ops) : SignatureTo(ops)[k] \in Nat \ {0}
<1> DEFINE D == Nat \ {0}
           N == Len(ops)
           Add(q, n) == q * 512 + Digit(ops[n])
           g == [x \in (1 .. N) \X D |-> Add(x[2], x[1])]
           Body(f) == [n \in 0 .. N |-> IF n = 0 THEN 1 ELSE f[n - 1] * 512 + Digit(ops[n])]
           w == SignatureTo(ops)
<1>1. N \in Nat /\ 1 \in D
  OBVIOUS
<1>2. ASSUME NEW q \in D, NEW n \in 1 .. N
      PROVE  Add(q, n) \in D
  <2>1. ops[n] \in Operands
    OBVIOUS
  <2>2. PICK d \in 0 .. 511 : d = Digit(ops[n])
    BY <2>1, DigitFacts
  <2>3. q * 512 + d \in D
    BY <2>2, KeysGrow, ZenonT(60)
  <2>4. QED
    BY <2>2, <2>3
<1>3. g \in [((0 + 1) .. N) \X D -> D]
  <2> HIDE DEF Add
  <2>1. ASSUME NEW x \in (1 .. N) \X D
        PROVE  Add(x[2], x[1]) \in D
    <3>1. x[2] \in D /\ x[1] \in 1 .. N
      OBVIOUS
    <3>2. QED
      BY <1>2, <3>1
  <2>2. QED
    BY <2>1
<1>4. PICK f \in [0 .. N -> D] :
        f[0] = 1 /\ \A k \in 1 .. N : f[k] = g[<<k, f[k - 1]>>]
  <2> HIDE DEF g, D
  <2>1. 0 \in Nat /\ 0 <= N
    BY <1>1
  <2>2. \E f : Recurses(f, 0, N, D, 1, g)
    BY <1>1, <1>3, <2>1, RecursionExists
  <2>3. 0 + 1 = 1
    OBVIOUS
  <2>4. QED
    BY <2>2, <2>3 DEF Recurses
<1>5. ASSUME NEW k \in 1 .. N
      PROVE  f[k] = Add(f[k - 1], k)
  <2> HIDE DEF D, Add
  <2>1. <<k, f[k - 1]>> \in (1 .. N) \X D
    BY <1>1, <1>4
  <2>2. PICK x : x = <<k, f[k - 1]>>
    OBVIOUS
  <2>3. /\ x \in (1 .. N) \X D /\ x[1] = k /\ x[2] = f[k - 1]
        /\ f[k] = g[x]
    BY <1>4, <2>1, <2>2
  <2>4. g[x] = Add(x[2], x[1])
    BY <2>3
  <2>5. QED
    BY <2>3, <2>4
<1>6. f = Body(f)
  <2>1. ASSUME NEW n \in 0 .. N
        PROVE  f[n] = IF n = 0 THEN 1 ELSE Add(f[n - 1], n)
    <3> HIDE DEF D, Add, g
    <3>1. QED
      BY <1>1, <1>4, <1>5
  <2>2. QED
    BY <2>1
<1>7. w = CHOOSE h : h = Body(h)
  BY DEF SignatureTo
<1>8. w = Body(w)
  <2> HIDE DEF Body, w
  <2>1. QED
    BY <1>6, <1>7 DEF w
<1> HIDE DEF w
<1>9. /\ w[0] = 1
      /\ \A k \in 1 .. N : w[k] = Add(w[k - 1], k)
  BY <1>1, <1>8
<1> DEFINE S == {n \in Nat : n <= N => w[n] \in D}
<1>10. 0 \in S
  BY <1>9
<1>11. ASSUME NEW n \in S
       PROVE  n + 1 \in S
  <2>1. SUFFICES ASSUME n + 1 <= N
                 PROVE  w[n + 1] \in D
    OBVIOUS
  <2>2. n + 1 \in 1 .. N /\ (n + 1) - 1 = n /\ w[n] \in D
    BY <1>1, <2>1
  <2> HIDE DEF Add
  <2>3. QED
    BY <1>2, <1>9, <2>2
<1>12. S \in SUBSET Nat
  OBVIOUS
<1> HIDE DEF S
<1>13. S = Nat
  BY <1>10, <1>11, <1>12, NatSet
<1>14. \A k \in 0 .. N : w[k] \in D
  BY <1>1, <1>13 DEF S
<1>15. QED
  BY <1>9, <1>14 DEF w

\* Two lists of operand classes with one key are one list.
LEMMA SignatureIsInjective ==
  ASSUME NEW a \in Seq(Operands), NEW b \in Seq(Operands), Signature(a) = Signature(b)
  PROVE  a = b
<1> DEFINE Same(i, j) == i = j /\ \A k \in 1 .. i : a[k] = b[k]
           S == {i \in Nat : i <= Len(a) =>
                   \A j \in 0 .. Len(b) : SignatureTo(a)[i] = SignatureTo(b)[j] => Same(i, j)}
<1>0. /\ Len(a) \in Nat /\ Len(b) \in Nat
      /\ \A i \in 1 .. Len(a) : a[i] \in Operands
      /\ \A j \in 1 .. Len(b) : b[j] \in Operands
  OBVIOUS
<1>1. ASSUME NEW c \in Seq(Operands), NEW i \in 0 .. Len(c), NEW j \in 1 .. Len(c), j = i + 1
      PROVE  /\ SignatureTo(c)[i] \in Nat \ {0} /\ Digit(c[j]) \in 0 .. 511
             /\ SignatureTo(c)[j] = SignatureTo(c)[i] * 512 + Digit(c[j])
  <2>1. c[j] \in Operands
    OBVIOUS
  <2>2. Digit(c[j]) \in 0 .. 511
    BY <2>1, DigitFacts
  <2>3. /\ SignatureTo(c)[i] \in Nat \ {0}
        /\ SignatureTo(c)[j] = SignatureTo(c)[j - 1] * 512 + Digit(c[j])
    BY SignatureDefined
  <2>4. j - 1 = i
    BY <1>1
  <2>5. QED
    BY <2>2, <2>3, <2>4
<1>2. 0 \in S
  <2>1. SUFFICES ASSUME NEW j \in 0 .. Len(b), SignatureTo(a)[0] = SignatureTo(b)[j]
                 PROVE  Same(0, j)
    OBVIOUS
  <2>2. SignatureTo(b)[j] = 1
    BY <2>1, SignatureDefined
  <2>3. j = 0
    <3>1. SUFFICES ASSUME j # 0
                   PROVE  FALSE
      OBVIOUS
    <3>2. PICK i : i = j - 1
      OBVIOUS
    <3>3. i \in 0 .. Len(b) /\ j \in 1 .. Len(b) /\ j = i + 1
      BY <1>0, <3>1, <3>2
    <3>4. PICK y, e : y = SignatureTo(b)[i] /\ e = Digit(b[j])
      OBVIOUS
    <3>5. y \in Nat \ {0} /\ e \in 0 .. 511 /\ 1 = y * 512 + e
      <4>1. /\ SignatureTo(b)[i] \in Nat \ {0} /\ Digit(b[j]) \in 0 .. 511
            /\ SignatureTo(b)[j] = SignatureTo(b)[i] * 512 + Digit(b[j])
        BY <1>1, <3>3
      <4>2. QED
        BY <2>2, <3>4, <4>1
    <3>6. QED
      BY <3>5, KeysGrow
  <2>4. QED
    BY <2>3
<1>3. ASSUME NEW i \in S
      PROVE  i + 1 \in S
  <2>1. SUFFICES ASSUME i + 1 <= Len(a),
                        NEW j \in 0 .. Len(b), SignatureTo(a)[i + 1] = SignatureTo(b)[j]
                 PROVE  Same(i + 1, j)
    OBVIOUS
  <2>2. PICK m, k : m = i + 1 /\ k = j - 1
    OBVIOUS
  <2>3. i \in 0 .. Len(a) /\ m \in 1 .. Len(a)
    BY <1>0, <2>1, <2>2
  <2>4. PICK x, d : x = SignatureTo(a)[i] /\ d = Digit(a[m])
    OBVIOUS
  <2>5. x \in Nat \ {0} /\ d \in 0 .. 511 /\ SignatureTo(b)[j] = x * 512 + d
    <3>1. /\ SignatureTo(a)[i] \in Nat \ {0} /\ Digit(a[m]) \in 0 .. 511
          /\ SignatureTo(a)[m] = SignatureTo(a)[i] * 512 + Digit(a[m])
      BY <1>1, <2>2, <2>3
    <3>2. QED
      BY <2>1, <2>2, <2>4, <3>1
  <2>6. j # 0
    <3>1. SignatureTo(b)[0] = 1
      BY SignatureDefined
    <3>2. x * 512 + d # 1
      BY <2>5, KeysGrow
    <3>3. QED
      BY <2>5, <3>1, <3>2
  <2>7. k \in 0 .. Len(b) /\ j \in 1 .. Len(b) /\ j = k + 1
    BY <1>0, <2>2, <2>6
  <2>8. PICK y, e : y = SignatureTo(b)[k] /\ e = Digit(b[j])
    OBVIOUS
  <2>9. y \in Nat \ {0} /\ e \in 0 .. 511 /\ x * 512 + d = y * 512 + e
    <3>1. /\ SignatureTo(b)[k] \in Nat \ {0} /\ Digit(b[j]) \in 0 .. 511
          /\ SignatureTo(b)[j] = SignatureTo(b)[k] * 512 + Digit(b[j])
      BY <1>1, <2>7
    <3>2. QED
      BY <2>5, <2>8, <3>1
  <2>10. x = y /\ d = e
    <3>1. x \in Nat /\ y \in Nat /\ d \in 0 .. 511 /\ e \in 0 .. 511
      BY <2>5, <2>9
    <3>2. x * 512 + d = y * 512 + e
      BY <2>9
    <3>3. QED
      BY <3>1, <3>2
  <2>11. Same(i, k)
    <3>1. SignatureTo(a)[i] = SignatureTo(b)[k] /\ i <= Len(a)
      BY <2>3, <2>4, <2>8, <2>10
    <3> HIDE DEF Same
    <3>2. QED
      BY <2>7, <3>1
  <2>12. a[m] = b[j]
    BY <1>0, <2>3, <2>4, <2>7, <2>8, <2>10, DigitFacts
  <2>13. \A n \in 1 .. m : a[n] = b[n]
    <3>1. m = j
      BY <2>2, <2>7, <2>11
    <3>2. ASSUME NEW n \in 1 .. m
          PROVE  n \in 1 .. i \/ n = m
      BY <2>2
    <3>3. QED
      BY <2>11, <2>12, <3>1, <3>2
  <2>14. QED
    BY <2>2, <2>7, <2>11, <2>13
<1>4. S \in SUBSET Nat
  OBVIOUS
<1> HIDE DEF S
<1>5. S = Nat
  BY <1>2, <1>3, <1>4, NatSet
<1>6. Same(Len(a), Len(b))
  BY <1>0, <1>5 DEF S, Signature
<1>7. QED
  BY <1>0, <1>6

-----------------------------------------------------------------------------
LEMMA PriorityDefined ==
  ASSUME NEW F, NEW fs \in Seq(F), NEW p
  PROVE  /\ PriorityTo(fs, p)[0] = <<>>
         /\ \A k \in 1 .. Len(fs) :
              PriorityTo(fs, p)[k] =
                IF Priority(fs[k]) = p THEN Append(PriorityTo(fs, p)[k - 1], fs[k])
                ELSE PriorityTo(fs, p)[k - 1]
         /\ \A k \in 0 .. Len(fs) : PriorityTo(fs, p)[k] \in Seq(F)
<1> DEFINE D == Seq(F)
           N == Len(fs)
           Add(q, n) == IF Priority(fs[n]) = p THEN Append(q, fs[n]) ELSE q
           g == [x \in (1 .. N) \X D |-> Add(x[2], x[1])]
           Body(f) == [n \in 0 .. N |-> IF n = 0 THEN <<>> ELSE Add(f[n - 1], n)]
           w == PriorityTo(fs, p)
<1>1. N \in Nat /\ <<>> \in D
  OBVIOUS
<1>2. ASSUME NEW q \in D, NEW n \in 1 .. N
      PROVE  Add(q, n) \in D
  <2>1. fs[n] \in F
    OBVIOUS
  <2>2. Append(q, fs[n]) \in D
    BY <2>1, AppendFacts
  <2>3. QED
    BY <2>2
<1>3. g \in [((0 + 1) .. N) \X D -> D]
  <2> HIDE DEF Add
  <2>1. ASSUME NEW x \in (1 .. N) \X D
        PROVE  Add(x[2], x[1]) \in D
    <3>1. x[2] \in D /\ x[1] \in 1 .. N
      OBVIOUS
    <3>2. QED
      BY <1>2, <3>1
  <2>2. QED
    BY <2>1
<1>4. PICK f \in [0 .. N -> D] :
        f[0] = <<>> /\ \A k \in 1 .. N : f[k] = g[<<k, f[k - 1]>>]
  <2> HIDE DEF g, D
  <2>1. 0 \in Nat /\ 0 <= N
    BY <1>1
  <2>2. \E f : Recurses(f, 0, N, D, <<>>, g)
    BY <1>1, <1>3, <2>1, RecursionExists
  <2>3. 0 + 1 = 1
    OBVIOUS
  <2>4. QED
    BY <2>2, <2>3 DEF Recurses
<1>5. ASSUME NEW k \in 1 .. N
      PROVE  f[k] = Add(f[k - 1], k)
  <2> HIDE DEF D, Add
  <2>1. <<k, f[k - 1]>> \in (1 .. N) \X D
    BY <1>1, <1>4
  <2>2. PICK x : x = <<k, f[k - 1]>>
    OBVIOUS
  <2>3. /\ x \in (1 .. N) \X D /\ x[1] = k /\ x[2] = f[k - 1]
        /\ f[k] = g[x]
    BY <1>4, <2>1, <2>2
  <2>4. g[x] = Add(x[2], x[1])
    BY <2>3
  <2>5. QED
    BY <2>3, <2>4
<1>6. f = Body(f)
  <2>1. ASSUME NEW n \in 0 .. N
        PROVE  f[n] = IF n = 0 THEN <<>> ELSE Add(f[n - 1], n)
    <3> HIDE DEF D, Add, g
    <3>1. QED
      BY <1>1, <1>4, <1>5
  <2>2. QED
    BY <2>1
<1>7. w = CHOOSE h : h = Body(h)
  BY DEF PriorityTo
<1>8. w = Body(w)
  <2> HIDE DEF Body, w
  <2>1. QED
    BY <1>6, <1>7 DEF w
<1> HIDE DEF w
<1>9. /\ w[0] = <<>>
      /\ \A k \in 1 .. N : w[k] = Add(w[k - 1], k)
  <2> HIDE DEF Add
  <2>1. QED
    BY <1>1, <1>8
<1> DEFINE S == {n \in Nat : n <= N => w[n] \in D}
<1>10. 0 \in S
  BY <1>1, <1>9
<1>11. ASSUME NEW n \in S
       PROVE  n + 1 \in S
  <2>1. SUFFICES ASSUME n + 1 <= N
                 PROVE  w[n + 1] \in D
    OBVIOUS
  <2>2. n + 1 \in 1 .. N /\ (n + 1) - 1 = n /\ w[n] \in D
    BY <1>1, <2>1
  <2> HIDE DEF Add
  <2>3. QED
    BY <1>2, <1>9, <2>2
<1>12. S \in SUBSET Nat
  OBVIOUS
<1> HIDE DEF S
<1>13. S = Nat
  BY <1>10, <1>11, <1>12, NatSet
<1>14. \A k \in 0 .. N : w[k] \in D
  BY <1>1, <1>13 DEF S
<1>15. QED
  BY <1>9, <1>14 DEF w

PriorityOf(fs, p) == PriorityTo(fs, p)[Len(fs)]

Ordered(s) == \A i, j \in 1 .. Len(s) : i < j => Priority(s[i]) <= Priority(s[j])
Between(s, low, high) == \A i \in 1 .. Len(s) : Priority(s[i]) \in low .. high

\* Every form of a priority, and no other, is among those of it.
LEMMA PriorityHolds ==
  ASSUME NEW F, NEW fs \in Seq(F), NEW p
  PROVE  /\ \A x \in Range(PriorityOf(fs, p)) : Priority(x) = p /\ x \in Range(fs)
         /\ \A x \in Range(fs) : Priority(x) = p => x \in Range(PriorityOf(fs, p))
<1> DEFINE w == PriorityTo(fs, p)
           N == Len(fs)
           Collected(n) ==
             Range(w[n]) = {fs[i] : i \in {k \in 1 .. n : Priority(fs[k]) = p}}
           S == {n \in Nat : n <= N => Collected(n)}
<1>0. N \in Nat /\ DOMAIN fs = 1 .. N
  OBVIOUS
<1>1. 0 \in S
  <2>1. w[0] = <<>>
    BY PriorityDefined
  <2>2. Range(w[0]) = {}
    BY <2>1 DEF Range
  <2>3. QED
    BY <2>2
<1>2. ASSUME NEW n \in S
      PROVE  n + 1 \in S
  <2>1. SUFFICES ASSUME n + 1 <= N
                 PROVE  Collected(n + 1)
    OBVIOUS
  <2>2. PICK k : k = n + 1
    OBVIOUS
  <2>3. /\ k \in 1 .. N /\ k - 1 = n /\ n \in 0 .. N /\ 1 .. k = (1 .. n) \cup {k}
    BY <1>0, <2>1, <2>2
  <2>4. /\ w[n] \in Seq(F)
        /\ w[k] = IF Priority(fs[k]) = p THEN Append(w[n], fs[k]) ELSE w[n]
    BY <2>3, PriorityDefined
  <2>5. Collected(n)
    BY <2>1, <1>0
  <2> HIDE DEF w
  <2>6. CASE Priority(fs[k]) = p
    <3>1. PICK q \in Seq(F) : q = w[n]
      BY <2>4
    <3>2. Range(Append(q, fs[k])) = Range(q) \cup {fs[k]}
      <4>1. fs[k] \in F
        BY <2>3
      <4>2. /\ Append(q, fs[k]) \in Seq(F) /\ Len(q) \in Nat
            /\ Len(Append(q, fs[k])) = Len(q) + 1
            /\ \A i \in 1 .. Len(q) : Append(q, fs[k])[i] = q[i]
            /\ Append(q, fs[k])[Len(q) + 1] = fs[k]
        BY <4>1, AppendFacts
      <4>3. DOMAIN Append(q, fs[k]) = 1 .. (Len(q) + 1) /\ DOMAIN q = 1 .. Len(q)
        BY <4>2
      <4>4. 1 .. (Len(q) + 1) = (1 .. Len(q)) \cup {Len(q) + 1}
        BY <4>2
      <4>5. QED
        BY <4>2, <4>3, <4>4 DEF Range
    <3>3. {i \in 1 .. k : Priority(fs[i]) = p} = {i \in 1 .. n : Priority(fs[i]) = p} \cup {k}
      BY <2>3, <2>6
    <3>4. Range(w[k]) = Range(w[n]) \cup {fs[k]}
      BY <2>4, <2>6, <3>1, <3>2
    <3>5. QED
      BY <2>2, <2>5, <3>3, <3>4
  <2>7. CASE Priority(fs[k]) # p
    <3>1. {i \in 1 .. k : Priority(fs[i]) = p} = {i \in 1 .. n : Priority(fs[i]) = p}
      BY <2>3, <2>7
    <3>2. QED
      BY <2>2, <2>4, <2>5, <2>7, <3>1
  <2>8. QED
    BY <2>6, <2>7
<1>3. S \in SUBSET Nat
  OBVIOUS
<1> HIDE DEF S
<1>4. S = Nat
  BY <1>1, <1>2, <1>3, NatSet
<1>5. Collected(N)
  BY <1>0, <1>4 DEF S
<1>6. Range(fs) = {fs[i] : i \in 1 .. N}
  BY <1>0 DEF Range
<1>7. QED
  BY <1>5, <1>6 DEF PriorityOf

LEMMA PriorityRange == \A f : Priority(f) \in {0, 1, 2, 3}
BY DEF Priority

\* No form is lost and none is taken twice.
LEMMA PriorityLengths ==
  ASSUME NEW F, NEW fs \in Seq(F)
  PROVE  Len(PriorityOf(fs, 0)) + Len(PriorityOf(fs, 1)) + Len(PriorityOf(fs, 2))
           + Len(PriorityOf(fs, 3)) = Len(fs)
<1> DEFINE L(p, n) == Len(PriorityTo(fs, p)[n])
           N == Len(fs)
           S == {n \in Nat : n <= N => L(0, n) + L(1, n) + L(2, n) + L(3, n) = n}
<1>0. N \in Nat
  OBVIOUS
<1>1. \A p : L(p, 0) = 0
  <2>1. ASSUME NEW p
        PROVE  L(p, 0) = 0
    <3>1. PriorityTo(fs, p)[0] = <<>>
      BY PriorityDefined
    <3>2. QED
      BY <3>1
  <2>2. QED
    BY <2>1
<1>2. ASSUME NEW p, NEW k \in 1 .. N, NEW n \in 0 .. N, k = n + 1
      PROVE  L(p, n) \in Nat /\ L(p, k) = IF Priority(fs[k]) = p THEN L(p, n) + 1 ELSE L(p, n)
  <2>1. k - 1 = n /\ fs[k] \in F
    BY <1>2
  <2>2. PICK q : q = PriorityTo(fs, p)[n]
    OBVIOUS
  <2>3. /\ q \in Seq(F)
        /\ PriorityTo(fs, p)[k] = IF Priority(fs[k]) = p THEN Append(q, fs[k]) ELSE q
    BY <2>1, <2>2, PriorityDefined
  <2>4. Len(q) \in Nat /\ Len(Append(q, fs[k])) = Len(q) + 1
    BY <2>1, <2>3, AppendFacts
  <2>5. QED
    BY <2>2, <2>3, <2>4
<1> HIDE DEF L
<1>3. 0 \in S
  BY <1>1
<1>4. ASSUME NEW n \in S
      PROVE  n + 1 \in S
  <2>1. SUFFICES ASSUME n + 1 <= N
                 PROVE  L(0, n + 1) + L(1, n + 1) + L(2, n + 1) + L(3, n + 1) = n + 1
    OBVIOUS
  <2>2. PICK k : k = n + 1
    OBVIOUS
  <2>3. k \in 1 .. N /\ n \in 0 .. N
    BY <1>0, <2>1, <2>2
  <2>4. L(0, n) + L(1, n) + L(2, n) + L(3, n) = n
    BY <1>0, <2>1
  <2>5. \A p : L(p, n) \in Nat /\ L(p, k) = IF Priority(fs[k]) = p THEN L(p, n) + 1 ELSE L(p, n)
    BY <1>2, <2>2, <2>3
  <2>6. PICK r \in {0, 1, 2, 3} : r = Priority(fs[k])
    BY PriorityRange
  <2>7. /\ L(0, n) \in Nat /\ L(1, n) \in Nat /\ L(2, n) \in Nat /\ L(3, n) \in Nat
        /\ L(0, k) = IF r = 0 THEN L(0, n) + 1 ELSE L(0, n)
        /\ L(1, k) = IF r = 1 THEN L(1, n) + 1 ELSE L(1, n)
        /\ L(2, k) = IF r = 2 THEN L(2, n) + 1 ELSE L(2, n)
        /\ L(3, k) = IF r = 3 THEN L(3, n) + 1 ELSE L(3, n)
    BY <2>5, <2>6
  <2>8. QED
    BY <2>2, <2>4, <2>7
<1>5. S \in SUBSET Nat
  OBVIOUS
<1> HIDE DEF S
<1>6. S = Nat
  BY <1>3, <1>4, <1>5, NatSet
<1>7. N \in S
  BY <1>0, <1>6
<1>8. L(0, N) + L(1, N) + L(2, N) + L(3, N) = N
  BY <1>0, <1>7 DEF S
<1>9. \A p : L(p, N) = Len(PriorityOf(fs, p))
  BY DEF L, PriorityOf
<1>10. QED
  BY <1>8, <1>9

\* Forms of one priority after forms of lower ones.
LEMMA OrderedJoin ==
  ASSUME NEW F, NEW a \in Seq(F), NEW b \in Seq(F), NEW p \in Nat, NEW q \in Nat, p < q,
         Ordered(a), Between(a, 0, p), Between(b, q, q)
  PROVE  /\ a \o b \in Seq(F) /\ Len(a \o b) = Len(a) + Len(b)
         /\ Range(a \o b) = Range(a) \cup Range(b)
         /\ Ordered(a \o b) /\ Between(a \o b, 0, q)
<1> DEFINE s == a \o b
<1>1. /\ s \in Seq(F) /\ Len(a) \in Nat /\ Len(b) \in Nat
      /\ Len(s) = Len(a) + Len(b)
      /\ \A k \in 1 .. Len(a) : s[k] = a[k]
      /\ \A k \in 1 .. Len(b) : s[Len(a) + k] = b[k]
      /\ DOMAIN s = 1 .. Len(s) /\ DOMAIN a = 1 .. Len(a) /\ DOMAIN b = 1 .. Len(b)
  OBVIOUS
<1> HIDE DEF s
<1>2. ASSUME NEW k \in 1 .. Len(s)
      PROVE  \/ k \in 1 .. Len(a) /\ s[k] = a[k]
             \/ k > Len(a) /\ \E j \in 1 .. Len(b) : s[k] = b[j]
  <2>1. CASE k \in 1 .. Len(a)
    BY <1>1, <2>1
  <2>2. CASE k \notin 1 .. Len(a)
    <3>1. PICK j : j = k - Len(a)
      OBVIOUS
    <3>2. j \in 1 .. Len(b) /\ k = Len(a) + j /\ k > Len(a)
      BY <1>1, <2>2, <3>1
    <3>3. QED
      BY <1>1, <3>2
  <2>3. QED
    BY <2>1, <2>2
<1>3. Range(s) = Range(a) \cup Range(b)
  <2>1. Range(s) \subseteq Range(a) \cup Range(b)
    BY <1>1, <1>2 DEF Range
  <2>2. ASSUME NEW k \in 1 .. Len(a)
        PROVE  k \in 1 .. Len(s) /\ s[k] = a[k]
    BY <1>1
  <2>3. ASSUME NEW k \in 1 .. Len(b)
        PROVE  Len(a) + k \in 1 .. Len(s) /\ s[Len(a) + k] = b[k]
    BY <1>1
  <2>4. Range(a) \subseteq Range(s)
    BY <1>1, <2>2 DEF Range
  <2>5. Range(b) \subseteq Range(s)
    BY <1>1, <2>3 DEF Range
  <2>6. QED
    BY <2>1, <2>4, <2>5
<1>4. ASSUME NEW k \in 1 .. Len(s)
      PROVE  \/ k \in 1 .. Len(a) /\ s[k] = a[k] /\ Priority(s[k]) \in 0 .. p
             \/ k > Len(a) /\ Priority(s[k]) = q
  BY <1>1, <1>2 DEF Between
<1>5. ASSUME NEW i \in 1 .. Len(s), NEW j \in 1 .. Len(s), i < j
      PROVE  Priority(s[i]) <= Priority(s[j])
  <2>1. CASE j \in 1 .. Len(a) /\ s[j] = a[j]
    <3>1. i \in 1 .. Len(a)
      BY <1>1, <1>5, <2>1
    <3>2. QED
      BY <1>1, <1>5, <2>1, <3>1 DEF Ordered
  <2>2. CASE j > Len(a) /\ Priority(s[j]) = q
    BY <1>4, <2>2
  <2>3. QED
    BY <1>4, <2>1, <2>2
<1>6. Ordered(s)
  BY <1>5 DEF Ordered
<1>7. Between(s, 0, q)
  BY <1>4 DEF Between
<1>8. QED
  BY <1>1, <1>3, <1>6, <1>7 DEF s

LEMMA SortedFacts ==
  ASSUME NEW F, NEW fs \in Seq(F)
  PROVE  /\ Sorted(fs) \in Seq(F) /\ Len(Sorted(fs)) = Len(fs)
         /\ Range(Sorted(fs)) = Range(fs)
         /\ Ordered(Sorted(fs))
<1> DEFINE a == PriorityOf(fs, 0)
           b == PriorityOf(fs, 1)
           c == PriorityOf(fs, 2)
           d == PriorityOf(fs, 3)
<1>1. a \in Seq(F) /\ b \in Seq(F) /\ c \in Seq(F) /\ d \in Seq(F)
  <2>1. ASSUME NEW p
        PROVE  PriorityOf(fs, p) \in Seq(F)
    <3>1. Len(fs) \in 0 .. Len(fs)
      OBVIOUS
    <3>2. QED
      BY <3>1, PriorityDefined DEF PriorityOf
  <2>2. QED
    BY <2>1
<1>2. /\ \A x \in Range(a) : Priority(x) = 0 /\ x \in Range(fs)
      /\ \A x \in Range(b) : Priority(x) = 1 /\ x \in Range(fs)
      /\ \A x \in Range(c) : Priority(x) = 2 /\ x \in Range(fs)
      /\ \A x \in Range(d) : Priority(x) = 3 /\ x \in Range(fs)
  BY PriorityHolds
<1>3. \A x \in Range(fs) : x \in Range(a) \cup Range(b) \cup Range(c) \cup Range(d)
  <2>1. ASSUME NEW x \in Range(fs)
        PROVE  x \in Range(a) \cup Range(b) \cup Range(c) \cup Range(d)
    <3>1. PICK r \in {0, 1, 2, 3} : r = Priority(x)
      BY PriorityRange
    <3>2. x \in Range(PriorityOf(fs, r))
      BY <3>1, PriorityHolds
    <3>3. QED
      BY <3>1, <3>2
  <2>2. QED
    BY <2>1
<1>4. Len(a) + Len(b) + Len(c) + Len(d) = Len(fs)
  BY PriorityLengths
<1>5. Sorted(fs) = ((a \o b) \o c) \o d
  BY DEF Sorted, PriorityOf
<1> HIDE DEF a, b, c, d
<1>6. ASSUME NEW q \in Nat, NEW z \in Seq(F), \A x \in Range(z) : Priority(x) = q
      PROVE  Ordered(z) /\ Between(z, q, q)
  <2>1. \A i \in 1 .. Len(z) : Priority(z[i]) = q
    BY <1>6 DEF Range
  <2>2. QED
    BY <2>1 DEF Ordered, Between
<1>11. /\ Ordered(a) /\ Between(a, 0, 0) /\ Between(b, 1, 1) /\ Between(c, 2, 2) /\ Between(d, 3, 3)
  BY <1>1, <1>2, <1>6
<1> DEFINE ab == a \o b
           abc == ab \o c
<1>7. 0 \in Nat /\ 1 \in Nat /\ 2 \in Nat /\ 3 \in Nat /\ 0 < 1 /\ 1 < 2 /\ 2 < 3
  OBVIOUS
<1>8. /\ ab \in Seq(F) /\ Len(ab) = Len(a) + Len(b) /\ Range(ab) = Range(a) \cup Range(b)
      /\ Ordered(ab) /\ Between(ab, 0, 1)
  BY <1>1, <1>7, <1>11, OrderedJoin
<1> HIDE DEF ab
<1>9. /\ abc \in Seq(F) /\ Len(abc) = Len(ab) + Len(c) /\ Range(abc) = Range(ab) \cup Range(c)
      /\ Ordered(abc) /\ Between(abc, 0, 2)
  <2>1. /\ ab \in Seq(F) /\ c \in Seq(F)
        /\ Ordered(ab) /\ Between(ab, 0, 1) /\ Between(c, 2, 2)
    BY <1>1, <1>8, <1>11
  <2>2. 1 \in Nat /\ 2 \in Nat /\ 1 < 2
    OBVIOUS
  <2>3. QED
    BY <2>1, <2>2, OrderedJoin
<1> HIDE DEF abc
<1>10. /\ abc \o d \in Seq(F) /\ Len(abc \o d) = Len(abc) + Len(d)
       /\ Range(abc \o d) = Range(abc) \cup Range(d)
       /\ Ordered(abc \o d)
  <2>1. /\ abc \in Seq(F) /\ d \in Seq(F)
        /\ Ordered(abc) /\ Between(abc, 0, 2) /\ Between(d, 3, 3)
    BY <1>1, <1>9, <1>11
  <2>2. 2 \in Nat /\ 3 \in Nat /\ 2 < 3
    OBVIOUS
  <2>3. QED
    BY <2>1, <2>2, OrderedJoin
<1>12. Sorted(fs) = abc \o d
  BY <1>5 DEF abc, ab
<1>13. Len(abc \o d) = Len(fs)
  BY <1>1, <1>4, <1>8, <1>9, <1>10
<1>14. Range(abc \o d) = Range(fs)
  BY <1>2, <1>3, <1>8, <1>9, <1>10
<1>15. QED
  BY <1>10, <1>12, <1>13, <1>14

-----------------------------------------------------------------------------
\* The forms in the order of the loop, and an alternative that was written for
\* one of them under its key.
InOrder == Sorted(mnemonic)

WrittenFor(a, key) ==
    \E i \in 1 .. nextForm - 1 : a = Alternative(InOrder[i]) /\ Signature(InOrder[i].kinds) = key

ListsOK ==
    \A key :
      /\ IsSequence(AlternativesFor(key))
      /\ \A n \in 1 .. Len(AlternativesFor(key)) :
           /\ WrittenFor(AlternativesFor(key)[n], key)
           /\ \A m \in 1 .. n - 1 :
                /\ Priority(AlternativesFor(key)[m].form) <= Priority(AlternativesFor(key)[n].form)
                /\ AlternativesFor(key)[m].selector # AlternativesFor(key)[n].selector

\* What a form accepts is accepted, by it or by one that is preferred to it.
Served(form) ==
    \E n \in 1 .. Len(AlternativesFor(Signature(form.kinds))) :
      LET a == AlternativesFor(Signature(form.kinds))[n]
      IN  a.selector = Selector(form) /\ a.word = form.word /\ Priority(a.form) <= Priority(form)

Conflict ==
    \E f, g \in Range(mnemonic) : f.kinds = g.kinds /\ Selector(f) = Selector(g) /\ f.word # g.word

SelectionInv ==
    /\ mnemonic \in Seq(MnemonicForms) /\ nextForm \in 1 .. Len(mnemonic) + 1
    /\ ListsOK
    /\ rendering # "refused" => \A i \in 1 .. nextForm - 1 : Served(InOrder[i])
    /\ rendering = "refused" => Conflict
    /\ rendering = "done" => nextForm = Len(mnemonic) + 1

LEMMA InOrderFacts ==
  ASSUME mnemonic \in Seq(MnemonicForms)
  PROVE  /\ Len(mnemonic) \in Nat /\ Len(InOrder) = Len(mnemonic) /\ Ordered(InOrder)
         /\ \A i \in 1 .. Len(mnemonic) :
              /\ InOrder[i] \in MnemonicForms /\ InOrder[i] \in Range(mnemonic)
              /\ InOrder[i].kinds \in Seq(Operands)
         /\ \A f \in Range(mnemonic) : \E i \in 1 .. Len(mnemonic) : f = InOrder[i]
<1>1. /\ InOrder \in Seq(MnemonicForms) /\ Len(InOrder) = Len(mnemonic)
      /\ Range(InOrder) = Range(mnemonic) /\ Ordered(InOrder)
  BY SortedFacts DEF InOrder
<1>2. Len(mnemonic) \in Nat /\ DOMAIN InOrder = 1 .. Len(mnemonic)
  BY <1>1
<1>3. ASSUME NEW i \in 1 .. Len(mnemonic)
      PROVE  /\ InOrder[i] \in MnemonicForms /\ InOrder[i] \in Range(mnemonic)
             /\ InOrder[i].kinds \in Seq(Operands)
  <2>1. InOrder[i] \in MnemonicForms
    BY <1>1
  <2>2. InOrder[i] \in Range(InOrder)
    BY <1>2 DEF Range
  <2>3. QED
    BY <1>1, <2>1, <2>2, SelectionAssumption
<1>4. \A f \in Range(mnemonic) : \E i \in 1 .. Len(mnemonic) : f = InOrder[i]
  BY <1>1, <1>2 DEF Range
<1>5. QED
  BY <1>1, <1>2, <1>3, <1>4

LEMMA SelectionStart == SelectionInit => SelectionInv
<1> SUFFICES ASSUME SelectionInit
             PROVE  SelectionInv
  OBVIOUS
<1>1. mnemonic \in Seq(MnemonicForms) /\ Len(mnemonic) \in Nat
  <2>1. PICK n \in 1 .. MaxForms : mnemonic \in [1 .. n -> MnemonicForms]
    BY DEF SelectionInit
  <2>2. n \in Nat
    OBVIOUS
  <2>3. QED
    BY <2>1, <2>2, FunctionIsSequence
<1>2. nextForm = 1 /\ rendering = "rendering" /\ DOMAIN function = {}
  BY DEF SelectionInit
<1>3. \A key : AlternativesFor(key) = <<>>
  BY <1>2 DEF AlternativesFor
<1>4. <<>> \in Seq({}) /\ Len(<<>>) = 0
  OBVIOUS
<1>5. IsSequence(<<>>)
  BY <1>4, SequenceOf
<1>6. ListsOK
  BY <1>3, <1>4, <1>5 DEF ListsOK
<1>7. QED
  BY <1>1, <1>2, <1>6 DEF SelectionInv

\* A form that is met for the first time: its alternative goes to the end.
LEMMA FormAppended ==
  ASSUME SelectionInv, NEW form, NEW key, key = Signature(form.kinds),
         nextForm \in 1 .. Len(mnemonic), form = InOrder[nextForm],
         ~ Ambiguous(form), UNCHANGED mnemonic, nextForm' = nextForm + 1,
         function' = WithKey(key, Append(AlternativesFor(key), Alternative(form)))
  PROVE  /\ ListsOK'
         /\ (\A i \in 1 .. nextForm - 1 : Served(InOrder[i]))
              => \A i \in 1 .. nextForm' - 1 : Served(InOrder[i])'
<1>old. PICK old : old = AlternativesFor(key)
  OBVIOUS
<1>new. PICK new : new = Append(old, Alternative(form))
  OBVIOUS
<1>0. /\ mnemonic \in Seq(MnemonicForms) /\ nextForm \in Nat /\ InOrder' = InOrder
      /\ ListsOK
  BY DEF SelectionInv, InOrder
<1>1. \A k : AlternativesFor(k)' = IF k = key THEN new ELSE AlternativesFor(k)
  BY <1>old, <1>new DEF AlternativesFor, WithKey
<1>2. /\ IsSequence(old) /\ Len(old) \in Nat
      /\ IsSequence(new) /\ Len(new) = Len(old) + 1
      /\ \A n \in 1 .. Len(old) : new[n] = old[n]
      /\ new[Len(old) + 1] = Alternative(form)
  <2>1. IsSequence(old)
    BY <1>0, <1>old DEF ListsOK
  <2> DEFINE T == Range(old) \cup {Alternative(form)}
  <2>2. old \in Seq(T)
    <3>1. Len(old) \in Nat /\ old \in [1 .. Len(old) -> T]
      BY <2>1 DEF IsSequence, Range
    <3>2. QED
      BY <3>1, FunctionIsSequence
  <2>3. Alternative(form) \in T
    OBVIOUS
  <2> HIDE DEF T
  <2>4. /\ new \in Seq(T) /\ Len(old) \in Nat /\ Len(new) = Len(old) + 1
        /\ \A n \in 1 .. Len(old) : new[n] = old[n]
        /\ new[Len(old) + 1] = Alternative(form)
    BY <2>2, <2>3, <1>new, AppendFacts
  <2>5. QED
    BY <2>1, <2>4, SequenceOf
<1>3. ASSUME NEW a, NEW k, WrittenFor(a, k)
      PROVE  WrittenFor(a, k)'
  BY <1>0, <1>3 DEF WrittenFor
<1>4. WrittenFor(Alternative(form), key)'
  BY <1>0 DEF WrittenFor
<1>5. ASSUME NEW n \in 1 .. Len(old)
      PROVE  /\ Priority(old[n].form) <= Priority(form)
             /\ old[n].selector # Selector(form)
  <2>1. WrittenFor(old[n], key)
    BY <1>0, <1>old DEF ListsOK
  <2>2. PICK i \in 1 .. nextForm - 1 : old[n] = Alternative(InOrder[i])
    BY <2>1 DEF WrittenFor
  <2>3. old[n].form = InOrder[i]
    BY <2>2 DEF Alternative
  <2>4. Priority(InOrder[i]) <= Priority(InOrder[nextForm])
    <3>1. Ordered(InOrder) /\ Len(InOrder) = Len(mnemonic) /\ Len(mnemonic) \in Nat
      BY <1>0, InOrderFacts
    <3>2. i \in 1 .. Len(InOrder) /\ nextForm \in 1 .. Len(InOrder) /\ i < nextForm
      BY <1>0, <3>1
    <3>3. QED
      BY <3>1, <3>2 DEF Ordered
  <2>5. n \in DOMAIN old
    BY <1>2, SequenceFacts
  <2>6. old[n].selector # Selector(form)
    BY <2>5, <1>old DEF Ambiguous
  <2>7. QED
    BY <2>3, <2>4, <2>6
<1>6. Alternative(form).form = form /\ Alternative(form).selector = Selector(form)
      /\ Alternative(form).word = form.word
  BY DEF Alternative
<1>7. ASSUME NEW n \in 1 .. Len(new)
      PROVE  /\ WrittenFor(new[n], key)'
             /\ \A m \in 1 .. n - 1 :
                  /\ Priority(new[m].form) <= Priority(new[n].form)
                  /\ new[m].selector # new[n].selector
  <2>1. CASE n \in 1 .. Len(old)
    <3>1. /\ WrittenFor(old[n], key)
          /\ \A m \in 1 .. n - 1 :
               /\ Priority(old[m].form) <= Priority(old[n].form)
               /\ old[m].selector # old[n].selector
      BY <1>0, <1>old, <2>1 DEF ListsOK
    <3>2. /\ new[n] = old[n]
          /\ \A m \in 1 .. n - 1 : new[m] = old[m]
      BY <1>2, <2>1
    <3>3. WrittenFor(new[n], key)'
      BY <1>3, <3>1, <3>2
    <3>4. QED
      BY <3>1, <3>2, <3>3
  <2>2. CASE n \notin 1 .. Len(old)
    <3>1. n = Len(old) + 1 /\ new[n] = Alternative(form)
      BY <1>2, <2>2
    <3>2. \A m \in 1 .. n - 1 : m \in 1 .. Len(old) /\ new[m] = old[m]
      BY <1>2, <3>1
    <3>3. QED
      BY <1>4, <1>5, <1>6, <3>1, <3>2
  <2>3. QED
    BY <2>1, <2>2
<1>8. ListsOK'
  <2>1. ASSUME NEW k
        PROVE  /\ IsSequence(AlternativesFor(k)')
               /\ \A n \in 1 .. Len(AlternativesFor(k)') :
                    /\ WrittenFor(AlternativesFor(k)[n], k)'
                    /\ \A m \in 1 .. n - 1 :
                         /\ Priority(AlternativesFor(k)'[m].form) <= Priority(AlternativesFor(k)'[n].form)
                         /\ AlternativesFor(k)'[m].selector # AlternativesFor(k)'[n].selector
    <3>1. CASE k = key
      <4>1. AlternativesFor(k)' = new
        BY <1>1, <3>1
      <4>2. \A n \in 1 .. Len(new) :
              /\ WrittenFor(new[n], k)'
              /\ \A m \in 1 .. n - 1 :
                   /\ Priority(new[m].form) <= Priority(new[n].form)
                   /\ new[m].selector # new[n].selector
        BY <1>7, <3>1
      <4>3. \A n \in 1 .. Len(AlternativesFor(k)') :
              WrittenFor(AlternativesFor(k)[n], k)'
        BY <4>1, <4>2 DEF WrittenFor
      <4>4. QED
        BY <1>2, <4>1, <4>2, <4>3
    <3>2. CASE k # key
      <4>1. AlternativesFor(k)' = AlternativesFor(k)
        BY <1>1, <3>2
      <4>2. QED
        BY <1>0, <1>3, <4>1 DEF ListsOK
    <3>3. QED
      BY <3>1, <3>2
  <2>2. QED
    BY <2>1 DEF ListsOK
<1>9. ASSUME NEW f, Served(f)
      PROVE  Served(f)'
  <2>1. PICK n \in 1 .. Len(AlternativesFor(Signature(f.kinds))) :
          LET a == AlternativesFor(Signature(f.kinds))[n]
          IN  a.selector = Selector(f) /\ a.word = f.word /\ Priority(a.form) <= Priority(f)
    BY <1>9 DEF Served
  <2>2. /\ n \in 1 .. Len(AlternativesFor(Signature(f.kinds))')
        /\ AlternativesFor(Signature(f.kinds))'[n] = AlternativesFor(Signature(f.kinds))[n]
    <3>1. CASE Signature(f.kinds) = key
      BY <1>1, <1>2, <1>old, <3>1
    <3>2. CASE Signature(f.kinds) # key
      BY <1>1, <3>2
    <3>3. QED
      BY <3>1, <3>2
  <2>3. QED
    BY <2>1, <2>2 DEF Served
<1>10. Served(form)'
  <2>1. /\ Len(old) + 1 \in 1 .. Len(new) /\ AlternativesFor(Signature(form.kinds))' = new
    BY <1>1, <1>2
  <2>2. Priority(form) <= Priority(form)
    BY PriorityRange
  <2>3. QED
    BY <1>2, <1>6, <2>1, <2>2 DEF Served
<1>11. ASSUME \A i \in 1 .. nextForm - 1 : Served(InOrder[i]), NEW i \in 1 .. nextForm' - 1
       PROVE  Served(InOrder[i])'
  <2>1. i \in 1 .. nextForm - 1 \/ i = nextForm
    BY <1>0
  <2>2. QED
    BY <1>0, <1>9, <1>10, <1>11, <2>1
<1>12. QED
  BY <1>8, <1>11

LEMMA SelectionStep == SelectionInv /\ [SelectionNext]_selection => SelectionInv'
<1> SUFFICES ASSUME SelectionInv, [SelectionNext]_selection
             PROVE  SelectionInv'
  OBVIOUS
<1>1. /\ mnemonic \in Seq(MnemonicForms) /\ nextForm \in 1 .. Len(mnemonic) + 1
      /\ ListsOK /\ Len(mnemonic) \in Nat
  BY InOrderFacts DEF SelectionInv
<1>2. ASSUME UNCHANGED <<mnemonic, function>>
      PROVE  /\ InOrder' = InOrder /\ Conflict' = Conflict
             /\ \A key : AlternativesFor(key)' = AlternativesFor(key)
             /\ \A f : Served(f)' <=> Served(f)
  <2>1. \A key : AlternativesFor(key)' = AlternativesFor(key)
    BY <1>2 DEF AlternativesFor
  <2>2. InOrder' = InOrder /\ Conflict' = Conflict
    BY <1>2 DEF InOrder, Conflict
  <2>3. \A f : Served(f)' <=> Served(f)
    BY <2>1 DEF Served
  <2>4. QED
    BY <2>1, <2>2, <2>3
<1>3. ASSUME UNCHANGED <<mnemonic, function>>, nextForm' \in Nat, nextForm <= nextForm'
      PROVE  ListsOK'
  <2>1. ASSUME NEW a, NEW key, WrittenFor(a, key)
        PROVE  WrittenFor(a, key)'
    <3>1. PICK i \in 1 .. nextForm - 1 :
            a = Alternative(InOrder[i]) /\ Signature(InOrder[i].kinds) = key
      BY <2>1 DEF WrittenFor
    <3>2. i \in 1 .. nextForm' - 1
      <4>1. PICK here : here = nextForm
        OBVIOUS
      <4>2. PICK next : next = nextForm'
        OBVIOUS
      <4>3. PICK length : length = Len(mnemonic)
        OBVIOUS
      <4>4. /\ length \in Nat /\ here \in 1 .. length + 1
            /\ next \in Nat /\ here <= next /\ i \in 1 .. here - 1
        BY <1>1, <1>3, <3>1, <4>1, <4>2, <4>3
      <4>5. i \in 1 .. next - 1
        BY <4>4
      <4>6. QED
        BY <4>2, <4>5
    <3>3. InOrder' = InOrder
      BY <1>3 DEF InOrder
    <3>4. QED
      BY <3>1, <3>2, <3>3 DEF WrittenFor
  <2>2. ASSUME NEW key
        PROVE  /\ IsSequence(AlternativesFor(key)')
               /\ \A n \in 1 .. Len(AlternativesFor(key)') :
                    /\ WrittenFor(AlternativesFor(key)[n], key)'
                    /\ \A m \in 1 .. n - 1 :
                         /\ Priority(AlternativesFor(key)'[m].form) <= Priority(AlternativesFor(key)'[n].form)
                         /\ AlternativesFor(key)'[m].selector # AlternativesFor(key)'[n].selector
    <3>1. AlternativesFor(key)' = AlternativesFor(key)
      BY <1>2, <1>3
    <3>2. QED
      BY <1>1, <2>1, <3>1 DEF ListsOK
  <2>3. QED
    BY <2>2 DEF ListsOK
<1>4. CASE UNCHANGED selection
  <2>1. UNCHANGED <<mnemonic, function>> /\ UNCHANGED nextForm /\ UNCHANGED rendering
    BY <1>4 DEF selection
  <2>2. ListsOK'
    BY <1>1, <1>3, <2>1
  <2>3. QED
    BY <1>2, <2>1, <2>2 DEF SelectionInv
<1>5. CASE FinishFunction
  <2>1. /\ UNCHANGED <<mnemonic, function>> /\ UNCHANGED nextForm
        /\ rendering = "rendering" /\ rendering' = "done" /\ nextForm > Len(mnemonic)
    BY <1>5 DEF FinishFunction
  <2>2. ListsOK'
    BY <1>1, <1>3, <2>1
  <2>3. nextForm = Len(mnemonic) + 1
    BY <1>1, <2>1
  <2>4. QED
    BY <1>2, <2>1, <2>2, <2>3 DEF SelectionInv
<1>6. CASE WriteForm
  <2> DEFINE form == InOrder[nextForm]
             key == Signature(form.kinds)
  <2>1. /\ rendering = "rendering" /\ nextForm <= Len(mnemonic)
        /\ nextForm' = nextForm + 1 /\ UNCHANGED mnemonic
        /\ IF Known(form) THEN UNCHANGED <<function, rendering>>
           ELSE IF Ambiguous(form) THEN rendering' = "refused" /\ UNCHANGED function
           ELSE /\ function' = WithKey(key, Append(AlternativesFor(key), Alternative(form)))
                /\ UNCHANGED rendering
    BY <1>6 DEF WriteForm, InOrder
  <2>2. /\ nextForm \in 1 .. Len(mnemonic) /\ nextForm' \in 1 .. Len(mnemonic) + 1
        /\ nextForm' \in Nat /\ nextForm <= nextForm'
    BY <1>1, <2>1
  <2>3. \A i \in 1 .. nextForm - 1 : Served(InOrder[i])
    BY <2>1 DEF SelectionInv
  <2>4. ASSUME NEW n \in DOMAIN AlternativesFor(key)
        PROVE  /\ n \in 1 .. Len(AlternativesFor(key))
               /\ \E i \in 1 .. nextForm - 1 :
                    /\ AlternativesFor(key)[n] = Alternative(InOrder[i])
                    /\ Signature(InOrder[i].kinds) = key
    <3>1. n \in 1 .. Len(AlternativesFor(key))
      <4>1. IsSequence(AlternativesFor(key))
        BY <1>1 DEF ListsOK
      <4>2. QED
        BY <4>1, SequenceFacts
    <3>2. WrittenFor(AlternativesFor(key)[n], key)
      BY <1>1, <3>1 DEF ListsOK
    <3>3. QED
      BY <3>1, <3>2 DEF WrittenFor
  <2>5. CASE Known(form)
    <3>1. UNCHANGED <<mnemonic, function>> /\ rendering' = "rendering"
      BY <2>1, <2>5
    <3>2. ListsOK'
      BY <1>3, <2>2, <3>1
    <3>3. PICK n \in DOMAIN AlternativesFor(key) :
            /\ AlternativesFor(key)[n].selector = Selector(form)
            /\ AlternativesFor(key)[n].word = form.word
      BY <2>5 DEF Known
    <3>4. PICK i \in 1 .. nextForm - 1 : AlternativesFor(key)[n] = Alternative(InOrder[i])
      BY <2>4
    <3>5. Priority(AlternativesFor(key)[n].form) <= Priority(form)
      <4>1. Ordered(InOrder) /\ Len(InOrder) = Len(mnemonic)
        BY <1>1, InOrderFacts
      <4>2. i \in 1 .. Len(InOrder) /\ nextForm \in 1 .. Len(InOrder) /\ i < nextForm
        BY <1>1, <2>2, <4>1
      <4>3. Priority(InOrder[i]) <= Priority(InOrder[nextForm])
        BY <4>1, <4>2 DEF Ordered
      <4>4. AlternativesFor(key)[n].form = InOrder[i]
        BY <3>4 DEF Alternative
      <4>5. QED
        BY <4>3, <4>4
    <3>6. Served(form)
      BY <2>4, <3>3, <3>5 DEF Served
    <3>7. \A i_1 \in 1 .. nextForm' - 1 : Served(InOrder[i_1])
      <4>1. \A j \in 1 .. nextForm' - 1 : j \in 1 .. nextForm - 1 \/ j = nextForm
        BY <1>1, <2>1
      <4>2. QED
        BY <2>3, <3>6, <4>1
    <3>8. QED
      BY <1>1, <1>2, <2>2, <3>1, <3>2, <3>7 DEF SelectionInv
  <2>6. CASE ~Known(form) /\ Ambiguous(form)
    <3>1. UNCHANGED <<mnemonic, function>> /\ rendering' = "refused"
      BY <2>1, <2>6
    <3>2. ListsOK'
      BY <1>3, <2>2, <3>1
    <3>3. PICK n \in DOMAIN AlternativesFor(key) :
            /\ AlternativesFor(key)[n].selector = Selector(form)
            /\ AlternativesFor(key)[n].word # form.word
      BY <2>6 DEF Known, Ambiguous
    <3>4. PICK i \in 1 .. nextForm - 1 :
            /\ AlternativesFor(key)[n] = Alternative(InOrder[i])
            /\ Signature(InOrder[i].kinds) = key
      BY <2>4
    <3>5. /\ Selector(InOrder[i]) = Selector(form) /\ InOrder[i].word # form.word
      BY <3>3, <3>4 DEF Alternative
    <3>6. i \in 1 .. Len(mnemonic)
      BY <1>1, <2>2
    <3>7. /\ InOrder[i] \in Range(mnemonic) /\ form \in Range(mnemonic)
          /\ InOrder[i].kinds \in Seq(Operands) /\ form.kinds \in Seq(Operands)
      BY <1>1, <2>2, <3>6, InOrderFacts
    <3>8. InOrder[i].kinds = form.kinds
      BY <3>4, <3>7, SignatureIsInjective
    <3>9. Conflict
      BY <3>5, <3>7, <3>8 DEF Conflict
    <3>10. QED
      BY <1>1, <1>2, <2>2, <3>1, <3>2, <3>9 DEF SelectionInv
  <2>7. CASE ~Known(form) /\ ~Ambiguous(form)
    <3>1. /\ function' = WithKey(key, Append(AlternativesFor(key), Alternative(form)))
          /\ rendering' = "rendering"
      BY <2>1, <2>7
    <3>2. /\ ListsOK'
          /\ (\A i \in 1 .. nextForm - 1 : Served(InOrder[i]))
               => \A i \in 1 .. nextForm' - 1 : Served(InOrder[i])'
      BY <2>1, <2>2, <2>7, <3>1, FormAppended
    <3>3. InOrder' = InOrder
      BY <2>1 DEF InOrder
    <3>4. \A i \in 1 .. nextForm' - 1 : Served(InOrder[i])'
      BY <2>3, <3>2
    <3>5. QED
      BY <1>1, <2>1, <2>2, <3>1, <3>2, <3>4 DEF SelectionInv
  <2>8. QED
    BY <2>5, <2>6, <2>7
<1>7. QED
  BY <1>4, <1>5, <1>6 DEF SelectionNext

\* When the loop is over, the alternatives of a key are written for forms with
\* these operands, and none of those forms is without one.
LEMMA FunctionWritten ==
  ASSUME SelectionInv, rendering = "done", NEW kinds \in OperandLists
  PROVE  LET list == AlternativesFor(Signature(kinds))
         IN  /\ Len(list) \in Nat /\ DOMAIN list = 1 .. Len(list)
             /\ \A n \in 1 .. Len(list) : \E f \in Range(mnemonic) :
                  f.kinds = kinds /\ list[n] = Alternative(f)
             /\ \A f \in Range(mnemonic) : f.kinds = kinds =>
                  \E n \in 1 .. Len(list) : /\ list[n].selector = Selector(f) /\ list[n].word = f.word
                                            /\ Priority(list[n].form) <= Priority(f)
             /\ \A n \in 1 .. Len(list) : \A m \in 1 .. n - 1 :
                  /\ Priority(list[m].form) <= Priority(list[n].form)
                  /\ list[m].selector # list[n].selector
<1> DEFINE list == AlternativesFor(Signature(kinds))
<1>1. /\ mnemonic \in Seq(MnemonicForms) /\ nextForm = Len(mnemonic) + 1
      /\ ListsOK /\ Len(mnemonic) \in Nat
      /\ \A i \in 1 .. nextForm - 1 : Served(InOrder[i])
  BY InOrderFacts DEF SelectionInv
<1>2. kinds \in Seq(Operands)
  BY SelectionAssumption DEF OperandLists
<1>3. Len(list) \in Nat /\ DOMAIN list = 1 .. Len(list)
  <2>1. IsSequence(list)
    BY <1>1 DEF ListsOK
  <2>2. QED
    BY <2>1, SequenceFacts
<1>4. ASSUME NEW n \in 1 .. Len(list)
      PROVE  /\ \E f \in Range(mnemonic) : f.kinds = kinds /\ list[n] = Alternative(f)
             /\ \A m \in 1 .. n - 1 :
                  /\ Priority(list[m].form) <= Priority(list[n].form)
                  /\ list[m].selector # list[n].selector
  <2>1. /\ WrittenFor(list[n], Signature(kinds))
        /\ \A m \in 1 .. n - 1 :
             /\ Priority(list[m].form) <= Priority(list[n].form)
             /\ list[m].selector # list[n].selector
    BY <1>1 DEF ListsOK
  <2>2. PICK i \in 1 .. nextForm - 1 :
          list[n] = Alternative(InOrder[i]) /\ Signature(InOrder[i].kinds) = Signature(kinds)
    BY <2>1 DEF WrittenFor
  <2>3. i \in 1 .. Len(mnemonic)
    BY <1>1
  <2>4. InOrder[i] \in Range(mnemonic) /\ InOrder[i].kinds \in Seq(Operands)
    BY <1>1, <2>3, InOrderFacts
  <2>5. InOrder[i].kinds = kinds
    BY <1>2, <2>2, <2>4, SignatureIsInjective
  <2>6. QED
    BY <2>1, <2>2, <2>4, <2>5
<1>5. ASSUME NEW f \in Range(mnemonic), f.kinds = kinds
      PROVE  \E n \in 1 .. Len(list) : /\ list[n].selector = Selector(f) /\ list[n].word = f.word
                                       /\ Priority(list[n].form) <= Priority(f)
  <2>1. PICK i \in 1 .. Len(mnemonic) : f = InOrder[i]
    BY <1>1, InOrderFacts
  <2>2. i \in 1 .. nextForm - 1
    BY <1>1
  <2>3. Served(f)
    BY <1>1, <2>1, <2>2
  <2>4. QED
    BY <1>5, <2>3 DEF Served
<1>6. QED
  BY <1>3, <1>4, <1>5

\* What the function does with operands and a value: the word of a matching
\* form that no matching form is preferred to, or a message if there is none.
LEMMA FunctionChooses ==
  ASSUME SelectionInv, rendering = "done", NEW kinds \in OperandLists, NEW value
  PROVE  LET matching == Matching(kinds, value)
         IN  IF matching = {} THEN Outcome(kinds, value) \in Messages
             ELSE \E f \in matching : /\ Outcome(kinds, value) = f.word
                                      /\ \A g \in matching : Priority(f) <= Priority(g)
<1> DEFINE key == Signature(kinds)
           list == AlternativesFor(key)
           places == {n \in DOMAIN list : Accepts(list[n], value)}
           matching == Matching(kinds, value)
<1>1. /\ Len(list) \in Nat /\ DOMAIN list = 1 .. Len(list)
      /\ \A n \in 1 .. Len(list) : \E f \in Range(mnemonic) :
           f.kinds = kinds /\ list[n] = Alternative(f)
      /\ \A f \in Range(mnemonic) : f.kinds = kinds =>
           \E n \in 1 .. Len(list) : /\ list[n].selector = Selector(f) /\ list[n].word = f.word
                                     /\ Priority(list[n].form) <= Priority(f)
      /\ \A n \in 1 .. Len(list) : \A m \in 1 .. n - 1 :
           /\ Priority(list[m].form) <= Priority(list[n].form)
           /\ list[m].selector # list[n].selector
  BY FunctionWritten
<1>2. ASSUME NEW n \in places
      PROVE  \E f \in matching : list[n] = Alternative(f)
  BY <1>1 DEF Matching
<1>3. ASSUME NEW f \in matching
      PROVE  \E n \in places : Priority(list[n].form) <= Priority(f)
  <2>1. f \in Range(mnemonic) /\ f.kinds = kinds /\ Accepts(Alternative(f), value)
    BY DEF Matching
  <2>2. PICK n \in 1 .. Len(list) : list[n].selector = Selector(f) /\ Priority(list[n].form) <= Priority(f)
    BY <1>1, <2>1
  <2>3. Alternative(f).selector = Selector(f)
    BY DEF Alternative
  <2>4. Accepts(list[n], value)
    BY <2>1, <2>2, <2>3 DEF Accepts
  <2>5. QED
    BY <1>1, <2>2, <2>4
<1>4. places # {} => key \in DOMAIN function
  <2>1. SUFFICES ASSUME key \notin DOMAIN function
                 PROVE  places = {}
    OBVIOUS
  <2>2. list = <<>>
    BY <2>1 DEF AlternativesFor
  <2>3. DOMAIN list = {}
    BY <2>2
  <2>4. QED
    BY <2>3
<1>5. CASE matching = {}
  <2>1. places = {}
    BY <1>2, <1>5
  <2>2. Outcome(kinds, value) \in Messages
    BY <2>1 DEF Outcome, Messages
  <2>3. QED
    BY <1>5, <2>2
<1>6. CASE matching # {}
  <2>1. places # {} /\ places \in SUBSET Nat
    BY <1>1, <1>3, <1>6
  <2> DEFINE first == CHOOSE n \in places : \A m \in places : n <= m
  <2>2. first \in places /\ \A m \in places : first <= m
    BY <2>1, LeastNat
  <2>3. Outcome(kinds, value) = list[first].word
    BY <1>4, <2>1 DEF Outcome
  <2> HIDE DEF first
  <2>4. PICK f \in matching : list[first] = Alternative(f)
    BY <1>2, <2>2
  <2>5. list[first].form = f /\ list[first].word = f.word
    BY <2>4 DEF Alternative
  <2>6. ASSUME NEW g \in matching
        PROVE  Priority(f) <= Priority(g)
    <3>1. PICK n \in places : Priority(list[n].form) <= Priority(g)
      BY <1>3
    <3>2. n \in 1 .. Len(list) /\ first \in 1 .. Len(list) /\ first <= n
      BY <1>1, <2>2
    <3>3. Priority(list[first].form) <= Priority(list[n].form)
      <4>1. CASE first = n
        BY <4>1, PriorityRange
      <4>2. CASE first # n
        <5>1. first \in 1 .. n - 1
          BY <1>1, <3>2, <4>2
        <5>2. QED
          BY <1>1, <3>2, <5>1
      <4>3. QED
        BY <4>1, <4>2
    <3>4. /\ Priority(list[first].form) \in {0, 1, 2, 3} /\ Priority(list[n].form) \in {0, 1, 2, 3}
          /\ Priority(g) \in {0, 1, 2, 3}
      BY PriorityRange
    <3>5. QED
      BY <2>5, <3>1, <3>3, <3>4
  <2>7. QED
    BY <1>6, <2>3, <2>5, <2>6
<1>7. QED
  BY <1>5, <1>6

\* Two forms with the same operands and the same selector are served by the
\* same alternative, so they agree about the word.
LEMMA NoConflict == SelectionInv /\ rendering = "done" => ~Conflict
<1> SUFFICES ASSUME SelectionInv, rendering = "done",
                    NEW f \in Range(mnemonic), NEW g \in Range(mnemonic),
                    f.kinds = g.kinds, Selector(f) = Selector(g)
             PROVE  f.word = g.word
  BY DEF Conflict
<1> DEFINE list == AlternativesFor(Signature(f.kinds))
<1>1. f.kinds \in OperandLists
  <2>1. PICK i \in 1 .. Len(mnemonic) : f = InOrder[i]
    BY InOrderFacts DEF SelectionInv
  <2>2. f \in MnemonicForms
    BY <2>1, InOrderFacts DEF SelectionInv
  <2>3. QED
    BY <2>2 DEF OperandLists
<1>2. /\ Len(list) \in Nat
      /\ \A h \in Range(mnemonic) : h.kinds = f.kinds =>
           \E n \in 1 .. Len(list) : list[n].selector = Selector(h) /\ list[n].word = h.word
      /\ \A n \in 1 .. Len(list) : \A m \in 1 .. n - 1 : list[m].selector # list[n].selector
  <2>1. /\ Len(list) \in Nat
        /\ \A h \in Range(mnemonic) : h.kinds = f.kinds =>
             \E n \in 1 .. Len(list) : /\ list[n].selector = Selector(h) /\ list[n].word = h.word
                                       /\ Priority(list[n].form) <= Priority(h)
        /\ \A n \in 1 .. Len(list) : \A m \in 1 .. n - 1 :
             /\ Priority(list[m].form) <= Priority(list[n].form)
             /\ list[m].selector # list[n].selector
    BY <1>1, FunctionWritten
  <2> HIDE DEF list
  <2>2. QED
    BY <2>1
<1> HIDE DEF list
<1>3. PICK i \in 1 .. Len(list) : list[i].selector = Selector(f) /\ list[i].word = f.word
  BY <1>2
<1>4. PICK j \in 1 .. Len(list) : list[j].selector = Selector(g) /\ list[j].word = g.word
  BY <1>2
<1>5. ~(i \in 1 .. j - 1) /\ ~(j \in 1 .. i - 1)
  BY <1>2, <1>3, <1>4
<1>6. i = j
  BY <1>2, <1>5
<1>7. QED
  BY <1>3, <1>4, <1>6

\* The function a mnemonic gets assembles what some form of it accepts, by the
\* preferred one, and is refused only if two of its forms contradict each other,
\* whatever the kinds, the forms and their order (render in generate_a64.py).
THEOREM FunctionCorrect == SelectionSpec => []FunctionIsTheMnemonic
<1>1. SelectionInv => FunctionIsTheMnemonic
  <2> SUFFICES ASSUME SelectionInv
               PROVE  FunctionIsTheMnemonic
    OBVIOUS
  <2>1. AssemblesWhatAFormAccepts
    <3> SUFFICES ASSUME rendering = "done", NEW kinds \in OperandLists, NEW value \in LastValues
                 PROVE  IF Matching(kinds, value) = {} THEN Outcome(kinds, value) \in Messages
                        ELSE Outcome(kinds, value) \in {f.word : f \in Matching(kinds, value)}
      BY DEF AssemblesWhatAFormAccepts
    <3>1. QED
      BY FunctionChooses
  <2>2. PreferredFormWins
    <3> SUFFICES ASSUME rendering = "done", NEW kinds \in OperandLists, NEW value \in LastValues,
                        Matching(kinds, value) # {}
                 PROVE  \E f \in Matching(kinds, value) :
                          /\ Outcome(kinds, value) = f.word
                          /\ \A g \in Matching(kinds, value) : Priority(f) <= Priority(g)
      BY DEF PreferredFormWins
    <3>1. QED
      BY FunctionChooses
  <2>3. RefusedIfAmbiguous
    BY NoConflict DEF RefusedIfAmbiguous, SelectionInv, Conflict
  <2>4. QED
    BY <2>1, <2>2, <2>3 DEF FunctionIsTheMnemonic
<1>2. QED
  BY <1>1, SelectionStart, SelectionStep, PTL DEF SelectionSpec

-----------------------------------------------------------------------------
(***************************************************************************)
(* What a word of a generated function says about a number.  Division with *)
(* remainder, powers of two and the two halves of the values come first;   *)
(* then what makes the range, the multiple and the options of an operand   *)
(* mean for words what they mean for signed numbers (ValueOK).             *)
(***************************************************************************)

LEMMA DivisionFacts ==
  ASSUME NEW x \in Int, NEW m \in Nat \ {0}
  PROVE  /\ x \div m \in Int /\ x % m \in 0 .. m - 1
         /\ x = m * (x \div m) + (x % m)
OBVIOUS

LEMMA ProductGap ==
  ASSUME NEW m \in Nat \ {0}, NEW d \in Int, d >= 1
  PROVE  m * d >= m
OBVIOUS

LEMMA DivisionIs ==
  ASSUME NEW x \in Int, NEW m \in Nat \ {0}, NEW q \in Int, NEW r \in 0 .. m - 1,
         x = m * q + r
  PROVE  x \div m = q /\ x % m = r
<1> DEFINE a == x \div m
           b == x % m
<1>1. a \in Int /\ b \in 0 .. m - 1 /\ x = m * a + b
  BY DivisionFacts
<1> HIDE DEF a, b
<1>2. m * (a - q) = r - b
  BY <1>1
<1>3. a = q
  <2>1. CASE a - q >= 1
    <3>1. m * (a - q) >= m
      BY <1>1, <2>1, ProductGap
    <3>2. QED
      BY <1>1, <1>2, <3>1
  <2>2. CASE q - a >= 1
    <3>1. m * (q - a) >= m
      BY <1>1, <2>2, ProductGap
    <3>2. m * (q - a) = b - r
      BY <1>1
    <3>3. QED
      BY <1>1, <3>1, <3>2
  <2>3. QED
    BY <1>1, <2>1, <2>2
<1>4. b = r
  BY <1>1, <1>2, <1>3
<1>5. QED
  BY <1>3, <1>4 DEF a, b

\* The congruence of numbers that differ by a multiple.
LEMMA SameRemainder ==
  ASSUME NEW x \in Int, NEW m \in Nat \ {0}, NEW k \in Int
  PROVE  (x + m * k) % m = x % m
<1>1. /\ x \div m \in Int /\ x % m \in 0 .. m - 1
      /\ x = m * (x \div m) + (x % m)
  BY DivisionFacts
<1>2. PICK q \in Int, r \in 0 .. m - 1 : q = x \div m /\ r = x % m /\ x = m * q + r
  BY <1>1
<1>3. x + m * k = m * (q + k) + r
  BY <1>2
<1>4. x + m * k \in Int /\ q + k \in Int
  BY <1>2
<1>5. QED
  BY <1>2, <1>3, <1>4, DivisionIs

-----------------------------------------------------------------------------
\* A function with the values of Power2 up to n.
Doubles(f, n) == f \in [0 .. n -> Nat] /\ f[0] = 1 /\ \A k \in 1 .. n : f[k] = 2 * f[k - 1]

LEMMA DoublesExist ==
  ASSUME NEW n \in Nat
  PROVE  \E f : Doubles(f, n)
<1> DEFINE g == [x \in ((0 + 1) .. n) \X Nat |-> 2 * x[2]]
<1>1. g \in [((0 + 1) .. n) \X Nat -> Nat]
  OBVIOUS
<1>2. PICK f : Recurses(f, 0, n, Nat, 1, g)
  <2> HIDE DEF g
  <2>1. 0 \in Nat /\ 0 <= n /\ 1 \in Nat
    OBVIOUS
  <2>2. \E f : Recurses(f, 0, n, Nat, 1, g)
    BY <1>1, <2>1, RecursionExists
  <2>3. QED
    BY <2>2
<1>3. ASSUME NEW k \in 1 .. n
      PROVE  f[k] = 2 * f[k - 1]
  <2>1. f[k - 1] \in Nat /\ k \in (0 + 1) .. n
    BY <1>2 DEF Recurses
  <2>2. <<k, f[k - 1]>> \in ((0 + 1) .. n) \X Nat
    BY <2>1
  <2>3. g[<<k, f[k - 1]>>] = 2 * f[k - 1]
    BY <2>2
  <2>4. QED
    BY <1>2, <2>1, <2>3 DEF Recurses
<1>4. f \in [0 .. n -> Nat] /\ f[0] = 1
  BY <1>2 DEF Recurses
<1>5. QED
  BY <1>3, <1>4 DEF Doubles

LEMMA DoublesAgree ==
  ASSUME NEW n \in Nat, NEW m \in Nat, NEW f, NEW g, Doubles(f, n), Doubles(g, m)
  PROVE  \A k \in Nat : k <= n /\ k <= m => f[k] = g[k]
<1> DEFINE S == {k \in Nat : k <= n /\ k <= m => f[k] = g[k]}
<1>1. 0 \in S
  BY DEF Doubles
<1>2. ASSUME NEW k \in S
      PROVE  k + 1 \in S
  <2>1. SUFFICES ASSUME k + 1 <= n, k + 1 <= m
                 PROVE  f[k + 1] = g[k + 1]
    OBVIOUS
  <2>2. k + 1 \in 1 .. n /\ k + 1 \in 1 .. m /\ (k + 1) - 1 = k /\ f[k] = g[k]
    BY <2>1
  <2>3. QED
    BY <2>2 DEF Doubles
<1>3. S \in SUBSET Nat
  OBVIOUS
<1> HIDE DEF S
<1>4. S = Nat
  BY <1>1, <1>2, <1>3, NatSet
<1>5. QED
  BY <1>4 DEF S

\* Power2 is what its definition says.
LEMMA PowerIs ==
  /\ Power2[0] = 1
  /\ \A n \in Nat : Power2[n] \in Nat \ {0} /\ Power2[n + 1] = 2 * Power2[n]
<1> DEFINE Body(f) == [n \in Nat |-> IF n = 0 THEN 1 ELSE 2 * f[n - 1]]
           Some(n) == CHOOSE f : Doubles(f, n)
           h == [n \in Nat |-> Some(n)[n]]
<1>1. \A n \in Nat : Doubles(Some(n), n)
  BY DoublesExist
<1>2. ASSUME NEW n \in Nat
      PROVE  h[n] = IF n = 0 THEN 1 ELSE 2 * h[n - 1]
  <2> HIDE DEF Some
  <2>1. CASE n = 0
    BY <1>1, <2>1 DEF Doubles
  <2>2. CASE n # 0
    <3>1. n - 1 \in Nat /\ n \in 1 .. n /\ n - 1 <= n /\ n - 1 <= n - 1
      BY <2>2
    <3>2. Some(n)[n] = 2 * Some(n)[n - 1]
      BY <1>1, <3>1 DEF Doubles
    <3>3. Some(n)[n - 1] = Some(n - 1)[n - 1]
      BY <1>1, <3>1, DoublesAgree
    <3>4. QED
      BY <2>2, <3>1, <3>2, <3>3
  <2>3. QED
    BY <2>1, <2>2
<1>3. h = Body(h)
  <2>1. h = [n \in Nat |-> h[n]]
    OBVIOUS
  <2> HIDE DEF h
  <2>2. QED
    BY <1>2, <2>1
<1>4. Power2 = CHOOSE f : f = Body(f)
  BY DEF Power2
<1>5. Power2 = Body(Power2)
  <2> HIDE DEF h, Body
  <2>1. QED
    BY <1>3, <1>4
<1>6. \A n \in Nat : Power2[n] = IF n = 0 THEN 1 ELSE 2 * Power2[n - 1]
  BY <1>5
<1>7. Power2[0] = 1 /\ \A n \in Nat : Power2[n + 1] = 2 * Power2[n]
  <2>1. \A n \in Nat : n + 1 \in Nat /\ n + 1 # 0 /\ (n + 1) - 1 = n
    OBVIOUS
  <2>2. QED
    BY <1>6, <2>1
<1> DEFINE S == {n \in Nat : Power2[n] \in Nat \ {0}}
<1>8. 0 \in S
  BY <1>7
<1>9. ASSUME NEW n \in S
      PROVE  n + 1 \in S
  <2>1. PICK p \in Nat \ {0} : p = Power2[n]
    OBVIOUS
  <2>2. Power2[n + 1] = 2 * p /\ n + 1 \in Nat
    BY <1>7, <2>1
  <2>3. QED
    BY <2>2
<1>10. S \in SUBSET Nat
  OBVIOUS
<1> HIDE DEF S
<1>11. S = Nat
  BY <1>8, <1>9, <1>10, NatSet
<1>12. QED
  BY <1>7, <1>11 DEF S

LEMMA PowersMultiply ==
  ASSUME NEW a \in Nat, NEW b \in Nat
  PROVE  Power2[a + b] = Power2[a] * Power2[b]
<1> DEFINE S == {n \in Nat : Power2[a + n] = Power2[a] * Power2[n]}
<1>1. 0 \in S
  BY PowerIs
<1>2. ASSUME NEW n \in S
      PROVE  n + 1 \in S
  <2>1. PICK x \in Nat, y \in Nat : x = Power2[a] /\ y = Power2[n]
    BY PowerIs
  <2>2. Power2[a + n] = x * y /\ a + n \in Nat
    BY <2>1
  <2>3. Power2[(a + n) + 1] = 2 * (x * y) /\ Power2[n + 1] = 2 * y
    BY <2>1, <2>2, PowerIs
  <2>4. 2 * (x * y) = x * (2 * y) /\ (a + n) + 1 = a + (n + 1)
    BY <2>1
  <2>5. QED
    BY <2>1, <2>3, <2>4
<1>3. S \in SUBSET Nat
  OBVIOUS
<1> HIDE DEF S
<1>4. S = Nat
  BY <1>1, <1>2, <1>3, NatSet
<1>5. QED
  BY <1>4 DEF S

\* A smaller power divides a greater one.
LEMMA PowersGrow ==
  ASSUME NEW a \in Nat, NEW b \in Nat, a <= b
  PROVE  /\ Power2[a] \in Nat \ {0} /\ Power2[b - a] \in Nat \ {0}
         /\ Power2[b] = Power2[a] * Power2[b - a]
         /\ Power2[a] <= Power2[b]
         /\ a < b => 2 * Power2[a] <= Power2[b]
<1>1. PICK d \in Nat : d = b - a
  OBVIOUS
<1>2. a + d = b
  BY <1>1
<1>3. PICK x \in Nat \ {0}, y \in Nat \ {0} : x = Power2[a] /\ y = Power2[d]
  BY PowerIs
<1>4. Power2[b] = x * y
  BY <1>2, <1>3, PowersMultiply
<1>5. x * y >= x
  BY <1>3
<1>6. ASSUME a < b
      PROVE  2 * x <= x * y
  <2>1. d - 1 \in Nat /\ d = (d - 1) + 1
    BY <1>1, <1>6
  <2>2. PICK z \in Nat \ {0} : z = Power2[d - 1]
    BY <2>1, PowerIs
  <2>3. y = 2 * z
    BY <1>3, <2>1, <2>2, PowerIs
  <2>4. x * z >= x /\ x * y = 2 * (x * z)
    BY <1>3, <2>2, <2>3
  <2>5. QED
    BY <1>3, <2>2, <2>4
<1>7. QED
  BY <1>1, <1>3, <1>4, <1>5, <1>6

Half == Power2[ValueBits - 1]
Whole == Power2[ValueBits]
Powers == {Power2[k] : k \in 0 .. ValueBits}

LEMMA HalfAndWhole ==
  /\ Half \in Nat \ {0} /\ Whole \in Nat \ {0} /\ Whole = 2 * Half
  /\ Values = 0 .. Whole - 1
  /\ SignedValues = -Half .. Half - 1
<1>1. ValueBits - 1 \in Nat /\ ValueBits \in Nat /\ ValueBits = (ValueBits - 1) + 1
  BY WidthAssumption
<1>2. Half \in Nat \ {0} /\ Whole \in Nat \ {0}
  BY <1>1, PowerIs DEF Half, Whole
<1>3. Whole = 2 * Half
  BY <1>1, PowerIs DEF Half, Whole
<1>4. QED
  BY <1>2, <1>3 DEF Values, SignedValues, Half, Whole

\* Unsigned words of negative numbers, and back.
LEMMA UnsignedIs ==
  ASSUME NEW x \in Int, -Whole <= x, x < Whole
  PROVE  Unsigned(x) = IF x < 0 THEN x + Whole ELSE x
<1>1. PICK m \in Nat \ {0} : m = Whole
  BY HalfAndWhole
<1>2. CASE x < 0
  <2>1. x = m * (-1) + (x + m) /\ x + m \in 0 .. m - 1 /\ -1 \in Int
    BY <1>1, <1>2
  <2>2. x % m = x + m
    BY <2>1, DivisionIs
  <2>3. QED
    BY <1>1, <1>2, <2>2 DEF Unsigned, Whole
<1>3. CASE x >= 0
  <2>1. x = m * 0 + x /\ x \in 0 .. m - 1
    BY <1>1, <1>3
  <2>2. x % m = x
    BY <2>1, DivisionIs
  <2>3. QED
    BY <1>1, <1>3, <2>2 DEF Unsigned, Whole
<1>4. QED
  BY <1>2, <1>3

LEMMA SignedIs ==
  ASSUME NEW v \in Values
  PROVE  /\ Signed(v) = IF v >= Half THEN v - Whole ELSE v
         /\ v \in Int /\ 0 <= v /\ v < Whole
         /\ Signed(v) \in SignedValues
         /\ Unsigned(Signed(v)) = v
<1>1. PICK h \in Nat \ {0} : h = Half /\ Whole = 2 * h /\ Values = 0 .. 2 * h - 1 /\ SignedValues = -h .. h - 1
  BY HalfAndWhole
<1>2. Signed(v) = IF v >= h THEN v - 2 * h ELSE v
  BY <1>1 DEF Signed, Half, Whole
<1>3. v \in 0 .. 2 * h - 1
  BY <1>1
<1>4. PICK s : s = Signed(v)
  OBVIOUS
<1>5. s \in -h .. h - 1
  <2>1. v \in Int /\ v - 2 * h \in Int
    BY <1>3
  <2>2. QED
    BY <1>2, <1>3, <1>4, <2>1
<1>6. Unsigned(s) = v
  <2>1. s \in Int /\ -Whole <= s /\ s < Whole
    BY <1>1, <1>5
  <2>2. Unsigned(s) = IF s < 0 THEN s + Whole ELSE s
    BY <2>1, UnsignedIs
  <2>3. CASE v >= h
    <3>1. s = v - 2 * h /\ s < 0
      BY <1>2, <1>3, <1>4, <2>3
    <3>2. QED
      BY <1>1, <1>3, <2>2, <3>1
  <2>4. CASE ~(v >= h)
    <3>1. s = v /\ ~(s < 0)
      BY <1>2, <1>3, <1>4, <2>4
    <3>2. QED
      BY <2>2, <3>1
  <2>5. QED
    BY <2>3, <2>4
<1>7. QED
  BY <1>1, <1>2, <1>3, <1>4, <1>5, <1>6

LEMMA SignedAgain ==
  ASSUME NEW x \in SignedValues
  PROVE  Unsigned(x) \in Values /\ Signed(Unsigned(x)) = x
<1>1. PICK h \in Nat \ {0} : h = Half /\ Whole = 2 * h /\ Values = 0 .. 2 * h - 1 /\ SignedValues = -h .. h - 1
  BY HalfAndWhole
<1>2. x \in -h .. h - 1 /\ x \in Int /\ -Whole <= x /\ x < Whole
  BY <1>1
<1>3. Unsigned(x) = IF x < 0 THEN x + Whole ELSE x
  BY <1>2, UnsignedIs
<1>4. PICK v \in Int : v = Unsigned(x)
  BY <1>1, <1>2, <1>3
<1>5. v \in Values
  BY <1>1, <1>2, <1>3, <1>4
<1>6. Signed(v) = IF v >= Half THEN v - Whole ELSE v
  BY <1>5, SignedIs
<1>7. QED
  BY <1>1, <1>2, <1>3, <1>4, <1>5, <1>6

-----------------------------------------------------------------------------
\* What the selector of an operand may rely on.
ValueOK(op) ==
  /\ op \in [kind : Kinds, literal : Int \cup {None}, min : Int \cup {None}, max : Int \cup {None},
             multiple : Powers, allowed : Seq(SignedValues) \cup {None}, default : {0, None}]
  /\ op.min = None => op.allowed = None
  /\ op.min # None => op.max # None /\ op.min <= op.max /\ -Half <= op.min
  /\ op.max # None => op.max < Whole
  /\ op.min # None /\ op.min < 0 => op.max < Half

\* The range of an operand, as its selector tests it.
LEMMA RangeIsTested ==
  ASSUME NEW op, ValueOK(op), op.min # None, NEW v \in Values
  PROVE  InRange(op, v) <=> IF op.min < 0 THEN op.min <= Signed(v) /\ Signed(v) <= op.max
                            ELSE op.min <= v /\ v <= op.max
<1>1. PICK h \in Nat \ {0} : h = Half /\ Whole = 2 * h /\ Values = 0 .. 2 * h - 1 /\ SignedValues = -h .. h - 1
  BY HalfAndWhole
<1>2. PICK a \in Int, b \in Int :
        /\ a = op.min /\ b = op.max /\ op.max # None
        /\ -h <= a /\ a <= b /\ b < 2 * h /\ (a < 0 => b < h)
  BY <1>1 DEF ValueOK
<1>3. v \in Int /\ 0 <= v /\ v < 2 * h
  BY <1>1
<1>4. /\ -Whole <= a /\ a < Whole /\ -Whole <= b /\ b < Whole
  BY <1>1, <1>2
<1>5. /\ Unsigned(a) = IF a < 0 THEN a + 2 * h ELSE a
      /\ Unsigned(b) = IF b < 0 THEN b + 2 * h ELSE b
  BY <1>1, <1>4, UnsignedIs
<1>6. Signed(v) = IF v >= h THEN v - 2 * h ELSE v
  BY <1>1, SignedIs
<1>7. InRange(op, v) <=>
        IF a < 0 /\ 0 <= b THEN v >= Unsigned(a) \/ v <= b
        ELSE v >= Unsigned(a) /\ v <= Unsigned(b)
  BY <1>2 DEF InRange
<1>8. CASE a < 0 /\ 0 <= b
  BY <1>2, <1>3, <1>5, <1>6, <1>7, <1>8
<1>9. CASE a < 0 /\ b < 0
  BY <1>2, <1>3, <1>5, <1>6, <1>7, <1>9
<1>10. CASE a >= 0
  BY <1>2, <1>3, <1>5, <1>6, <1>7, <1>10
<1>11. QED
  BY <1>2, <1>8, <1>9, <1>10

\* A multiple divides the words, so wrapping around does not change it.
LEMMA MultipleIsTested ==
  ASSUME NEW m \in Powers, NEW v \in Values
  PROVE  (v % m = 0) <=> (Signed(v) % m = 0)
<1>1. PICK k \in 0 .. ValueBits : m = Power2[k]
  BY DEF Powers
<1>2. ValueBits \in Nat /\ k \in Nat /\ k <= ValueBits
  BY WidthAssumption
<1>3. PICK w \in Nat : m \in Nat \ {0} /\ Whole = m * w
  BY <1>1, <1>2, PowersGrow DEF Whole
<1>4. /\ Signed(v) = IF v >= Half THEN v - Whole ELSE v
      /\ v \in Int
  BY SignedIs
<1>5. CASE Signed(v) = v
  BY <1>5
<1>6. CASE Signed(v) = v - Whole
  <2>1. -w \in Int /\ v - Whole = v + m * (-w)
    BY <1>3, <1>4
  <2>2. (v + m * (-w)) % m = v % m
    BY <1>3, <1>4, <2>1, SameRemainder
  <2>3. QED
    BY <1>6, <2>1, <2>2
<1>7. QED
  BY <1>4, <1>5, <1>6

\* So the conditions of an operand that begins below zero are those of signed
\* numbers.
LEMMA SignedOperand ==
  ASSUME NEW op, ValueOK(op), op.literal = None, op.min # None, op.min < 0, NEW v \in Values
  PROVE  AcceptsOperand(op, v) <=>
           /\ Signed(v) \in op.min .. op.max
           /\ Signed(v) % op.multiple = 0
           /\ op.allowed # None => Signed(v) \in Range(op.allowed)
<1>1. InRange(op, v) <=> Signed(v) \in op.min .. op.max
  <2>1. op.min \in Int /\ op.max \in Int
    BY DEF ValueOK
  <2>2. Signed(v) \in Int
    BY SignedIs, HalfAndWhole
  <2>3. InRange(op, v) <=> op.min <= Signed(v) /\ Signed(v) <= op.max
    BY RangeIsTested
  <2>4. QED
    BY <2>1, <2>2, <2>3
<1>2. v % op.multiple = 0 <=> Signed(v) % op.multiple = 0
  <2>1. op.multiple \in Powers
    BY DEF ValueOK
  <2>2. QED
    BY <2>1, MultipleIsTested
<1>3. ASSUME op.allowed # None
      PROVE  (\E n \in DOMAIN op.allowed : v = Unsigned(op.allowed[n])) <=> Signed(v) \in Range(op.allowed)
  <2>1. \A n \in DOMAIN op.allowed : op.allowed[n] \in SignedValues
    <3>1. op.allowed \in Seq(SignedValues)
      BY <1>3 DEF ValueOK
    <3>2. QED
      BY <3>1
  <2>2. \A n \in DOMAIN op.allowed : v = Unsigned(op.allowed[n]) <=> Signed(v) = op.allowed[n]
    BY <2>1, SignedIs, SignedAgain
  <2>3. QED
    BY <2>2 DEF Range
<1>4. QED
  BY <1>1, <1>2, <1>3 DEF AcceptsOperand

-----------------------------------------------------------------------------
(***************************************************************************)
(* Every command keeps the operands such: it narrows the one at the cursor *)
(* and leaves alone which of them are literal.                             *)
(***************************************************************************)

\* A range a command may ask for.
Asks(low, high) ==
  /\ low \in Int /\ high \in Int
  /\ -Half <= low /\ high < Whole /\ (low < 0 => high < Half)

LEMMA PowersOfWidths ==
  ASSUME NEW k \in Nat, k <= ValueBits
  PROVE  /\ Power2[k] \in Nat \ {0} /\ Power2[k] <= Whole
         /\ k < ValueBits => Power2[k] <= Half
<1>1. ValueBits \in Nat /\ ValueBits - 1 \in Int
  BY WidthAssumption
<1>2. Power2[k] \in Nat \ {0} /\ Power2[k] <= Whole
  BY <1>1, PowersGrow DEF Whole
<1>3. ASSUME k < ValueBits
      PROVE  Power2[k] <= Half
  <2>1. ValueBits - 1 \in Nat /\ k <= ValueBits - 1
    BY <1>1, <1>3
  <2>2. QED
    BY <2>1, PowersGrow DEF Half
<1>4. QED
  BY <1>2, <1>3

\* A set of numbers between two others has a least and a greatest one.
LEMMA LeastInt ==
  ASSUME NEW h \in Nat, NEW R \in SUBSET (-h .. h - 1), R # {}
  PROVE  \E v \in R : \A w \in R : v <= w
<1> DEFINE T == {x + h : x \in R}
<1>1. T \in SUBSET Nat /\ T # {}
  OBVIOUS
<1>2. PICK y \in T : \A z \in T : y <= z
  <2> HIDE DEF T
  <2>1. QED
    BY <1>1, LeastNat
<1>3. PICK v \in R : y = v + h
  OBVIOUS
<1>4. ASSUME NEW w \in R
      PROVE  v <= w
  <2>1. v + h <= w + h
    BY <1>2, <1>3
  <2>2. v \in Int /\ w \in Int
    OBVIOUS
  <2>3. QED
    BY <2>1, <2>2
<1>5. QED
  BY <1>4

LEMMA GreatestInt ==
  ASSUME NEW h \in Nat, NEW R \in SUBSET (-h .. h - 1), R # {}
  PROVE  \E v \in R : \A w \in R : w <= v
<1> DEFINE T == {h - 1 - x : x \in R}
<1>1. T \in SUBSET Nat /\ T # {}
  OBVIOUS
<1>2. PICK y \in T : \A z \in T : y <= z
  <2> HIDE DEF T
  <2>1. QED
    BY <1>1, LeastNat
<1>3. PICK v \in R : y = h - 1 - v
  OBVIOUS
<1>4. ASSUME NEW w \in R
      PROVE  w <= v
  <2>1. h - 1 - v <= h - 1 - w
    BY <1>2, <1>3
  <2>2. v \in Int /\ w \in Int
    OBVIOUS
  <2>3. QED
    BY <2>1, <2>2
<1>5. QED
  BY <1>4

\* The ranges of the commands that encode a whole operand.
LEMMA TakenValues ==
  ASSUME NEW c \in Commands, c.name \in OperandCommands, FieldsFit(Takes(c).fields)
  PROVE  /\ Asks(Takes(c).low, Takes(c).high)
         /\ Takes(c).multiple \in Powers \cup {None}
         /\ Takes(c).allowed \in Seq(SignedValues) \cup {None}
<1> DEFINE t == Takes(c)
           Goal == Asks(t.low, t.high) /\ t.multiple \in Powers \cup {None}
                   /\ t.allowed \in Seq(SignedValues) \cup {None}
<1>0. /\ c.at \in Int /\ c.rest \in Int /\ c.width \in Int /\ c.width <= MaxFieldWidth
      /\ MaxFieldWidth \in Nat /\ MaxFieldWidth <= ValueBits /\ ValueBits \in Nat \ {0}
      /\ RegBits \in 1 .. MaxFieldWidth /\ CondBits \in 1 .. MaxFieldWidth
  <2>1. c.name \notin StaticCommands
    BY DEF OperandCommands, StaticCommands
  <2>2. QED
    BY <2>1, WidthAssumption, CommandAssumption
<1>1. PICK h \in Nat \ {0} : h = Half /\ Whole = 2 * h /\ SignedValues = -h .. h - 1
  BY HalfAndWhole
<1>2. ASSUME NEW k \in Nat, k <= ValueBits
      PROVE  Power2[k] \in Powers
  BY <1>0, <1>2 DEF Powers
<1>a. ASSUME NEW f, t.fields = <<f>>
      PROVE  InWord(f.lsb, f.width)
  <2>1. 1 \in DOMAIN t.fields /\ t.fields[1] = f
    BY <1>a
  <2> HIDE DEF t
  <2>2. QED
    BY <2>1 DEF FieldsFit, t
<1>3. CASE c.name \in {"R", "R4", "REven", "RNoZr"}
  <2>1. t = Register(c)
    BY <1>3 DEF Takes
  <2>2. /\ t.low = 0
        /\ t.high = IF c.name = "RNoZr" THEN Power2[RegBits] - 2
                    ELSE IF c.name = "R4" THEN Power2[RegBits - 1] - 1 ELSE Power2[RegBits] - 1
        /\ t.multiple \in {2, None} /\ t.allowed = None
    BY <2>1 DEF Register
  <2>3. RegBits \in Nat /\ RegBits - 1 \in Nat /\ RegBits <= ValueBits /\ RegBits - 1 <= ValueBits
    BY <1>0
  <2>4. PICK p \in Nat \ {0}, q \in Nat \ {0} :
          p = Power2[RegBits] /\ q = Power2[RegBits - 1] /\ p <= 2 * h /\ q <= 2 * h
    BY <1>1, <2>3, PowersOfWidths
  <2>5. 2 \in Powers
    <3>1. Power2[1] = 2
      BY PowerIs, 0 \in Nat, 0 + 1 = 1
    <3>2. 1 \in Nat /\ 1 <= ValueBits
      BY <1>0
    <3>3. QED
      BY <1>2, <3>1, <3>2
  <2> HIDE DEF t
  <2>6. t.high \in Int /\ t.high < 2 * h
    BY <2>2, <2>4
  <2>7. Asks(t.low, t.high)
    BY <1>1, <2>2, <2>6 DEF Asks
  <2>8. QED
    BY <2>2, <2>5, <2>7 DEF t
<1>4. CASE c.name \in {"Cond", "InvCond"}
  <2>1. t = Condition(c)
    BY <1>4 DEF Takes
  <2>2. /\ t.low = 0
        /\ t.high = IF c.name = "InvCond" THEN Power2[CondBits] - 3 ELSE Power2[CondBits] - 1
        /\ t.multiple = None /\ t.allowed = None
    BY <2>1 DEF Condition
  <2>3. CondBits \in Nat /\ CondBits <= ValueBits
    BY <1>0
  <2>4. PICK p \in Nat \ {0} : p = Power2[CondBits] /\ p <= 2 * h
    BY <1>1, <2>3, PowersOfWidths
  <2> HIDE DEF t
  <2>5. t.high \in Int /\ t.high < 2 * h
    BY <2>2, <2>4
  <2>6. Asks(t.low, t.high)
    BY <1>1, <2>2, <2>5 DEF Asks
  <2>7. QED
    BY <2>2, <2>6 DEF t
<1>5. CASE c.name = "Urange"
  <2>1. t = Biased(c)
    BY <1>5 DEF Takes
  <2>2. t.low = c.low /\ t.high = c.high /\ t.multiple = None /\ t.allowed = None
    BY <1>5, <2>1 DEF Biased, Immediate
  <2>3. c.low \in SignedValues /\ c.high \in SignedValues
    BY <1>5, ValueAssumption
  <2> HIDE DEF t
  <2>4. Asks(t.low, t.high)
    BY <1>1, <2>2, <2>3 DEF Asks
  <2>5. QED
    BY <2>2, <2>4 DEF t
<1>6. CASE c.name = "Usum"
  <2>1. t = Biased(c)
    BY <1>6 DEF Takes
  <2>2. /\ t.low = 1 /\ t.high = Power2[c.width] /\ t.multiple = None /\ t.allowed = None
        /\ t.fields = <<Field(Current, c.at, c.width, "sum", Previous)>>
    BY <1>6, <2>1 DEF Biased, Immediate
  <2>3. c.width < ValueBits /\ InWord(c.at, c.width)
    BY <1>6, <2>2, <1>a, ValueAssumption DEF Field
  <2> HIDE DEF t
  <2>4. c.width \in Nat /\ c.width <= ValueBits
    BY <1>0, <2>3 DEF InWord
  <2>5. PICK p \in Nat \ {0} : p = Power2[c.width] /\ p <= h
    BY <1>1, <2>3, <2>4, PowersOfWidths
  <2>6. Asks(t.low, t.high)
    BY <1>1, <2>2, <2>5 DEF Asks
  <2>7. QED
    BY <2>2, <2>6 DEF t
<1>7. CASE c.name \in {"Usubmod", "Usubzero"}
  <2>1. t = Biased(c)
    BY <1>7 DEF Takes
  <2>2. PICK k : /\ t.low = 0 /\ t.high = Power2[c.width] - 1 /\ t.multiple = None /\ t.allowed = None
                 /\ t.fields = <<Field(Current, c.at, c.width, k, 0)>>
    BY <1>7, <2>1 DEF Biased, Immediate
  <2>3. InWord(c.at, c.width)
    BY <2>2, <1>a DEF Field
  <2> HIDE DEF t
  <2>4. c.width \in Nat /\ c.width <= ValueBits
    BY <1>0, <2>3 DEF InWord
  <2>5. PICK p \in Nat \ {0} : p = Power2[c.width] /\ p <= 2 * h
    BY <1>1, <2>4, PowersOfWidths
  <2>6. Asks(t.low, t.high)
    BY <1>1, <2>2, <2>5 DEF Asks
  <2>7. QED
    BY <2>2, <2>6 DEF t
<1>8. CASE c.name \in {"Sbits", "Sscaled", "Uscaled"}
  <2>1. t = Scaled(c)
    BY <1>8 DEF Takes
  <2>2. /\ t.low = IF c.name # "Uscaled" THEN -(Power2[c.width - 1 + c.shift]) ELSE 0
        /\ t.high = (Power2[IF c.name # "Uscaled" THEN c.width - 1 ELSE c.width] - 1) * Power2[c.shift]
        /\ t.multiple = Power2[c.shift] /\ t.allowed = None
        /\ t.fields = <<Field(Current, c.at, c.width, "slice", c.shift)>>
    BY <2>1 DEF Scaled, Immediate
  <2>3. InWord(c.at, c.width) /\ c.shift \in Nat /\ c.width + c.shift <= ValueBits
    BY <1>8, <2>2, <1>a, ValueAssumption DEF Field
  <2> HIDE DEF t
  <2>4. /\ c.width \in Nat /\ c.width - 1 \in Nat /\ c.shift <= ValueBits
        /\ (c.width - 1) + c.shift \in Nat /\ (c.width - 1) + c.shift < ValueBits
        /\ c.width + c.shift \in Nat
    BY <1>0, <2>3 DEF InWord
  <2>5. PICK a \in Nat \ {0}, b \in Nat \ {0}, s \in Nat \ {0} :
          a = Power2[c.width] /\ b = Power2[c.width - 1] /\ s = Power2[c.shift]
    BY <2>3, <2>4, PowerIs
  <2>6. /\ a * s = Power2[c.width + c.shift] /\ a * s <= 2 * h
        /\ b * s = Power2[(c.width - 1) + c.shift] /\ b * s <= h
    <3>1. a * s = Power2[c.width + c.shift] /\ b * s = Power2[(c.width - 1) + c.shift]
      BY <2>3, <2>4, <2>5, PowersMultiply
    <3>2. Power2[c.width + c.shift] <= Whole
      BY <2>3, <2>4, PowersOfWidths
    <3>3. Power2[(c.width - 1) + c.shift] <= Half
      <4>1. PICK k \in Nat : k = (c.width - 1) + c.shift /\ k < ValueBits /\ k <= ValueBits
        BY <1>0, <2>4
      <4>2. QED
        BY <4>1, PowersOfWidths
    <3>4. QED
      BY <1>1, <3>1, <3>2, <3>3
  <2>7. PICK x \in Nat, y \in Nat : x = a * s /\ y = b * s
    BY <2>5
  <2>8. (a - 1) * s = x - s /\ (b - 1) * s = y - s
    BY <2>5, <2>7
  <2>9. CASE c.name # "Uscaled"
    <3>1. t.low = -y /\ t.high = y - s
      BY <2>2, <2>5, <2>6, <2>7, <2>8, <2>9
    <3>2. y <= h
      BY <2>6, <2>7
    <3>3. Asks(t.low, t.high)
      <4>1. -y \in Int /\ y - s \in Int /\ -h <= -y /\ y - s < h /\ y - s < 2 * h
        BY <1>1, <2>5, <2>7, <3>2
      <4>2. QED
        BY <1>1, <3>1, <4>1 DEF Asks
    <3>4. QED
      BY <1>2, <2>2, <2>3, <2>4, <3>3 DEF t
  <2>10. CASE c.name = "Uscaled"
    <3>1. t.low = 0 /\ t.high = x - s
      BY <2>2, <2>5, <2>6, <2>7, <2>8, <2>10
    <3>2. x <= 2 * h
      BY <2>6, <2>7
    <3>3. Asks(t.low, t.high)
      BY <1>1, <2>5, <2>7, <3>1, <3>2 DEF Asks
    <3>4. QED
      BY <1>2, <2>2, <2>3, <2>4, <3>3 DEF t
  <2>11. QED
    BY <2>9, <2>10
<1>9. CASE c.name = "Offset"
  <2>1. t = Address(c)
    BY <1>9 DEF Takes
  <2>2. /\ t.low = -(Power2[c.width - 1]) /\ t.high = Power2[c.width - 1] - 1
        /\ t.multiple = 1 /\ t.allowed = None
        /\ t.fields = <<Field(Current, c.at, 1, "slice", 0), Field(Current, c.rest, c.width - 1, "slice", 1)>>
    BY <2>1 DEF Address, Immediate
  <2>3. 2 \in DOMAIN t.fields /\ t.fields[2] = Field(Current, c.rest, c.width - 1, "slice", 1)
    BY <2>2
  <2> HIDE DEF t
  <2>4. InWord(c.rest, c.width - 1)
    BY <2>3 DEF FieldsFit, Field, t
  <2>5. c.width - 1 \in Nat /\ c.width - 1 < ValueBits /\ c.width - 1 <= ValueBits
    BY <1>0, <2>4 DEF InWord
  <2>6. PICK p \in Nat \ {0} : p = Power2[c.width - 1] /\ p <= h
    BY <1>1, <2>5, PowersOfWidths
  <2>7. Asks(t.low, t.high)
    BY <1>1, <2>2, <2>6 DEF Asks
  <2>8. 1 \in Powers
    BY <1>0, <1>2, PowerIs, 0 \in Nat, 0 <= ValueBits
  <2>9. QED
    BY <2>2, <2>7, <2>8 DEF t
<1>10. CASE c.name \in {"Ubits", "Usubone"}
  <2>1. t = Counted(c)
    BY <1>10 DEF Takes
  <2>2. PICK k, of :
          /\ t.low = (IF c.name = "Ubits" THEN 0 ELSE 1)
          /\ t.high = (IF c.name = "Ubits" THEN Power2[c.width] - 1 ELSE Power2[c.width])
          /\ t.multiple = None /\ t.allowed = None
          /\ t.fields = <<Field(Current, c.at, c.width, k, of)>>
    BY <1>10, <2>1 DEF Counted, Immediate
  <2>3. InWord(c.at, c.width) /\ (c.name = "Usubone" => c.width < ValueBits)
    BY <2>2, <1>a, ValueAssumption DEF Field
  <2> HIDE DEF t
  <2>4. c.width \in Nat /\ c.width <= ValueBits
    BY <1>0, <2>3 DEF InWord
  <2>5. PICK p \in Nat \ {0} : p = Power2[c.width] /\ p <= 2 * h /\ (c.width < ValueBits => p <= h)
    BY <1>1, <2>4, PowersOfWidths
  <2>6. Asks(t.low, t.high)
    BY <1>1, <1>10, <2>2, <2>3, <2>5 DEF Asks
  <2>7. QED
    BY <2>2, <2>6 DEF t
<1>11. CASE c.name = "Ufields"
  <2>1. t = Scattered(c)
    BY <1>11 DEF Takes
  <2>2. t.low = 0 /\ t.high = Power2[Len(Reverse(c.places))] - 1 /\ t.multiple = None /\ t.allowed = None
    BY <2>1 DEF Scattered, Immediate
  <2>3. Len(c.places) \in Nat /\ Len(c.places) <= MaxFieldWidth /\ Len(Reverse(c.places)) = Len(c.places)
    <3>1. c.places \in Seq(Int) /\ Len(c.places) <= MaxFieldWidth
      BY <1>11, ValueAssumption, CommandAssumption
    <3>2. Len(c.places) \in Nat /\ Reverse(c.places) = [n \in 1 .. Len(c.places) |-> Reverse(c.places)[n]]
      BY <3>1 DEF Reverse
    <3>3. QED
      BY <3>1, <3>2, MadeSequence
  <2> HIDE DEF t
  <2>4. Len(c.places) <= ValueBits
    BY <1>0, <2>3
  <2>5. PICK p \in Nat \ {0} : p = Power2[Len(Reverse(c.places))] /\ p <= 2 * h
    BY <1>1, <2>3, <2>4, PowersOfWidths
  <2>6. Asks(t.low, t.high)
    BY <1>1, <2>2, <2>5 DEF Asks
  <2>7. QED
    BY <2>2, <2>6 DEF t
<1>12. CASE c.name = "Ulist"
  <2>1. t = Listed(c)
    BY <1>12 DEF Takes
  <2> DEFINE R == Range(c.options)
             Least(v) == v \in R /\ \A w \in R : v <= w
             Most(v) == v \in R /\ \A w \in R : w <= v
  <2>2. /\ t.low = (CHOOSE v \in R : \A w \in R : v <= w)
        /\ t.high = (CHOOSE v \in R : \A w \in R : w <= v)
        /\ t.multiple = None /\ t.allowed = c.options
    BY <2>1 DEF Listed, Immediate
  <2>3. c.options \in Seq(SignedValues) /\ c.options # <<>>
    BY <1>12, ValueAssumption
  <2>4. R \subseteq SignedValues /\ R # {}
    <3>1. 1 \in DOMAIN c.options /\ \A n \in DOMAIN c.options : c.options[n] \in SignedValues
      BY <2>3
    <3>2. QED
      BY <3>1 DEF Range
  <2> HIDE DEF t, R
  <2>5. t.low \in R /\ t.high \in R
    <3>1. \E v \in R : \A w \in R : v <= w
      BY <1>1, <2>4, LeastInt
    <3>2. \E v \in R : \A w \in R : w <= v
      BY <1>1, <2>4, GreatestInt
    <3>3. QED
      BY <2>2, <3>1, <3>2
  <2>6. t.low \in -h .. h - 1 /\ t.high \in -h .. h - 1
    BY <1>1, <2>4, <2>5
  <2>7. Asks(t.low, t.high)
    BY <1>1, <2>6 DEF Asks
  <2>8. QED
    BY <2>2, <2>3, <2>7 DEF t
<1>13. QED
  BY <1>3, <1>4, <1>5, <1>6, <1>7, <1>8, <1>9, <1>10, <1>11, <1>12 DEF OperandCommands

\* The list of flat operands, from one operand to the next.
LEMMA FlatStep ==
  ASSUME NEW ops, IsSequence(ops)
  PROVE  /\ FlatTo(ops)[0] = <<>>
         /\ \A n \in 1 .. Len(ops) :
              FlatTo(ops)[n] = IF ops[n].literal = None THEN Append(FlatTo(ops)[n - 1], n)
                               ELSE FlatTo(ops)[n - 1]
<1> DEFINE D == Seq(1 .. Len(ops))
           N == Len(ops)
           Add(q, n) == IF ops[n].literal = None THEN Append(q, n) ELSE q
           g == [x \in (1 .. N) \X D |-> Add(x[2], x[1])]
           Body(f) == [n \in 0 .. N |->
                         IF n = 0 THEN <<>> ELSE Add(f[n - 1], n)]
           w == FlatTo(ops)
<1>1. N \in Nat /\ <<>> \in D
  BY SequenceFacts
<1>2. g \in [((0 + 1) .. N) \X D -> D]
  <2>1. ASSUME NEW x \in (1 .. N) \X D
        PROVE  Add(x[2], x[1]) \in D
    <3>1. x[2] \in D /\ x[1] \in 1 .. Len(ops)
      OBVIOUS
    <3>2. Append(x[2], x[1]) \in D
      BY <3>1, AppendFacts
    <3>3. QED
      BY <3>1, <3>2
  <2>2. QED
    BY <2>1
<1>3. PICK f \in [0 .. N -> D] :
        f[0] = <<>> /\ \A k \in 1 .. N : f[k] = g[<<k, f[k - 1]>>]
  <2> HIDE DEF g, D
  <2>1. 0 \in Nat /\ 0 <= N
    BY <1>1
  <2>2. \E f : Recurses(f, 0, N, D, <<>>, g)
    BY <1>1, <1>2, <2>1, RecursionExists
  <2>3. 0 + 1 = 1
    OBVIOUS
  <2>4. QED
    BY <2>2, <2>3 DEF Recurses
<1>4. ASSUME NEW k \in 1 .. N
      PROVE  f[k] = Add(f[k - 1], k)
  <2> HIDE DEF D, Add
  <2>1. <<k, f[k - 1]>> \in (1 .. N) \X D
    BY <1>1, <1>3
  <2>2. PICK x : x = <<k, f[k - 1]>>
    OBVIOUS
  <2>3. /\ x \in (1 .. N) \X D /\ x[1] = k /\ x[2] = f[k - 1]
        /\ f[k] = g[x]
    BY <1>3, <2>1, <2>2
  <2>4. g[x] = Add(x[2], x[1])
    BY <2>3
  <2>5. QED
    BY <2>3, <2>4
<1>5. f = Body(f)
  <2>1. ASSUME NEW n \in 0 .. N
        PROVE  f[n] = IF n = 0 THEN <<>> ELSE Add(f[n - 1], n)
    <3> HIDE DEF D, Add, g
    <3>1. QED
      BY <1>1, <1>3, <1>4
  <2>2. QED
    BY <2>1
<1>6. w = CHOOSE h : h = Body(h)
  BY DEF FlatTo
<1>7. w = Body(w)
  <2> HIDE DEF Body, w
  <2>1. QED
    BY <1>5, <1>6 DEF w
<1> HIDE DEF w
<1>8. w[0] = <<>>
  BY <1>1, <1>7
<1>9. ASSUME NEW n \in 1 .. Len(ops)
      PROVE  w[n] = IF ops[n].literal = None THEN Append(w[n - 1], n) ELSE w[n - 1]
  <2>1. n \in 0 .. N /\ n # 0
    BY <1>1
  <2>2. QED
    BY <1>7, <2>1
<1>10. QED
  BY <1>8, <1>9 DEF w

\* What flat is: the operands that are not literal, each of them once.
FlatUpTo(q, ops, n) ==
  /\ q \in Seq(1 .. n)
  /\ \A j, k \in 1 .. Len(q) : q[j] = q[k] => j = k
  /\ \A m \in 1 .. n : (\E k \in 1 .. Len(q) : q[k] = m) <=> ops[m].literal = None

LEMMA FlatFacts ==
  ASSUME NEW ops, IsSequence(ops)
  PROVE  FlatUpTo(Flat(ops), ops, Len(ops))
<1> DEFINE N == Len(ops)
           S == {n \in Nat : n <= N => FlatUpTo(FlatTo(ops)[n], ops, n)}
<1>0. N \in Nat
  BY SequenceFacts
<1>1. 0 \in S
  <2>1. 1 .. 0 = {} /\ <<>> \in Seq(1 .. 0) /\ Len(<<>>) = 0
    OBVIOUS
  <2>2. QED
    BY <2>1, FlatStep DEF FlatUpTo
<1>2. ASSUME NEW n \in S
      PROVE  n + 1 \in S
  <2>1. SUFFICES ASSUME n + 1 <= N
                 PROVE  FlatUpTo(FlatTo(ops)[n + 1], ops, n + 1)
    OBVIOUS
  <2>2. n \in Nat /\ n + 1 \in 1 .. Len(ops) /\ (n + 1) - 1 = n /\ n <= N
    BY <1>0, <2>1
  <2>3. PICK q : q = FlatTo(ops)[n] /\ FlatUpTo(q, ops, n)
    BY <2>2
  <2>4. PICK r : r = FlatTo(ops)[n + 1]
    OBVIOUS
  <2>5. r = IF ops[n + 1].literal = None THEN Append(q, n + 1) ELSE q
    BY <2>2, <2>3, <2>4, FlatStep
  <2>6. /\ q \in Seq(1 .. n + 1) /\ Len(q) \in Nat /\ \A k \in 1 .. Len(q) : q[k] \in 1 .. n
    <3>1. q \in Seq(1 .. n)
      BY <2>3 DEF FlatUpTo
    <3>2. Len(q) \in Nat /\ \A k \in 1 .. Len(q) : q[k] \in 1 .. n
      BY <3>1
    <3>3. q \in [1 .. Len(q) -> 1 .. n + 1]
      BY <2>2, <3>1, <3>2
    <3>4. QED
      BY <3>2, <3>3, FunctionIsSequence
  <2>7. CASE ops[n + 1].literal = None
    <3>1. /\ r \in Seq(1 .. n + 1) /\ Len(r) = Len(q) + 1
          /\ \A k \in 1 .. Len(q) : r[k] = q[k]
          /\ r[Len(q) + 1] = n + 1
      BY <2>2, <2>5, <2>6, <2>7, AppendFacts
    <3>2. ASSUME NEW j \in 1 .. Len(r), NEW k \in 1 .. Len(r), r[j] = r[k]
          PROVE  j = k
      <4>1. CASE j \in 1 .. Len(q) /\ k \in 1 .. Len(q)
        BY <2>3, <3>1, <3>2, <4>1 DEF FlatUpTo
      <4>a. \A i \in 1 .. Len(q) : r[i] # n + 1
        BY <2>2, <2>6, <3>1
      <4>2. CASE j = Len(q) + 1 /\ k \in 1 .. Len(q)
        BY <3>1, <3>2, <4>a, <4>2
      <4>3. CASE k = Len(q) + 1 /\ j \in 1 .. Len(q)
        BY <3>1, <3>2, <4>a, <4>3
      <4>4. QED
        BY <2>6, <3>1, <4>1, <4>2, <4>3
    <3>3. ASSUME NEW m \in 1 .. n + 1
          PROVE  (\E k \in 1 .. Len(r) : r[k] = m) <=> ops[m].literal = None
      <4>1. CASE m = n + 1
        <5>1. Len(q) + 1 \in 1 .. Len(r)
          BY <2>6, <3>1
        <5>2. QED
          BY <2>7, <3>1, <4>1, <5>1
      <4>2. CASE m # n + 1
        <5>1. m \in 1 .. n
          BY <2>2, <4>2
        <5>2. (\E k \in 1 .. Len(q) : q[k] = m) <=> ops[m].literal = None
          BY <2>3, <5>1 DEF FlatUpTo
        <5>3. (\E k \in 1 .. Len(r) : r[k] = m) <=> (\E k \in 1 .. Len(q) : q[k] = m)
          <6>1. ASSUME NEW k \in 1 .. Len(r), r[k] = m
                PROVE  k \in 1 .. Len(q) /\ q[k] = m
            <7>1. k # Len(q) + 1
              BY <3>1, <4>2, <6>1
            <7>2. k \in 1 .. Len(q)
              BY <2>6, <3>1, <7>1
            <7>3. QED
              BY <3>1, <6>1, <7>2
          <6>2. ASSUME NEW k \in 1 .. Len(q), q[k] = m
                PROVE  k \in 1 .. Len(r) /\ r[k] = m
            BY <2>6, <3>1, <6>2
          <6>3. QED
            BY <6>1, <6>2
        <5>4. QED
          BY <5>2, <5>3
      <4>3. QED
        BY <4>1, <4>2
    <3>4. QED
      BY <2>4, <3>1, <3>2, <3>3 DEF FlatUpTo
  <2>8. CASE ops[n + 1].literal # None
    <3>1. r = q
      BY <2>5, <2>8
    <3>2. ASSUME NEW m \in 1 .. n + 1
          PROVE  (\E k \in 1 .. Len(q) : q[k] = m) <=> ops[m].literal = None
      <4>1. CASE m = n + 1
        BY <2>2, <2>6, <2>8, <4>1
      <4>2. CASE m # n + 1
        <5>1. m \in 1 .. n
          BY <2>2, <4>2
        <5>2. QED
          BY <2>3, <5>1 DEF FlatUpTo
      <4>3. QED
        BY <4>1, <4>2
    <3>3. QED
      BY <2>3, <2>4, <2>6, <3>1, <3>2 DEF FlatUpTo
  <2>9. QED
    BY <2>7, <2>8
<1>3. S \in SUBSET Nat
  OBVIOUS
<1> HIDE DEF S
<1>4. S = Nat
  BY <1>1, <1>2, <1>3, NatSet
<1>5. QED
  BY <1>0, <1>4 DEF S, Flat

\* Two lists of operands with the same literals have the same flat.
LEMMA FlatIsKept ==
  ASSUME NEW a, NEW b, IsSequence(a), IsSequence(b), Len(a) = Len(b),
         \A n \in 1 .. Len(a) : a[n].literal = b[n].literal
  PROVE  Flat(a) = Flat(b)
<1> DEFINE S == {n \in Nat : n <= Len(a) => FlatTo(a)[n] = FlatTo(b)[n]}
<1>1. 0 \in S
  BY FlatStep
<1>2. ASSUME NEW n \in S
      PROVE  n + 1 \in S
  <2>1. SUFFICES ASSUME n + 1 <= Len(a)
                 PROVE  FlatTo(a)[n + 1] = FlatTo(b)[n + 1]
    OBVIOUS
  <2>2. n + 1 \in 1 .. Len(a) /\ n + 1 \in 1 .. Len(b) /\ (n + 1) - 1 = n /\ FlatTo(a)[n] = FlatTo(b)[n]
    <3>1. n \in Nat /\ Len(a) \in Nat
      BY SequenceFacts
    <3>2. QED
      BY <2>1, <3>1
  <2>3. a[n + 1].literal = b[n + 1].literal
    BY <2>2
  <2>4. QED
    BY <2>2, <2>3, FlatStep
<1>3. S \in SUBSET Nat
  OBVIOUS
<1> HIDE DEF S
<1>4. S = Nat
  BY <1>1, <1>2, <1>3, NatSet
<1>5. Len(a) \in Nat
  BY SequenceFacts
<1>6. QED
  BY <1>4, <1>5 DEF S, Flat

\* What becomes of an operand that is constrained and, perhaps, given another
\* multiple and another list of values.
LEMMA ConstrainedIsOK ==
  ASSUME NEW o, ValueOK(o), NEW low, NEW high, Asks(low, high),
         Inhabited(Constrained(o, low, high))
  PROVE  LET q == Constrained(o, low, high)
         IN  /\ ValueOK(q) /\ q.literal = o.literal /\ q.min # None
             /\ q.multiple = o.multiple /\ q.allowed = o.allowed
             /\ low <= q.min /\ q.max <= high
<1>0. PICK h \in Nat \ {0} : h = Half /\ Whole = 2 * h
  BY HalfAndWhole
<1>1. /\ low \in Int /\ high \in Int /\ -h <= low /\ high < 2 * h /\ (low < 0 => high < h)
  BY <1>0 DEF Asks
<1>2. None \notin Int
  BY NoneAssumption
<1>3. PICK a, b :
        /\ a = IF o.min = None THEN low ELSE Larger(low, o.min)
        /\ b = IF o.max = None THEN high ELSE Smaller(high, o.max)
  OBVIOUS
<1>4. /\ o.min \in Int \cup {None} /\ o.max \in Int \cup {None}
      /\ o.min # None => o.max # None /\ o.min <= o.max /\ -h <= o.min
      /\ o.max # None => o.max < 2 * h
      /\ o.min # None /\ o.min < 0 => o.max < h
  BY <1>0 DEF ValueOK
<1>5. /\ a \in Int /\ low <= a /\ -h <= a
      /\ a < 0 => low < 0 /\ (o.min = None \/ o.min < 0)
  BY <1>1, <1>3, <1>4 DEF Larger
<1>6. /\ b \in Int /\ b <= high
      /\ o.max # None => b <= o.max
  BY <1>1, <1>3, <1>4 DEF Smaller
<1>7. b < 2 * h /\ (a < 0 => b < h)
  BY <1>1, <1>2, <1>4, <1>5, <1>6
<1>8. o \in [kind : Kinds, literal : Int \cup {None}, min : Int \cup {None}, max : Int \cup {None},
             multiple : Powers, allowed : Seq(SignedValues) \cup {None}, default : {0, None}]
  BY DEF ValueOK
<1>9. PICK q : q = Constrained(o, low, high)
  OBVIOUS
<1>10. q = [o EXCEPT !.min = a, !.max = b]
  BY <1>3, <1>8, <1>9 DEF Constrained
<1>11. /\ q.min = a /\ q.max = b /\ q.literal = o.literal
       /\ q.multiple = o.multiple /\ q.allowed = o.allowed
  BY <1>8, <1>10
<1>12. q \in [kind : Kinds, literal : Int \cup {None}, min : Int \cup {None}, max : Int \cup {None},
              multiple : Powers, allowed : Seq(SignedValues) \cup {None}, default : {0, None}]
  BY <1>5, <1>6, <1>8, <1>10
<1>13. a <= b
  BY <1>9, <1>11 DEF Inhabited
<1>14. a # None /\ b # None
  BY <1>2, <1>5, <1>6
<1>15. ValueOK(q)
  BY <1>0, <1>5, <1>6, <1>7, <1>11, <1>12, <1>13, <1>14 DEF ValueOK
<1>16. QED
  BY <1>5, <1>6, <1>9, <1>11, <1>14, <1>15

LEMMA MultipleIsOK ==
  ASSUME NEW q, ValueOK(q), NEW m \in Powers
  PROVE  /\ ValueOK([q EXCEPT !.multiple = m])
         /\ [q EXCEPT !.multiple = m].literal = q.literal
<1>1. q \in [kind : Kinds, literal : Int \cup {None}, min : Int \cup {None}, max : Int \cup {None},
             multiple : Powers, allowed : Seq(SignedValues) \cup {None}, default : {0, None}]
  BY DEF ValueOK
<1>2. PICK r : r = [q EXCEPT !.multiple = m]
  OBVIOUS
<1>3. /\ r \in [kind : Kinds, literal : Int \cup {None}, min : Int \cup {None}, max : Int \cup {None},
                multiple : Powers, allowed : Seq(SignedValues) \cup {None}, default : {0, None}]
      /\ r.min = q.min /\ r.max = q.max /\ r.allowed = q.allowed /\ r.literal = q.literal
  BY <1>1, <1>2
<1>4. QED
  BY <1>2, <1>3 DEF ValueOK

LEMMA AllowedIsOK ==
  ASSUME NEW q, ValueOK(q), q.min # None, NEW m \in Powers, NEW al \in Seq(SignedValues) \cup {None}
  PROVE  /\ ValueOK([q EXCEPT !.multiple = m, !.allowed = al])
         /\ [q EXCEPT !.multiple = m, !.allowed = al].literal = q.literal
<1>1. q \in [kind : Kinds, literal : Int \cup {None}, min : Int \cup {None}, max : Int \cup {None},
             multiple : Powers, allowed : Seq(SignedValues) \cup {None}, default : {0, None}]
  BY DEF ValueOK
<1>2. PICK r : r = [q EXCEPT !.multiple = m, !.allowed = al]
  OBVIOUS
<1>3. /\ r \in [kind : Kinds, literal : Int \cup {None}, min : Int \cup {None}, max : Int \cup {None},
                multiple : Powers, allowed : Seq(SignedValues) \cup {None}, default : {0, None}]
      /\ r.min = q.min /\ r.max = q.max /\ r.literal = q.literal
  BY <1>1, <1>2
<1>4. QED
  BY <1>2, <1>3 DEF ValueOK

ValuesOK == \A n \in DOMAIN operands : ValueOK(operands[n])

\* The places of the operands, and those that are not literal.
ShapeKept ==
  /\ Len(operands') = Len(operands) /\ DOMAIN operands' = DOMAIN operands
  /\ Flat(operands') = Flat(operands)
  /\ \A n \in DOMAIN operands : (HasCurrent => n # Current) => operands'[n] = operands[n]

LEMMA CurrentIsOK ==
  ASSUME FormInv, ValuesOK, HasCurrent
  PROVE  /\ Current \in 1 .. Len(operands) /\ Current \in DOMAIN operands
         /\ ValueOK(operands[Current]) /\ operands[Current].literal = None
         /\ operands[Current].multiple \in Powers
         /\ operands[Current].allowed \in Seq(SignedValues) \cup {None}
<1>1. IsSequence(operands) /\ cursor \in Nat
  BY DEF FormInv, OperandsOK
<1>2. Current \in 1 .. Len(operands) /\ DOMAIN operands = 1 .. Len(operands)
  BY <1>1, CurrentIsAnOperand, SequenceFacts
<1>3. operands[Current].literal = None
  <2>1. PICK flat : flat = Flat(operands) /\ FlatUpTo(flat, operands, Len(operands))
    BY <1>1, FlatFacts
  <2>2. cursor + 1 \in 1 .. Len(flat) /\ Current = flat[cursor + 1]
    BY <1>1, <2>1 DEF HasCurrent, Current, FlatUpTo
  <2>3. QED
    BY <1>2, <2>1, <2>2 DEF FlatUpTo
<1>4. ValueOK(operands[Current])
  BY <1>2 DEF ValuesOK
<1>5. QED
  BY <1>2, <1>3, <1>4 DEF ValueOK

\* Every command leaves the operands alone or narrows the one at the cursor.
LEMMA ValuesReplaced ==
  ASSUME FormInv, ValuesOK, HasCurrent, NEW r, ValueOK(r), r.literal = None,
         operands' = [operands EXCEPT ![Current] = r]
  PROVE  ValuesOK' /\ ShapeKept
<1>1. IsSequence(operands) /\ cursor \in Nat
  BY DEF FormInv, OperandsOK
<1>2. /\ Current \in 1 .. Len(operands) /\ DOMAIN operands = 1 .. Len(operands)
      /\ operands[Current].literal = None
  BY <1>1, CurrentIsOK, SequenceFacts
<1>3. PICK i : i = Current
  OBVIOUS
<1>4. /\ DOMAIN operands' = DOMAIN operands /\ operands'[i] = r
      /\ \A n \in DOMAIN operands : n # i => operands'[n] = operands[n]
  BY <1>2, <1>3
<1>5. ASSUME NEW n \in DOMAIN operands
      PROVE  ValueOK(operands'[n]) /\ operands'[n].literal = operands[n].literal
  BY <1>2, <1>3, <1>4 DEF ValuesOK
<1>6. IsSequence(operands') /\ Len(operands') = Len(operands)
  BY <1>1, <1>2, <1>3, ReplacedSequence
<1>7. Flat(operands') = Flat(operands)
  BY <1>1, <1>2, <1>5, <1>6, FlatIsKept
<1>8. QED
  BY <1>3, <1>4, <1>5, <1>6, <1>7 DEF ValuesOK, ShapeKept

LEMMA ValuesInit == Init => ValuesOK
<1> SUFFICES ASSUME Init
             PROVE  ValuesOK
  OBVIOUS
<1>1. /\ IsSequence(operands)
      /\ \A op \in Range(operands) :
           /\ op \in OperandShapes
           /\ {op.min, op.max} \subseteq SignedValues \cup {None}
           /\ op.min # None => op.max # None /\ op.min <= op.max
  <2>1. operands \in Shapes
    BY DEF Init
  <2>2. QED
    BY <2>1, ShapeAssumption DEF IsSequence
<1>2. PICK h \in Nat \ {0} : h = Half /\ Whole = 2 * h /\ SignedValues = -h .. h - 1
  BY HalfAndWhole
<1>3. 1 \in Powers
  <2>1. 0 \in 0 .. ValueBits /\ Power2[0] = 1
    BY WidthAssumption, PowerIs
  <2>2. QED
    BY <2>1 DEF Powers
<1>4. ASSUME NEW n \in DOMAIN operands
      PROVE  ValueOK(operands[n])
  <2>1. PICK op : op = operands[n]
    OBVIOUS
  <2>2. /\ op \in OperandShapes
        /\ {op.min, op.max} \subseteq SignedValues \cup {None}
        /\ op.min # None => op.max # None /\ op.min <= op.max
    <3>1. op \in Range(operands)
      BY <2>1 DEF Range
    <3>2. QED
      BY <1>1, <3>1
  <2>3. op \in [kind : Kinds, literal : Int \cup {None}, min : Int \cup {None}, max : Int \cup {None},
                multiple : Powers, allowed : Seq(SignedValues) \cup {None}, default : {0, None}]
    <3>1. op \in [kind : Kinds, literal : Int \cup {None}, min : Int \cup {None}, max : Int \cup {None},
                  multiple : {1}, allowed : {None}, default : {0, None}]
      BY <2>2 DEF OperandShapes
    <3>2. QED
      BY <1>3, <3>1
  <2>4. op.allowed = None
    <3>1. op \in [kind : Kinds, literal : Int \cup {None}, min : Int \cup {None}, max : Int \cup {None},
                  multiple : {1}, allowed : {None}, default : {0, None}]
      BY <2>2 DEF OperandShapes
    <3>2. QED
      BY <3>1
  <2>5. op.min # None => op.min \in -h .. h - 1
    BY <1>2, <2>2
  <2>6. op.max # None => op.max \in -h .. h - 1
    BY <1>2, <2>2
  <2>7. QED
    BY <1>2, <2>1, <2>2, <2>3, <2>4, <2>5, <2>6 DEF ValueOK
<1>5. QED
  BY <1>4 DEF ValuesOK

LEMMA RegisterAsks == Asks(0, Power2[RegBits] - 1)
<1>1. RegBits \in Nat /\ RegBits <= ValueBits
  BY WidthAssumption, CommandAssumption
<1>2. PICK p \in Nat \ {0} : p = Power2[RegBits] /\ p <= Whole
  BY <1>1, PowersOfWidths
<1>3. QED
  BY <1>2, HalfAndWhole DEF Asks

LEMMA SignedAsk ==
  ASSUME NEW low \in SignedValues, NEW high \in SignedValues
  PROVE  Asks(low, high)
BY HalfAndWhole DEF Asks

LEMMA ValuesNext ==
  ASSUME FormInv, ValuesOK, [Next]_vars
  PROVE  ValuesOK' /\ ShapeKept
<1>1. CASE operands' = operands
  BY <1>1 DEF ValuesOK, ShapeKept
<1>2. ASSUME NEW c \in Commands, CheckCommand(c), operands' # operands
      PROVE  ValuesOK' /\ ShapeKept
  <2>1. /\ HasCurrent
        /\ Inhabited(Constrained(operands[Current], c.low, c.high))
        /\ c.name \in CheckCommands
    BY <1>2 DEF CheckCommand, Refuse
  <2>2. PICK op : op = Constrained(operands[Current], c.low, c.high)
    OBVIOUS
  <2>3. operands' = [operands EXCEPT ![Current] =
                       IF c.name = "CSscaled" THEN [op EXCEPT !.multiple = c.multiple] ELSE op]
    BY <1>2, <2>2 DEF CheckCommand, Refuse
  <2>4. Asks(c.low, c.high)
    <3>1. {c.low, c.high} \subseteq SignedValues
      BY <2>1, ValueAssumption
    <3>2. QED
      BY <3>1, SignedAsk
  <2>5. c.name = "CSscaled" => c.multiple \in Powers
    BY ValueAssumption DEF Powers
  <2>6. PICK o : o = operands[Current] /\ ValueOK(o) /\ o.literal = None /\ o.multiple \in Powers
                 /\ o.allowed \in Seq(SignedValues) \cup {None}
    BY <2>1, CurrentIsOK
  <2>7. CASE c.name = "CSscaled"
    <3>1. ValueOK(op) /\ op.literal = None
      BY <2>1, <2>2, <2>4, <2>6, ConstrainedIsOK
    <3>2. PICK m \in Powers : m = c.multiple
      BY <2>5, <2>7
    <3>3. /\ ValueOK([op EXCEPT !.multiple = c.multiple])
          /\ [op EXCEPT !.multiple = c.multiple].literal = None
      BY <3>1, <3>2, MultipleIsOK
    <3>4. QED
      BY <2>1, <2>3, <2>7, <3>3, ValuesReplaced
  <2>8. CASE c.name # "CSscaled"
    <3>1. ValueOK(op) /\ op.literal = None
      BY <2>1, <2>2, <2>4, <2>6, ConstrainedIsOK
    <3>2. QED
      BY <2>1, <2>3, <2>8, <3>1, ValuesReplaced
  <2>9. QED
    BY <2>7, <2>8
<1>3. ASSUME NEW c \in Commands, PairCommand(c), operands' # operands
      PROVE  ValuesOK' /\ ShapeKept
  <2>1. PICK op : op = Constrained(operands[Current], 0, Power2[RegBits] - 1)
    OBVIOUS
  <2>2. /\ HasCurrent /\ Inhabited(op)
        /\ operands' = [operands EXCEPT ![Current] = op]
    BY <1>3, <2>1 DEF PairCommand, Refuse
  <2>3. PICK o : o = operands[Current] /\ ValueOK(o) /\ o.literal = None /\ o.multiple \in Powers
                 /\ o.allowed \in Seq(SignedValues) \cup {None}
    BY <2>2, CurrentIsOK
  <2>4. ValueOK(op) /\ op.literal = None
    BY <2>1, <2>2, <2>3, RegisterAsks, ConstrainedIsOK
  <2>5. QED
    BY <2>2, <2>4, ValuesReplaced
<1>4. ASSUME NEW c \in Commands, OperandCommand(c), operands' # operands
      PROVE  ValuesOK' /\ ShapeKept
  <2>1. PICK t : t = Takes(c)
    OBVIOUS
  <2>2. PICK op : op = Constrained(operands[Current], t.low, t.high)
    OBVIOUS
  <2>3. /\ c.name \in OperandCommands /\ HasCurrent /\ Inhabited(op) /\ FieldsFit(t.fields)
        /\ operands' = [operands EXCEPT ![Current] =
                          [op EXCEPT !.multiple = IF t.multiple = None THEN @ ELSE t.multiple,
                                     !.allowed = IF t.allowed = None THEN @ ELSE t.allowed]]
    BY <1>4, <2>1, <2>2 DEF OperandCommand, Refuse
  <2>4. /\ Asks(t.low, t.high) /\ t.multiple \in Powers \cup {None}
        /\ t.allowed \in Seq(SignedValues) \cup {None}
    BY <2>1, <2>3, TakenValues
  <2>5. PICK o : o = operands[Current] /\ ValueOK(o) /\ o.literal = None /\ o.multiple \in Powers
                 /\ o.allowed \in Seq(SignedValues) \cup {None}
    BY <2>3, CurrentIsOK
  <2>6. ValueOK(op) /\ op.literal = None /\ op.min # None /\ op.multiple = o.multiple /\ op.allowed = o.allowed
    BY <2>2, <2>3, <2>4, <2>5, ConstrainedIsOK
  <2>7. PICK m \in Powers, al \in Seq(SignedValues) \cup {None} :
          /\ m = IF t.multiple = None THEN op.multiple ELSE t.multiple
          /\ al = IF t.allowed = None THEN op.allowed ELSE t.allowed
    BY <2>4, <2>5, <2>6
  <2>8. /\ ValueOK([op EXCEPT !.multiple = m, !.allowed = al])
        /\ [op EXCEPT !.multiple = m, !.allowed = al].literal = None
    BY <2>6, AllowedIsOK
  <2>9. operands' = [operands EXCEPT ![Current] = [op EXCEPT !.multiple = m, !.allowed = al]]
    BY <2>3, <2>7
  <2>10. QED
    BY <2>3, <2>8, <2>9, ValuesReplaced
<1>5. QED
  BY <1>1, <1>2, <1>3, <1>4
     DEF Next, Command, Finish, StaticCommand, CursorCommand, SliceCommand, Refuse, vars

\* Whatever the operands of a rule and whatever its commands ask of them, an
\* operand with a negative bound is accepted for exactly the signed values its
\* bounds, its multiple and its list of options name, although the generated
\* function compares unsigned words (compile_form, constrain and the selectors
\* generate_a64 writes).
THEOREM SelectorsAccept == Spec => []SelectorsAcceptTheRange
<1>1. FormInv /\ ValuesOK => SelectorsAcceptTheRange
  BY SignedOperand DEF SelectorsAcceptTheRange, ValuesOK, Range
<1>2. Init => FormInv /\ ValuesOK
  BY FormInit, ValuesInit
<1>3. FormInv /\ ValuesOK /\ [Next]_vars => (FormInv /\ ValuesOK)'
  BY FormNext, ValuesNext
<1>4. QED
  BY <1>1, <1>2, <1>3, PTL DEF Spec

-----------------------------------------------------------------------------
(***************************************************************************)
(* The two generators.  The selector generate_a64_e5 writes asks for no    *)
(* list of options; the index of the value in the list refuses it instead, *)
(* because an operand with a list always has a field that holds its index  *)
(* in that very list, whatever the other commands of the rule do.          *)
(***************************************************************************)
PlainKinds == {"plain", "subone", "slice", "lookup", "xor", "bias", "negate", "complement"}

\* Field f is the index of operand n in a list.
Indexes(f, n, list) == f.operand = n /\ f.by.kind = "lookup" /\ f.by.of = list

ListsIndexed ==
  \A n \in DOMAIN operands :
    operands[n].allowed # None =>
      \E m \in DOMAIN fields : Indexes(fields[m], n, operands[n].allowed)

\* A field that sums two operands comes with the constraint that bounds the sum.
SumsConstrained ==
  \A m \in DOMAIN fields :
    fields[m].by.kind \in PlainKinds \/ (fields[m].by.kind = "sum" /\ constraints # <<>>)

AgreeInv == IsSequence(constraints) /\ ListsIndexed /\ SumsConstrained

\* The fields a command adds.
LEMMA TakenKinds ==
  ASSUME NEW c \in Commands, c.name \in OperandCommands
  PROVE  /\ \A n \in DOMAIN Takes(c).fields :
              \/ Takes(c).fields[n].by.kind \in PlainKinds
              \/ Takes(c).fields[n].by.kind = "sum" /\ c.name = "Usum"
         /\ Takes(c).allowed # None =>
              \E n \in DOMAIN Takes(c).fields : Indexes(Takes(c).fields[n], Current, Takes(c).allowed)
<1>0. ASSUME NEW operand, NEW lsb, NEW width, NEW kind, NEW of
      PROVE  /\ DOMAIN <<Field(operand, lsb, width, kind, of)>> = {1}
             /\ <<Field(operand, lsb, width, kind, of)>>[1].by.kind = kind
             /\ <<Field(operand, lsb, width, kind, of)>>[1].by.of = of
             /\ <<Field(operand, lsb, width, kind, of)>>[1].operand = operand
  <2>1. PICK f : f = Field(operand, lsb, width, kind, of)
    OBVIOUS
  <2>2. f.by.kind = kind /\ f.by.of = of /\ f.operand = operand
    BY <2>1 DEF Field
  <2>3. PICK s : s = <<f>>
    OBVIOUS
  <2>4. DOMAIN s = {1} /\ s[1] = f
    BY <2>3
  <2>5. QED
    BY <2>1, <2>2, <2>3, <2>4
<1>1. CASE c.name \in {"R", "R4", "REven", "RNoZr"}
  <2>1. PICK w : Takes(c).fields = <<Field(Current, c.at, w, "plain", 0)>> /\ Takes(c).allowed = None
    BY <1>1 DEF Takes, Register
  <2>2. QED
    BY <1>0, <2>1 DEF PlainKinds
<1>2. CASE c.name \in {"Cond", "InvCond"}
  <2>1. PICK kind : /\ kind \in {"xor", "plain"} /\ Takes(c).allowed = None
                    /\ Takes(c).fields = <<Field(Current, c.at, CondBits, kind, 1)>>
    BY <1>2 DEF Takes, Condition
  <2>2. QED
    BY <1>0, <2>1 DEF PlainKinds
<1>3. CASE c.name \in {"Urange", "Usubmod", "Usubzero", "Usum"}
  <2>1. Takes(c) = Biased(c)
    BY <1>3 DEF Takes
  <2>2. \E kind, w, of : /\ kind \in {"bias", "negate", "complement"} \/ (kind = "sum" /\ c.name = "Usum")
                         /\ Takes(c).fields = <<Field(Current, c.at, w, kind, of)>>
                         /\ Takes(c).allowed = None
    BY <1>3, <2>1 DEF Biased, Immediate
  <2>3. QED
    BY <1>0, <2>2 DEF PlainKinds
<1>4. CASE c.name \in {"Sbits", "Sscaled", "Uscaled"}
  <2>1. Takes(c) = Scaled(c)
    BY <1>4 DEF Takes
  <2>2. Takes(c).fields = <<Field(Current, c.at, c.width, "slice", c.shift)>> /\ Takes(c).allowed = None
    BY <2>1 DEF Scaled, Immediate
  <2>3. QED
    BY <1>0, <2>2 DEF PlainKinds
<1>5. CASE c.name = "Offset"
  <2>1. Takes(c) = Address(c)
    BY <1>5 DEF Takes
  <2>2. PICK f, g : f = Field(Current, c.at, 1, "slice", 0) /\ g = Field(Current, c.rest, c.width - 1, "slice", 1)
    OBVIOUS
  <2>8. f.by.kind = "slice" /\ g.by.kind = "slice"
    BY <2>2 DEF Field
  <2>3. PICK s : s = Takes(c).fields /\ s = <<f, g>>
    BY <2>1, <2>2 DEF Address, Immediate
  <2>4. DOMAIN s = 1 .. 2 /\ s[1] = f /\ s[2] = g
    BY <2>3
  <2>5. Takes(c).allowed = None
    BY <2>1 DEF Address, Immediate
  <2>6. \A n \in DOMAIN s : s[n].by.kind = "slice"
    BY <2>4, <2>8
  <2>7. QED
    BY <2>3, <2>5, <2>6 DEF PlainKinds
<1>6. CASE c.name \in {"Ubits", "Usubone"}
  <2>1. Takes(c) = Counted(c)
    BY <1>6 DEF Takes
  <2>2. \E kind, of : /\ kind \in {"plain", "subone"} /\ Takes(c).allowed = None
                      /\ Takes(c).fields = <<Field(Current, c.at, c.width, kind, of)>>
    BY <1>6, <2>1 DEF Counted, Immediate
  <2>3. QED
    BY <1>0, <2>2 DEF PlainKinds
<1>7. CASE c.name = "Ufields"
  <2>1. Takes(c) = Scattered(c)
    BY <1>7 DEF Takes
  <2>2. PICK places : places = Reverse(c.places)
    OBVIOUS
  <2>3. PICK s : s = Takes(c).fields /\ s = [n \in DOMAIN places |-> Field(Current, places[n], 1, "slice", n - 1)]
    BY <2>1, <2>2 DEF Scattered, Immediate
  <2>4. ASSUME NEW n \in DOMAIN s
        PROVE  s[n].by.kind = "slice"
    BY <2>3 DEF Field
  <2>5. Takes(c).allowed = None
    BY <2>1 DEF Scattered, Immediate
  <2>6. QED
    BY <2>3, <2>4, <2>5 DEF PlainKinds
<1>8. CASE c.name = "Ulist"
  <2>1. Takes(c) = Listed(c)
    BY <1>8 DEF Takes
  <2>2. PICK w : /\ Takes(c).fields = <<Field(Current, c.at, w, "lookup", c.options)>>
                 /\ Takes(c).allowed = c.options
    BY <2>1 DEF Listed, Immediate
  <2>3. QED
    BY <1>0, <2>2 DEF PlainKinds, Indexes
<1>9. QED
  BY <1>1, <1>2, <1>3, <1>4, <1>5, <1>6, <1>7, <1>8 DEF OperandCommands

\* Fields and constraints are only added to; a list of options only changes
\* together with the field that indexes it.
LEMMA AgreeKept ==
  ASSUME AgreeInv, IsSequence(constraints'),
         constraints # <<>> => constraints' # <<>>,
         DOMAIN operands' = DOMAIN operands,
         \A m \in DOMAIN fields : m \in DOMAIN fields' /\ fields'[m] = fields[m],
         \A m \in DOMAIN fields' :
           m \notin DOMAIN fields =>
             \/ fields'[m].by.kind \in PlainKinds
             \/ fields'[m].by.kind = "sum" /\ constraints' # <<>>,
         \A n \in DOMAIN operands :
           \/ operands'[n].allowed = operands[n].allowed
           \/ \E m \in DOMAIN fields' : Indexes(fields'[m], n, operands'[n].allowed)
  PROVE  AgreeInv'
<1>1. ASSUME NEW n \in DOMAIN operands, operands'[n].allowed # None
      PROVE  \E m \in DOMAIN fields' : Indexes(fields'[m], n, operands'[n].allowed)
  <2>1. CASE operands'[n].allowed = operands[n].allowed
    <3>1. PICK m \in DOMAIN fields : Indexes(fields[m], n, operands[n].allowed)
      BY <1>1, <2>1 DEF AgreeInv, ListsIndexed
    <3>2. m \in DOMAIN fields' /\ fields'[m] = fields[m]
      BY <3>1
    <3>3. QED
      BY <2>1, <3>1, <3>2
  <2>2. QED
    BY <2>1
<1>2. ListsIndexed'
  BY <1>1 DEF ListsIndexed, Indexes
<1>3. SumsConstrained'
  BY DEF AgreeInv, SumsConstrained
<1>4. QED
  BY <1>2, <1>3 DEF AgreeInv

\* What a longer list of fields holds.
LEMMA AddedFields ==
  ASSUME NEW s, NEW t, NEW u, IsSequence(s), IsSequence(t), u = s \o t
  PROVE  /\ \A m \in DOMAIN s : m \in DOMAIN u /\ u[m] = s[m]
         /\ \A m \in DOMAIN u : m \notin DOMAIN s => \E k \in DOMAIN t : u[m] = t[k]
         /\ \A k \in DOMAIN t : \E m \in DOMAIN u : u[m] = t[k]
<1>1. /\ DOMAIN u = 1 .. Len(u) /\ DOMAIN s = 1 .. Len(s) /\ DOMAIN t = 1 .. Len(t)
      /\ Len(s) \in Nat /\ Len(t) \in Nat /\ Len(u) = Len(s) + Len(t)
      /\ \A k \in 1 .. Len(s) : u[k] = s[k]
      /\ \A k \in 1 .. Len(t) : u[Len(s) + k] = t[k]
  BY JoinedSequence, SequenceFacts
<1>2. \A m \in DOMAIN s : m \in DOMAIN u /\ u[m] = s[m]
  BY <1>1
<1>3. ASSUME NEW m \in DOMAIN u, m \notin DOMAIN s
      PROVE  \E k \in DOMAIN t : u[m] = t[k]
  <2>1. PICK k : k = m - Len(s) /\ k \in 1 .. Len(t) /\ m = Len(s) + k
    BY <1>1, <1>3
  <2>2. QED
    BY <1>1, <2>1
<1>4. ASSUME NEW k \in DOMAIN t
      PROVE  \E m \in DOMAIN u : u[m] = t[k]
  <2>1. Len(s) + k \in DOMAIN u /\ u[Len(s) + k] = t[k]
    BY <1>1
  <2>2. QED
    BY <2>1
<1>5. QED
  BY <1>2, <1>3, <1>4

LEMMA AddedIsThere ==
  ASSUME NEW s, NEW t, NEW u, NEW k, IsSequence(s), IsSequence(t), u = s \o t, k \in DOMAIN t
  PROVE  Len(s) + k \in DOMAIN u /\ u[Len(s) + k] = t[k]
BY JoinedSequence, SequenceFacts

LEMMA AppendedIsThere ==
  ASSUME NEW s, IsSequence(s), NEW c
  PROVE  IsSequence(Append(s, c)) /\ Append(s, c) # <<>>
<1>1. s \in Seq(Range(s) \cup {c})
  BY DEF IsSequence
<1>2. PICK u : u = Append(s, c)
  OBVIOUS
<1>3. u \in Seq(Range(s) \cup {c}) /\ Len(u) = Len(s) + 1 /\ Len(s) \in Nat
  BY <1>1, <1>2, AppendFacts
<1>4. Len(u) # 0
  BY <1>3
<1>5. IsSequence(u) /\ u # <<>>
  BY <1>3, <1>4, SequenceOf
<1>6. QED
  BY <1>2, <1>5

LEMMA AgreeInit == Init => AgreeInv
<1> SUFFICES ASSUME Init
             PROVE  AgreeInv
  OBVIOUS
<1>1. fields = <<>> /\ DOMAIN fields = {} /\ constraints = <<>>
  BY DEF Init
<1>2. ASSUME NEW n \in DOMAIN operands
      PROVE  operands[n].allowed = None
  <2>1. PICK op : op = operands[n] /\ op \in OperandShapes
    <3>1. operands[n] \in Range(operands) /\ operands \in Shapes
      BY DEF Init, Range
    <3>2. QED
      BY <3>1, ShapeAssumption
  <2>2. op \in [kind : Kinds, literal : Int \cup {None}, min : Int \cup {None}, max : Int \cup {None},
                multiple : {1}, allowed : {None}, default : {0, None}]
    BY <2>1 DEF OperandShapes
  <2>3. QED
    BY <2>1, <2>2
<1>3. <<>> \in Seq({})
  OBVIOUS
<1>4. IsSequence(constraints)
  BY <1>1, <1>3, SequenceOf
<1>5. QED
  BY <1>1, <1>2, <1>4 DEF AgreeInv, ListsIndexed, SumsConstrained

LEMMA AgreeNext ==
  ASSUME FormInv, ValuesOK, AgreeInv, [Next]_vars
  PROVE  AgreeInv'
<1>0. /\ IsSequence(operands) /\ IsSequence(fields) /\ IsSequence(constraints) /\ cursor \in Nat
  BY DEF FormInv, OperandsOK, FieldsOK, AgreeInv
<1>1. CASE UNCHANGED <<operands, fields, constraints>>
  BY <1>1 DEF AgreeInv, ListsIndexed, SumsConstrained, IsSequence
<1>2. ASSUME HasCurrent, UNCHANGED fields,
             constraints' = constraints \/ \E d : constraints' = Append(constraints, d),
             NEW op, op.allowed = operands[Current].allowed,
             operands' = [operands EXCEPT ![Current] = op]
      PROVE  AgreeInv'
  <2>1. PICK i \in DOMAIN operands : i = Current
    BY <1>0, <1>2, CurrentIsOK
  <2>2. /\ DOMAIN operands' = DOMAIN operands /\ operands'[i] = op
        /\ \A n \in DOMAIN operands : n # i => operands'[n] = operands[n]
    BY <1>2, <2>1
  <2>3. IsSequence(constraints') /\ (constraints # <<>> => constraints' # <<>>)
    <3>1. CASE constraints' = constraints
      BY <1>0, <3>1
    <3>2. CASE \E d : constraints' = Append(constraints, d)
      BY <1>0, <3>2, AppendedIsThere
    <3>3. QED
      BY <1>2, <3>1, <3>2
  <2>4. \A n \in DOMAIN operands : operands'[n].allowed = operands[n].allowed
    BY <1>2, <2>1, <2>2
  <2>5. QED
    BY <1>2, <2>2, <2>3, <2>4, AgreeKept
<1>3. ASSUME NEW c \in Commands, CheckCommand(c), ~Refuse
      PROVE  AgreeInv'
  <2>1. /\ HasCurrent /\ c.name \in CheckCommands
        /\ Inhabited(Constrained(operands[Current], c.low, c.high))
        /\ UNCHANGED <<fields, constraints>>
    BY <1>3 DEF CheckCommand
  <2>2. PICK op : op = Constrained(operands[Current], c.low, c.high)
    OBVIOUS
  <2>3. PICK r : /\ operands' = [operands EXCEPT ![Current] = r]
                 /\ r = IF c.name = "CSscaled" THEN [op EXCEPT !.multiple = c.multiple] ELSE op
    BY <1>3, <2>2 DEF CheckCommand
  <2>4. Asks(c.low, c.high)
    <3>1. {c.low, c.high} \subseteq SignedValues
      BY <2>1, ValueAssumption
    <3>2. QED
      BY <3>1, SignedAsk
  <2>5. PICK o : o = operands[Current] /\ ValueOK(o)
    BY <2>1, CurrentIsOK
  <2>6. ValueOK(op) /\ op.allowed = o.allowed
    BY <2>1, <2>2, <2>4, <2>5, ConstrainedIsOK
  <2>7. r.allowed = op.allowed
    BY <2>3, <2>6 DEF ValueOK
  <2>8. QED
    BY <1>2, <2>1, <2>3, <2>5, <2>6, <2>7
<1>4. ASSUME NEW c \in Commands, PairCommand(c), ~Refuse
      PROVE  AgreeInv'
  <2>1. /\ HasCurrent /\ UNCHANGED fields /\ \E d : constraints' = Append(constraints, d)
    BY <1>4 DEF PairCommand
  <2>2. CASE c.name = "RNext"
    <3>1. PICK op : op = Constrained(operands[Current], 0, Power2[RegBits] - 1)
      OBVIOUS
    <3>2. Inhabited(op) /\ operands' = [operands EXCEPT ![Current] = op]
      BY <1>4, <2>2, <3>1 DEF PairCommand
    <3>3. PICK o : o = operands[Current] /\ ValueOK(o)
      BY <2>1, CurrentIsOK
    <3>4. op.allowed = o.allowed
      BY <3>1, <3>2, <3>3, RegisterAsks, ConstrainedIsOK
    <3>5. QED
      BY <1>2, <2>1, <3>2, <3>3, <3>4
  <2>3. CASE c.name # "RNext"
    <3>1. operands' = operands
      BY <1>4, <2>3 DEF PairCommand
    <3>2. IsSequence(constraints') /\ constraints' # <<>>
      BY <1>0, <2>1, AppendedIsThere
    <3>3. QED
      BY <2>1, <3>1, <3>2, AgreeKept
  <2>4. QED
    BY <2>2, <2>3
<1>5. ASSUME NEW c \in Commands, SliceCommand(c), ~Refuse
      PROVE  AgreeInv'
  <2>1. PICK new : /\ new = <<Field(Current, c.at, c.width, "slice", c.shift)>>
                   /\ fields' = fields \o new /\ UNCHANGED <<operands, constraints>>
    BY <1>5 DEF SliceCommand, InsertFields
  <2>2. PICK f : f = Field(Current, c.at, c.width, "slice", c.shift)
    OBVIOUS
  <2>10. f.by.kind = "slice"
    BY <2>2 DEF Field
  <2>3. new = <<f>> /\ new \in Seq({f}) /\ DOMAIN new = {1} /\ new[1] = f
    BY <2>1, <2>2
  <2>4. IsSequence(new)
    BY <2>3, SequenceOf
  <2>5. \A k \in DOMAIN new : new[k].by.kind \in PlainKinds
    BY <2>3, <2>10 DEF PlainKinds
  <2>6. PICK u : u = fields'
    OBVIOUS
  <2>7. /\ \A m \in DOMAIN fields : m \in DOMAIN u /\ u[m] = fields[m]
        /\ \A m \in DOMAIN u : m \notin DOMAIN fields => \E k \in DOMAIN new : u[m] = new[k]
    BY <1>0, <2>1, <2>4, <2>6, AddedFields
  <2>8. \A m \in DOMAIN u : m \notin DOMAIN fields => u[m].by.kind \in PlainKinds
    BY <2>5, <2>7
  <2>9. QED
    BY <1>0, <2>1, <2>6, <2>7, <2>8, AgreeKept
<1>6. ASSUME NEW c \in Commands, OperandCommand(c), ~Refuse
      PROVE  AgreeInv'
  <2>1. PICK t : t = Takes(c)
    OBVIOUS
  <2>2. PICK op : op = Constrained(operands[Current], t.low, t.high)
    OBVIOUS
  <2>3. /\ c.name \in OperandCommands /\ HasCurrent /\ Inhabited(op) /\ FieldsFit(t.fields)
        /\ operands' = [operands EXCEPT ![Current] =
                          [op EXCEPT !.multiple = IF t.multiple = None THEN @ ELSE t.multiple,
                                     !.allowed = IF t.allowed = None THEN @ ELSE t.allowed]]
        /\ fields' = fields \o t.fields
        /\ c.name = "Usum" => \E d : constraints' = Append(constraints, d)
        /\ c.name # "Usum" => constraints' = constraints
    BY <1>6, <2>1, <2>2 DEF OperandCommand, InsertFields
  <2>4. PICK o : o = operands[Current] /\ ValueOK(o) /\ o.literal = None /\ o.multiple \in Powers
                 /\ Current \in DOMAIN operands /\ Current \in 1 .. Len(operands)
    BY <2>3, CurrentIsOK
  <2>5. Asks(t.low, t.high)
    BY <2>1, <2>3, TakenValues
  <2>6. ValueOK(op) /\ op.allowed = o.allowed
    BY <2>2, <2>3, <2>4, <2>5, ConstrainedIsOK
  <2>7. PICK r : /\ operands' = [operands EXCEPT ![Current] = r]
                 /\ r = [op EXCEPT !.multiple = IF t.multiple = None THEN @ ELSE t.multiple,
                                   !.allowed = IF t.allowed = None THEN @ ELSE t.allowed]
    BY <2>3
  <2>8. r.allowed = IF t.allowed = None THEN o.allowed ELSE t.allowed
    BY <2>6, <2>7 DEF ValueOK
  <2>9. IsSequence(t.fields)
    BY <2>1, <2>3, <2>4, TakenFields
  <2>10. PICK u : u = fields'
    OBVIOUS
  <2>11. /\ \A m \in DOMAIN fields : m \in DOMAIN u /\ u[m] = fields[m]
         /\ \A m \in DOMAIN u : m \notin DOMAIN fields => \E k \in DOMAIN t.fields : u[m] = t.fields[k]
         /\ \A k \in DOMAIN t.fields : \E m \in DOMAIN u : u[m] = t.fields[k]
    <3>1. PICK g, old : g = t.fields /\ old = fields
      OBVIOUS
    <3>2. IsSequence(g) /\ IsSequence(old) /\ u = old \o g
      BY <1>0, <2>3, <2>9, <2>10, <3>1
    <3>3. \A m \in DOMAIN old : m \in DOMAIN u /\ u[m] = old[m]
      BY <3>2, AddedFields
    <3>4. \A m \in DOMAIN u : m \notin DOMAIN old => \E k \in DOMAIN g : u[m] = g[k]
      BY <3>2, AddedFields
    <3>5. ASSUME NEW k \in DOMAIN g
          PROVE  \E m \in DOMAIN u : u[m] = g[k]
      <4>1. Len(old) + k \in DOMAIN u /\ u[Len(old) + k] = g[k]
        BY <3>2, <3>5, AddedIsThere
      <4>2. QED
        BY <4>1
    <3>6. QED
      BY <3>1, <3>3, <3>4, <3>5
  <2>12. /\ \A n \in DOMAIN t.fields :
              \/ t.fields[n].by.kind \in PlainKinds
              \/ t.fields[n].by.kind = "sum" /\ c.name = "Usum"
         /\ t.allowed # None =>
              \E n \in DOMAIN t.fields : Indexes(t.fields[n], Current, t.allowed)
    BY <2>1, <2>3, TakenKinds
  <2>13. /\ IsSequence(constraints') /\ (c.name = "Usum" => constraints' # <<>>)
         /\ constraints # <<>> => constraints' # <<>>
    <3>1. CASE c.name = "Usum"
      BY <1>0, <2>3, <3>1, AppendedIsThere
    <3>2. CASE c.name # "Usum"
      BY <1>0, <2>3, <3>2
    <3>3. QED
      BY <3>1, <3>2
  <2>14. \A m \in DOMAIN u : m \notin DOMAIN fields =>
           \/ u[m].by.kind \in PlainKinds
           \/ u[m].by.kind = "sum" /\ constraints' # <<>>
    BY <2>11, <2>12, <2>13
  <2>15. PICK i \in DOMAIN operands : i = Current
    BY <2>4
  <2>16. /\ DOMAIN operands' = DOMAIN operands /\ operands'[i] = r
         /\ \A n \in DOMAIN operands : n # i => operands'[n] = operands[n]
    BY <2>7, <2>15
  <2>17. \/ r.allowed = o.allowed
         \/ \E m \in DOMAIN u : Indexes(u[m], i, r.allowed)
    <3>1. CASE t.allowed = None
      BY <2>8, <3>1
    <3>2. CASE t.allowed # None
      <4>1. PICK k \in DOMAIN t.fields : Indexes(t.fields[k], i, r.allowed)
        BY <2>8, <2>12, <2>15, <3>2
      <4>2. QED
        BY <2>11, <4>1
    <3>3. QED
      BY <3>1, <3>2
  <2>18. \A n \in DOMAIN operands :
           \/ operands'[n].allowed = operands[n].allowed
           \/ \E m \in DOMAIN u : Indexes(u[m], n, operands'[n].allowed)
    BY <2>4, <2>15, <2>16, <2>17
  <2>19. QED
    BY <2>10, <2>11, <2>13, <2>14, <2>16, <2>18, AgreeKept
<1>7. QED
  BY <1>1, <1>3, <1>4, <1>5, <1>6
     DEF Next, Command, Finish, StaticCommand, InsertStatic, CursorCommand, Refuse, vars

\* The word of the two functions is put together from the same fields.
LEMMA SameWord ==
  ASSUME NEW args, \A f \in Range(fields) : TransformedE5(f, args) = Transformed(f, args)
  PROVE  Emit(Form, args) =
           Form.word \cup UNION {Shifted(Ones(TransformedE5(f, args), f.width), f.lsb) : f \in Range(Form.fields)}
<1> DEFINE Bits(f) == Shifted(Ones(Transformed(f, args), f.width), f.lsb)
           BitsE5(f) == Shifted(Ones(TransformedE5(f, args), f.width), f.lsb)
<1>1. \A f \in Range(fields) : BitsE5(f) = Bits(f)
  OBVIOUS
<1>2. Form.fields = fields
  BY DEF Form
<1>3. Emit(Form, args) = Form.word \cup UNION {Bits(f) : f \in Range(fields)}
  BY <1>2 DEF Emit
<1> HIDE DEF Bits, BitsE5
<1>4. UNION {Bits(f) : f \in Range(fields)} = UNION {BitsE5(f) : f \in Range(fields)}
  BY <1>1
<1>5. Emit(Form, args) = Form.word \cup UNION {BitsE5(f) : f \in Range(fields)}
  BY <1>3, <1>4
<1>6. QED
  BY <1>2, <1>5 DEF BitsE5

\* Where every index is found, the list of options is kept to.
LEMMA IndexKeepsToTheList ==
  ASSUME AgreeInv, NEW args \in Arguments(Form), args \in AcceptedE5(Form),
         \A f \in Range(fields) : Transformed(f, args) # None
  PROVE  args \in Accepted(Form)
<1>1. Form.operands = operands /\ Form.fields = fields /\ Form.constraints = constraints
  BY DEF Form
<1>2. DOMAIN args = DOMAIN operands
  BY <1>1 DEF Arguments
<1>3. /\ \A n \in DOMAIN args : AcceptsOperandE5(operands[n], args[n])
      /\ \A c \in Range(constraints) : Satisfies(c, args)
  BY <1>1 DEF AcceptedE5
<1>4. ASSUME NEW n \in DOMAIN args
      PROVE  AcceptsOperand(operands[n], args[n])
  <2>1. PICK op, v : op = operands[n] /\ v = args[n] /\ AcceptsOperandE5(op, v)
    BY <1>3
  <2>2. CASE op.allowed = None
    BY <2>1, <2>2 DEF AcceptsOperand, AcceptsOperandE5
  <2>3. CASE op.allowed # None
    <3>1. PICK m \in DOMAIN fields : Indexes(fields[m], n, op.allowed)
      BY <1>2, <2>1, <2>3 DEF AgreeInv, ListsIndexed
    <3>2. PICK f : f = fields[m] /\ f.operand = n /\ f.by.kind = "lookup" /\ f.by.of = op.allowed
      BY <3>1 DEF Indexes
    <3>3. f \in Range(fields)
      BY <3>2 DEF Range
    <3>4. Transformed(f, args) = OptionIndex(v, op.allowed)
      BY <2>1, <3>2 DEF Transformed
    <3>5. \E k \in DOMAIN op.allowed : Unsigned(op.allowed[k]) = v
      BY <3>3, <3>4 DEF OptionIndex
    <3>6. QED
      BY <2>1, <3>5 DEF AcceptsOperand, AcceptsOperandE5
  <2>4. QED
    BY <2>1, <2>2, <2>3
<1>5. QED
  BY <1>1, <1>3, <1>4 DEF Accepted

\* Whatever a rule does to operands with lists of options, the function
\* generate_a64_e5 writes for a form validate_e5 takes answers every list of
\* operands as the one generate_a64 writes does: the same word or a refusal
\* (compile_form, value_expr and the selectors of both, a64_option_index).
THEOREM GeneratorsAnswerAlike == Spec => []GeneratorsAgree
<1>1. ASSUME AgreeInv, Compiled, ValidE5(Form)
      PROVE  /\ KnownToE5(Form)
             /\ \A args \in Arguments(Form) : Answer(Form, args) = AnswerE5(Form, args)
  <2>1. Form.fields = fields /\ Form.constraints = constraints /\ Form.operands = operands
    BY DEF Form
  <2>2. constraints = <<>>
    BY <1>1, <2>1 DEF ValidE5
  <2>3. \A f \in Range(fields) : f.by.kind \in PlainKinds
    BY <1>1, <2>2 DEF AgreeInv, SumsConstrained, Range
  <2>4. KnownToE5(Form)
    BY <2>1, <2>3 DEF KnownToE5, PlainKinds
  <2>5. ASSUME NEW args \in Arguments(Form)
        PROVE  Answer(Form, args) = AnswerE5(Form, args)
    <3>1. ASSUME NEW f \in Range(fields)
          PROVE  TransformedE5(f, args) = Transformed(f, args)
      BY <2>3 DEF TransformedE5, Transformed, PlainKinds
    <3>2. Emit(Form, args) =
            Form.word \cup UNION {Shifted(Ones(TransformedE5(f, args), f.width), f.lsb) : f \in Range(Form.fields)}
      BY <3>1, SameWord
    <3>3. /\ \A f \in Range(Form.fields) : Transformed(f, args) # None
          /\ args \in AcceptedE5(Form)
          => args \in Accepted(Form)
      BY <1>1, <2>1, IndexKeepsToTheList
    <3>4. args \in Accepted(Form) => args \in AcceptedE5(Form)
      BY DEF Accepted, AcceptedE5, AcceptsOperand, AcceptsOperandE5
    <3>5. (\A f \in Range(Form.fields) : TransformedE5(f, args) # None)
            <=> (\A f \in Range(Form.fields) : Transformed(f, args) # None)
      BY <2>1, <3>1
    <3>6. QED
      BY <3>2, <3>3, <3>4, <3>5, Zenon DEF Answer, AnswerE5
  <2>6. QED
    BY <2>4, <2>5
<1>2. AgreeInv => GeneratorsAgree
  BY <1>1 DEF GeneratorsAgree
<1>3. Init => FormInv /\ ValuesOK /\ AgreeInv
  BY FormInit, ValuesInit, AgreeInit
<1>4. FormInv /\ ValuesOK /\ AgreeInv /\ [Next]_vars => (FormInv /\ ValuesOK /\ AgreeInv)'
  BY FormNext, ValuesNext, AgreeNext
<1>5. QED
  BY <1>2, <1>3, <1>4, PTL DEF Spec

-----------------------------------------------------------------------------
(***************************************************************************)
(* The cursor of a rule stays among the operands.                          *)
(***************************************************************************)

\* There are no more flat operands than operands.
LEMMA FlatIsShort ==
  ASSUME NEW ops, IsSequence(ops)
  PROVE  Len(Flat(ops)) \in Nat /\ Len(Flat(ops)) <= Len(ops)
<1> DEFINE N == Len(ops)
           w == FlatTo(ops)
           S == {n \in Nat : n <= N => IsSequence(w[n]) /\ Len(w[n]) <= n}
<1>0. N \in Nat
  BY SequenceFacts
<1>1. 0 \in S
  <2>1. w[0] = <<>>
    BY FlatStep
  <2>2. <<>> \in Seq({}) /\ Len(<<>>) = 0
    OBVIOUS
  <2>3. IsSequence(<<>>)
    BY <2>2, SequenceOf
  <2>4. QED
    BY <2>1, <2>2, <2>3
<1>2. ASSUME NEW n \in S
      PROVE  n + 1 \in S
  <2>0. n \in Nat
    OBVIOUS
  <2>1. SUFFICES ASSUME n + 1 <= N
                 PROVE  IsSequence(w[n + 1]) /\ Len(w[n + 1]) <= n + 1
    OBVIOUS
  <2>2. n + 1 \in 1 .. N /\ (n + 1) - 1 = n /\ n <= N
    BY <1>0, <2>1
  <2>3. PICK q : q = w[n] /\ IsSequence(q) /\ Len(q) <= n /\ Len(q) \in Nat
    BY <2>2, SequenceFacts
  <2>4. w[n + 1] = Append(q, n + 1) \/ w[n + 1] = q
    BY <2>2, <2>3, FlatStep
  <2>5. q \in Seq(Range(q) \cup {n + 1})
    <3>1. q \in Seq(Range(q))
      BY <2>3 DEF IsSequence
    <3>2. QED
      BY <3>1
  <2>6. Append(q, n + 1) \in Seq(Range(q) \cup {n + 1}) /\ Len(Append(q, n + 1)) = Len(q) + 1
    BY <2>5
  <2>7. IsSequence(Append(q, n + 1))
    BY <2>6, SequenceOf
  <2>8. PICK r : r = w[n + 1]
    OBVIOUS
  <2>9. IsSequence(r) /\ Len(r) <= n + 1
    <3>1. CASE r = Append(q, n + 1)
      BY <2>0, <2>3, <2>6, <2>7, <3>1
    <3>2. CASE r = q
      BY <2>0, <2>3, <3>2
    <3>3. QED
      BY <2>4, <2>8, <3>1, <3>2
  <2>10. QED
    BY <2>8, <2>9
<1>3. S \in SUBSET Nat
  OBVIOUS
<1> HIDE DEF S
<1>4. S = Nat
  BY <1>1, <1>2, <1>3, NatSet
<1>5. IsSequence(w[N]) /\ Len(w[N]) <= N
  BY <1>0, <1>4 DEF S
<1>6. QED
  BY <1>0, <1>5, SequenceFacts DEF Flat

RuleInv ==
  /\ FormInv /\ ValuesOK
  /\ cursor <= Len(Flat(operands))
  /\ status \in {"rule", "refused", "compiled"}

LEMMA RuleInit == Init => RuleInv
<1> SUFFICES ASSUME Init
             PROVE  RuleInv
  OBVIOUS
<1>1. FormInv /\ ValuesOK
  BY FormInit, ValuesInit
<1>2. cursor = 0 /\ status \in {"rule", "refused"}
  BY DEF Init
<1>3. Len(Flat(operands)) \in Nat
  BY <1>1, FlatIsShort DEF FormInv, OperandsOK
<1>4. QED
  BY <1>1, <1>2, <1>3 DEF RuleInv

LEMMA RuleNext ==
  ASSUME RuleInv, [Next]_vars
  PROVE  RuleInv'
<1>1. FormInv' /\ ValuesOK' /\ ShapeKept
  BY FormNext, ValuesNext DEF RuleInv
<1>2. /\ cursor \in Nat /\ cursor <= Len(Flat(operands)) /\ Len(Flat(operands)) \in Nat
      /\ Len(Flat(operands')) = Len(Flat(operands))
  BY <1>1, FlatIsShort DEF RuleInv, FormInv, OperandsOK, ShapeKept
<1> DEFINE Moves ==
             /\ cursor' # cursor => \/ HasCurrent /\ cursor' = cursor + 1
                                    \/ cursor > 0 /\ cursor' = cursor - 1
             /\ status' \in {status, "refused", "compiled"}
<1>3. Moves
  <2>1. CASE UNCHANGED vars \/ Finish
    BY <2>1 DEF vars, Finish, Refuse
  <2>2. ASSUME NEW c \in Commands, StaticCommand(c) \/ CursorCommand(c) \/ CheckCommand(c)
        PROVE  Moves
    BY <2>2 DEF StaticCommand, CursorCommand, CheckCommand, Refuse
  <2>3. ASSUME NEW c \in Commands, SliceCommand(c) \/ PairCommand(c) \/ OperandCommand(c)
        PROVE  Moves
    BY <2>3 DEF SliceCommand, PairCommand, OperandCommand, Refuse
  <2>4. QED
    BY <2>1, <2>2, <2>3 DEF Next, Command
<1>4. cursor' <= Len(Flat(operands'))
  BY <1>2, <1>3 DEF HasCurrent
<1>5. QED
  BY <1>1, <1>3, <1>4 DEF RuleInv

LEMMA RuleIsTyped == RuleInv => TypeOK
<1> SUFFICES ASSUME RuleInv
             PROVE  TypeOK
  OBVIOUS
<1>1. FormInv /\ IsSequence(operands) /\ cursor \in Nat
  BY DEF RuleInv, FormInv, OperandsOK
<1>2. encoding \in Encodings /\ word \subseteq Word /\ owners \subseteq Word
  BY <1>1 DEF FormInv, OperandsOK, BitsOK
<1>3. DOMAIN operands = 1 .. Len(operands) /\ Len(operands) \in Nat
  BY <1>1, SequenceFacts
<1>4. \A n \in DOMAIN fields : fields[n].operand \in DOMAIN operands
  BY <1>1, <1>3 DEF FormInv, FieldsOK, Placed, Asked
<1>5. cursor \in 0 .. Len(operands)
  BY <1>1, <1>3, FlatIsShort DEF RuleInv
<1>6. QED
  BY <1>2, <1>4, <1>5 DEF RuleInv, TypeOK

-----------------------------------------------------------------------------
(***************************************************************************)
(* What the fields of a command tell of the operand they encode: the value *)
(* of a field is known modulo a power of two, and the range, the multiple  *)
(* or the list of the operand leaves one number for it.                    *)
(***************************************************************************)

\* Numbers with the same remainder differ by a multiple.
LEMMA Congruent ==
  ASSUME NEW x \in Int, NEW y \in Int, NEW m \in Nat \ {0}, x % m = y % m
  PROVE  \E k \in Int : x = y + m * k
<1>1. /\ x \div m \in Int /\ x % m \in Int /\ x = m * (x \div m) + (x % m)
      /\ y \div m \in Int /\ y % m \in Int /\ y = m * (y \div m) + (y % m)
  BY DivisionFacts
<1>2. PICK q \in Int, p \in Int, r \in Int : x = m * q + r /\ y = m * p + r
  BY <1>1
<1>3. x = y + m * (q - p) /\ q - p \in Int
  BY <1>2
<1>4. QED
  BY <1>3

\* Among as many numbers as m, one after another, the remainder tells which.
LEMMA OneOfEach ==
  ASSUME NEW x \in Int, NEW y \in Int, NEW m \in Nat \ {0}, NEW low \in Int,
         low <= x, x < low + m, low <= y, y < low + m, x % m = y % m
  PROVE  x = y
<1>1. PICK k \in Int : x = y + m * k
  BY Congruent
<1>2. CASE k >= 1
  BY <1>1, <1>2, ProductGap
<1>3. CASE -k >= 1
  <2>1. m * (-k) >= m /\ -k \in Int
    BY <1>3, ProductGap
  <2>2. m * (-k) = y - x
    BY <1>1
  <2>3. QED
    BY <2>1, <2>2
<1>4. CASE k = 0
  BY <1>1, <1>4
<1>5. QED
  BY <1>2, <1>3, <1>4

\* Two digits of a number.
LEMMA TwoDigits ==
  ASSUME NEW x \in Int, NEW m \in Nat \ {0}
  PROVE  x % (2 * m) = m * ((x \div m) % 2) + (x % m)
<1>1. PICK q \in Int, r \in 0 .. m - 1 : q = x \div m /\ r = x % m /\ x = m * q + r
  BY DivisionFacts
<1>2. PICK p \in Int, b \in 0 .. 1 : b = q % 2 /\ q = 2 * p + b
  <2>1. q \div 2 \in Int /\ q % 2 \in 0 .. 1 /\ q = 2 * (q \div 2) + (q % 2)
    BY <1>1
  <2>2. QED
    BY <2>1
<1>3. x = (2 * m) * p + (m * b + r)
  <2>1. x = m * (2 * p + b) + r /\ p \in Int /\ b \in Int /\ r \in Int
    <3>1. p \in Int /\ b \in Int /\ r \in Int
      BY <1>1, <1>2
    <3>2. x = m * q + r
      BY <1>1
    <3>3. q = 2 * p + b
      BY <1>2
    <3>4. QED
      BY <3>1, <3>2, <3>3, Zenon
  <2>2. m * (2 * p + b) = (2 * m) * p + m * b
    BY <2>1
  <2>3. m * b \in Int /\ (2 * m) * p \in Int
    BY <2>1
  <2>4. QED
    BY <2>1, <2>2, <2>3
<1>4. m * b + r \in 0 .. 2 * m - 1
  <2>1. b = 0 \/ b = 1
    BY <1>2
  <2>2. CASE b = 0
    BY <1>1, <2>2
  <2>3. CASE b = 1
    BY <1>1, <2>3
  <2>4. QED
    BY <2>1, <2>2, <2>3
<1>5. PICK s \in 0 .. 2 * m - 1 : s = m * b + r
  BY <1>4
<1>6. 2 * m \in Nat \ {0} /\ x = (2 * m) * p + s
  BY <1>3, <1>5
<1>7. x % (2 * m) = s
  BY <1>6, DivisionIs
<1>8. QED
  BY <1>1, <1>2, <1>5, <1>7

\* The bits of a field are the remainder of what it encodes.
LEMMA BitsAgree ==
  ASSUME NEW x \in Int, NEW y \in Int, NEW w \in Nat, Ones(x, w) = Ones(y, w)
  PROVE  x % Power2[w] = y % Power2[w]
<1> DEFINE S == {n \in Nat : n <= w => x % Power2[n] = y % Power2[n]}
<1>1. 0 \in S
  <2>1. x = 1 * x + 0 /\ y = 1 * y + 0 /\ 0 \in 0 .. 1 - 1 /\ 1 \in Nat \ {0}
    OBVIOUS
  <2>2. x % 1 = 0 /\ y % 1 = 0
    BY <2>1, DivisionIs
  <2>3. QED
    BY <2>2, PowerIs
<1>2. ASSUME NEW n \in S
      PROVE  n + 1 \in S
  <2>1. SUFFICES ASSUME n + 1 <= w
                 PROVE  x % Power2[n + 1] = y % Power2[n + 1]
    OBVIOUS
  <2>2. n \in Nat /\ n \in 0 .. w - 1 /\ x % Power2[n] = y % Power2[n]
    BY <2>1
  <2>3. PICK m \in Nat \ {0} : m = Power2[n] /\ Power2[n + 1] = 2 * m
    BY <2>2, PowerIs
  <2>4. (x \div m) % 2 = 1 <=> (y \div m) % 2 = 1
    BY <2>2, <2>3 DEF Ones
  <2>5. (x \div m) % 2 \in 0 .. 1 /\ (y \div m) % 2 \in 0 .. 1
    <3>1. x \div m \in Int /\ y \div m \in Int
      BY <2>3, DivisionFacts
    <3>2. QED
      BY <3>1, DivisionFacts
  <2>6. (x \div m) % 2 = (y \div m) % 2
    BY <2>4, <2>5
  <2>7. x % m = y % m
    BY <2>2, <2>3
  <2>8. x % (2 * m) = y % (2 * m)
    BY <2>3, <2>6, <2>7, TwoDigits
  <2>9. QED
    BY <2>3, <2>8
<1>3. S \in SUBSET Nat
  OBVIOUS
<1> HIDE DEF S
<1>4. S = Nat
  BY <1>1, <1>2, <1>3, NatSet
<1>5. QED
  BY <1>4 DEF S

\* Wrapping around does not change what a field of a word encodes.
LEMMA WrappedBits ==
  ASSUME NEW x \in Int, NEW w \in Nat, w <= ValueBits
  PROVE  Unsigned(x) \in Nat /\ Unsigned(x) % Power2[w] = x % Power2[w]
<1>1. ValueBits \in Nat
  BY WidthAssumption
<1>2. PICK p \in Nat \ {0}, k \in Nat \ {0} : p = Power2[w] /\ Whole = p * k
  BY <1>1, PowersGrow DEF Whole
<1>3. PICK m \in Nat \ {0} : m = Whole
  BY HalfAndWhole
<1>4. PICK q \in Int, r \in 0 .. m - 1 : r = x % m /\ x = m * q + r
  BY DivisionFacts
<1>5. Unsigned(x) = r
  BY <1>3, <1>4 DEF Unsigned, Whole
<1>6. x = r + p * (k * q) /\ k * q \in Int /\ r \in Int
  BY <1>2, <1>3, <1>4
<1>7. x % p = r % p
  BY <1>6, SameRemainder
<1>8. QED
  BY <1>2, <1>4, <1>5, <1>7

\* BitLength is what int.bit_length gives.
LEMMA BitLengthIs ==
  ASSUME NEW n \in Int, n < Whole
  PROVE  BitLength(n) \in 0 .. ValueBits /\ n < Power2[BitLength(n)]
<1> DEFINE T == {w \in Nat : w <= ValueBits /\ Power2[w] > n}
<1>1. ValueBits \in Nat
  BY WidthAssumption
<1>2. T \in SUBSET Nat /\ ValueBits \in T
  BY <1>1, HalfAndWhole DEF Whole
<1>3. PICK w \in T : \A v \in T : w <= v
  <2> HIDE DEF T
  <2>1. T # {}
    BY <1>2
  <2>2. QED
    BY <1>2, <2>1, LeastNat
<1>4. w \in 0 .. ValueBits /\ Power2[w] > n
  BY <1>1
<1>5. w = 0 \/ Power2[w - 1] <= n
  <2>1. SUFFICES ASSUME w # 0, ~(Power2[w - 1] <= n)
                 PROVE  FALSE
    OBVIOUS
  <2>2. w - 1 \in Nat /\ w - 1 <= ValueBits
    BY <1>1, <1>4, <2>1
  <2>3. Power2[w - 1] \in Int
    BY <2>2, PowerIs
  <2>4. w - 1 \in T
    BY <2>1, <2>2, <2>3
  <2>5. w <= w - 1
    BY <1>3, <2>4
  <2>6. QED
    BY <1>4, <2>5
<1>6. \E u \in 0 .. ValueBits : Power2[u] > n /\ (u = 0 \/ Power2[u - 1] <= n)
  BY <1>4, <1>5
<1>7. PICK u : u = BitLength(n)
  OBVIOUS
<1>8. u \in 0 .. ValueBits /\ Power2[u] > n
  BY <1>6, <1>7 DEF BitLength
<1>9. Power2[u] \in Int
  BY <1>1, <1>8, PowerIs
<1>10. QED
  BY <1>7, <1>8, <1>9

\* A word of a generated function stands for a number.
Stands(v, x) == v = x \/ v = x + Whole

\* The low bits of a word tell the number it stands for, if not too many can be meant.
LEMMA Decoded ==
  ASSUME NEW u \in Values, NEW v \in Values, NEW x \in Int, NEW y \in Int,
         Stands(u, x), Stands(v, y), NEW w \in Nat, w <= ValueBits,
         NEW low \in Int, low <= x, x < low + Power2[w], low <= y, y < low + Power2[w],
         u % Power2[w] = v % Power2[w]
  PROVE  u = v
<1>1. ValueBits \in Nat
  BY WidthAssumption
<1>2. PICK p \in Nat \ {0}, k \in Nat \ {0} : p = Power2[w] /\ Whole = p * k
  BY <1>1, PowersGrow DEF Whole
<1>3. PICK m \in Nat \ {0} : m = Whole /\ Values = 0 .. m - 1
  BY HalfAndWhole
<1>4. u \in Int /\ v \in Int /\ 0 <= u /\ u < m /\ 0 <= v /\ v < m
  BY <1>3
<1>5. u % p = x % p /\ v % p = y % p
  <2>1. (x + p * k) % p = x % p /\ (y + p * k) % p = y % p
    <3>1. k \in Int
      BY <1>2
    <3>2. (x + p * k) % p = x % p
      BY <3>1, SameRemainder
    <3>3. (y + p * k) % p = y % p
      BY <3>1, SameRemainder
    <3>4. QED
      BY <3>2, <3>3
  <2>2. (u = x \/ u = x + p * k) /\ (v = y \/ v = y + p * k)
    BY <1>2 DEF Stands
  <2>3. QED
    BY <2>1, <2>2
<1>6. x % p = y % p
  BY <1>2, <1>5
<1>7. x = y
  BY <1>2, <1>6, OneOfEach
<1>8. (u = x \/ u = x + m) /\ (v = x \/ v = x + m)
  BY <1>3, <1>7 DEF Stands
<1>9. QED
  BY <1>3, <1>4, <1>8

\* A field that adds something to the operand.
LEMMA AddedTells ==
  ASSUME NEW u \in Int, NEW v \in Int, NEW e \in Int, NEW w \in Nat, w <= ValueBits,
         Ones(Unsigned(u + e), w) = Ones(Unsigned(v + e), w)
  PROVE  u % Power2[w] = v % Power2[w]
<1>1. PICK p \in Nat \ {0} : p = Power2[w]
  BY PowerIs
<1>2. PICK a \in Int, b \in Int : a = u + e /\ b = v + e
  OBVIOUS
<1>3. /\ Unsigned(a) \in Nat /\ Unsigned(a) % p = a % p
      /\ Unsigned(b) \in Nat /\ Unsigned(b) % p = b % p
  BY <1>1, WrappedBits
<1>4. Unsigned(a) % p = Unsigned(b) % p
  BY <1>1, <1>2, <1>3, BitsAgree
<1>5. PICK k \in Int : a = b + p * k
  <2>1. a % p = b % p
    BY <1>3, <1>4
  <2>2. QED
    BY <2>1, Congruent
<1>6. u = v + p * k
  <2>1. p * k \in Int
    BY <1>5
  <2>2. QED
    BY <1>2, <1>5, <2>1
<1>7. QED
  BY <1>1, <1>6, SameRemainder

\* A field that takes the operand from something.
LEMMA TakenTells ==
  ASSUME NEW u \in Int, NEW v \in Int, NEW e \in Int, NEW w \in Nat, w <= ValueBits,
         Ones(Unsigned(e - u), w) = Ones(Unsigned(e - v), w)
  PROVE  u % Power2[w] = v % Power2[w]
<1>1. PICK p \in Nat \ {0} : p = Power2[w]
  BY PowerIs
<1>2. PICK a \in Int, b \in Int : a = e - u /\ b = e - v
  OBVIOUS
<1>3. /\ Unsigned(a) \in Nat /\ Unsigned(a) % p = a % p
      /\ Unsigned(b) \in Nat /\ Unsigned(b) % p = b % p
  BY <1>1, WrappedBits
<1>4. Unsigned(a) % p = Unsigned(b) % p
  BY <1>1, <1>2, <1>3, BitsAgree
<1>5. PICK k \in Int : b = a + p * k
  <2>1. b % p = a % p
    BY <1>3, <1>4
  <2>2. QED
    BY <2>1, Congruent
<1>6. u = v + p * k
  <2>1. p * k \in Int
    BY <1>5
  <2>2. QED
    BY <1>2, <1>5, <2>1
<1>7. QED
  BY <1>1, <1>6, SameRemainder

\* A condition and its inverse.
LEMMA InverseTells ==
  ASSUME NEW u \in Nat, NEW v \in Nat, NEW w \in Nat, u <= Power2[w] - 3, v <= Power2[w] - 3,
         Ones(IF u % 2 = 0 THEN u + 1 ELSE u - 1, w) = Ones(IF v % 2 = 0 THEN v + 1 ELSE v - 1, w)
  PROVE  u = v
<1>1. PICK p \in Nat \ {0} : p = Power2[w]
  BY PowerIs
<1>2. ASSUME NEW n \in Nat, n <= p - 3
      PROVE  \E q \in Nat, d \in 0 .. 1 :
               n = 2 * q + d /\ (IF n % 2 = 0 THEN n + 1 ELSE n - 1) = 2 * q + 1 - d
  <2>1. n \div 2 \in Int /\ n % 2 \in 0 .. 1 /\ n = 2 * (n \div 2) + (n % 2)
    OBVIOUS
  <2>2. PICK q \in Int, d \in 0 .. 1 : n = 2 * q + d /\ d = n % 2
    BY <2>1
  <2>3. q \in Nat
    BY <2>2
  <2>4. (IF n % 2 = 0 THEN n + 1 ELSE n - 1) = 2 * q + 1 - d
    <3>1. CASE d = 0
      BY <2>2, <3>1
    <3>2. CASE d = 1
      BY <2>2, <3>2
    <3>3. QED
      BY <2>2, <3>1, <3>2
  <2>5. QED
    BY <2>2, <2>3, <2>4
<1>3. PICK q \in Nat, d \in 0 .. 1 :
        u = 2 * q + d /\ (IF u % 2 = 0 THEN u + 1 ELSE u - 1) = 2 * q + 1 - d
  BY <1>1, <1>2
<1>4. PICK r \in Nat, e \in 0 .. 1 :
        v = 2 * r + e /\ (IF v % 2 = 0 THEN v + 1 ELSE v - 1) = 2 * r + 1 - e
  BY <1>1, <1>2
<1>5. PICK a \in Int, b \in Int : a = 2 * q + 1 - d /\ b = 2 * r + 1 - e
  OBVIOUS
<1>6. a % p = b % p
  BY <1>1, <1>3, <1>4, <1>5, BitsAgree
<1>7. 0 <= a /\ a < p /\ 0 <= b /\ b < p
  BY <1>1, <1>3, <1>4, <1>5
<1>8. a = b
  BY <1>6, <1>7, OneOfEach
<1>9. QED
  BY <1>3, <1>4, <1>5, <1>8

\* A slice of a multiple of what it leaves out.
LEMMA SliceTells ==
  ASSUME NEW u \in Values, NEW v \in Values, NEW x \in Int, NEW y \in Int,
         Stands(u, x), Stands(v, y),
         NEW w \in Nat, NEW s \in Nat, w + s <= ValueBits,
         x % Power2[s] = 0, y % Power2[s] = 0,
         NEW low \in Int, low * Power2[s] <= x, x <= (low + Power2[w] - 1) * Power2[s],
         low * Power2[s] <= y, y <= (low + Power2[w] - 1) * Power2[s],
         Ones(u \div Power2[s], w) = Ones(v \div Power2[s], w)
  PROVE  u = v
<1>1. ValueBits \in Nat /\ ValueBits - s \in Nat /\ w <= ValueBits - s /\ s <= ValueBits
  BY WidthAssumption
<1>2. PICK m \in Nat \ {0}, n \in Nat \ {0} :
        m = Power2[s] /\ n = Power2[ValueBits - s] /\ Whole = m * n
  BY <1>1, PowersGrow DEF Whole
<1>3. PICK p \in Nat \ {0}, k \in Nat \ {0} : p = Power2[w] /\ n = p * k
  BY <1>1, <1>2, PowersGrow, ZenonT(60)
<1>4. ASSUME NEW a \in Values, NEW z \in Int, Stands(a, z), z % m = 0,
             low * m <= z, z <= (low + p - 1) * m
      PROVE  \E q \in Int : /\ z = m * q /\ low <= q /\ q < low + p
                            /\ (a \div m) \in Int /\ (a \div m) % p = q % p
  <2>1. PICK q \in Int : z = m * q
    <3>1. z \div m \in Int /\ z = m * (z \div m) + (z % m)
      BY DivisionFacts
    <3>2. PICK q \in Int : q = z \div m
      BY <3>1
    <3>3. z = m * q + 0
      BY <1>4, <3>1, <3>2
    <3>4. m * q \in Int
      BY <3>2
    <3>5. z = m * q
      BY <3>3, <3>4
    <3>6. QED
      BY <3>2, <3>5
  <2>2. low <= q
    <3>1. SUFFICES ASSUME low - q >= 1
                   PROVE  FALSE
      OBVIOUS
    <3>2. m * (low - q) >= m
      BY <3>1, ProductGap
    <3>3. m * (low - q) = low * m - z
      BY <2>1
    <3>4. low * m \in Int
      OBVIOUS
    <3>5. QED
      BY <1>4, <3>2, <3>3, <3>4
  <2>3. q < low + p
    <3>1. PICK t \in Int : t = low + p - 1
      OBVIOUS
    <3>2. SUFFICES ASSUME q - t >= 1
                   PROVE  FALSE
      BY <3>1
    <3>3. m * (q - t) >= m
      BY <3>2, ProductGap
    <3>4. m * (q - t) = z - t * m
      BY <2>1
    <3>5. t * m \in Int /\ z <= t * m
      BY <1>4, <3>1
    <3>6. QED
      BY <3>3, <3>4, <3>5
  <2>4. PICK e \in Int : a = m * (q + n * e) /\ e \in {0, 1}
    <3>1. CASE a = z
      <4>1. a = m * (q + n * 0)
        BY <2>1, <3>1
      <4>2. QED
        BY <4>1
    <3>2. CASE a = z + m * n
      <4>1. a = m * (q + n * 1)
        BY <2>1, <3>2
      <4>2. QED
        BY <4>1
    <3>3. QED
      BY <1>2, <1>4, <3>1, <3>2 DEF Stands
  <2>5. PICK g \in Int : g = q + n * e
    BY <2>4
  <2>6. a \div m = g
    <3>1. a = m * g + 0 /\ 0 \in 0 .. m - 1 /\ a \in Int
      <4>1. a = m * g /\ m * g \in Int
        BY <2>4, <2>5
      <4>2. QED
        BY <4>1
    <3>2. QED
      BY <3>1, DivisionIs
  <2>7. g % p = q % p
    <3>1. n * e = p * (k * e) /\ k * e \in Int
      BY <1>3, <2>4
    <3>2. g = q + p * (k * e)
      BY <2>5, <3>1
    <3>3. QED
      BY <3>1, <3>2, SameRemainder
  <2>8. QED
    BY <2>1, <2>2, <2>3, <2>6, <2>7
<1>5. PICK q \in Int : /\ x = m * q /\ low <= q /\ q < low + p
                       /\ u \div m \in Int /\ (u \div m) % p = q % p
  BY <1>2, <1>3, <1>4
<1>6. PICK r \in Int : /\ y = m * r /\ low <= r /\ r < low + p
                       /\ v \div m \in Int /\ (v \div m) % p = r % p
  BY <1>2, <1>3, <1>4
<1>7. (u \div m) % p = (v \div m) % p
  BY <1>2, <1>3, <1>5, <1>6, BitsAgree
<1>8. q % p = r % p
  BY <1>5, <1>6, <1>7
<1>9. q = r
  BY <1>5, <1>6, <1>8, OneOfEach
<1>10. x = y
  BY <1>5, <1>6, <1>9
<1>11. PICK l \in Nat \ {0} : l = Whole /\ Values = 0 .. l - 1
  BY HalfAndWhole
<1>12. /\ u \in Int /\ v \in Int /\ 0 <= u /\ u < l /\ 0 <= v /\ v < l
       /\ (u = x \/ u = x + l) /\ (v = x \/ v = x + l)
  BY <1>10, <1>11 DEF Stands
<1>13. QED
  BY <1>11, <1>12

\* The lowest bit and the rest of a word.
LEMMA HalvesTell ==
  ASSUME NEW u \in Nat, NEW v \in Nat, NEW w \in Nat, w >= 1,
         Ones(u \div Power2[0], 1) = Ones(v \div Power2[0], 1),
         Ones(u \div Power2[1], w - 1) = Ones(v \div Power2[1], w - 1)
  PROVE  u % Power2[w] = v % Power2[w]
<1>1. Power2[0] = 1 /\ Power2[1] = 2
  BY PowerIs, 0 \in Nat, 0 + 1 = 1
<1>2. u \div 1 = u /\ v \div 1 = v
  BY DivisionIs, 0 \in 0 .. 1 - 1
<1>3. u % 2 = v % 2
  BY <1>1, <1>2, BitsAgree
<1>4. PICK p \in Nat \ {0} : p = Power2[w - 1] /\ Power2[w] = 2 * p /\ w - 1 \in Nat
  <2>1. w - 1 \in Nat /\ (w - 1) + 1 = w
    OBVIOUS
  <2>2. QED
    BY <2>1, PowerIs
<1>5. u \div 2 \in Int /\ v \div 2 \in Int /\ u = 2 * (u \div 2) + (u % 2) /\ v = 2 * (v \div 2) + (v % 2)
      /\ u % 2 \in Int
  OBVIOUS
<1>6. PICK a \in Int, b \in Int, d \in Int : a = u \div 2 /\ b = v \div 2 /\ u = 2 * a + d /\ v = 2 * b + d
  BY <1>3, <1>5
<1>7. a % p = b % p
  BY <1>1, <1>4, <1>6, BitsAgree
<1>8. PICK k \in Int : a = b + p * k
  BY <1>7, Congruent
<1>9. u = v + (2 * p) * k
  <2>1. 2 * (b + p * k) = 2 * b + (2 * p) * k
    BY <1>6, <1>8
  <2>2. 2 * b \in Int /\ (2 * p) * k \in Int /\ 2 * a = 2 * (b + p * k)
    BY <1>6, <1>8
  <2>3. QED
    BY <1>6, <2>1, <2>2
<1>10. 2 * p \in Nat \ {0}
  OBVIOUS
<1>11. QED
  BY <1>4, <1>9, <1>10, SameRemainder

\* One bit after the other.
LEMMA SingleBitsTell ==
  ASSUME NEW u \in Nat, NEW v \in Nat, NEW w \in Nat,
         \A n \in 1 .. w : Ones(u \div Power2[n - 1], 1) = Ones(v \div Power2[n - 1], 1)
  PROVE  u % Power2[w] = v % Power2[w]
<1>1. Power2[1] = 2
  BY PowerIs, 0 \in Nat, 0 + 1 = 1
<1>2. ASSUME NEW b \in 0 .. w - 1
      PROVE  (u \div Power2[b]) % 2 = (v \div Power2[b]) % 2
  <2>1. PICK m \in Nat \ {0} : m = Power2[b]
    BY PowerIs
  <2>2. u \div m \in Int /\ v \div m \in Int
    BY DivisionFacts
  <2>3. b + 1 \in 1 .. w /\ (b + 1) - 1 = b
    OBVIOUS
  <2>4. Ones(u \div m, 1) = Ones(v \div m, 1)
    BY <2>1, <2>3
  <2>5. QED
    BY <1>1, <2>1, <2>2, <2>4, BitsAgree
<1>3. Ones(u, w) = Ones(v, w)
  BY <1>2 DEF Ones
<1>4. QED
  BY <1>3, BitsAgree

\* What a field encodes, by its transform.
LEMMA PlainIs ==
  ASSUME NEW f, NEW a, f.by.kind = "plain"
  PROVE  Transformed(f, a) = a[f.operand]
BY DEF Transformed

LEMMA SubOneIs ==
  ASSUME NEW f, NEW a, f.by.kind = "subone"
  PROVE  Transformed(f, a) = Unsigned(Power2[f.by.of] - a[f.operand])
BY DEF Transformed

LEMMA SliceIs ==
  ASSUME NEW f, NEW a, f.by.kind = "slice"
  PROVE  Transformed(f, a) = a[f.operand] \div Power2[f.by.of]
BY DEF Transformed

LEMMA LookupIs ==
  ASSUME NEW f, NEW a, f.by.kind = "lookup",
         \E n \in DOMAIN f.by.of : Unsigned(f.by.of[n]) = a[f.operand]
  PROVE  Transformed(f, a) = (CHOOSE n \in DOMAIN f.by.of : Unsigned(f.by.of[n]) = a[f.operand]) - 1
BY DEF Transformed, OptionIndex

LEMMA XorIs ==
  ASSUME NEW f, NEW a, f.by.kind = "xor"
  PROVE  Transformed(f, a) = IF a[f.operand] % 2 = 0 THEN a[f.operand] + 1 ELSE a[f.operand] - 1
BY DEF Transformed

LEMMA BiasIs ==
  ASSUME NEW f, NEW a, f.by.kind = "bias"
  PROVE  Transformed(f, a) = Unsigned(a[f.operand] - f.by.of)
BY DEF Transformed

LEMMA NegateIs ==
  ASSUME NEW f, NEW a, f.by.kind = "negate"
  PROVE  Transformed(f, a) = Unsigned(-a[f.operand])
BY DEF Transformed

LEMMA ComplementIs ==
  ASSUME NEW f, NEW a, f.by.kind = "complement"
  PROVE  Transformed(f, a) = Unsigned(-a[f.operand] - 1)
BY DEF Transformed

LEMMA SumIs ==
  ASSUME NEW f, NEW a, f.by.kind = "sum"
  PROVE  Transformed(f, a) = Unsigned(a[f.by.of] + a[f.operand] - 1)
BY DEF Transformed

\* What two lists of operands agree on that give the same word.
SameField(f, a, b) == Ones(Transformed(f, a), f.width) = Ones(Transformed(f, b), f.width)

\* What is known of two values of the operand at the cursor.
Both(c, a, b, x, y) ==
  /\ a[Current] \in Values /\ b[Current] \in Values
  /\ x \in Int /\ y \in Int /\ Stands(a[Current], x) /\ Stands(b[Current], y)
  /\ Takes(c).low <= x /\ x <= Takes(c).high /\ Takes(c).low <= y /\ y <= Takes(c).high
  /\ Takes(c).low >= 0 => a[Current] = x /\ b[Current] = y
  /\ Takes(c).multiple # None => x % Takes(c).multiple = 0 /\ y % Takes(c).multiple = 0
  /\ Takes(c).allowed # None =>
       /\ \E n \in DOMAIN Takes(c).allowed : a[Current] = Unsigned(Takes(c).allowed[n])
       /\ \E n \in DOMAIN Takes(c).allowed : b[Current] = Unsigned(Takes(c).allowed[n])
  /\ c.name = "Usum" => a[Previous] \in Int /\ a[Previous] = b[Previous]
  /\ \A n \in DOMAIN Takes(c).fields : SameField(Takes(c).fields[n], a, b)

\* The only field of a command.
LEMMA OnlyField ==
  ASSUME NEW c \in Commands, NEW a, NEW b, NEW x, NEW y, Both(c, a, b, x, y), FieldsFit(Takes(c).fields),
         NEW lsb, NEW w, NEW kind, NEW of, Takes(c).fields = <<Field(Current, lsb, w, kind, of)>>
  PROVE  /\ w > 0
         /\ Ones(Transformed(Field(Current, lsb, w, kind, of), a), w)
              = Ones(Transformed(Field(Current, lsb, w, kind, of), b), w)
<1> DEFINE f == Field(Current, lsb, w, kind, of)
<1>1. f.width = w /\ f.lsb = lsb
  BY DEF Field
<1> HIDE DEF f
<1>2. PICK s : s = Takes(c).fields /\ s = <<f>>
  BY DEF f
<1>3. 1 \in DOMAIN s /\ s[1] = f
  BY <1>2
<1>4. SameField(f, a, b) /\ InWord(f.lsb, f.width)
  BY <1>2, <1>3 DEF Both, FieldsFit
<1>5. QED
  BY <1>1, <1>4 DEF SameField, InWord, f

LEMMA CommandWidths ==
  ASSUME NEW c \in Commands, c.name \in OperandCommands
  PROVE  /\ c.at \in Int /\ c.rest \in Int /\ c.width \in Int /\ c.width <= ValueBits
         /\ ValueBits \in Nat \ {0} /\ MaxFieldWidth \in Nat /\ MaxFieldWidth <= ValueBits
         /\ RegBits \in Nat \ {0} /\ RegBits <= ValueBits /\ CondBits \in Nat \ {0} /\ CondBits <= ValueBits
<1>1. c.name \notin StaticCommands
  BY DEF OperandCommands, StaticCommands
<1>2. QED
  BY <1>1, WidthAssumption, CommandAssumption

LEMMA RegisterTold ==
  ASSUME NEW c \in Commands, c.name \in {"R", "R4", "REven", "RNoZr"}, FieldsFit(Takes(c).fields),
         NEW a, NEW b, NEW x, NEW y, Both(c, a, b, x, y)
  PROVE  a[Current] = b[Current]
<1>1. Takes(c) = Register(c)
  BY DEF Takes
<1>2. PICK w : w = IF c.name = "R4" THEN RegBits - 1 ELSE RegBits
  OBVIOUS
<1>3. w \in Nat /\ w <= ValueBits
  BY <1>2, CommandWidths DEF OperandCommands
<1>4. PICK p \in Nat \ {0} : p = Power2[w]
  BY <1>3, PowerIs
<1>5. Takes(c).low = 0 /\ Takes(c).high <= p - 1 /\ Takes(c).high \in Int
  BY <1>1, <1>2, <1>4 DEF Register
<1>6. Takes(c).fields = <<Field(Current, c.at, w, "plain", 0)>>
  BY <1>1, <1>2 DEF Register
<1>7. Ones(a[Current], w) = Ones(b[Current], w)
  <2>1. PICK f : f = Field(Current, c.at, w, "plain", 0)
    OBVIOUS
  <2>2. f.operand = Current /\ f.by.kind = "plain" /\ f.by.of = 0
    BY <2>1 DEF Field
  <2>3. Ones(Transformed(f, a), w) = Ones(Transformed(f, b), w)
    BY <1>6, <2>1, OnlyField DEF OperandCommands
  <2>4. Transformed(f, a) = a[Current] /\ Transformed(f, b) = b[Current]
    BY <2>2, PlainIs
  <2>5. QED
    BY <2>3, <2>4
<1>8. /\ a[Current] \in Values /\ b[Current] \in Values
      /\ x \in Int /\ y \in Int /\ Stands(a[Current], x) /\ Stands(b[Current], y)
      /\ 0 <= x /\ x < 0 + p /\ 0 <= y /\ y < 0 + p
  BY <1>4, <1>5 DEF Both
<1>9. a[Current] \in Int /\ b[Current] \in Int
  BY <1>8, HalfAndWhole
<1>10. a[Current] % p = b[Current] % p
  BY <1>3, <1>4, <1>7, <1>9, BitsAgree
<1>11. QED
  BY <1>3, <1>4, <1>8, <1>10, Decoded

LEMMA ConditionTold ==
  ASSUME NEW c \in Commands, c.name \in {"Cond", "InvCond"}, FieldsFit(Takes(c).fields),
         NEW a, NEW b, NEW x, NEW y, Both(c, a, b, x, y)
  PROVE  a[Current] = b[Current]
<1>1. Takes(c) = Condition(c)
  BY DEF Takes
<1>2. PICK w \in Nat : w = CondBits /\ w <= ValueBits
  BY CommandWidths DEF OperandCommands
<1>3. PICK p \in Nat \ {0} : p = Power2[w]
  BY <1>2, PowerIs
<1>4. /\ a[Current] \in Values /\ b[Current] \in Values
      /\ x \in Int /\ y \in Int /\ Stands(a[Current], x) /\ Stands(b[Current], y)
      /\ Takes(c).low <= x /\ x <= Takes(c).high /\ Takes(c).low <= y /\ y <= Takes(c).high
      /\ Takes(c).low >= 0 => a[Current] = x /\ b[Current] = y
  BY DEF Both
<1>5. a[Current] \in Int /\ b[Current] \in Int
  BY <1>4, HalfAndWhole
<1>6. CASE c.name = "Cond"
  <2>1. Takes(c).low = 0 /\ Takes(c).high = p - 1
        /\ Takes(c).fields = <<Field(Current, c.at, w, "plain", 1)>>
    BY <1>1, <1>2, <1>3, <1>6 DEF Condition
  <2>2. Ones(a[Current], w) = Ones(b[Current], w)
    <3>1. PICK f : f = Field(Current, c.at, w, "plain", 1)
      OBVIOUS
    <3>2. f.operand = Current /\ f.by.kind = "plain" /\ f.by.of = 1
      BY <3>1 DEF Field
    <3>3. Ones(Transformed(f, a), w) = Ones(Transformed(f, b), w)
      BY <2>1, <3>1, OnlyField
    <3>4. Transformed(f, a) = a[Current] /\ Transformed(f, b) = b[Current]
      BY <3>2, PlainIs
    <3>5. QED
      BY <3>3, <3>4
  <2>3. a[Current] % p = b[Current] % p
    BY <1>2, <1>3, <1>5, <2>2, BitsAgree
  <2>4. 0 <= x /\ x < 0 + p /\ 0 <= y /\ y < 0 + p
    BY <1>4, <2>1
  <2>5. QED
    BY <1>2, <1>3, <1>4, <2>3, <2>4, Decoded
<1>7. CASE c.name = "InvCond"
  <2>1. Takes(c).low = 0 /\ Takes(c).high = p - 3
        /\ Takes(c).fields = <<Field(Current, c.at, w, "xor", 1)>>
    BY <1>1, <1>2, <1>3, <1>7 DEF Condition
  <2>2. PICK u, v : u = a[Current] /\ v = b[Current]
    OBVIOUS
  <2>3. Ones(IF u % 2 = 0 THEN u + 1 ELSE u - 1, w) = Ones(IF v % 2 = 0 THEN v + 1 ELSE v - 1, w)
    <3>1. PICK f : f = Field(Current, c.at, w, "xor", 1)
      OBVIOUS
    <3>2. f.operand = Current /\ f.by.kind = "xor" /\ f.by.of = 1
      BY <3>1 DEF Field
    <3>3. Ones(Transformed(f, a), w) = Ones(Transformed(f, b), w)
      BY <2>1, <3>1, OnlyField
    <3>4. Transformed(f, a) = (IF u % 2 = 0 THEN u + 1 ELSE u - 1) /\ Transformed(f, b) = (IF v % 2 = 0 THEN v + 1 ELSE v - 1)
      BY <2>2, <3>2, XorIs
    <3>5. QED
      BY <3>3, <3>4
  <2>4. u = x /\ v = y /\ u \in Nat /\ v \in Nat /\ u <= p - 3 /\ v <= p - 3
    BY <1>3, <1>4, <2>1, <2>2
  <2>5. u = v
    BY <1>2, <1>3, <2>3, <2>4, InverseTells
  <2>6. QED
    BY <2>2, <2>5
<1>8. QED
  BY <1>6, <1>7

LEMMA BiasedTold ==
  ASSUME NEW c \in Commands, c.name \in {"Urange", "Usubmod", "Usubzero", "Usum"},
         FieldsFit(Takes(c).fields),
         NEW a, NEW b, NEW x, NEW y, Both(c, a, b, x, y)
  PROVE  a[Current] = b[Current]
<1>1. Takes(c) = Biased(c)
  BY DEF Takes
<1>2. /\ a[Current] \in Values /\ b[Current] \in Values
      /\ x \in Int /\ y \in Int /\ Stands(a[Current], x) /\ Stands(b[Current], y)
      /\ Takes(c).low <= x /\ x <= Takes(c).high /\ Takes(c).low <= y /\ y <= Takes(c).high
  BY DEF Both
<1>3. PICK u \in Int, v \in Int : u = a[Current] /\ v = b[Current]
  BY <1>2, HalfAndWhole
<1>4. ASSUME NEW w \in Nat, w <= ValueBits, u % Power2[w] = v % Power2[w],
             Takes(c).low \in Int, Takes(c).high \in Int, Takes(c).high < Takes(c).low + Power2[w]
      PROVE  a[Current] = b[Current]
  <2>1. PICK p \in Nat \ {0} : p = Power2[w]
    BY PowerIs
  <2>2. PICK low \in Int : low = Takes(c).low
    BY <1>4
  <2>3. x < low + p /\ y < low + p
    <3>1. PICK high : high = Takes(c).high /\ high < low + p /\ x <= high /\ y <= high
      BY <1>2, <1>4, <2>1, <2>2
    <3>2. x \in Int /\ y \in Int
      BY <1>2
    <3>3. high \in Int
      BY <1>4, <3>1
    <3>4. QED
      BY <3>1, <3>2, <3>3
  <2>4. QED
    BY <1>2, <1>3, <1>4, <2>1, <2>2, <2>3, Decoded
<1>5. CASE c.name = "Urange"
  <2>1. PICK low \in Int, high \in Int : low = c.low /\ high = c.high /\ high - low < Whole
    <3>1. c.low \in SignedValues /\ c.high \in SignedValues
      BY <1>5, ValueAssumption
    <3>2. QED
      BY <3>1, HalfAndWhole
  <2>2. PICK w : w = BitLength(high - low)
    OBVIOUS
  <2>3. w \in 0 .. ValueBits /\ high - low < Power2[w]
    BY <2>1, <2>2, BitLengthIs
  <2>4. w \in Nat /\ w <= ValueBits
    BY <2>3, WidthAssumption
  <2>5. Takes(c).low = low /\ Takes(c).high = high
        /\ Takes(c).fields = <<Field(Current, c.at, w, "bias", low)>>
    BY <1>1, <1>5, <2>1, <2>2 DEF Biased, Immediate
  <2>6. Ones(Unsigned(u - low), w) = Ones(Unsigned(v - low), w)
    <3>1. PICK f : f = Field(Current, c.at, w, "bias", low)
      OBVIOUS
    <3>2. f.operand = Current /\ f.by.kind = "bias" /\ f.by.of = low
      BY <3>1 DEF Field
    <3>3. Ones(Transformed(f, a), w) = Ones(Transformed(f, b), w)
      BY <2>5, <3>1, OnlyField
    <3>4. Transformed(f, a) = Unsigned(u - low) /\ Transformed(f, b) = Unsigned(v - low)
      BY <1>3, <3>2, BiasIs
    <3>5. QED
      BY <3>3, <3>4
  <2>7. PICK e \in Int : e = -low /\ u - low = u + e /\ v - low = v + e
    OBVIOUS
  <2>8. u % Power2[w] = v % Power2[w]
    <3>1. Ones(Unsigned(u + e), w) = Ones(Unsigned(v + e), w)
      BY <2>6, <2>7
    <3>2. QED
      BY <1>3, <2>4, <2>7, <3>1, AddedTells
  <2>9. Takes(c).high \in Int /\ Takes(c).high < Takes(c).low + Power2[w]
    <3>1. Power2[w] \in Nat
      BY <2>4, PowerIs
    <3>2. QED
      BY <2>3, <2>5, <3>1
  <2>10. QED
    BY <1>4, <2>4, <2>5, <2>8, <2>9
<1>6. CASE c.name = "Usum"
  <2>1. Takes(c).low = 1 /\ Takes(c).high = Power2[c.width]
        /\ Takes(c).fields = <<Field(Current, c.at, c.width, "sum", Previous)>>
    BY <1>1, <1>6 DEF Biased, Immediate
  <2>2. c.width \in Nat /\ c.width <= ValueBits
    BY <1>6, <2>1, OnlyField, CommandWidths DEF OperandCommands
  <2>3. PICK e \in Int : e = a[Previous] - 1 /\ a[Previous] = b[Previous] /\ a[Previous] \in Int
    BY <1>6 DEF Both
  <2>4. Ones(Unsigned(a[Previous] + u - 1), c.width) = Ones(Unsigned(b[Previous] + v - 1), c.width)
    <3>1. PICK f : f = Field(Current, c.at, c.width, "sum", Previous)
      OBVIOUS
    <3>2. f.operand = Current /\ f.by.kind = "sum" /\ f.by.of = Previous
      BY <3>1 DEF Field
    <3>3. Ones(Transformed(f, a), c.width) = Ones(Transformed(f, b), c.width)
      BY <2>1, <3>1, OnlyField
    <3>4. Transformed(f, a) = Unsigned(a[Previous] + u - 1) /\ Transformed(f, b) = Unsigned(b[Previous] + v - 1)
      BY <1>3, <3>2, SumIs
    <3>5. QED
      BY <3>3, <3>4
  <2>5. a[Previous] + u - 1 = u + e /\ b[Previous] + v - 1 = v + e
    BY <2>3
  <2>6. u % Power2[c.width] = v % Power2[c.width]
    BY <2>2, <2>4, <2>5, AddedTells
  <2>7. Takes(c).high \in Int /\ Takes(c).high < Takes(c).low + Power2[c.width]
    BY <2>1, <2>2, PowerIs
  <2>8. QED
    BY <1>4, <2>1, <2>2, <2>6, <2>7
<1>7. CASE c.name \in {"Usubmod", "Usubzero"}
  <2>1. PICK kind : kind = IF c.name = "Usubmod" THEN "negate" ELSE "complement"
    OBVIOUS
  <2>2. Takes(c).low = 0 /\ Takes(c).high = Power2[c.width] - 1
        /\ Takes(c).fields = <<Field(Current, c.at, c.width, kind, 0)>>
    BY <1>1, <1>7, <2>1 DEF Biased, Immediate
  <2>3. c.width \in Nat /\ c.width <= ValueBits
    BY <1>7, <2>2, OnlyField, CommandWidths DEF OperandCommands
  <2>4. u % Power2[c.width] = v % Power2[c.width]
    <3>1. CASE kind = "negate"
      <4>1. Ones(Unsigned(-u), c.width) = Ones(Unsigned(-v), c.width)
        <5>1. PICK f : f = Field(Current, c.at, c.width, kind, 0)
          OBVIOUS
        <5>2. f.operand = Current /\ f.by.kind = kind /\ f.by.of = 0
          BY <5>1 DEF Field
        <5>3. Ones(Transformed(f, a), c.width) = Ones(Transformed(f, b), c.width)
          BY <2>2, <5>1, OnlyField
        <5>4. Transformed(f, a) = Unsigned(-u) /\ Transformed(f, b) = Unsigned(-v)
          BY <1>3, <3>1, <5>2, NegateIs
        <5>5. QED
          BY <5>3, <5>4
      <4>2. -u = 0 - u /\ -v = 0 - v
        OBVIOUS
      <4>3. Ones(Unsigned(0 - u), c.width) = Ones(Unsigned(0 - v), c.width) /\ 0 \in Int
        BY <4>1, <4>2
      <4>4. QED
        BY <2>3, <4>3, TakenTells
    <3>2. CASE kind = "complement"
      <4>1. Ones(Unsigned(-u - 1), c.width) = Ones(Unsigned(-v - 1), c.width)
        <5>1. PICK f : f = Field(Current, c.at, c.width, kind, 0)
          OBVIOUS
        <5>2. f.operand = Current /\ f.by.kind = kind /\ f.by.of = 0
          BY <5>1 DEF Field
        <5>3. Ones(Transformed(f, a), c.width) = Ones(Transformed(f, b), c.width)
          BY <2>2, <5>1, OnlyField
        <5>4. Transformed(f, a) = Unsigned(-u - 1) /\ Transformed(f, b) = Unsigned(-v - 1)
          BY <1>3, <3>2, <5>2, ComplementIs
        <5>5. QED
          BY <5>3, <5>4
      <4>2. PICK e \in Int : e = -1 /\ -u - 1 = e - u /\ -v - 1 = e - v
        OBVIOUS
      <4>3. QED
        BY <2>3, <4>1, <4>2, TakenTells
    <3>3. QED
      BY <2>1, <3>1, <3>2
  <2>5. Takes(c).high \in Int /\ Takes(c).high < Takes(c).low + Power2[c.width]
    BY <2>2, <2>3, PowerIs
  <2>6. QED
    BY <1>4, <2>2, <2>3, <2>4, <2>5
<1>8. QED
  BY <1>5, <1>6, <1>7

LEMMA SignedSequences == Seq(SignedValues) \subseteq Seq(Int)
<1>1. SignedValues \subseteq Int
  BY HalfAndWhole
<1>2. ASSUME NEW s \in Seq(SignedValues)
      PROVE  s \in Seq(Int)
  <2>1. Len(s) \in Nat /\ s \in [1 .. Len(s) -> Int]
    <3>1. Len(s) \in Nat /\ s \in [1 .. Len(s) -> SignedValues]
      OBVIOUS
    <3>2. QED
      BY <1>1, <3>1
  <2>2. QED
    BY <2>1, FunctionIsSequence
<1>3. QED
  BY <1>2

LEMMA ScaledTold ==
  ASSUME NEW c \in Commands, c.name \in {"Sbits", "Sscaled", "Uscaled"}, FieldsFit(Takes(c).fields),
         NEW a, NEW b, NEW x, NEW y, Both(c, a, b, x, y)
  PROVE  a[Current] = b[Current]
<1>1. Takes(c) = Scaled(c)
  BY DEF Takes
<1>2. /\ Takes(c).low = IF c.name # "Uscaled" THEN -(Power2[c.width - 1 + c.shift]) ELSE 0
      /\ Takes(c).high = (Power2[IF c.name # "Uscaled" THEN c.width - 1 ELSE c.width] - 1) * Power2[c.shift]
      /\ Takes(c).multiple = Power2[c.shift]
      /\ Takes(c).fields = <<Field(Current, c.at, c.width, "slice", c.shift)>>
  BY <1>1 DEF Scaled, Immediate
<1>3. c.shift \in Nat /\ c.width + c.shift <= ValueBits
  BY ValueAssumption
<1>4. c.width \in Nat /\ c.width >= 1
  BY <1>2, OnlyField, CommandWidths DEF OperandCommands
<1>5. PICK w \in Nat, s \in Nat : w = c.width /\ s = c.shift /\ w >= 1 /\ w + s <= ValueBits
  BY <1>3, <1>4
<1>6. PICK p \in Nat \ {0}, m \in Nat \ {0}, h \in Nat \ {0} :
        p = Power2[w] /\ m = Power2[s] /\ h = Power2[w - 1] /\ p = 2 * h /\ Power2[w - 1 + s] = h * m
  <2>1. w - 1 \in Nat /\ (w - 1) + 1 = w
    BY <1>5
  <2>2. Power2[w] = 2 * Power2[w - 1]
    BY <2>1, PowerIs
  <2>3. Power2[w] \in Nat \ {0} /\ Power2[s] \in Nat \ {0} /\ Power2[w - 1] \in Nat \ {0}
    BY <2>1, PowerIs
  <2>4. Power2[w - 1 + s] = Power2[w - 1] * Power2[s]
    BY <2>1, PowersMultiply
  <2>5. QED
    BY <2>2, <2>3, <2>4
<1>7. PICK u \in Values, v \in Values : u = a[Current] /\ v = b[Current]
  BY DEF Both
<1>8. Ones(u \div m, w) = Ones(v \div m, w)
  <2>1. PICK f : f = Field(Current, c.at, w, "slice", s)
    OBVIOUS
  <2>2. f.operand = Current /\ f.by.kind = "slice" /\ f.by.of = s
    BY <2>1 DEF Field
  <2>3. Ones(Transformed(f, a), w) = Ones(Transformed(f, b), w)
    BY <1>2, <1>5, <2>1, OnlyField
  <2>4. Transformed(f, a) = u \div m /\ Transformed(f, b) = v \div m
    BY <1>6, <1>7, <2>2, SliceIs
  <2>5. QED
    BY <2>3, <2>4
<1>9. m # None
  BY <1>6, NoneAssumption
<1>10. /\ x \in Int /\ y \in Int /\ Stands(u, x) /\ Stands(v, y)
       /\ x % m = 0 /\ y % m = 0
  BY <1>2, <1>5, <1>6, <1>7, <1>9 DEF Both
<1>11. PICK low \in Int : low = IF c.name # "Uscaled" THEN -h ELSE 0
  OBVIOUS
<1>12. PICK high \in Int : high = low + p - 1
  OBVIOUS
<1>13. Takes(c).low = low * m /\ Takes(c).high = high * m
  <2>1. CASE c.name # "Uscaled"
    <3>1. low = -h /\ high = h - 1
      BY <1>6, <1>11, <1>12, <2>1
    <3>2. low * m = -(h * m)
      BY <3>1
    <3>3. QED
      BY <1>2, <1>5, <1>6, <2>1, <3>1, <3>2
  <2>2. CASE c.name = "Uscaled"
    <3>1. low = 0 /\ high = p - 1 /\ low * m = 0
      BY <1>11, <1>12, <2>2
    <3>2. QED
      BY <1>2, <1>5, <1>6, <2>2, <3>1
  <2>3. QED
    BY <2>1, <2>2
<1>14. low * m <= x /\ x <= high * m /\ low * m <= y /\ y <= high * m
  BY <1>13 DEF Both
<1>15. u = v
  BY <1>5, <1>6, <1>8, <1>10, <1>12, <1>14, SliceTells
<1>16. QED
  BY <1>7, <1>15

LEMMA CountedTold ==
  ASSUME NEW c \in Commands, c.name \in {"Ubits", "Usubone"}, FieldsFit(Takes(c).fields),
         NEW a, NEW b, NEW x, NEW y, Both(c, a, b, x, y)
  PROVE  a[Current] = b[Current]
<1>1. Takes(c) = Counted(c)
  BY DEF Takes
<1>2. PICK kind, of, low :
        /\ kind = IF c.name = "Ubits" THEN "plain" ELSE "subone"
        /\ of = IF c.name = "Ubits" THEN 0 ELSE c.width
        /\ low = IF c.name = "Ubits" THEN 0 ELSE 1
  OBVIOUS
<1>3. /\ Takes(c).low = low
      /\ Takes(c).high = low + (Power2[c.width] - 1)
      /\ Takes(c).fields = <<Field(Current, c.at, c.width, kind, of)>>
  <2>1. CASE c.name = "Ubits"
    <3>1. /\ Takes(c).low = 0 /\ Takes(c).high = Power2[c.width] - 1
          /\ Takes(c).fields = <<Field(Current, c.at, c.width, "plain", 0)>>
      BY <1>1, <2>1 DEF Counted, Immediate
    <3>2. c.width \in Nat
      BY <3>1, OnlyField, CommandWidths DEF OperandCommands
    <3>3. Power2[c.width] \in Nat
      BY <3>2, PowerIs
    <3>4. QED
      BY <1>2, <2>1, <3>1, <3>3
  <2>2. CASE c.name = "Usubone"
    <3>1. /\ Takes(c).low = 1 /\ Takes(c).high = Power2[c.width]
          /\ Takes(c).fields = <<Field(Current, c.at, c.width, "subone", c.width)>>
      BY <1>1, <2>2 DEF Counted, Immediate
    <3>2. c.width \in Nat
      BY <3>1, OnlyField, CommandWidths DEF OperandCommands
    <3>3. Power2[c.width] \in Nat
      BY <3>2, PowerIs
    <3>4. QED
      BY <1>2, <2>2, <3>1, <3>3
  <2>3. QED
    BY <2>1, <2>2
<1>4. PICK w \in Nat : w = c.width /\ w <= ValueBits
  BY <1>3, OnlyField, CommandWidths DEF OperandCommands
<1>5. PICK p \in Nat \ {0} : p = Power2[w]
  BY PowerIs
<1>6. PICK u \in Int, v \in Int : u = a[Current] /\ v = b[Current] /\ u \in Values /\ v \in Values
  BY HalfAndWhole DEF Both
<1>7. u % p = v % p
  <2>1. PICK f : f = Field(Current, c.at, w, kind, of)
    OBVIOUS
  <2>2. f.operand = Current /\ f.by.kind = kind /\ f.by.of = of
    BY <2>1 DEF Field
  <2>3. Ones(Transformed(f, a), w) = Ones(Transformed(f, b), w)
    BY <1>3, <1>4, <2>1, OnlyField
  <2>4. CASE kind = "plain"
    <3>1. Transformed(f, a) = u /\ Transformed(f, b) = v
      BY <1>6, <2>2, <2>4, PlainIs
    <3>2. QED
      BY <1>5, <2>3, <3>1, BitsAgree
  <2>5. CASE kind = "subone"
    <3>1. of = w
      BY <1>2, <1>4, <2>5
    <3>2. Transformed(f, a) = Unsigned(p - u) /\ Transformed(f, b) = Unsigned(p - v)
      BY <1>5, <1>6, <2>2, <2>5, <3>1, SubOneIs
    <3>3. Ones(Unsigned(p - u), w) = Ones(Unsigned(p - v), w)
      BY <2>3, <3>2
    <3>4. QED
      BY <1>4, <1>5, <1>6, <3>3, TakenTells
  <2>6. QED
    BY <1>2, <2>4, <2>5
<1>8. low \in Int
  BY <1>2
<1>9. /\ x \in Int /\ y \in Int /\ Stands(u, x) /\ Stands(v, y)
      /\ low <= x /\ x <= low + (p - 1) /\ low <= y /\ y <= low + (p - 1)
  BY <1>3, <1>4, <1>5, <1>6 DEF Both
<1>10. x < low + p /\ y < low + p
  BY <1>8, <1>9
<1>11. u = v
  BY <1>4, <1>5, <1>6, <1>7, <1>8, <1>9, <1>10, Decoded
<1>12. QED
  BY <1>6, <1>11

LEMMA ListedTold ==
  ASSUME NEW c \in Commands, c.name = "Ulist", FieldsFit(Takes(c).fields),
         NEW a, NEW b, NEW x, NEW y, Both(c, a, b, x, y)
  PROVE  a[Current] = b[Current]
<1>1. Takes(c) = Listed(c)
  BY DEF Takes
<1>2. PICK options : options = c.options
  OBVIOUS
<1>3. /\ options \in Seq(SignedValues) /\ Len(options) \in Nat /\ DOMAIN options = 1 .. Len(options)
      /\ \A m, n \in DOMAIN options : options[m] = options[n] => m = n
  BY <1>2, ValueAssumption
<1>4. Len(options) - 1 < Whole
  <2>1. PICK h \in Nat \ {0} : h = Half /\ Whole = 2 * h /\ SignedValues = -h .. h - 1
    BY HalfAndWhole
  <2>2. IsFiniteSet(-h .. h - 1) /\ Cardinality(-h .. h - 1) = 2 * h
    <3>1. -h \in Int /\ h - 1 \in Int
      OBVIOUS
    <3>2. (h - 1) - (-h) + 1 = 2 * h /\ ~(-h > h - 1)
      OBVIOUS
    <3>3. QED
      BY <3>1, <3>2, FS_Interval
  <2>3. IsFiniteSet(1 .. Len(options)) /\ Cardinality(1 .. Len(options)) = Len(options)
    BY <1>3, FS_Interval
  <2>4. options \in [1 .. Len(options) -> -h .. h - 1]
    BY <1>3, <2>1
  <2>5. options \in Injection(1 .. Len(options), -h .. h - 1)
    BY <1>3, <2>4 DEF Injection, IsInjective
  <2>6. Cardinality(1 .. Len(options)) <= Cardinality(-h .. h - 1)
    BY <2>2, <2>5, FS_Injection
  <2>7. QED
    BY <1>3, <2>1, <2>2, <2>3, <2>6
<1>5. PICK w \in Nat : w = BitLength(Len(options) - 1) /\ Len(options) - 1 < Power2[w] /\ w <= ValueBits
  <2>1. Len(options) - 1 \in Int
    BY <1>3
  <2>2. ValueBits \in Nat
    BY WidthAssumption
  <2>3. QED
    BY <1>4, <2>1, <2>2, BitLengthIs
<1>6. PICK z \in Nat : z = Larger(1, w) /\ w <= z
  BY DEF Larger
<1>7. PICK p \in Nat \ {0} : p = Power2[z] /\ Len(options) <= p
  <2>1. Power2[w] <= Power2[z] /\ Power2[w] \in Nat /\ Power2[z] \in Nat \ {0}
    BY <1>6, PowersGrow
  <2>2. QED
    BY <1>3, <1>5, <2>1
<1>8. /\ Takes(c).allowed = options
      /\ Takes(c).fields = <<Field(Current, c.at, z, "lookup", options)>>
  BY <1>1, <1>2, <1>5, <1>6 DEF Listed, Immediate
<1>9. options # None
  BY <1>3, NoneAssumption, SignedSequences
<1>10. ASSUME NEW s, \E n \in DOMAIN options : s = Unsigned(options[n])
       PROVE  \E n \in DOMAIN options : /\ n = (CHOOSE k \in DOMAIN options : Unsigned(options[k]) = s)
                                        /\ Unsigned(options[n]) = s
  BY <1>10
<1>11. PICK u, v : u = a[Current] /\ v = b[Current]
  OBVIOUS
<1>12. PICK m \in DOMAIN options : /\ m = (CHOOSE k \in DOMAIN options : Unsigned(options[k]) = u)
                                   /\ Unsigned(options[m]) = u
  BY <1>8, <1>9, <1>10, <1>11 DEF Both
<1>13. PICK n \in DOMAIN options : /\ n = (CHOOSE k \in DOMAIN options : Unsigned(options[k]) = v)
                                   /\ Unsigned(options[n]) = v
  BY <1>8, <1>9, <1>10, <1>11 DEF Both
<1>14. Ones(m - 1, z) = Ones(n - 1, z)
  <2>1. PICK f : f = Field(Current, c.at, z, "lookup", options)
    OBVIOUS
  <2>2. f.operand = Current /\ f.by.kind = "lookup" /\ f.by.of = options
    BY <2>1 DEF Field
  <2>3. Ones(Transformed(f, a), z) = Ones(Transformed(f, b), z)
    BY <1>8, <2>1, OnlyField
  <2>4. Transformed(f, a) = m - 1 /\ Transformed(f, b) = n - 1
    BY <1>11, <1>12, <1>13, <2>2, LookupIs
  <2>5. QED
    BY <2>3, <2>4
<1>15. m \in 1 .. Len(options) /\ n \in 1 .. Len(options)
  BY <1>3
<1>16. PICK i \in Int, j \in Int : i = m - 1 /\ j = n - 1 /\ 0 <= i /\ i < p /\ 0 <= j /\ j < p
  BY <1>3, <1>7, <1>15
<1>17. i % p = j % p
  BY <1>7, <1>14, <1>16, BitsAgree
<1>18. i = j
  BY <1>16, <1>17, OneOfEach
<1>19. m = n
  BY <1>15, <1>16, <1>18
<1>20. QED
  BY <1>11, <1>12, <1>13, <1>19

LEMMA AddressTold ==
  ASSUME NEW c \in Commands, c.name = "Offset", FieldsFit(Takes(c).fields),
         NEW a, NEW b, NEW x, NEW y, Both(c, a, b, x, y)
  PROVE  a[Current] = b[Current]
<1>1. Takes(c) = Address(c)
  BY DEF Takes
<1>2. PICK f, g : /\ f = Field(Current, c.at, 1, "slice", 0)
                  /\ g = Field(Current, c.rest, c.width - 1, "slice", 1)
  OBVIOUS
<1>3. /\ f.operand = Current /\ f.by.kind = "slice" /\ f.by.of = 0 /\ f.width = 1
      /\ g.operand = Current /\ g.by.kind = "slice" /\ g.by.of = 1 /\ g.width = c.width - 1
  BY <1>2 DEF Field
<1>4. PICK s : s = <<f, g>> /\ s = Takes(c).fields
  BY <1>1, <1>2 DEF Address, Immediate
<1>5. s[1] = f /\ s[2] = g /\ DOMAIN s = 1 .. 2
  BY <1>4
<1>6. /\ Takes(c).low = -(Power2[c.width - 1]) /\ Takes(c).high = Power2[c.width - 1] - 1
  BY <1>1 DEF Address, Immediate
<1>7. SameField(f, a, b) /\ SameField(g, a, b) /\ InWord(g.lsb, g.width)
  BY <1>4, <1>5 DEF Both, FieldsFit
<1>8. PICK w \in Nat : w = c.width /\ w >= 1 /\ w <= ValueBits
  BY <1>3, <1>7, CommandWidths DEF InWord, OperandCommands
<1>9. PICK h \in Nat \ {0} : h = Power2[w - 1] /\ Power2[w] = 2 * h
  <2>1. w - 1 \in Nat /\ (w - 1) + 1 = w
    BY <1>8
  <2>2. QED
    BY <2>1, PowerIs
<1>10. PICK u, v : u = a[Current] /\ v = b[Current]
  OBVIOUS
<1>11. u \in Values /\ v \in Values /\ u \in Nat /\ v \in Nat
  BY <1>10, HalfAndWhole DEF Both
<1>12. Ones(u \div Power2[0], 1) = Ones(v \div Power2[0], 1)
  <2>1. Transformed(f, a) = u \div Power2[0] /\ Transformed(f, b) = v \div Power2[0]
    BY <1>3, <1>10, SliceIs
  <2>2. QED
    BY <1>3, <1>7, <2>1 DEF SameField
<1>13. Ones(u \div Power2[1], w - 1) = Ones(v \div Power2[1], w - 1)
  <2>1. Transformed(g, a) = u \div Power2[1] /\ Transformed(g, b) = v \div Power2[1]
    BY <1>3, <1>10, SliceIs
  <2>2. QED
    BY <1>3, <1>7, <1>8, <2>1 DEF SameField
<1>14. u % Power2[w] = v % Power2[w]
  BY <1>8, <1>11, <1>12, <1>13, HalvesTell
<1>15. /\ x \in Int /\ y \in Int /\ Stands(u, x) /\ Stands(v, y)
       /\ -h <= x /\ x <= h - 1 /\ -h <= y /\ y <= h - 1
  BY <1>6, <1>8, <1>9, <1>10 DEF Both
<1>16. PICK low \in Int : low = -h
  OBVIOUS
<1>17. low <= x /\ x < low + Power2[w] /\ low <= y /\ y < low + Power2[w]
  BY <1>9, <1>15, <1>16
<1>18. u = v
  BY <1>8, <1>11, <1>14, <1>15, <1>17, Decoded
<1>19. QED
  BY <1>10, <1>18

LEMMA ScatteredTold ==
  ASSUME NEW c \in Commands, c.name = "Ufields", FieldsFit(Takes(c).fields),
         NEW a, NEW b, NEW x, NEW y, Both(c, a, b, x, y)
  PROVE  a[Current] = b[Current]
<1>1. Takes(c) = Scattered(c)
  BY DEF Takes
<1>2. PICK places : places = Reverse(c.places)
  OBVIOUS
<1>3. PICK w \in Nat : w = Len(places) /\ DOMAIN places = 1 .. w /\ w <= ValueBits
  <2>1. c.places \in Seq(Int) /\ Len(c.places) <= MaxFieldWidth /\ Len(c.places) \in Nat
    BY CommandAssumption, ValueAssumption
  <2>2. places = [n \in 1 .. Len(c.places) |-> c.places[(Len(c.places) - n) + 1]]
    BY <1>2 DEF Reverse
  <2>3. \A n \in 1 .. Len(c.places) : (Len(c.places) - n) + 1 \in 1 .. Len(c.places)
    BY <2>1
  <2>4. places \in [1 .. Len(c.places) -> Int]
    BY <2>1, <2>2, <2>3
  <2>5. Len(places) = Len(c.places)
    BY <2>1, <2>4, FunctionIsSequence
  <2>6. QED
    BY <2>1, <2>4, <2>5, WidthAssumption
<1>4. PICK s : s = Takes(c).fields /\ s = [n \in DOMAIN places |-> Field(Current, places[n], 1, "slice", n - 1)]
  BY <1>1, <1>2 DEF Scattered, Immediate
<1>5. Takes(c).low = 0 /\ Takes(c).high = Power2[w] - 1
  BY <1>1, <1>2, <1>3 DEF Scattered, Immediate
<1>6. PICK u, v : u = a[Current] /\ v = b[Current]
  OBVIOUS
<1>7. u \in Values /\ v \in Values /\ u \in Nat /\ v \in Nat
  BY <1>6, HalfAndWhole DEF Both
<1>8. ASSUME NEW n \in 1 .. w
      PROVE  Ones(u \div Power2[n - 1], 1) = Ones(v \div Power2[n - 1], 1)
  <2>1. PICK f : f = Field(Current, places[n], 1, "slice", n - 1)
    OBVIOUS
  <2>2. f.operand = Current /\ f.by.kind = "slice" /\ f.by.of = n - 1 /\ f.width = 1
    BY <2>1 DEF Field
  <2>3. SameField(f, a, b)
    BY <1>3, <1>4, <2>1 DEF Both
  <2>4. Transformed(f, a) = u \div Power2[n - 1] /\ Transformed(f, b) = v \div Power2[n - 1]
    BY <1>6, <2>2, SliceIs
  <2>5. QED
    BY <2>2, <2>3, <2>4 DEF SameField
<1>9. u % Power2[w] = v % Power2[w]
  BY <1>7, <1>8, SingleBitsTell
<1>10. PICK p \in Nat \ {0} : p = Power2[w]
  BY PowerIs
<1>11. /\ x \in Int /\ y \in Int /\ Stands(u, x) /\ Stands(v, y)
       /\ 0 <= x /\ x <= p - 1 /\ 0 <= y /\ y <= p - 1
  BY <1>5, <1>6, <1>10 DEF Both
<1>12. x < 0 + p /\ y < 0 + p
  BY <1>11
<1>13. u = v
  BY <1>3, <1>7, <1>9, <1>10, <1>11, <1>12, Decoded
<1>14. QED
  BY <1>6, <1>13

\* Every command that encodes the whole operand tells which it is.
LEMMA OperandTold ==
  ASSUME NEW c \in Commands, c.name \in OperandCommands, FieldsFit(Takes(c).fields),
         NEW a, NEW b, NEW x, NEW y, Both(c, a, b, x, y)
  PROVE  a[Current] = b[Current]
BY RegisterTold, ConditionTold, BiasedTold, ScaledTold, AddressTold, CountedTold, ScatteredTold, ListedTold
   DEF OperandCommands

-----------------------------------------------------------------------------
(***************************************************************************)
(* A rule that encodes whole operands.  The inductive invariant says of each*)
(* operand before the cursor that the fields and the constraints so far tell*)
(* which it is, once the operand before it is known (Told).                *)
(***************************************************************************)

\* The number an accepted value stands for.
LEMMA Represented ==
  ASSUME NEW op, ValueOK(op), op.literal = None, op.min # None, NEW v \in Values, AcceptsOperand(op, v)
  PROVE  \E x \in Int : /\ Stands(v, x) /\ op.min <= x /\ x <= op.max
                        /\ op.min >= 0 => v = x
                        /\ (x % op.multiple) = 0
<1>1. InRange(op, v) /\ (v % op.multiple) = 0
  BY DEF AcceptsOperand
<1>2. op.multiple \in Powers /\ op.min \in Int /\ op.max \in Int
  BY DEF ValueOK
<1>3. PICK h \in Nat \ {0} : h = Half /\ Whole = 2 * h
  BY HalfAndWhole
<1>4. v \in Int /\ Signed(v) = IF v >= h THEN v - 2 * h ELSE v
  BY <1>3, SignedIs
<1>5. CASE op.min < 0
  <2>1. PICK x \in Int : x = Signed(v)
    <3>1. Signed(v) \in SignedValues
      BY SignedIs
    <3>2. QED
      BY <3>1, HalfAndWhole
  <2>2. op.min <= x /\ x <= op.max
    BY <1>1, <1>5, <2>1, RangeIsTested
  <2>3. (x % op.multiple) = 0
    BY <1>1, <1>2, <2>1, MultipleIsTested
  <2>4. Stands(v, x)
    BY <1>3, <1>4, <2>1 DEF Stands
  <2>5. ~(op.min >= 0)
    BY <1>2, <1>5
  <2>6. QED
    BY <2>2, <2>3, <2>4, <2>5
<1>6. CASE ~(op.min < 0)
  <2>1. op.min <= v /\ v <= op.max
    BY <1>1, <1>6, RangeIsTested
  <2>2. Stands(v, v)
    BY DEF Stands
  <2>3. QED
    BY <1>1, <1>4, <2>1, <2>2
<1>7. QED
  BY <1>5, <1>6

\* What a command that encodes an operand leaves at the cursor.
LEMMA Narrowed ==
  ASSUME FormInv, ValuesOK, NEW c \in Commands, OperandCommand(c), ~Refuse
  PROVE  \E r : /\ operands' = [operands EXCEPT ![Current] = r]
                /\ ValueOK(r) /\ r.literal = None /\ r.min # None
                /\ Takes(c).low <= r.min /\ r.max <= Takes(c).high
                /\ Takes(c).low \in Int /\ Takes(c).high \in Int
                /\ Takes(c).multiple # None => r.multiple = Takes(c).multiple
                /\ Takes(c).allowed # None => r.allowed = Takes(c).allowed
<1>1. PICK t : t = Takes(c)
  OBVIOUS
<1>2. PICK op : op = Constrained(operands[Current], t.low, t.high)
  OBVIOUS
<1>3. /\ c.name \in OperandCommands /\ HasCurrent /\ Inhabited(op) /\ FieldsFit(t.fields)
      /\ operands' = [operands EXCEPT ![Current] =
                        [op EXCEPT !.multiple = IF t.multiple = None THEN @ ELSE t.multiple,
                                   !.allowed = IF t.allowed = None THEN @ ELSE t.allowed]]
  BY <1>1, <1>2 DEF OperandCommand
<1>4. /\ Asks(t.low, t.high) /\ t.multiple \in Powers \cup {None}
      /\ t.allowed \in Seq(SignedValues) \cup {None}
  BY <1>1, <1>3, TakenValues
<1>5. PICK o : o = operands[Current] /\ ValueOK(o) /\ o.literal = None /\ o.multiple \in Powers
               /\ o.allowed \in Seq(SignedValues) \cup {None}
  BY <1>3, CurrentIsOK
<1>6. /\ ValueOK(op) /\ op.literal = None /\ op.min # None /\ op.multiple = o.multiple
      /\ op.allowed = o.allowed /\ t.low <= op.min /\ op.max <= t.high
  BY <1>2, <1>3, <1>4, <1>5, ConstrainedIsOK
<1>7. PICK m \in Powers, al \in Seq(SignedValues) \cup {None} :
        /\ m = IF t.multiple = None THEN op.multiple ELSE t.multiple
        /\ al = IF t.allowed = None THEN op.allowed ELSE t.allowed
  BY <1>4, <1>5, <1>6
<1>8. PICK r : r = [op EXCEPT !.multiple = m, !.allowed = al]
  OBVIOUS
<1>9. ValueOK(r) /\ r.literal = None
  BY <1>6, <1>8, AllowedIsOK
<1>10. r.min = op.min /\ r.max = op.max /\ r.multiple = m /\ r.allowed = al
  <2>1. op \in [kind : Kinds, literal : Int \cup {None}, min : Int \cup {None}, max : Int \cup {None},
                multiple : Powers, allowed : Seq(SignedValues) \cup {None}, default : {0, None}]
    BY <1>6 DEF ValueOK
  <2>2. QED
    BY <1>8, <2>1
<1>11. operands' = [operands EXCEPT ![Current] = r]
  BY <1>3, <1>7, <1>8
<1>12. t.low \in Int /\ t.high \in Int
  BY <1>4 DEF Asks
<1>13. QED
  BY <1>1, <1>6, <1>7, <1>9, <1>10, <1>11, <1>12

-----------------------------------------------------------------------------
\* Two lists of operands that every field of a list encodes the same way, and
\* one that meets every constraint of a list.
Agree(list, a, b) == \A n \in DOMAIN list : SameField(list[n], a, b)
Meets(list, a) == \A n \in DOMAIN list : Satisfies(list[n], a)

\* The fields and constraints of the rule tell which the k-th operand is, once
\* they tell which the one before it is.
Told(ops, list, relations, k) ==
  \A a, b \in [DOMAIN ops -> Values] :
    /\ Agree(list, a, b) /\ Meets(relations, a) /\ Meets(relations, b)
    /\ AcceptsOperand(ops[Flat(ops)[k]], a[Flat(ops)[k]])
    /\ AcceptsOperand(ops[Flat(ops)[k]], b[Flat(ops)[k]])
    /\ k > 1 => a[Flat(ops)[k - 1]] = b[Flat(ops)[k - 1]]
    => a[Flat(ops)[k]] = b[Flat(ops)[k]]

LEMMA MoreFields ==
  ASSUME NEW s, NEW t, IsSequence(s), IsSequence(t), NEW a, NEW b, Agree(s \o t, a, b)
  PROVE  Agree(s, a, b) /\ Agree(t, a, b)
<1>1. PICK u : u = s \o t
  OBVIOUS
<1>2. /\ DOMAIN u = 1 .. Len(u) /\ DOMAIN s = 1 .. Len(s) /\ DOMAIN t = 1 .. Len(t)
      /\ Len(s) \in Nat /\ Len(t) \in Nat /\ Len(u) = Len(s) + Len(t)
      /\ \A k \in 1 .. Len(s) : u[k] = s[k]
      /\ \A k \in 1 .. Len(t) : u[Len(s) + k] = t[k]
  BY <1>1, JoinedSequence, SequenceFacts
<1>3. Agree(u, a, b)
  BY <1>1
<1>4. ASSUME NEW n \in DOMAIN s
      PROVE  SameField(s[n], a, b)
  BY <1>2, <1>3 DEF Agree
<1>5. ASSUME NEW n \in DOMAIN t
      PROVE  SameField(t[n], a, b)
  <2>1. Len(s) + n \in DOMAIN u /\ u[Len(s) + n] = t[n]
    BY <1>2
  <2>2. QED
    BY <1>3, <2>1 DEF Agree
<1>6. QED
  BY <1>4, <1>5 DEF Agree

LEMMA MoreConstraints ==
  ASSUME NEW s, IsSequence(s), NEW c
  PROVE  /\ IsSequence(Append(s, c))
         /\ \A a : Meets(Append(s, c), a) => Meets(s, a) /\ Satisfies(c, a)
<1>1. s \in Seq(Range(s) \cup {c})
  BY DEF IsSequence
<1>2. PICK u : u = Append(s, c)
  OBVIOUS
<1>3. u \in Seq(Range(s) \cup {c}) /\ Len(u) = Len(s) + 1 /\ Len(s) \in Nat
      /\ (\A k \in 1 .. Len(s) : u[k] = s[k]) /\ u[Len(s) + 1] = c
  BY <1>1, <1>2, AppendFacts
<1>4. DOMAIN s = 1 .. Len(s) /\ DOMAIN u = 1 .. Len(u)
  BY <1>1, <1>3
<1>5. IsSequence(u)
  BY <1>3, SequenceOf
<1>6. ASSUME NEW a, Meets(u, a)
      PROVE  Meets(s, a) /\ Satisfies(c, a)
  <2>1. \A n \in DOMAIN s : n \in DOMAIN u /\ u[n] = s[n]
    BY <1>3, <1>4
  <2>2. Len(s) + 1 \in DOMAIN u
    BY <1>3, <1>4
  <2>3. QED
    BY <1>3, <1>6, <2>1, <2>2 DEF Meets
<1>7. QED
  BY <1>2, <1>5, <1>6

\* What is told of an operand before the cursor stays told.
LEMMA ToldKept ==
  ASSUME FormInv, ValuesOK, cursor <= Len(Flat(operands)), ShapeKept,
         \A a, b : Agree(fields', a, b) => Agree(fields, a, b),
         \A a : Meets(constraints', a) => Meets(constraints, a),
         NEW k \in 1 .. cursor, Told(operands, fields, constraints, k)
  PROVE  Told(operands', fields', constraints', k)
<1>1. PICK flat : flat = Flat(operands) /\ FlatUpTo(flat, operands, Len(operands))
  BY FlatFacts DEF FormInv, OperandsOK
<1>2. Flat(operands') = flat /\ DOMAIN operands' = DOMAIN operands
  BY <1>1 DEF ShapeKept
<1>3. IsSequence(operands) /\ cursor \in Nat /\ Len(flat) \in Nat /\ cursor <= Len(flat) /\ k \in Nat
      /\ DOMAIN operands = 1 .. Len(operands)
  BY <1>1, SequenceFacts DEF FormInv, OperandsOK, FlatUpTo
<1>4. k \in 1 .. Len(flat) /\ flat[k] \in DOMAIN operands
  BY <1>1, <1>3 DEF FlatUpTo
<1>5. HasCurrent => flat[k] # Current
  <2>1. SUFFICES ASSUME HasCurrent
                 PROVE  flat[k] # flat[cursor + 1]
    BY <1>1 DEF Current
  <2>2. cursor + 1 \in 1 .. Len(flat) /\ k # cursor + 1
    BY <1>1, <1>3, <2>1 DEF HasCurrent
  <2>3. QED
    BY <1>1, <1>4, <2>2 DEF FlatUpTo
<1>6. operands'[flat[k]] = operands[flat[k]]
  BY <1>4, <1>5 DEF ShapeKept
<1>7. SUFFICES ASSUME NEW a \in [DOMAIN operands -> Values], NEW b \in [DOMAIN operands -> Values],
                      Agree(fields', a, b), Meets(constraints', a), Meets(constraints', b),
                      AcceptsOperand(operands[flat[k]], a[flat[k]]),
                      AcceptsOperand(operands[flat[k]], b[flat[k]]),
                      k > 1 => a[flat[k - 1]] = b[flat[k - 1]]
               PROVE  a[flat[k]] = b[flat[k]]
  BY <1>2, <1>6 DEF Told
<1>8. Agree(fields, a, b) /\ Meets(constraints, a) /\ Meets(constraints, b)
  BY <1>7
<1>9. QED
  BY <1>1, <1>7, <1>8 DEF Told

\* A command that encodes the operand at the cursor tells which it is.
LEMMA OperandTells ==
  ASSUME FormInv, ValuesOK, ShapeKept, NEW c \in Commands, OperandCommand(c), ~Refuse,
         c.name = "Usum" => cursor > 0
  PROVE  Told(operands', fields', constraints', cursor + 1)
<1>1. PICK flat : flat = Flat(operands) /\ FlatUpTo(flat, operands, Len(operands))
  BY FlatFacts DEF FormInv, OperandsOK
<1>2. Flat(operands') = flat /\ DOMAIN operands' = DOMAIN operands
  BY <1>1 DEF ShapeKept
<1>3. /\ c.name \in OperandCommands /\ HasCurrent /\ FieldsFit(Takes(c).fields)
      /\ fields' = fields \o Takes(c).fields
  BY DEF OperandCommand, InsertFields
<1>4. PICK r : /\ operands' = [operands EXCEPT ![Current] = r]
               /\ ValueOK(r) /\ r.literal = None /\ r.min # None
               /\ Takes(c).low <= r.min /\ r.max <= Takes(c).high
               /\ Takes(c).low \in Int /\ Takes(c).high \in Int
               /\ Takes(c).multiple # None => r.multiple = Takes(c).multiple
               /\ Takes(c).allowed # None => r.allowed = Takes(c).allowed
  BY Narrowed
<1>5. Current \in DOMAIN operands /\ Current = flat[cursor + 1] /\ cursor \in Nat
  BY <1>1, <1>3, CurrentIsOK DEF Current, FormInv, OperandsOK
<1>6. operands'[Current] = r
  BY <1>4, <1>5
<1>7. IsSequence(fields) /\ IsSequence(Takes(c).fields)
  BY <1>3, TakenFields DEF FormInv, FieldsOK
<1>8. SUFFICES ASSUME NEW a \in [DOMAIN operands -> Values], NEW b \in [DOMAIN operands -> Values],
                      Agree(fields', a, b),
                      AcceptsOperand(r, a[Current]), AcceptsOperand(r, b[Current]),
                      cursor + 1 > 1 => a[flat[(cursor + 1) - 1]] = b[flat[(cursor + 1) - 1]]
               PROVE  a[Current] = b[Current]
  BY <1>2, <1>5, <1>6 DEF Told
<1>9. Agree(Takes(c).fields, a, b)
  BY <1>3, <1>7, <1>8, MoreFields
<1>10. a[Current] \in Values /\ b[Current] \in Values
  BY <1>5
<1>11. PICK x \in Int : /\ Stands(a[Current], x) /\ r.min <= x /\ x <= r.max
                        /\ r.min >= 0 => a[Current] = x
                        /\ (x % r.multiple) = 0
  BY <1>4, <1>8, <1>10, Represented
<1>12. PICK y \in Int : /\ Stands(b[Current], y) /\ r.min <= y /\ y <= r.max
                        /\ r.min >= 0 => b[Current] = y
                        /\ (y % r.multiple) = 0
  BY <1>4, <1>8, <1>10, Represented
<1>13. r.min \in Int /\ r.max \in Int
  BY <1>4 DEF ValueOK
<1>14. /\ Takes(c).low <= x /\ x <= Takes(c).high /\ Takes(c).low <= y /\ y <= Takes(c).high
       /\ Takes(c).low >= 0 => r.min >= 0
  BY <1>4, <1>11, <1>12, <1>13
<1>15. Takes(c).multiple # None => (x % Takes(c).multiple) = 0 /\ (y % Takes(c).multiple) = 0
  BY <1>4, <1>11, <1>12
<1>16. Takes(c).allowed # None =>
         /\ \E n \in DOMAIN Takes(c).allowed : a[Current] = Unsigned(Takes(c).allowed[n])
         /\ \E n \in DOMAIN Takes(c).allowed : b[Current] = Unsigned(Takes(c).allowed[n])
  <2>1. r.allowed # None =>
          /\ \E n \in DOMAIN r.allowed : a[Current] = Unsigned(r.allowed[n])
          /\ \E n \in DOMAIN r.allowed : b[Current] = Unsigned(r.allowed[n])
    BY <1>4, <1>8 DEF AcceptsOperand
  <2>2. QED
    BY <1>4, <2>1
<1>17. c.name = "Usum" => a[Previous] \in Int /\ a[Previous] = b[Previous]
  <2>1. SUFFICES ASSUME c.name = "Usum"
                 PROVE  a[Previous] \in Int /\ a[Previous] = b[Previous]
    OBVIOUS
  <2>2. cursor > 0 /\ Previous = flat[cursor] /\ (cursor + 1) - 1 = cursor /\ cursor + 1 > 1
    BY <1>1, <1>5, <2>1 DEF Previous
  <2>3. flat[cursor] \in DOMAIN operands
    <3>1. cursor \in 1 .. Len(flat) /\ DOMAIN operands = 1 .. Len(operands)
      BY <1>1, <1>3, <1>5, <2>2, SequenceFacts DEF HasCurrent, FormInv, OperandsOK, FlatUpTo
    <3>2. QED
      BY <1>1, <3>1 DEF FlatUpTo
  <2>4. a[flat[cursor]] \in Values
    BY <2>3
  <2>5. a[flat[cursor]] \in Int
    BY <2>4, HalfAndWhole
  <2>6. a[flat[cursor]] = b[flat[cursor]]
    BY <1>8, <2>2
  <2>7. QED
    BY <2>2, <2>5, <2>6
<1>18. Both(c, a, b, x, y)
  BY <1>9, <1>10, <1>11, <1>12, <1>14, <1>15, <1>16, <1>17 DEF Both, Agree
<1>19. QED
  BY <1>3, <1>18, OperandTold

\* RNext: the operand is the one before it and one more.
LEMMA NextTells ==
  ASSUME FormInv, ShapeKept, IsSequence(constraints), NEW c \in Commands,
         PairCommand(c), c.name = "RNext", ~Refuse, cursor > 0
  PROVE  Told(operands', fields', constraints', cursor + 1)
<1>1. PICK flat : flat = Flat(operands)
  OBVIOUS
<1>2. Flat(operands') = flat /\ cursor \in Nat
  BY <1>1 DEF ShapeKept, FormInv, OperandsOK
<1>3. PICK d : d = [kind |-> "next", left |-> Current, right |-> Previous, most |-> 0]
  OBVIOUS
<1>4. constraints' = Append(constraints, d)
  BY <1>3 DEF PairCommand
<1>5. Current = flat[cursor + 1] /\ Previous = flat[cursor] /\ (cursor + 1) - 1 = cursor /\ cursor + 1 > 1
  BY <1>1, <1>2 DEF Current, Previous
<1>6. ASSUME NEW a, Meets(constraints', a)
      PROVE  a[Current] = Unsigned(a[Previous] + 1)
  <2>1. Satisfies(d, a)
    BY <1>4, <1>6, MoreConstraints
  <2>2. d.kind = "next" /\ d.left = Current /\ d.right = Previous
    BY <1>3
  <2>3. QED
    BY <2>1, <2>2 DEF Satisfies
<1>7. SUFFICES ASSUME NEW a, NEW b, Meets(constraints', a), Meets(constraints', b),
                      cursor + 1 > 1 => a[flat[(cursor + 1) - 1]] = b[flat[(cursor + 1) - 1]]
               PROVE  a[Current] = b[Current]
  BY <1>2, <1>5 DEF Told
<1>8. a[Previous] = b[Previous]
  BY <1>5, <1>7
<1>9. QED
  BY <1>6, <1>7, <1>8

\* The parameters of a transform: how many bits a slice leaves out, and the
\* different options of a list.
TransformOK(f) ==
  /\ f.by.kind = "slice" => f.by.of \in Nat
  /\ f.by.kind = "lookup" =>
       /\ f.by.of \in Seq(SignedValues) /\ f.by.of # <<>>
       /\ \A m, n \in DOMAIN f.by.of : f.by.of[m] = f.by.of[n] => m = n

TransformsOK == \A n \in DOMAIN fields : TransformOK(fields[n])

LEMMA OneTransform ==
  ASSUME NEW operand, NEW lsb, NEW width, NEW kind, NEW of,
         kind = "slice" => of \in Nat,
         kind = "lookup" => /\ of \in Seq(SignedValues) /\ of # <<>>
                            /\ \A m, n \in DOMAIN of : of[m] = of[n] => m = n
  PROVE  \A n \in DOMAIN <<Field(operand, lsb, width, kind, of)>> :
           TransformOK(<<Field(operand, lsb, width, kind, of)>>[n])
<1>1. PICK f : f = Field(operand, lsb, width, kind, of)
  OBVIOUS
<1>2. f.by.kind = kind /\ f.by.of = of
  BY <1>1 DEF Field
<1>3. TransformOK(f)
  BY <1>2 DEF TransformOK
<1>4. PICK s : s = <<f>>
  OBVIOUS
<1>5. DOMAIN s = 1 .. 1 /\ s[1] = f
  BY <1>4
<1>6. QED
  BY <1>1, <1>3, <1>4, <1>5

LEMMA TakenTransforms ==
  ASSUME NEW c \in Commands, c.name \in OperandCommands
  PROVE  \A n \in DOMAIN Takes(c).fields : TransformOK(Takes(c).fields[n])
<1>1. CASE c.name \in {"R", "R4", "REven", "RNoZr"}
  <2>1. PICK w : Takes(c).fields = <<Field(Current, c.at, w, "plain", 0)>>
    BY <1>1 DEF Takes, Register
  <2>2. QED
    BY <2>1, OneTransform
<1>2. CASE c.name \in {"Cond", "InvCond"}
  <2>1. PICK kind : kind \in {"xor", "plain"} /\ Takes(c).fields = <<Field(Current, c.at, CondBits, kind, 1)>>
    BY <1>2 DEF Takes, Condition
  <2>2. QED
    BY <2>1, OneTransform
<1>3. CASE c.name \in {"Urange", "Usubmod", "Usubzero", "Usum"}
  <2>1. Takes(c) = Biased(c)
    BY <1>3 DEF Takes
  <2>2. \E kind, w, of : /\ kind \in {"bias", "sum", "negate", "complement"}
                         /\ Takes(c).fields = <<Field(Current, c.at, w, kind, of)>>
    BY <1>3, <2>1 DEF Biased, Immediate
  <2>3. QED
    BY <2>2, OneTransform
<1>4. CASE c.name \in {"Sbits", "Sscaled", "Uscaled"}
  <2>1. Takes(c) = Scaled(c)
    BY <1>4 DEF Takes
  <2>2. Takes(c).fields = <<Field(Current, c.at, c.width, "slice", c.shift)>> /\ c.shift \in Nat
    BY <1>4, <2>1, ValueAssumption DEF Scaled, Immediate
  <2>3. QED
    BY <2>2, OneTransform
<1>5. CASE c.name = "Offset"
  <2>1. Takes(c) = Address(c)
    BY <1>5 DEF Takes
  <2>2. PICK f, g : /\ f = Field(Current, c.at, 1, "slice", 0)
                    /\ g = Field(Current, c.rest, c.width - 1, "slice", 1)
    OBVIOUS
  <2>3. TransformOK(f) /\ TransformOK(g)
    <3>1. /\ f.by.kind = "slice" /\ f.by.of = 0
          /\ g.by.kind = "slice" /\ g.by.of = 1
      BY <2>2 DEF Field
    <3>2. QED
      BY <3>1 DEF TransformOK
  <2>4. PICK s : s = Takes(c).fields /\ s = <<f, g>>
    BY <2>1, <2>2 DEF Address, Immediate
  <2>5. DOMAIN s = 1 .. 2 /\ s[1] = f /\ s[2] = g
    BY <2>4
  <2>6. QED
    BY <2>3, <2>4, <2>5
<1>6. CASE c.name \in {"Ubits", "Usubone"}
  <2>1. Takes(c) = Counted(c)
    BY <1>6 DEF Takes
  <2>2. \E kind, of : kind \in {"plain", "subone"} /\ Takes(c).fields = <<Field(Current, c.at, c.width, kind, of)>>
    BY <1>6, <2>1 DEF Counted, Immediate
  <2>3. QED
    BY <2>2, OneTransform
<1>7. CASE c.name = "Ufields"
  <2>1. Takes(c) = Scattered(c)
    BY <1>7 DEF Takes
  <2>2. PICK places : places = Reverse(c.places)
    OBVIOUS
  <2>3. DOMAIN places = 1 .. Len(c.places) /\ Len(c.places) \in Nat
    BY <2>2, CommandAssumption DEF Reverse
  <2>4. PICK s : s = Takes(c).fields /\ s = [n \in DOMAIN places |-> Field(Current, places[n], 1, "slice", n - 1)]
    BY <2>1, <2>2 DEF Scattered, Immediate
  <2>5. ASSUME NEW n \in DOMAIN s
        PROVE  TransformOK(s[n])
    <3>1. PICK f : f = s[n] /\ f = Field(Current, places[n], 1, "slice", n - 1)
      BY <2>4
    <3>2. f.by.kind = "slice" /\ f.by.of = n - 1
      BY <3>1 DEF Field
    <3>3. n - 1 \in Nat
      BY <2>3, <2>4
    <3>4. QED
      BY <3>1, <3>2, <3>3 DEF TransformOK
  <2>6. QED
    BY <2>4, <2>5
<1>8. CASE c.name = "Ulist"
  <2>1. Takes(c) = Listed(c)
    BY <1>8 DEF Takes
  <2>2. PICK w : Takes(c).fields = <<Field(Current, c.at, w, "lookup", c.options)>>
    BY <2>1 DEF Listed, Immediate
  <2>3. /\ c.options \in Seq(SignedValues) /\ c.options # <<>>
        /\ \A m, n \in DOMAIN c.options : c.options[m] = c.options[n] => m = n
    BY <1>8, ValueAssumption
  <2>4. QED
    BY <2>2, <2>3, OneTransform
<1>9. QED
  BY <1>1, <1>2, <1>3, <1>4, <1>5, <1>6, <1>7, <1>8 DEF OperandCommands

-----------------------------------------------------------------------------
\* A rule that encodes whole operands: what was encoded tells every operand
\* before the cursor, and a form is compiled when there is none left.
WholeInv ==
  /\ RuleInv /\ IsSequence(constraints) /\ TransformsOK
  /\ \A k \in 1 .. cursor : Told(operands, fields, constraints, k)
  /\ Compiled => cursor = Len(Flat(operands))

LEMMA WholeInit == Init => WholeInv
<1> SUFFICES ASSUME Init
             PROVE  WholeInv
  OBVIOUS
<1>1. fields = <<>> /\ constraints = <<>> /\ cursor = 0 /\ status \in {"rule", "refused"}
  BY DEF Init
<1>2. <<>> \in Seq({}) /\ DOMAIN <<>> = {}
  OBVIOUS
<1>3. IsSequence(<<>>)
  BY <1>2, SequenceOf
<1>4. QED
  BY <1>1, <1>2, <1>3, RuleInit DEF WholeInv, TransformsOK, Compiled

\* What a command does to what the invariant is about.
Grows ==
  /\ IsSequence(constraints') /\ TransformsOK'
  /\ \A a, b : Agree(fields', a, b) => Agree(fields, a, b)
  /\ \A a : Meets(constraints', a) => Meets(constraints, a)
  /\ status' = "compiled" => status = "compiled"
  /\ status = "compiled" => cursor' = cursor

LEMMA OperandGrows ==
  ASSUME FormInv, IsSequence(constraints), TransformsOK, NEW c \in Commands, OperandCommand(c), ~Refuse
  PROVE  Grows
<1>1. /\ c.name \in OperandCommands /\ HasCurrent
      /\ fields' = fields \o Takes(c).fields /\ status = "rule" /\ status' = status
  BY DEF OperandCommand, InsertFields, Begin
<1>2. constraints' = constraints \/ \E d : constraints' = Append(constraints, d)
  BY DEF OperandCommand
<1>3. IsSequence(fields) /\ IsSequence(Takes(c).fields)
  BY <1>1, TakenFields, CurrentIsAnOperand DEF FormInv, FieldsOK, OperandsOK
<1>4. \A a, b : Agree(fields', a, b) => Agree(fields, a, b)
  BY <1>1, <1>3, MoreFields
<1>5. IsSequence(constraints') /\ \A a : Meets(constraints', a) => Meets(constraints, a)
  BY <1>2, MoreConstraints
<1>6. ASSUME NEW n \in DOMAIN fields'
      PROVE  TransformOK(fields'[n])
  <2>1. PICK s, t : s = fields /\ t = Takes(c).fields
    OBVIOUS
  <2>2. PICK u : u = s \o t
    OBVIOUS
  <2>3. u = fields'
    BY <1>1, <2>1, <2>2
  <2>4. /\ DOMAIN u = 1 .. Len(u) /\ DOMAIN s = 1 .. Len(s) /\ DOMAIN t = 1 .. Len(t)
        /\ Len(s) \in Nat /\ Len(t) \in Nat /\ Len(u) = Len(s) + Len(t)
        /\ \A k \in 1 .. Len(s) : u[k] = s[k]
        /\ \A k \in 1 .. Len(t) : u[Len(s) + k] = t[k]
    <3>1. IsSequence(s) /\ IsSequence(t)
      BY <1>3, <2>1
    <3>2. QED
      BY <2>2, <3>1, JoinedSequence, SequenceFacts
  <2>5. CASE n \in DOMAIN s
    BY <1>1, <2>1, <2>3, <2>4, <2>5 DEF TransformsOK
  <2>6. CASE n \notin DOMAIN s
    <3>1. PICK k : k = n - Len(s) /\ k \in 1 .. Len(t) /\ n = Len(s) + k
      BY <2>3, <2>4, <2>6
    <3>2. u[n] = t[k]
      BY <2>4, <3>1
    <3>3. TransformOK(t[k])
      BY <1>1, <2>1, <2>4, <3>1, TakenTransforms
    <3>4. QED
      BY <2>3, <3>2, <3>3
  <2>7. QED
    BY <2>5, <2>6
<1>7. TransformsOK'
  BY <1>6 DEF TransformsOK
<1>8. QED
  BY <1>1, <1>4, <1>5, <1>7 DEF Grows

LEMMA PairGrows ==
  ASSUME IsSequence(constraints), TransformsOK, NEW c \in Commands, PairCommand(c), ~Refuse
  PROVE  Grows
<1>1. fields' = fields /\ status' = status /\ status = "rule"
  BY DEF PairCommand, Begin
<1>2. \E d : constraints' = Append(constraints, d)
  BY DEF PairCommand
<1>3. IsSequence(constraints') /\ \A a : Meets(constraints', a) => Meets(constraints, a)
  BY <1>2, MoreConstraints
<1>4. QED
  BY <1>1, <1>3 DEF Grows, TransformsOK

LEMMA StillGrows ==
  ASSUME IsSequence(constraints), TransformsOK, UNCHANGED <<fields, constraints>>,
         status' = "compiled" => status = "compiled",
         status = "compiled" => cursor' = cursor
  PROVE  Grows
BY DEF Grows, TransformsOK, IsSequence

LEMMA WholeGrows ==
  ASSUME WholeInv, Grows, ShapeKept, RuleInv', cursor' <= cursor \/ cursor' = cursor + 1,
         cursor' = cursor + 1 => Told(operands', fields', constraints', cursor + 1)
  PROVE  WholeInv'
<1>1. FormInv /\ ValuesOK /\ cursor <= Len(Flat(operands)) /\ cursor \in Nat /\ cursor' \in Nat
  BY DEF WholeInv, RuleInv, FormInv, OperandsOK
<1>2. ASSUME NEW k \in 1 .. cursor'
      PROVE  Told(operands', fields', constraints', k)
  <2>1. CASE k \in 1 .. cursor
    BY <1>1, <2>1, ToldKept DEF WholeInv, Grows
  <2>2. CASE k \notin 1 .. cursor
    <3>1. k = cursor + 1 /\ cursor' = cursor + 1
      BY <1>1, <2>2
    <3>2. QED
      BY <3>1
  <2>3. QED
    BY <2>1, <2>2
<1>3. Compiled' => cursor' = Len(Flat(operands'))
  BY DEF WholeInv, Grows, ShapeKept, Compiled
<1>4. QED
  BY <1>2, <1>3 DEF WholeInv, Grows

Still ==
  /\ UNCHANGED <<fields, constraints>>
  /\ cursor' = cursor \/ (cursor' = cursor - 1 /\ status = "rule")
  /\ status' = "compiled" => status = "compiled"

LEMMA WholeKeeps ==
  ASSUME WholeInv, [WholeNext]_vars
  PROVE  WholeInv'
<1>1. /\ FormInv /\ ValuesOK /\ IsSequence(constraints) /\ TransformsOK /\ cursor \in Nat
  BY DEF WholeInv, RuleInv, FormInv, OperandsOK
<1>2. [Next]_vars
  BY DEF WholeNext, Next, WholeCommands
<1>3. RuleInv' /\ ShapeKept
  BY <1>1, <1>2, RuleNext, ValuesNext DEF WholeInv
<1>4. ASSUME Still
      PROVE  WholeInv'
  <2>1. Grows
    BY <1>1, <1>4, StillGrows DEF Still
  <2>2. cursor' <= cursor /\ cursor' # cursor + 1
    BY <1>1, <1>4 DEF Still
  <2>3. QED
    BY <1>3, <2>1, <2>2, WholeGrows
<1>5. CASE UNCHANGED vars
  <2>1. Still
    BY <1>5 DEF Still, vars
  <2>2. QED
    BY <1>4, <2>1
<1>6. CASE Refuse
  <2>1. Still
    BY <1>6 DEF Still, Refuse
  <2>2. QED
    BY <1>4, <2>1
<1>7. ASSUME Finish, ~Refuse
      PROVE  WholeInv'
  <2>1. cursor = Len(Flat(operands)) /\ UNCHANGED <<operands, fields, constraints, cursor>>
    BY <1>7 DEF Finish
  <2>2. \A k \in 1 .. cursor : Told(operands', fields', constraints', k)
    BY <2>1 DEF WholeInv
  <2>3. TransformsOK' /\ IsSequence(constraints')
    BY <1>1, <2>1 DEF TransformsOK
  <2>4. QED
    BY <1>3, <2>1, <2>2, <2>3 DEF WholeInv
<1>8. ASSUME NEW c \in WholeCommands, Command(c), ~Refuse, c.name \in {"RNext", "Usum"} => cursor > 0
      PROVE  WholeInv'
  <2>0. c \in Commands /\ c.name \notin SliceCommands \cup {"A"}
    BY DEF WholeCommands
  <2>1. CASE StaticCommand(c)
    <3>1. Still
      BY <1>8, <2>1 DEF Still, StaticCommand, InsertStatic
    <3>2. QED
      BY <1>4, <3>1
  <2>2. CASE CursorCommand(c)
    <3>1. Still
      BY <1>8, <2>0, <2>2 DEF Still, CursorCommand, Begin
    <3>2. QED
      BY <1>4, <3>1
  <2>3. CASE CheckCommand(c)
    <3>1. Still
      BY <1>8, <2>3 DEF Still, CheckCommand
    <3>2. QED
      BY <1>4, <3>1
  <2>4. CASE SliceCommand(c)
    BY <2>0, <2>4 DEF SliceCommand
  <2>5. CASE PairCommand(c)
    <3>1. Grows
      BY <1>1, <1>8, <2>0, <2>5, PairGrows
    <3>2. CASE c.name = "RNext"
      <4>1. cursor' = cursor + 1
        BY <1>8, <2>5, <3>2 DEF PairCommand
      <4>2. Told(operands', fields', constraints', cursor + 1)
        BY <1>1, <1>3, <1>8, <2>0, <2>5, <3>2, NextTells
      <4>3. QED
        BY <1>3, <3>1, <4>1, <4>2, WholeGrows
    <3>3. CASE c.name # "RNext"
      <4>1. cursor' = cursor
        BY <1>8, <2>5, <3>3 DEF PairCommand
      <4>2. cursor' <= cursor /\ cursor' # cursor + 1
        BY <1>1, <4>1
      <4>3. QED
        BY <1>3, <3>1, <4>2, WholeGrows
    <3>4. QED
      BY <3>2, <3>3
  <2>6. CASE OperandCommand(c)
    <3>1. Grows
      BY <1>1, <1>8, <2>0, <2>6, OperandGrows
    <3>2. cursor' = cursor + 1
      BY <1>8, <2>6 DEF OperandCommand
    <3>3. Told(operands', fields', constraints', cursor + 1)
      BY <1>1, <1>3, <1>8, <2>0, <2>6, OperandTells
    <3>4. QED
      BY <1>3, <3>1, <3>2, <3>3, WholeGrows
  <2>7. QED
    BY <1>8, <2>1, <2>2, <2>3, <2>4, <2>5, <2>6 DEF Command
<1>9. QED
  BY <1>5, <1>6, <1>7, <1>8 DEF WholeNext

-----------------------------------------------------------------------------
(***************************************************************************)
(* The word of a compiled form shows the bits of every field, so that the  *)
(* operands are told one after another; a default operand that is zero has *)
(* no bits.                                                                *)
(***************************************************************************)

\* The bits a field has in the word of a list of operands.
FieldBits(f, a) == Shifted(Ones(Transformed(f, a), f.width), f.lsb)

LEMMA ShiftTells ==
  ASSUME NEW lsb \in Int, NEW X \in SUBSET Int, NEW Y \in SUBSET Int, Shifted(X, lsb) \subseteq Shifted(Y, lsb)
  PROVE  X \subseteq Y
<1>1. ASSUME NEW x \in X
      PROVE  x \in Y
  <2>1. lsb + x \in Shifted(Y, lsb)
    BY DEF Shifted
  <2>2. PICK y \in Y : lsb + y = lsb + x
    BY <2>1 DEF Shifted
  <2>3. y = x
    BY <2>2
  <2>4. QED
    BY <2>2, <2>3
<1>2. QED
  BY <1>1

\* In the bits of a field a word has what the field encodes.
LEMMA WordShowsField ==
  ASSUME FormInv, NEW a, NEW n \in DOMAIN fields
  PROVE  Emit(Form, a) \cap FieldMask(fields[n]) = FieldBits(fields[n], a)
<1>0. FieldsOK /\ BitsOK
  BY DEF FormInv
<1>1. Emit(Form, a) = word \cup UNION {FieldBits(f, a) : f \in Range(fields)}
  BY DEF Emit, FieldBits, Form
<1>2. ASSUME NEW m \in DOMAIN fields
      PROVE  FieldBits(fields[m], a) \subseteq FieldMask(fields[m])
  <2>1. fields[m].lsb \in Int /\ fields[m].width \in Int
    BY <1>0 DEF FieldsOK, Placed, Asked
  <2>2. QED
    BY <2>1, ShiftedOnes DEF FieldMask, FieldBits
<1>3. word \cap FieldMask(fields[n]) = {}
  BY <1>0 DEF BitsOK, Dynamic
<1>4. ASSUME NEW f \in Range(fields)
      PROVE  f = fields[n] \/ FieldBits(f, a) \cap FieldMask(fields[n]) = {}
  <2>1. PICK m \in DOMAIN fields : f = fields[m]
    BY DEF Range
  <2>2. CASE m = n
    BY <2>1, <2>2
  <2>3. CASE m # n
    <3>1. FieldMask(fields[m]) \cap FieldMask(fields[n]) = {}
      BY <1>0, <2>3 DEF FieldsOK, Separate
    <3>2. QED
      BY <1>2, <2>1, <3>1
  <2>4. QED
    BY <2>2, <2>3
<1>5. fields[n] \in Range(fields)
  BY DEF Range
<1>6. FieldBits(fields[n], a) \subseteq FieldMask(fields[n])
  BY <1>2
<1>7. QED
  BY <1>1, <1>3, <1>4, <1>5, <1>6

LEMMA WordsAgree ==
  ASSUME FormInv, NEW a, NEW b, Emit(Form, a) = Emit(Form, b)
  PROVE  Agree(fields, a, b)
<1>1. ASSUME NEW n \in DOMAIN fields
      PROVE  SameField(fields[n], a, b)
  <2>1. PICK f : f = fields[n]
    OBVIOUS
  <2>2. FieldBits(f, a) = FieldBits(f, b)
    BY <2>1, WordShowsField
  <2>3. f.lsb \in Int
    BY <2>1 DEF FormInv, FieldsOK, Placed, Asked
  <2>4. PICK X, Y : X = Ones(Transformed(f, a), f.width) /\ Y = Ones(Transformed(f, b), f.width)
    OBVIOUS
  <2>5. X \in SUBSET Int /\ Y \in SUBSET Int
    BY <2>4 DEF Ones
  <2>6. Shifted(X, f.lsb) = Shifted(Y, f.lsb)
    BY <2>2, <2>4 DEF FieldBits
  <2>7. X \subseteq Y /\ Y \subseteq X
    BY <2>3, <2>5, <2>6, ShiftTells
  <2>8. QED
    BY <2>1, <2>4, <2>7 DEF SameField
<1>2. QED
  BY <1>1 DEF Agree

\* The word of a compiled form tells the operands.
LEMMA ArgumentsTold ==
  ASSUME WholeInv, Compiled, NEW a \in Accepted(Form), NEW b \in Accepted(Form),
         Emit(Form, a) = Emit(Form, b)
  PROVE  a = b
<1>1. PICK flat : flat = Flat(operands) /\ FlatUpTo(flat, operands, Len(operands))
  BY FlatFacts DEF WholeInv, RuleInv, FormInv, OperandsOK
<1>2. /\ a \in [DOMAIN operands -> Values] /\ b \in [DOMAIN operands -> Values]
      /\ \A n \in DOMAIN operands : AcceptsOperand(operands[n], a[n]) /\ AcceptsOperand(operands[n], b[n])
      /\ \A c \in Range(constraints) : Satisfies(c, a) /\ Satisfies(c, b)
  <2>1. Form.operands = operands /\ Form.constraints = constraints
    BY DEF Form
  <2>2. QED
    BY <2>1 DEF Accepted, Arguments
<1>3. Meets(constraints, a) /\ Meets(constraints, b)
  BY <1>2 DEF Meets, Range
<1>4. Agree(fields, a, b)
  BY WordsAgree DEF WholeInv, RuleInv
<1>5. /\ Len(flat) \in Nat /\ \A k \in 1 .. Len(flat) : flat[k] \in DOMAIN operands
      /\ DOMAIN operands = 1 .. Len(operands)
  BY <1>1, SequenceFacts DEF FlatUpTo, WholeInv, RuleInv, FormInv, OperandsOK
<1>6. \A k \in 1 .. Len(flat) : Told(operands, fields, constraints, k)
  BY <1>1 DEF WholeInv
<1> DEFINE S == {n \in Nat : \A k \in 1 .. Len(flat) : k <= n => a[flat[k]] = b[flat[k]]}
<1>7. 0 \in S
  OBVIOUS
<1>8. ASSUME NEW n \in S
      PROVE  n + 1 \in S
  <2>1. SUFFICES ASSUME n + 1 \in 1 .. Len(flat)
                 PROVE  a[flat[n + 1]] = b[flat[n + 1]]
    BY <1>5
  <2>2. n + 1 > 1 => a[flat[(n + 1) - 1]] = b[flat[(n + 1) - 1]]
    <3>1. SUFFICES ASSUME n + 1 > 1
                   PROVE  a[flat[n]] = b[flat[n]]
      BY <1>5
    <3>2. n \in 1 .. Len(flat) /\ n <= n
      BY <1>5, <2>1, <3>1
    <3>3. QED
      BY <3>2
  <2>3. flat[n + 1] \in DOMAIN operands
    BY <1>5, <2>1
  <2>4. AcceptsOperand(operands[flat[n + 1]], a[flat[n + 1]]) /\ AcceptsOperand(operands[flat[n + 1]], b[flat[n + 1]])
    BY <1>2, <2>3
  <2>5. Told(operands, fields, constraints, n + 1)
    BY <1>6, <2>1
  <2> HIDE DEF S
  <2>6. QED
    BY <1>1, <1>2, <1>3, <1>4, <2>2, <2>4, <2>5 DEF Told
<1>9. S \in SUBSET Nat
  OBVIOUS
<1> HIDE DEF S
<1>10. S = Nat
  BY <1>7, <1>8, <1>9, NatSet
<1>11. \A k \in 1 .. Len(flat) : a[flat[k]] = b[flat[k]]
  BY <1>5, <1>10 DEF S
<1>12. ASSUME NEW m \in DOMAIN operands
       PROVE  a[m] = b[m]
  <2>1. CASE operands[m].literal = None
    <3>1. PICK k \in 1 .. Len(flat) : flat[k] = m
      BY <1>1, <1>5, <2>1 DEF FlatUpTo
    <3>2. QED
      BY <1>11, <3>1
  <2>2. CASE operands[m].literal # None
    BY <1>2, <2>2 DEF AcceptsOperand
  <2>3. QED
    BY <2>1, <2>2
<1>13. QED
  BY <1>2, <1>12

LEMMA EncodedUniquely ==
  ASSUME WholeInv
  PROVE  OperandsAreEncodedUniquely
<1>1. SUFFICES ASSUME Compiled
               PROVE  Cardinality({Emit(Form, args) : args \in Accepted(Form)}) = Cardinality(Accepted(Form))
  BY DEF OperandsAreEncodedUniquely
<1> DEFINE A == Accepted(Form)
           E(args) == Emit(Form, args)
           T == {E(args) : args \in A}
<1>2. \A a, b \in A : E(a) = E(b) => a = b
  BY <1>1, ArgumentsTold
<1>3. \A a \in A : E(a) \subseteq Word
  <2>1. Valid(Form) /\ FieldsOK /\ BitsOK
    BY <1>1, FormIsValid DEF WholeInv, RuleInv, FormInv
  <2>2. ASSUME NEW a, NEW f \in Range(fields)
        PROVE  FieldBits(f, a) \subseteq Word
    <3>1. PICK n \in DOMAIN fields : f = fields[n]
      BY DEF Range
    <3>2. f.lsb \in Int /\ f.width \in Int /\ InWord(f.lsb, f.width)
      BY <2>1, <3>1 DEF FieldsOK, Placed, Asked
    <3>3. QED
      BY <3>2, ShiftedOnes, MaskInWord DEF FieldBits
  <2>3. ASSUME NEW a
        PROVE  E(a) = word \cup UNION {FieldBits(f, a) : f \in Range(fields)}
    BY DEF Emit, FieldBits, Form
  <2>4. word \subseteq Word
    BY <2>1 DEF BitsOK
  <2>5. QED
    BY <2>2, <2>3, <2>4
<1> HIDE DEF A, E
<1>4. IsFiniteSet(T)
  <2>1. IsFiniteSet(Word)
    BY FS_Interval, WidthAssumption DEF Word
  <2>2. IsFiniteSet(SUBSET Word) /\ T \in SUBSET (SUBSET Word)
    BY <1>3, <2>1, FS_SUBSET
  <2>3. QED
    BY <2>2, FS_Subset
<1> DEFINE g == [t \in T |-> CHOOSE a \in A : E(a) = t]
<1>5. \A t \in T : g[t] \in A /\ E(g[t]) = t
  OBVIOUS
<1>6. \A a \in A : E(a) \in T /\ g[E(a)] = a
  BY <1>2, <1>5
<1>7. g \in [T -> A]
  BY <1>5
<1>8. \A s, t \in T : g[s] = g[t] => s = t
  BY <1>5
<1> HIDE DEF g, T
<1>9. g \in Injection(T, A)
  BY <1>7, <1>8 DEF Injection, IsInjective
<1>10. g \in Surjection(T, A)
  BY <1>6, <1>7 DEF Surjection
<1>11. ExistsBijection(T, A)
  BY <1>9, <1>10 DEF ExistsBijection, Bijection
<1>12. Cardinality(A) = Cardinality(T)
  BY <1>4, <1>11, FS_Bijection
<1>13. QED
  BY <1>12 DEF A, T, E

\* Zero has no bits.
LEMMA ZeroHasNoBits ==
  ASSUME NEW w
  PROVE  Ones(0, w) = {}
<1>1. ASSUME NEW b \in 0 .. w - 1
      PROVE  (0 \div Power2[b]) % 2 # 1
  <2>1. PICK m \in Nat \ {0} : m = Power2[b]
    BY PowerIs
  <2>2. 0 \div m = 0
    <3>1. 0 = m * 0 + 0 /\ 0 \in 0 .. m - 1
      OBVIOUS
    <3>2. QED
      BY <3>1, DivisionIs
  <2>3. 0 % 2 = 0
    OBVIOUS
  <2>4. QED
    BY <2>1, <2>2, <2>3
<1>2. QED
  BY <1>1 DEF Ones

\* Zero is the first option of its list.
LEMMA ZeroIsFirst ==
  ASSUME NEW of \in Seq(SignedValues), of # <<>>, Head(of) = 0,
         \A m, n \in DOMAIN of : of[m] = of[n] => m = n
  PROVE  /\ (CHOOSE n \in DOMAIN of : Unsigned(of[n]) = 0) - 1 = 0
         /\ \E n \in DOMAIN of : Unsigned(of[n]) = 0
<1>1. 1 \in DOMAIN of /\ of[1] = 0
  OBVIOUS
<1>2. PICK h \in Nat \ {0} : h = Half /\ Whole = 2 * h /\ SignedValues = -h .. h - 1
  BY HalfAndWhole
<1>3. Unsigned(0) = 0
  BY <1>2, UnsignedIs
<1>4. ASSUME NEW n \in DOMAIN of, Unsigned(of[n]) = 0
      PROVE  n = 1
  <2>1. of[n] \in SignedValues /\ of[n] \in -h .. h - 1
    BY <1>2
  <2>2. PICK x \in Int : x = of[n] /\ -Whole <= x /\ x < Whole
    BY <1>2, <2>1
  <2>3. Unsigned(x) = IF x < 0 THEN x + Whole ELSE x
    BY <2>2, UnsignedIs
  <2>4. x = 0
    BY <1>2, <1>4, <2>1, <2>2, <2>3
  <2>5. QED
    BY <1>1, <2>2, <2>4
<1>5. PICK k : k = CHOOSE n \in DOMAIN of : Unsigned(of[n]) = 0
  OBVIOUS
<1>6. k \in DOMAIN of /\ Unsigned(of[k]) = 0
  BY <1>1, <1>3, <1>5
<1>7. k = 1
  BY <1>4, <1>6
<1>8. QED
  BY <1>5, <1>6, <1>7

\* The field of a default operand that is zero.
LEMMA ZeroField ==
  ASSUME NEW f, TransformOK(f), f.by.kind \in {"plain", "slice", "lookup"},
         f.by.kind = "lookup" => Head(f.by.of) = 0,
         NEW a, a[f.operand] = 0
  PROVE  FieldBits(f, a) = {}
<1>1. Transformed(f, a) = 0
  <2>1. CASE f.by.kind = "plain"
    BY <2>1, PlainIs
  <2>2. CASE f.by.kind = "slice"
    <3>1. PICK m \in Nat \ {0} : m = Power2[f.by.of]
      BY <2>2, PowerIs DEF TransformOK
    <3>2. 0 \div m = 0
      <4>1. 0 = m * 0 + 0 /\ 0 \in 0 .. m - 1
        OBVIOUS
      <4>2. QED
        BY <4>1, DivisionIs
    <3>3. QED
      BY <2>2, <3>1, <3>2, SliceIs
  <2>3. CASE f.by.kind = "lookup"
    <3>1. PICK of : of = f.by.of
      OBVIOUS
    <3>2. /\ of \in Seq(SignedValues) /\ of # <<>> /\ Head(of) = 0
          /\ \A m, n \in DOMAIN of : of[m] = of[n] => m = n
      BY <2>3, <3>1 DEF TransformOK
    <3>3. /\ (CHOOSE n \in DOMAIN of : Unsigned(of[n]) = 0) - 1 = 0
          /\ \E n \in DOMAIN of : Unsigned(of[n]) = 0
      BY <3>2, ZeroIsFirst
    <3>4. QED
      BY <2>3, <3>1, <3>3, LookupIs
  <2>4. QED
    BY <2>1, <2>2, <2>3
<1>2. QED
  BY <1>1, ZeroHasNoBits DEF FieldBits, Shifted

\* Any other field encodes the same without the last operand.
LEMMA SameTransform ==
  ASSUME NEW f, f.by.kind # "sum", NEW a, NEW b, a[f.operand] = b[f.operand]
  PROVE  Transformed(f, a) = Transformed(f, b)
BY DEF Transformed

LEMMA DefaultIsLeftOut ==
  ASSUME WholeInv
  PROVE  DefaultOperandIsZero
<1>1. SUFFICES ASSUME Compiled, HasDefault(Form), DefaultIsZero(Form),
                      \A f \in DefaultFields(Form) : f.by.kind \in {"plain", "slice", "lookup"},
                      \A f \in Range(fields) : f.by.kind # "sum",
                      NEW args \in Accepted(Form), args[Len(args)] = 0
               PROVE  Emit(ShortForm(Form), Front(args)) = Emit(Form, args)
  BY DEF DefaultOperandIsZero
<1>2. Form.operands = operands /\ Form.fields = fields /\ Form.word = word
  BY DEF Form
<1>3. PICK N \in Nat : N = Len(operands) /\ DOMAIN operands = 1 .. N /\ N # 0
  <2>1. IsSequence(operands) /\ operands # <<>>
    BY <1>1, <1>2 DEF HasDefault, WholeInv, RuleInv, FormInv, OperandsOK
  <2>2. QED
    BY <2>1, SequenceFacts DEF IsSequence
<1>4. args \in [1 .. N -> Values]
  BY <1>2, <1>3 DEF Accepted, Arguments
<1>5. args \in Seq(Values) /\ Len(args) = N
  BY <1>4, FunctionIsSequence
<1>6. ASSUME NEW n \in 1 .. N - 1
      PROVE  Front(args)[n] = args[n]
  <2>1. Front(args) = SubSeq(args, 1, N - 1)
    BY <1>5 DEF Front
  <2>2. \A i \in 1 .. N - 1 : args[i] \in Values
    BY <1>4
  <2>3. SubSeq(args, 1, N - 1)[n] = args[1 + n - 1]
    <3>1. n \in 1 .. (N - 1) - 1 + 1 /\ N - 1 \in Int
      OBVIOUS
    <3>2. QED
      BY <2>2, <3>1, SubSeqProperties
  <2>4. 1 + n - 1 = n
    OBVIOUS
  <2>5. QED
    BY <2>1, <2>3, <2>4
<1> DEFINE Kept == {n \in DOMAIN fields : fields[n].operand # N}
<1>7. ShortForm(Form).word = word /\ ShortForm(Form).fields = Restrict(fields, Kept)
  BY <1>2, <1>3 DEF ShortForm, Form
<1>8. Range(Restrict(fields, Kept)) = {fields[n] : n \in Kept}
  BY DEF Range, Restrict
<1>9. ASSUME NEW n \in DOMAIN fields
      PROVE  /\ n \in Kept => FieldBits(fields[n], Front(args)) = FieldBits(fields[n], args)
             /\ n \notin Kept => FieldBits(fields[n], args) = {}
  <2>1. PICK f : f = fields[n] /\ f \in Range(fields)
    BY DEF Range
  <2>2. f.operand \in 1 .. N
    BY <1>3, <2>1 DEF WholeInv, RuleInv, FormInv, FieldsOK, Placed, Asked
  <2>3. CASE f.operand # N
    <3>1. Front(args)[f.operand] = args[f.operand]
      BY <1>6, <2>2, <2>3
    <3>2. Transformed(f, Front(args)) = Transformed(f, args)
      BY <1>1, <2>1, <3>1, SameTransform
    <3>3. QED
      BY <2>1, <2>3, <3>2 DEF FieldBits
  <2>4. CASE f.operand = N
    <3>1. f \in DefaultFields(Form)
      BY <1>2, <1>3, <2>1, <2>4 DEF DefaultFields
    <3>2. f.by.kind \in {"plain", "slice", "lookup"} /\ (f.by.kind = "lookup" => Head(f.by.of) = 0)
      BY <1>1, <3>1 DEF DefaultIsZero
    <3>3. TransformOK(f)
      BY <2>1 DEF WholeInv, TransformsOK
    <3>4. args[f.operand] = 0
      BY <1>1, <1>5, <2>4
    <3>5. FieldBits(f, args) = {}
      BY <3>2, <3>3, <3>4, ZeroField
    <3>6. QED
      BY <2>1, <2>4, <3>5
  <2>5. QED
    BY <2>3, <2>4
<1>10. Emit(Form, args) = word \cup UNION {FieldBits(f, args) : f \in Range(fields)}
  BY <1>2 DEF Emit, FieldBits
<1>11. Emit(ShortForm(Form), Front(args)) = word \cup UNION {FieldBits(f, Front(args)) : f \in {fields[n] : n \in Kept}}
  BY <1>7, <1>8 DEF Emit, FieldBits
<1>12. UNION {FieldBits(f, args) : f \in Range(fields)} = UNION {FieldBits(f, Front(args)) : f \in {fields[n] : n \in Kept}}
  BY <1>9 DEF Range
<1>13. QED
  BY <1>10, <1>11, <1>12

\* A rule that leaves no operand out and encodes each whole gives a form whose
\* generated function emits a different word for each list of operands it
\* accepts, and emits without the operand that may be left out the word of zero
\* (compile_form, normalize and render).
THEOREM WholeRulesTell == WholeSpec => []WordsTellOperandsApart
<1>1. WholeInv => WordsTellOperandsApart
  BY EncodedUniquely, DefaultIsLeftOut DEF WordsTellOperandsApart
<1>2. QED
  BY <1>1, WholeInit, WholeKeeps, PTL DEF WholeSpec

-----------------------------------------------------------------------------
(***************************************************************************)
(* The stages together: the one that runs keeps its invariant, the others  *)
(* keep still.                                                             *)
(***************************************************************************)

ToolsInv ==
  /\ ToolsTypeOK /\ WalkInv
  /\ part \in {"compile", "encode"} => RuleInv
  /\ part = "encode" => WholeInv
  /\ part = "close" => ClosureInv
  /\ part = "convert" => BatchInv

LEMMA CompilerRestsTyped == CompilerRests => TypeOK
<1> SUFFICES ASSUME CompilerRests
             PROVE  TypeOK
  OBVIOUS
<1>1. encoding \in Encodings /\ operands \in Shapes
  BY StageAssumption DEF CompilerRests
<1>2. IsSequence(operands)
  BY <1>1, ShapeAssumption DEF IsSequence
<1>3. Len(operands) \in Nat
  BY <1>2, SequenceFacts
<1>4. QED
  BY <1>1, <1>3 DEF CompilerRests, TypeOK

LEMMA GrammarRestsTyped == GrammarRests => ClosureTypeOK
<1> SUFFICES ASSUME GrammarRests
             PROVE  ClosureTypeOK
  OBVIOUS
<1>1. roots \in Roots
  BY StageAssumption DEF GrammarRests
<1>2. roots \subseteq Rules \cup Undefined
  BY <1>1, RuleAssumption
<1>3. QED
  BY <1>2, EmptySeq DEF GrammarRests, ClosureTypeOK

LEMMA ConversionRestsTyped == ConversionRests => BatchTypeOK
BY BatchAssumption, EmptySeq DEF ConversionRests, BatchTypeOK

LEMMA ToolsStart == ToolsInit => ToolsInv
<1> SUFFICES ASSUME ToolsInit
             PROVE  ToolsInv
  OBVIOUS
<1>1. WalkInv
  BY WalkInitially DEF ToolsInit
<1>2. TypeOK /\ (part \in {"compile", "encode"} => RuleInv) /\ (part = "encode" => WholeInv)
  BY CompilerRestsTyped, RuleInit, RuleIsTyped, WholeInit DEF ToolsInit
<1>3. ClosureTypeOK /\ (part = "close" => ClosureInv)
  BY GrammarRestsTyped, InitOK DEF ToolsInit, ClosureInv
<1>4. BatchTypeOK /\ (part = "convert" => BatchInv)
  BY ConversionRestsTyped, BatchStarts DEF ToolsInit, BatchInv
<1>5. QED
  BY <1>1, <1>2, <1>3, <1>4 DEF ToolsInv, ToolsTypeOK, WalkInv

LEMMA ToolsKeep ==
  ASSUME ToolsInv, [ToolsNext]_allVars
  PROVE  ToolsInv'
<1>1. /\ part' = part
      /\ UNCHANGED walkVars \/ (part \in {"fields", "scope"} /\ [WalkNext]_walkVars)
      /\ UNCHANGED vars \/ (part \in {"compile", "encode"} /\ [Next]_vars)
      /\ part = "encode" => [WholeNext]_vars
      /\ UNCHANGED closureVars \/ (part = "close" /\ [ClosureNext]_closureVars)
      /\ UNCHANGED batchVars \/ (part = "convert" /\ [BatchNext]_batchVars)
  <2>1. CASE UNCHANGED allVars
    BY <2>1 DEF allVars
  <2>2. CASE ToolsNext
    <3>1. ASSUME (\E node \in FieldNodes \cup ConditionNodes : Enter(node)) \/ Leave \/ FinishWalk
          PROVE  WalkNext
      BY <3>1, FamilyAssumption DEF WalkNext
    <3>2. WholeNext => Next
      BY DEF WholeNext, Next, WholeCommands
    <3>3. QED
      BY <2>2, <3>1, <3>2 DEF ToolsNext
  <2>3. QED
    BY <2>1, <2>2
<1>2. WalkInv'
  BY <1>1, WalkKeeps DEF ToolsInv
<1>3. /\ TypeOK'
      /\ part' \in {"compile", "encode"} => RuleInv'
      /\ part' = "encode" => WholeInv'
  <2>1. CASE part \in {"compile", "encode"}
    <3>1. [Next]_vars
      BY <1>1
    <3>2. RuleInv'
      BY <2>1, <3>1, RuleNext DEF ToolsInv
    <3>3. TypeOK'
      BY <3>2, RuleIsTyped, PTL
    <3>4. part = "encode" => WholeInv'
      BY <1>1, WholeKeeps DEF ToolsInv
    <3>5. QED
      BY <1>1, <3>2, <3>3, <3>4
  <2>2. CASE part \notin {"compile", "encode"}
    <3>1. UNCHANGED vars
      BY <1>1, <2>2
    <3>2. TypeOK'
      BY <3>1 DEF ToolsInv, ToolsTypeOK, TypeOK, vars
    <3>3. QED
      BY <1>1, <2>2, <3>2
  <2>3. QED
    BY <2>1, <2>2
<1>4. ClosureTypeOK' /\ (part' = "close" => ClosureInv')
  <2>1. CASE part = "close"
    <3>1. ClosureInv'
      BY <1>1, <2>1, ClosureKeeps DEF ToolsInv
    <3>2. QED
      BY <3>1 DEF ClosureInv
  <2>2. CASE part # "close"
    <3>1. UNCHANGED closureVars
      BY <1>1, <2>2
    <3>2. ClosureTypeOK'
      BY <3>1 DEF ToolsInv, ToolsTypeOK, ClosureTypeOK, closureVars
    <3>3. QED
      BY <1>1, <2>2, <3>2
  <2>3. QED
    BY <2>1, <2>2
<1>5. BatchTypeOK' /\ (part' = "convert" => BatchInv')
  <2>1. CASE part = "convert"
    <3>1. BatchInv'
      BY <1>1, <2>1, BatchKeeps DEF ToolsInv
    <3>2. QED
      BY <3>1 DEF BatchInv
  <2>2. CASE part # "convert"
    <3>1. UNCHANGED batchVars
      BY <1>1, <2>2
    <3>2. BatchTypeOK'
      BY <3>1 DEF ToolsInv, ToolsTypeOK, BatchTypeOK, batchVars, Records
    <3>3. QED
      BY <1>1, <2>2, <3>2
  <2>3. QED
    BY <2>1, <2>2
<1>6. QED
  BY <1>2, <1>3, <1>4, <1>5 DEF ToolsInv, ToolsTypeOK, WalkInv

\* Whichever stage of tools/arm64 runs, and for how long, the variables of every
\* stage have their shapes: the word and the cursor of a rule, the stack of the
\* walk, the sets of the closure and of the batch (compile_form, walk, the
\* search of rule_closure and normalize).
THEOREM ToolsAreTyped == ToolsSpec => []ToolsTypeOK
<1>1. ToolsInit => ToolsInv
  BY ToolsStart
<1>2. ToolsInv /\ [ToolsNext]_allVars => ToolsInv'
  BY ToolsKeep
<1>3. ToolsInv => ToolsTypeOK
  BY DEF ToolsInv
<1>4. QED
  BY <1>1, <1>2, <1>3, PTL DEF ToolsSpec

\* If every operand goes into the word whole, two lists of operands that the
\* generated function accepts never give the same word, and an operand that may
\* be left out is one that is zero, whichever stage ran (compile_form and
\* render).
THEOREM EncodedWordsTell == ToolsSpec => []EncodedWordsTellOperandsApart
<1>1. ToolsInv => EncodedWordsTellOperandsApart
  BY EncodedUniquely, DefaultIsLeftOut
     DEF ToolsInv, EncodedWordsTellOperandsApart, WordsTellOperandsApart
<1>2. ToolsInit => ToolsInv
  BY ToolsStart
<1>3. ToolsInv /\ [ToolsNext]_allVars => ToolsInv'
  BY ToolsKeep
<1>4. QED
  BY <1>1, <1>2, <1>3, PTL DEF ToolsSpec

=============================================================================
