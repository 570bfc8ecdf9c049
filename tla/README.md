# A TLA+ verification project for XIRASM

XIRASM is a programmable assembler written in Zig. A source text mixes
instructions, labels, output calls (`emit`, `align`, `output.section`,
`virtual.begin`, ...) and compile-time code; the assembler turns it into a flat
file image. The repository also holds the Python programs around it: those that
turn Arm's machine-readable architecture into the A64 encoders
(`tools/arm64`), and the one that keeps the examples of the manual and the test
fixtures the same (`tools/doc_examples.py`). This directory holds TLA+ models of
the part of the assembler that decides *where every byte goes*, of the stack of
sources and calls it lowers, and of those programs; the TLC runs that check
them; and TLAPS proofs about both machines of the assembler, about whole
assemblies, and about those programs. Paths below are relative to the repository.

- [The system](#the-system)
- [What is hard in it](#what-is-hard-in-it)
- [Modules](#modules)
- [The stack of activations](#the-stack-of-activations)
- [The documentation tool](#the-documentation-tool)
- [The A64 tools](#the-a64-tools)
- [Runs](#runs)
- [Findings](#findings)
- [Proofs](#proofs)
- [What is not modelled](#what-is-not-modelled)
- [Plan](#plan)

## The system

`assembleFlat` (`src/assembly.zig:45-104`) is a pipeline on one `Module`:

    source text --lexer, parser--> statements
    statements  --lower/root.zig, lower/api.zig--> Module   (encodes on demand)
    encode what is left        (frontend/pass.zig)
    late_layout blocks         (frontend/lower/late_layout.zig)
    resolve fixups             (frontend/pass.zig)
    lay out and write          (frontend/layout.zig, frontend/output/writer.zig)
    patch the image            (src/assembly.zig)
    defer finalizers           (frontend/lower/deferred.zig)
    deliver the file           (src/main.zig)

Everything runs on one thread. The components, what they keep, what they do and
what makes them correct:

| component (under `src/`) | state | operations | correct when |
|---|---|---|---|
| Fragment layout: `lower/layout_cursor.zig`, `layout.zig` | none; a cursor (offset, file offset) | next cursor of a fragment; layout of a section | both implementations agree |
| Module stores: `module.zig`, `section.zig`, `fragment.zig`, `symbol.zig`, `fixup.zig` | sections (fragment ids, origin, file offset, `closed`, cursor memo), fragments, labels with anchors, fixups, the encoding watermark | append, define, store, load, promote, record | ids stay valid, sizes below the watermark are final, a memo is never stale |
| Output API: `lower/root.zig`, `lower/api.zig`, `data_emission.zig`, `isa_lowering.zig`, `expression_materialization.zig`, `output_target.zig` | `ActiveOutput` (a *copy* of a cursor), `output_stack` | one handler per call | no call acts on a stale cursor, a closed region stays closed |
| Source loading: `lower/source_loading.zig` | stack of sources being lowered, set of finished imports | include, import, embed | the including source continues where it stopped; no cycle |
| Encoding and fixups: `pass.zig` | watermark, fixup store, label offsets | encode from an index, synchronise labels, record and resolve fixups | each reference recorded once; labels at their final address |
| Late layout: `lower/late_layout.zig` | captured blocks, one cursor for all of them | a restricted set of calls after encoding | labels and fixups still right afterwards |
| Writer and patching: `output/writer.zig`, `assembly.zig` | the image | materialise regions, patch fields | every fragment at its place, every reference reaches its label |
| Finalizers: `lower/deferred.zig`, `output/image.zig` | image and captured environments | statements on the finished image | see patched bytes, run in order |
| Expressions, values, types, `expr.zig`, `value.zig`, `types.zig`, ... | values of constants and variables | evaluate, convert, pack | sequential data algorithms |
| Macros and functions: `macro.zig`, `meta_function.zig`, ... | the stack of calls, scopes, budgets, depths, the loop flag | expand, call, break, continue, return | depths, flag and budgets hold on every way out |
| Documentation tool: `tools/doc_examples.py` | documents, fixture files, manifest, generated module | extract, check, list | a check that passes vouches for what the build assembles |
| A64 inventory: `tools/arm64/source.py`, `inventory.py` | the tree of encodings, its records, three files | walk, classify, close the grammar, export | a record says what its tree says; a killed export does no harm |
| A64 normalizer: `tools/arm64/normalize_a64.py`, `normalize_a64_e5.py` | a word and its fields; the accounting of a batch | compile a rule, convert a batch | operands never reach fixed bits; no record is lost |
| A64 generators: `tools/arm64/generate_a64.py`, `generate_a64_e5.py` | the forms of a mnemonic; generated files | validate, select, render, check | one word per operand list; files that pass a check agree |
| Lexer and parser, compile-time library, listing, configuration, command line | mostly none | text in, text out | outside the state the models need |

The components interact through the `Module` (shared, mutated by every stage)
and through the `ActiveOutput`, which is passed by pointer to the handlers of
one source, copied by `virtual.begin`, and created afresh for each included
source and for the late-layout phase. Expression evaluation calls back into
lowering: a value that reads `here()` synchronises the cursor first.

## What is hard in it

An instruction has size 0 until it is encoded, and it is encoded only when
something needs its size. Until then every copy of a cursor behind it is wrong.
Which statements repair which copy, in which order, is spread over some thirty
handlers; the memo that keeps this linear (`section.zig:38-45`) is never
invalidated. The statements of a source are therefore an interleaving problem
although nothing is concurrent: the models let TLC choose the order. Beyond
that, a file is laid out twice by different code (incrementally and at the end),
labels move after they were defined, `region.place` moves a whole region after
its fixups were recorded, and a store can turn an instruction into data between
encoding and patching. `PROJECT.json` lists these hazards at their lines, each
with the properties aimed at it.

The stack of activations is hard for another reason: `break`, `continue` and
`return` are Zig errors that pass through every handler between the statement
and what catches it, and each handler restores its part of the context by a
`defer`. The Python programs are run by hand, in any order, on files that are
checked in, and are killed or fail between two of their writes; and what one of
them computes (an operand class, a range, a transform) another computes again.

## Modules

| module | what it is |
|---|---|
| `Layout` | both implementations of fragment layout, as operators |
| `Lowering` | the lowering machine: one action per output API call, plus include and both ends of a source |
| `EagerOutput` | abstract: an assembler that knows each size at once; no watermark, memo or copy |
| `LoweringRefinement` | `Lowering` implements `EagerOutput` under a refinement mapping |
| `Assembly` | composes `Lowering` with encoding, late layout, resolution, writer, patching and delivery |
| `Activations` | the stack of sources, blocks, loops and calls that is lowered |
| `DocText` | what `doc_examples.py` reads in a document, as operators |
| `DocWriting` | a document while it is written: what is a fixture after each line |
| `DocExamples` | extract, check and kills on the fixture files, manifest and module |
| `DocTool` | composes `DocExamples` and `DocWriting` |
| `Encodeset` | `merge_encoding` and `summarize_encoding`, as operators |
| `Inventory` | the walk over the tree of encodings, with conditions and aliases |
| `RuleClosure` | the depth-first closure of the assembly grammar |
| `FormWords` | what a generated function does: selector, transforms, word; `validate` of both generators |
| `FormCompiler` | `compile_form`: one translation rule, command by command |
| `Conversion` | `normalize`: a batch of rows against the rule tables, and what the generators accept |
| `FormSelection` | the forms of one mnemonic in a generated function |
| `Generation` | the files the A64 programs exchange, with kills and new packages |
| `Arm64Tools` | composes the stages of the A64 programs |
| `MCLowering`, `MCAssembly`, `MCActivations`, `MCDocTool`, `MCArm64Tools` | values of the constants for TLC |
| `Recursion_proofs`, `Module_proofs` | lemmas about recursive functions and sequences; about cursors, walks, offsets and the functions on modules |
| `Lowering_proofs`, `Assembly_proofs`, `Activations_proofs` | theorems about `Lowering`, `Assembly` and `Activations` |
| `Refinement_proofs` | `Lowering` implements `EagerOutput`, step by step |
| `Arm64_proofs`, `DocExamples_proofs` | theorems about the A64 stages one by one and about `Arm64Tools`; about `DocExamples`, `DocWriting` and `DocTool` |

Of the assembler's pipeline:

**State and code.** `module` is the `Module` record: `section` and `fragment`
are its stores, `label` the anchored labels of the symbol store, `fixup` the
fixup store as a bag (so that recording a fixup twice is visible), `watermark`
is `encoded_fragment_watermark`. Section field `frags` is the fragment id list,
`folded` and `memo` are the cursor memo. `active` is the `ActiveOutput` of the
running source, `stack` its `output_stack`, `callers` the actives of the sources
suspended in an include (Zig stack frames in the code). `phase` is the stage.

**Actions and code.** Each call of `lowerApiCall` is one action; what the handler
does before and after its append (`syncActiveOutput`, encoding, label
synchronisation, folding the memo) is part of the action, as functions on modules
named after the code (`ForOutputAccess`, `EncodeFrom`, `SyncAnchoredLabels`,
`FoldMemo`). A handler's early error returns are the `Refused...` disjuncts of
`Refuse`, which ends in phase `failed`. The environment is the source text: any
sequence of the calls in `Ops`, and `LateOps` for the late-layout blocks. Loops,
branches and macros choose which calls come next, and so are that nondeterminism,
with one exception: a `break` or `continue` in an included source whose loop is in
the including one ends the source without what else its end does. That is the action
`BreakIncluded`: the caller's cursor comes back as it was at the include, and an
open virtual output of the source is forgotten.

**Abstractions.** An instruction text is a constant; `Encoding` and
`References` stand for the encoder backends, which are vendored code. They
assume of them a nonempty encoding and reference fields inside it. Reference
fields are one byte wide, so a displacement out of range occurs in small
instances. Numbers are naturals; overflow of the 64-bit counters is not modelled.

`Bounds`: `MaxFragments` and `MaxSections` limit the stores (guards
`RoomForFragment` and `RoomForSection`) and exist only for TLC; the proofs hold
for every value. `MaxIncludes` is `max_include_depth` of the code.

## The stack of activations

`Activations` models `lower/root.zig`, `source_loading.zig`, `macro.zig`,
`meta_control_flow.zig` and `meta_function_runtime.zig` as far as they decide
*where a statement is*. `frames` is the Zig call stack: one frame per source,
block, loop, macro, procedure and value function. What the handlers keep in
`LowerContext` is beside it: `in_meta_loop` (`inLoop`), the two depths, the
expansion count, `imported_sources`. A frame holds the loop flag it replaced.
Every way out of frames is one operator, `Unwind`: the `defer`s of all frames
above the one that catches. `Break`, `Continue` and `Return` find their target
as the code does (the flag, `value_function_depth`), `Fail` is every other error
and unwinds everything. The statements are chosen freely, so a loop runs any
number of times and any branch is taken; which source an `include` names is
free too.

`DepthsAreExact` relates the two counters and the cycle check to the frames,
`LoopFlagIsExact` says where `break` is accepted, `ImportsEvaluateOnce` and
`ImportsEndWhole` say that import-once holds by whatever chain a source is
reached and that an imported source is never left halfway with the assembly
going on. Four sources, three deep, with two nested calls and six frames, hold
a loop in an include in a loop and a call between them; the sources other than
the root are interchangeable (symmetry).

## The documentation tool

`DocText` reads a document as `parse_fences` and `expected_for` do: a line is a
fence with its info tokens or a plain line of one of five forms. A fixture's text is
a model value, so its hash is itself. `DocExamples` keeps `docs`, `files`,
`manifest`, `zig` and the running `job`, whose steps are the program's writes:
`CollectDocument`, one `WriteFixture` per file, `WriteManifest`, `WriteModule`.
`Interrupt` kills it before or within a write, which leaves `Cut` in a fixture or
the module. A manifest is cut anywhere (`CutManifests`): `load_manifest` counts nine
cells per row, so it refuses most of what is left, but a row cut inside its ninth
cell loads with a hash of no fixture (`HalfRow`). `EditDocument` and `RemoveFixture`
are people. A check is one step, because it writes nothing. `DocWriting` adds lines
to a document and asks what each document on the way defines.

`CheckedFixturesAreTheManual` is what `zig build test` relies on;
`ListedFixturesExist` is about every state, the interrupted ones too;
`ExtractRepairs` says that an extract of all documents that reports success is
followed by a check that passes, whatever was left behind. A behaviour of
`DocTool` is one of `DocExamples` or one of `DocWriting`: they share operators
and no state, so the run explores their sum. Two documents share an id with
different texts; three events (edits, removals, kills, commands) are enough for
an edit, an interrupted extract and a repair. Five lines of nine kinds after three
beginnings hold an example, its output block and one line between them, with
`LOOKAHEAD_LINES` set to 1.

## The A64 tools

The programs hand files to each other, so each stage has a module of its own:

- `Inventory` is `walk`: `stack` is its recursion, one `Enter` per node, with
  `Encodeset` for the fields and three-valued conditions (`Possible`). Nodes are
  chosen freely from a set; an `Enter` is guarded by what the program raises on.
  The walk starts from the frame of `Root`, which has fields, a condition and an
  operation as any node has. A condition with an operator the program does not
  know stays open, and the features its parts name count all the same.
- `RuleClosure` is `visit` with its recursion as a stack (`visiting`).
- `FormCompiler` is `compile_form`: a word of bit positions, their owners, the
  fields and the cursor into the operands, one action per group of commands.
  `Finish` makes the form; `FormWords` says what the generated function does with it,
  as either generator writes it (`Answer`, `AnswerE5`).
- `Conversion` is the loop over the XML rows. What a rule table answers is an
  input, so every mixture of tables is tried.
- `FormSelection` is `render` for one mnemonic: signatures, the stable sort, the
  alternatives behind one selector.
- `Generation` has `rules`, `output` and the inventory files as contents, each
  the version it was made from; one program runs at a time, and its writes are
  steps: `Open` truncates and `Write` fills; an export does the same in its staging
  directory (`StageOpen`, `StageWrite`) and moves what it staged (`Replace`). It may
  be killed or fail between any two of them. `Clutter` is a file of the developer's in
  the inventory directory, which makes an export refuse to start. A version stands
  for a package with the XML that belongs to it.

`Arm64Tools` composes them: `part` says which stage runs, and the others rest
in a state they could be in. The stages share no variable in the model as they
share no memory in the code, so TLC explores the sum of their state spaces, and
each invariant, false-safe on resting stages, is asked of the states of its own.
`Inventory` runs twice, once over nodes that differ in fields and once over nodes
that differ in conditions, and `FormCompiler` twice: with all commands (`Spec`),
and with rules that encode every operand whole (`WholeSpec`, part `encode`), since
only then can a word be expected to tell its operands apart. Such a rule leaves no
operand out, encodes none by slices of its own, and relates no operand to the one
before it (`RNext`, `Usum`) where there is none: the code would then read
`flat[-1]`, the last operand.

**Bounds.** Words of four bits (inventory) and six bits (forms), values of four: a
field can be at the edge of the word, overlap another, straddle zero. Four commands
place two fields, a static field and a check in any order; shapes have up to two
operands, with a literal, a default, a modifier. Trees of five nodes hold
instruction set, group, instruction, instruction and alias. Three rows of two
records hold a record of which one row fails. Four forms hold an overlap, its
preferred form, a conflict and a form of another shape. Eight commands hold a pin,
the conversions of all batches and two generators with a kill between them.

**Properties.** Most say what a stage hands on, and their comments suffice. Two need
a word more. `GeneratorsAgree`: the two generators write the same function in
different styles. `generate_a64.py` tests an option list in the selector; the other
writes no such condition (`generate_a64_e5.py:117-135`) and leaves it to the
assertion of the lookup that encodes the operand. The property compares what both
make of one form for every operand, listed or not: the same word, or no word. It is
about a form alone; with several forms behind one selector an operand not in the
list goes on to the next alternative in the functions of the first and stops the
assembly in those of the second. `ArtifactsAreWhole` is why the export stages:
whatever was killed, failed or pinned, no file of the inventory is half written, and
once the first one is replaced all the others of its package lie whole beside it.
Between two moves the files may still be of two packages, which is what `check` is
for.

## Runs

| run | question | result |
|---|---|---|
| `Lowering` | do statements in any order keep memos, saved cursors, watermark and closed flags right, and does the incremental cursor equal the final layout? | holds |
| `Refinement` | can late encoding, memoising and copying be told from an assembler that knows every size at once? | no: `EagerOutput` is implemented |
| `RefinementSources` | the same across `include` and `region.place` | holds |
| `Assembly` | whole assemblies of one region with late blocks: fixups recorded once, labels final, references reach their labels, fragments reach the file, every assembly ends | holds |
| `AssemblyRegions` | several regions, virtual output, a late `region.place`: labels, references, disjoint file ranges | holds |
| `Activations` | do depths, loop flag and import-once stay exact on every way out of loops, calls and sources? | holds |
| `DocTool` | does a check that passes vouch for the fixtures, does an extract repair what an interrupted one left, and is each example checked against what its document says? | holds |
| `Arm64Tools` | is what each A64 stage hands on right: records, rules, forms, words, functions, batches, files? | holds |
| `Conditions`, `Labels`, `ClosedRegion`, `FrozenStore` | statements of docs and comments the code does not keep | violated, see below |

**Properties of the pipeline.** `MemoIsFullWalk`: each memo equals a walk from scratch.
`CursorIsLaidOut`: the cursor, once synchronised, equals the size and the file
size of the final layout, for every mixture of reserves, alignments, data and
instructions. `SavedCursorsAreCurrent`: what `virtual.begin` saved is still the
region's cursor later. `FinalSizesNeverChange`, `ClosedRegionStaysClosed`:
action properties. `FixupsMatchInstructions`: every reference of every encoded
instruction once, none twice. `LabelsMatchLayout`: from the encode stage on,
label offsets are those of the final layout. `ReferencesReachTheirLabels`
decodes the patched field the way a processor does. `FragmentsReachTheFile`
reads the image back. `ChainedRegionsAreDisjoint`: files built only from
`output.org` and `output.section` never overlap. `EveryAssemblyEnds`: liveness.

**Bounds of the pipeline and why they are enough.** Three fragments give every ordered pair of
fragments with something encoded, stored or appended between them, and a walk
that starts from a prefix that is neither empty nor everything. Sizes are chosen
so that an alignment is sometimes met and sometimes not, so that a reserve can be
trailing or followed by bytes, and so that padding is sometimes empty. Two
sections are a region and the next one (or its scratch output), three add a
third region that depends on two file offsets; two nested sources are an
including and an included one. `Assembly` has a relative and an absolute
reference, and its origin 100 with one-byte fields lets addresses be in range;
out-of-range displacements occur in `AssemblyRegions` (origins 100 and 200
relative to 0), where they end in phase `failed`.

**Fairness.** `AssemblySpec` assumes weak fairness of `Pipeline \/ Conclude`: a
statement list is finite, so a source ends or is refused, and the driver calls
the next stage without waiting for anything. No fairness is assumed of a
particular statement. `EveryAssemblyEnds` fails without an answer to pending
fixups (its mutant). The run has no includes.

**Deadlock** is checked in the runs of the pipeline, where a finished assembly
stutters explicitly (`Finished`, `Ended`). It is not checked in `Activations`,
`DocTool` and `Arm64Tools`, where a behaviour ends: the assembly is over, the
tree is walked, the bound on commands is reached.

## Findings

Four statements of documentation or comments which the code does not keep, each
with a run that finds the counterexample (quotes and lines in `PROJECT.json`):

1. `Conditions`: `if`, `while` and `assert` evaluate `here()` on a cursor that
   was not synchronised; a value expression at the same place sees another address.
2. `Labels`: a label is stored with the unsynchronised cursor, so `label_addr`
   can answer an address in front of the preceding instruction until labels are
   next synchronised. The final image is right (`LabelsMatchLayout`).
3. `ClosedRegion`: an included source starts with an open cursor on the default
   section and appends to it even after `region.file_align` closed it.
4. `FrozenStore`: a byte stored over a reference field is overwritten when the
   instruction's fixup, which stays in the store, is patched.

Seen while reading, without a run: an included source emits into the default
section rather than into the region of its includer; a SPIR-V module is
re-encoded as a whole into its first fragment, which may already be folded into
a memo; a store into a SPIR-V module freezes that first fragment. Also:

- A `break` in an included source whose loop is in the including one leaves the
  source past its check for open virtual outputs (`root.zig:164`), although
  `language.md:3890` wants every `virtual.begin` matched, and past the refresh of
  the includer's cursor (`source_loading.zig:108-110`). The second does no harm,
  as `RefinementSources` shows with `BreakIncluded`: whatever reads a cursor
  synchronises it first.
- Whether `return` is allowed is decided by `value_function_depth` alone
  (`root.zig:330`): in a procedure called from a value function it ends the value
  function, although `language.md:1093` says a procedure cannot return a value.
- `doc_examples.py check` walks the rows of the manifest, so an example added to
  a document is not noticed. An output block `error:` without a diagnostic is
  read as `ok`: the branch that would refuse it (`doc_examples.py:259`) cannot be
  reached. A tab in a diagnostic splits its row of the manifest, which then cannot
  be loaded; `DocTool` has no such diagnostic (`Splits` says what happens). Two
  examples whose paths differ only in where `negative` stands share a fixture file.
- `validate_e5` does not compare `source_lock` with the pinned package
  (`generate_a64_e5.py:34`), as `validate` does: after a new package is pinned and
  the main batches are converted again, both checks pass with E5 forms of the old
  one. `ChecksCanBeTrusted` therefore speaks of the pin for the main batches only.

## Proofs

Eight modules of proofs, for every value of the constants that satisfies the
assumptions named. `Recursion_proofs` and `Module_proofs` hold lemmas only.

| module | theorem | states | assumes |
|---|---|---|---|
| `Lowering_proofs` | `Typing` | `Spec => []TypeOK`: types, and every id refers to something that exists | those of `Lowering` |
| | `MemoCorrect` | `Spec => []MemoIsFullWalk` | the same |
| | `CursorsLaidOut` | `Spec => []CursorIsLaidOut` | the same |
| | `FixupsMatch` | `Spec => []FixupsMatchInstructions` | the same |
| | `SizesFinal` | `Spec => FinalSizesNeverChange` | the same |
| | `SavedCursors` | `Spec => []SavedCursorsAreCurrent` | and no `region.place` among the calls |
| | `ClosedStays` | `Spec => ClosedRegionStaysClosed` | and neither `include` nor `region.place` |
| `Refinement_proofs` | `Implements` | `Spec => ImplementsEagerOutput` | and `OneFlagPerRegion` |
| `Assembly_proofs` | `LabelsMatch` | `AssemblySpec => []LabelsMatchLayout` | those of `Lowering` |
| | `FragmentsReach` | `AssemblySpec => []FragmentsReachTheFile` | the same |
| | `ReferencesReach` | `AssemblySpec => []ReferencesReachTheirLabels` | the same |
| | `AssemblyFixupsMatch` | `AssemblySpec => []FixupsMatchInstructions` | the same |
| | `ChainedRegions` | `AssemblySpec => []ChainedRegionsAreDisjoint` | and `ChainsOnly` |
| `Activations_proofs` | `Typed` | `Spec => []TypeOK` | those of `Activations` |
| | `Exact` | `Spec => []DepthsAreExact` | the same |
| | `FlagExact` | `Spec => []LoopFlagIsExact` | the same |
| | `EvaluatedOnce` | `Spec => []ImportsEvaluateOnce` | the same |
| | `EndedWhole` | `Spec => ImportsEndWhole` | the same |
| `Arm64_proofs` | `WholeArtifacts` | `GenerationSpec => []ArtifactsAreWhole` | `InventoryAssumption` |
| | `ChecksAreTrusted` | `GenerationSpec => []ChecksCanBeTrusted` | the same |
| | `ClosureExact` | `ClosureSpec => []ClosureIsExact` | `RuleAssumption` |
| | `BatchesComplete` | `BatchSpec => []BatchesAreComplete` | `BatchAssumption` |
| | `EncodingsInherited` | `WalkSpec => []EncodingsAreInherited` | `NodeAssumption`, `ConditionAssumption`, `RootAssumption` |
| | `ScopeClosed` | `WalkSpec => []ScopeIsClosed` | the same |
| | `FormsFit` | `Spec => []CompiledFormsFit` of `FormCompiler` | `WidthAssumption`, `MaskAssumption`, `ShapeAssumption`, `CommandAssumption` |
| | `SelectorsAccept` | `Spec => []SelectorsAcceptTheRange` of `FormCompiler` | all of `FormWords` and `FormCompiler` |
| | `GeneratorsAnswerAlike` | `Spec => []GeneratorsAgree` of `FormCompiler` | the same |
| | `WholeRulesTell` | `WholeSpec => []WordsTellOperandsApart` of `FormCompiler` | the same |
| | `FunctionCorrect` | `SelectionSpec => []FunctionIsTheMnemonic` | `SelectionAssumption` |
| | `EncodedWordsTell` | `ToolsSpec => []EncodedWordsTellOperandsApart` | all of `Arm64Tools` |
| | `ToolsAreTyped` | `ToolsSpec => []ToolsTypeOK` | the same |
| `DocExamples_proofs` | `ListedFixtures` | `Spec => []ListedFixturesExist` | those of `DocExamples` |
| | `CheckedAreTheManual` | `Spec => []CheckedFixturesAreTheManual` | the same |
| | `OthersKeepTheirRows` | `Spec => OtherDocumentsKeepTheirRows` | the same |
| | `ExtractsRepair` | `Spec => []ExtractRepairs` | and `RowsReadBack`, `DocumentsHaveTheirOwnFiles` |
| | `ExpectationsAreTheDocuments` | `WritingSpec => []ExpectationsFollowTheDocument` | `LinesAssumption`, `LookaheadAssumption` |
| | `LaterTextKeepsEarlierFixtures` | `WritingSpec => LaterTextKeepsFixtures` | the same |
| | `ToolIsTyped` | `ToolSpec => []ToolTypeOK` | all of `DocTool` |

**Assumptions.** Those of `Lowering` are `EncodingAssumption` (an instruction has at
least one byte), `ReferencesAssumption` (a reference names a label, lies inside its
instruction, and no two references lie on one field: each is a displacement or an
immediate with its own bytes) and `ParameterAssumption` (numbers are naturals).
Those of `Activations` are its `RootAssumption`, `LimitsAssumption` and
`NoneAssumption`; `InventoryAssumption` says that the export has a list of distinct
file names and that the marks for no file and half a file are no packages,
`RuleAssumption` that a name is not both defined and undefined, `BatchAssumption`
that there are records and that `memory_rule` never answers "forget this row".
`NodeAssumption` gives a field as many values and preferences as it lists, and
`ConditionAssumption` says that a condition is a finite tree, as anything read from
JSON is: each part lies at a smaller `Depth`. `RootAssumption` of `Inventory` says
that the root passes the checks of the walk; one that fails them ends the program
before there is a record.

Of a form, `MaskAssumption` says that the bits that are one lie in their masks,
`ShapeAssumption` that it has no more operands and `CommandAssumption` that its
fields are no wider than the generators take; `compile_form` checks neither, the
generators do when they read the form. `ShapeAssumption` also says that operands
come as `operand_shapes` makes them, with a lower bound at most the upper one.
The numbers are signed values that fit a generated function: the bounds of a
matcher and of a command, the shifted range of a scaled field, the distinct options
of a list (`ShapeAssumption`, `ValueAssumption`); `WidthAssumption` has no field
wider than a value (26 bits of 64) and `NoneAssumption` keeps the absence of a bound
apart from bounds. `SelectionAssumption` is what makes a key of the operand classes
one list of them: at most 64 kinds, no two alike (there are 56), and operands as
`validate` lets them through. `Arm64Tools` adds that the two families of nodes are
nodes (`FamilyAssumption`) and that there is something to compile and to search
(`StageAssumption`).

Those of `DocExamples` (`DocumentsAssumption`, `LookaheadAssumption`) say that
documents are finitely many finite lists of lines, that an example's text is neither
a missing file nor half of one, and that half of a cell has no tab.
`LinesAssumption` of `DocWriting` says that an info string is a list of words and a
list of expected bytes a list of digits, and that no language is both an example's
and an output block's. TLC evaluates all of them in the runs.

Five theorems speak of part of the inputs, because the property needs it:

- `ClosedStays`: with `include` it is false (finding 3); with `region.place` a
  nested scratch region can be placed while its saved cursor is on the stack.
- `SavedCursors`: the same detour through `region.place` appends to a region
  whose cursor is saved. The run `Lowering` does not have the call either.
- `Implements`: `OneFlagPerRegion` excludes sources that close a region and also
  use `include` or `region.place`. Lowering keeps a closed flag per copy of a
  cursor, the abstraction one per region; these calls are what puts two copies
  on one region. The two runs of the refinement have one of the two vocabularies
  each, and `OneFlagPerRegion` is exactly that they are not mixed.
- `ChainedRegions`: `ChainsOnly` excludes the calls that choose a file offset
  themselves or return to an earlier region, and late blocks that append to the
  file. The run `AssemblyRegions` has a late `region.place`, to an offset behind
  everything; what it adds to the theorem is this case.
- `ExtractsRepair`: a diagnostic with a tab makes a manifest that cannot be read
  back (`RowsReadBack`), and a negative example of `document/a.md` has the
  fixture file of the positive example of `document/a/negative.md` with the same
  id, so that extracting the one overwrites the other
  (`DocumentsHaveTheirOwnFiles`). `MCDocTool` assumes both, so TLC evaluates them
  for the documents of the run.

**Modules and memos.** None of the invariants is inductive. That a memo is right
after an append needs that the ids of a section increase and that everything
folded lies below the watermark, because only what lies above it can still be
encoded and so change size. `ModuleOK` says this (`WellFormed`, `MemoOK`), and
`StoresOK` adds what fixups and labels need: a fragment is listed once, by its
own section (`HomesOK`); every instruction below the watermark has its bytes
(`Settled`); the fixup store holds exactly the references of the instructions
that have bytes, or had them when a store froze them (`FixupsOK`).

`ModuleOK` is kept by every step for one reason: each function on modules leads
from `m` to a module that is `Later` than `m` (it is `ModuleOK`, fragments of
known size keep their shape and section, lists only grow, and a label whose
address is final keeps it), and `Later` is transitive. So the lemmas of
`Module_proofs` are about functions (`AddFragmentLater`, `EncodeFromLater`,
`FoldMemoLater`, `StoreByteLater`, ...), and an action that composes three of
them takes three lines. A step then has one of six forms (`Looks`, `Appends`,
`Enters`, `Closes`, `Leaves`, `Moves`; lemma `StepForm`), and every invariant of
`Lowering_proofs` is shown to be kept by forms instead of actions. Two need
more than `IInv`: `ClosedStays` (the flag of each cursor is that of its section)
and `SavedCursors` (a saved cursor stands at the end of its region, all of which
has its size) both rest on `Apart`, that no two cursors stand on one section.

`CursorsLaidOut` is where two algorithms meet: the cursor adds up fragment by
fragment from a memo, `Offsets` and `FileSize` look at the whole region.
`WalkEndsAtSize` proves by induction over the fragments that both agree, for
every mixture of reserves, alignments and bytes. `Recursion_proofs` and the
beginning of `Module_proofs` have what this rests on: `Walk` and `Offsets` are recursive functions, so that they are defined
at all is proved (`RecursionExists`), that continuing a walk is the whole walk
(`WalkContinues`) and that a walk depends only on the shapes of its prefix
(`WalkOfPrefix`).

**Refinement.** The mapping measures a region by the sizes its fragments will
have. A step leaves every region alike (`SameRegions`: encoding, folding,
storing), or grows the current one by a fragment (`AppendGrows`), or adds, moves
or closes one. `CursorIsRegionSize` is the heart: the cursor the code reads after
synchronising equals the two sizes of the abstract region, so the target of
`pad_to`, the padding of `align`, the address of `virtual.begin` and the file
offset of `output.org` are what `EagerOutput` computes. `RefinementInv` is `IInv`
with one of two facts about closed flags, depending on the vocabulary.

**Assembly.** The late blocks run the calls of the lowering machine, so `IInv`
is kept by the same lemmas. `AInv` adds `AllKnown` (past the encode stage, every
fragment before a label has its size and the label its address; late blocks
define no label, and `Later` keeps known ones) and `StagesOK` (what resolution,
writer and patching leave is a function of the module, which nobody changes
behind the late blocks). `FragmentsReach` then is about `Offsets`: a position of
the file lies in at most one fragment of one region (`HoldsOnce`). For
`ReferencesReach` a field must be patched by one fixup only, which needs that
references do not share a field, and the range check of `Patchable` makes the
signed byte decode to the address it was made from. `ChainInv` says that each
region of the file begins behind all that the previous one holds, that the
previous one lies below the watermark, and that every cursor stands in scratch
output or in the last region.

**Activations.** `break`, `continue` and `return` leave an unknown number of
frames at once, and only the loop flag and the depth of value functions say that
there is a frame to return to. So the invariant relates both to the frames:
`StackOK` says where the flag is set, what each saved flag says of the frames
below it, that the depths count the frames of their kinds, that the sources on
the stack are distinct, and that below an import there are sources only. From
the last part it follows that no loop and no call can leave an import before its
end, which is what `ImportsOK` and so `EvaluatedOnce` need. Each part is shown
for three things one can do to a stack: push a frame, cut it at a frame, and let
the flag follow.

**The A64 tools.** `ClosureExact`: a rule that is finished may refer to one that is
still being visited, so the finished rules are not closed while the search runs.
What is closed are the finished rules and those in progress together, but for
references not looked at yet, and `Needed` says that every closed set contains them;
when no call is in progress the two facts are the theorem. `ChecksAreTrusted`: a
check compares files with what the rules say now, while the programs wrote them from
what the rules said then, with kills between any two writes. `GInv` says of the
running program that what it still has to write is what its inputs say, that files
not on its list any more hold it (`Written`), and that every batch that can be read
was made from the package it names (`OfOnePackage`). `WholeArtifacts` adds what is
in the staging directory (`StagedWhole`): all that is staged and not being written
is whole, and once a move was made the files still to move are exactly those staged.

`BatchesComplete`: `BatchInv` accounts for every row that was read (`RowTaken`: it
failed, or it has a rule and a form of every selected alternative) and ties every
entry of the failures, blocked records and forms to a row. `MemoryHasNone` is the
one fact about the order of the tables: had the memory table a rule for a row that
ends up with none, it would have been used.

`EncodingsInherited` and `ScopeClosed` speak of records of nodes that the walk has
long left. Two of them are related only by their paths, so `WalkInv` ties paths to
the stack: a record whose path goes through the first nodes of the stack is the
record of the last of them or went on through a child that this node remembers
(`PathsOK`). As a name may be used once below a node, a new record has nothing
below it, and everything above it is on the stack, where bits and conditions are
handed down (`NodesOK`). That the fragments are the pieces of the fields is an
induction over the bits of a word (`PiecesGrow`); it needs that two slots of one
field are as far apart in the word as in the field and that nothing between them
is uncovered (`SlotsOK`), because `summarize_encoding` looks at the last fragment
only. `PossibleIsSound` is an induction over conditions: `yes` holds whatever the
operands decide, `no` never holds. `Possible` and `Holds` are recursive functions
on these trees; `TreeRecursion` proves that they are defined.

`FormsFit`: each command compares what it assigns with `owners` only, whatever
assigned it, and a static zero may lie on a field. So `FormInv` says what owners
stand for (`BitsOK`): bits of the masks and the diagram, which keep their values,
and fields, which lie apart from those bits and from every bit that is one; and
that fields lie in the word, apart from each other (`FieldsOK`). Two lemmas show
this for the two uses of `insert` (`FieldsInserted`, `StaticInserted`), and
`TakenFields` what each of the eighteen commands that encode an operand hands to it.
That the cursor names an operand (`FlatIndices`) goes through the recursive
function for `flat`. A generated function adds to the word of the form only bits
of fields (`ShiftedOnes`), which is the second half of the theorem.

`SelectorsAccept`: a selector compares unsigned words, the range was compiled over
signed numbers. `ValueOK` says of every operand, whatever a rule did to it, that its
bounds are ordered and representable, that an upper bound beside a negative lower one
is below half of the values, that its multiple is a power of two (so that it divides
both readings of a word: `RangeIsTested`, `MultipleIsTested`) and that options come
with bounds. `constrain` only narrows, and each command hands it bounds of its
own (`TakenValues` goes through the eighteen that encode an operand).

`GeneratorsAnswerAlike`: a list of options comes to an operand only by a command
that also adds the field which encodes it by its index in this very list
(`ListsIndexed`, `TakenKinds`), and no later command takes that field away or gives
the operand another list. So the lookup refuses exactly the operands that the
selector of the one generator refuses and that of the other does not ask about;
everything else is written alike.

`WholeRulesTell` is about sequences of operands, and what a field of one may tell
depends on another: `RNext` and `Usum` encode an operand relative to the one before
it. So `WholeInv` says of each operand before the cursor (`Told`): two argument lists
that agree on the fields and constraints so far, that the operand accepts, and that
agree on the operand before, agree on it. A command adds one such fact and, because
fields and constraints are only added and ranges only get narrower, keeps the
earlier ones. That it adds one (`OperandTold`) is what range, multiple and transform
have to fit together for: a field of `width` bits shows a value modulo a power of two
(`BitsAgree`, an induction over the bits), the transform turns that into the operand
modulo one, and within the range there is at most one such number (`OneOfEach`).
Of the finished form, the word shows the bits of each field, since fields are apart
from each other and from every bit that is one (`WordShowsField`), so equal words give
equal operands one after another. For an operand left out, the transforms of
`DefaultOperandIsZero` make zero of zero, and a field of zero adds no bit.

`ToolsAreTyped` and `EncodedWordsTell` are about the composition: the stage that runs
keeps its invariant, and the others rest in a typed state (`ToolsInv`).

`FunctionCorrect` rests on two things. A key stands for one list of operand classes
(`SignatureIsInjective`, an induction over its digits); this needs that there are at
most 64 kinds and that a list count leaves the digit of the next operand alone. And
the alternatives of a key are written in the order of their priorities, each for a
form with this key, no two with one selector (`ListsOK`), while every form that was
dealt with is served by an alternative at least as good (`Served`). `Sorted` is
shown to keep the forms and to order them (`SortedFacts`).

**The documentation tool.** Three invariants, each on top of the one before it.
`DirInv`: every file named by a row or by an entry of the module was written
before it was named (`Named`), where an extract between a document's rows and its
files has the rows it still awaits in `job.fixtures`; and since every step that
changes anything forgets the last report, a report of nothing is about the files
that are there (`Reported`). For `CheckedAreTheManual`, `NothingReported` shows
that the comparisons of `command_check`, row by row and then of the module, add
up to it, whatever state they find. `OrderInv`: the
order of an extract lists each document of the manifest once, and the rows held
for a document nobody asked for are those of the manifest; `RowsOfMerged` then
shows that filtering the concatenation of the documents' rows gives back each
document's rows. `FreshInv`: while nothing was edited, the rows held for a
document already dealt with are what it defines and each of its files is written
or awaited; writing a file does not undo another, because two examples with one
file are one example (`OneFile`). Below these lie lemmas about what reading a
document returns: `CollectFacts` proves, through the recursive function of
`ParseFences`, that fixtures of one document differ in id and in file, and
`FlattenFacts` where the rows of a concatenation lie.

The theorems about a document while it is written compare what two texts define:
one and the same with a line more, or with an opening line reworded. Both need to
know what the scan of `parse_fences` made of *every* line, so the recursive function
`ScanTo` is described first: after each prefix the blocks are pairs of fence lines,
told by how many fence lines lie before (`Scanned`), an opening line alone leaves a
block open. Then a longer text has the same scan up to its old end (`ScanSame`) and the
blocks that were closed (`BlocksKept`), and the lookahead of `expected_for` reaches
from the last block only. A reworded opening line is still a fence line (`Similar`),
so the pairing is the same and only one block's info differs (`RewordedBlocks`),
which is what lets `list` say what an example without an id would be checked
against. `FlattenEven` shows that expected bytes are whole bytes.

**Only model-checked**: `EveryAssemblyEnds`, because liveness and `ENABLED` are out
of the prover's reach.

## What is not modelled

The assembler:

- Errors of the encoders, running out of memory, and overflow of `u64` offsets.
  The undo of a label that cannot be indexed therefore has no property.
- SPIR-V modules; RISC-V fields that are split over several bit ranges or
  re-encoded; fields wider than a byte; `use16`/`use32`.
- Types, struct layout and expression evaluation, the compile-time library, the
  lexer and the parser: sequential functions on text and values.
- Of macros and compile-time functions: locals, captured operands, mutable
  arguments and the cache of macro snapshots. Calls, their depth, the expansion
  budget and every way out of a call are in `Activations`. How a path becomes the
  identity of a source is not; that two loads with one identity meet is.
- `defer` finalizers (only the freezing of a block is an action), and the
  captured values of late blocks.
- Listing, diagnostics, command line, configuration.

The tools:

- Formats: JSON and its schemas, the text of XML rows and of assembly templates
  and the patterns that match them, macro text, hashes of packages.
- `map_pilot`; the commands for logical immediates and for load and store
  addresses, which are functions of one operand; the rule tables as data, so
  nothing is said of whether an entry of them is right.
- `compile_form` does not check the widest field and the number of operands;
  these are facts of the data, and constants of the model.
- `doc_examples.py probe` and the command lines. Two copies of a program at the
  same time: the tools are run by hand, and `Generation` runs one at a time.

## Plan

Done, in this order: `Layout`, `Lowering`, `EagerOutput` with its refinement,
`Assembly`, the proofs about `Lowering`; `Activations` (the stack of sources,
import-once, calls and loops) with its proofs; the documentation tool; the A64
tools from the reader to the generated files, with the proof of `RuleClosure`;
the proofs about layout, fixups, saved cursors, the refinement, whole assemblies,
the generated files, the documentation tool, and the A64 tools from the walk to
the compiled forms, their values and words, the batches and the functions of the
mnemonics; and the types of the tools. Next, most important first:

1. `Finalizers`: captured environments, order, and reads of the patched image.
2. `ImageMap` and wide fields: section attribution of fixups, the patch shapes
   of RISC-V, range checks with their widths.
3. `SpirvModule`: re-encoding a growing first fragment against the memo.
4. `SymbolStore`: declaring, indexing and undoing under allocation failure.
5. Struct layout and packing as operators, checked against a reference
   definition.
