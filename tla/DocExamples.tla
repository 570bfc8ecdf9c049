---------------------------- MODULE DocExamples ----------------------------
(***************************************************************************)
(* tools/doc_examples.py: the documents of the manual, the fixture files   *)
(* under tests/tutorial, the manifest that records them and the generated  *)
(* module build.zig imports.  An author edits documents and removes        *)
(* fixture files while `extract`, `check` and `list` run; `extract` writes *)
(* one file after another and may be interrupted between or in the middle  *)
(* of two writes.  A check reads everything in one step.                   *)
(***************************************************************************)
EXTENDS DocText

CONSTANTS
    Docs,           \* the documents
    Texts,          \* [Docs -> the texts an author gives each of them]
    Tabbed,         \* the diagnostics and targets that contain a tab
    MaxEvents,      \* bound: edits, removals and interruptions of a behaviour
    NoDocument, NoFile, Cut

VARIABLES
    docs,           \* [Docs -> Texts or NoDocument]
    files,          \* [fixture path -> text, NoFile or Cut]
    manifest,       \* manifest.tsv: its rows; cut when it ends in a line that lacks a cell
    zig,            \* manifest.zig: its entries, NoFile or Cut
    job,            \* the extract that is running
    last,           \* the last command that ended, while nothing changed since
    removed,        \* the fixture files removed by hand since they were written
    events          \* how many edits, removals and interruptions there were

vars == <<docs, files, manifest, zig, job, last, removed, events>>

\* What collect_fixtures makes of every text the documents may have.
Read == [d \in Docs |-> [t \in Texts[d] |-> CollectFixtures(d, t)]]

Collect(d) ==
    IF docs[d] = NoDocument THEN [usable |-> FALSE, fixtures |-> <<>>] ELSE Read[d][docs[d]]

AllFixtures == UNION {UNION {Range(Read[d][t].fixtures) : t \in Texts[d]} : d \in Docs}
Sources == {f.source : f \in AllFixtures}

\* Documents and their paths are finite lists of lines and of names, and the
\* text of an example is neither a file that is not there nor half of one.
ASSUME DocumentsAssumption ==
    /\ MaxEvents \in Nat /\ IsFiniteSet(Docs)
    /\ \A d \in Docs : d.dirs \in Seq(Range(d.dirs))
    /\ \A d \in Docs : \A t \in Texts[d] : t \in Seq(Range(t))
    /\ Cut # NoFile /\ Cut \notin Tabbed /\ \A f \in AllFixtures : f.sha256 # NoFile

\* Verified by another tool (FORMAT_FIXTURE_DIR).
FormatFiles == {s \in Sources : Head(s) = "format"}

Idle == [step |-> "idle"]
NoCommand == [command |-> "none"]

-----------------------------------------------------------------------------
(* The manifest and the module. *)

\* A cell with a tab splits in two when the row is read back.
Splits(row) ==
    row.target \in Tabbed \/ (row.expected.tag = "error" /\ row.expected.of[1] \in Tabbed)

\* A row that ends inside the ninth of its cells, the sha256 unless a tab split
\* an earlier one: load_manifest counts nine cells and takes it.
HalfRow(row) ==
    LET part(cell) == IF Splits(row) THEN Cut ELSE cell
    IN  [id |-> row.id, doc |-> row.doc, block |-> row.block, section |-> row.section,
         source |-> row.source, target |-> part(row.target), case |-> part(row.case),
         expected |-> IF Splits(row) THEN ErrorOf(Cut) ELSE row.expected, sha256 |-> Cut]

\* What a write of rows that is interrupted leaves: rows that are whole, then
\* nothing, a part of the header or of a row, or a row without its end.
CutManifests(rows) ==
    {[rows |-> whole, cut |-> FALSE] : whole \in Prefixes(rows)}
    \cup {[rows |-> SubSeq(rows, 1, n - 1), cut |-> TRUE] : n \in {1} \cup DOMAIN rows}
    \cup {[rows |-> [SubSeq(rows, 1, n) EXCEPT ![n] = HalfRow(rows[n])], cut |-> FALSE] :
             n \in DOMAIN rows}

\* load_manifest: DocError on a row with another number of cells.
Loads(m) == ~m.cut /\ \A n \in DOMAIN m.rows : ~Splits(m.rows[n])

\* What a repair relies on, and nothing in the tool ensures: that the rows of
\* the documents can be read back, and that no two documents have a fixture
\* file in common (a negative example of a.md has the file of a positive one
\* of a/negative.md with the same id).
RowsReadBack == \A f \in AllFixtures : ~Splits(f)
DocumentsHaveTheirOwnFiles == \A f, g \in AllFixtures : f.source = g.source => f.doc = g.doc

\* render_zig: a module built from the rows.
RenderZig(rows) ==
    [n \in DOMAIN rows |-> [id |-> rows[n].id, source |-> rows[n].source,
                            target |-> rows[n].target, expected |-> rows[n].expected]]

\* ordered_docs: by first appearance.
OrderedDocs(rows) ==
    LET firsts == ElementsAt(rows, {n \in DOMAIN rows : \A m \in 1 .. n - 1 :
                                                          rows[m].doc # rows[n].doc})
    IN  [k \in DOMAIN firsts |-> firsts[k].doc]

\* The documents asked for that are not among the known ones.
Unlisted(requested, known) ==
    ElementsAt(requested, {n \in DOMAIN requested : ~Contains(known, requested[n])})

RowsOf(rows, d) == ElementsAt(rows, {n \in DOMAIN rows : rows[n].doc = d})

ByDoc(rows) == [d \in Docs |-> RowsOf(rows, d)]

-----------------------------------------------------------------------------
(* check *)

Rows == manifest.rows
RowSet == {Rows[n] : n \in DOMAIN Rows}

FixturesNamed(d, id) ==
    LET fs == Collect(d).fixtures IN {fs[n] : n \in {m \in DOMAIN fs : fs[m].id = id}}

RepeatsAPair ==
    \E m, n \in DOMAIN Rows : m # n /\ Rows[m].doc = Rows[n].doc /\ Rows[m].id = Rows[n].id

\* The errors command_check finds in one row.
RowErrors(row) ==
    IF ~Collect(row.doc).usable THEN {"document"}
    ELSE IF FixturesNamed(row.doc, row.id) = {} THEN {"no longer defined"}
    ELSE LET fixture == CHOOSE f \in FixturesNamed(row.doc, row.id) : TRUE
         IN  (IF row.source = fixture.source THEN {} ELSE {"moved"}) \cup
             (IF /\ row.target = fixture.target
                 /\ row.case = fixture.case
                 /\ row.expected = fixture.expected THEN {} ELSE {"declaration"}) \cup
             (IF row.sha256 = fixture.sha256 THEN {} ELSE {"example"}) \cup
             (IF files[row.source] = NoFile THEN {"missing"}
              ELSE IF files[row.source] = fixture.sha256 THEN {} ELSE {"fixture file"})

\* The documents that are consumable and so have their files expected.
ExpectedFiles ==
    {row.source : row \in {r \in RowSet : /\ Collect(r.doc).usable
                                          /\ FixturesNamed(r.doc, r.id) # {}}}

\* Mutant of Errors: the module is not compared with the manifest.
ErrorsNoModule ==
    IF ~Loads(manifest) THEN {"manifest"}
    ELSE (IF RepeatsAPair THEN {"repeated pair"} ELSE {})
         \cup (UNION {RowErrors(row) : row \in RowSet})

\* The errors and warnings of command_check.
Errors ==
    IF ~Loads(manifest) THEN {"manifest"}
    ELSE (IF RepeatsAPair THEN {"repeated pair"} ELSE {})
         \cup (UNION {RowErrors(row) : row \in RowSet})
         \cup (IF zig = RenderZig(Rows) THEN {} ELSE {"module"})

StaleFiles == {s \in Sources \ FormatFiles : files[s] # NoFile /\ s \notin ExpectedFiles}

DivergingIds ==
    {a.id : a \in {r \in RowSet : \E b \in RowSet :
                     b.id = r.id /\ (b.target # r.target \/ b.expected # r.expected)}}

Warnings == StaleFiles # {} \/ DivergingIds # {}

\* command_check
Check(strict) ==
    /\ job = Idle
    /\ last' = [command |-> "check", strict |-> strict,
                status |-> IF Errors # {} \/ (strict /\ Warnings) THEN 1 ELSE 0]
    /\ UNCHANGED <<docs, files, manifest, zig, job, removed, events>>

-----------------------------------------------------------------------------
(* extract *)

\* The manifest is read and the order of the documents fixed.
Extract(requested) ==
    /\ job = Idle
    /\ IF ~Loads(manifest)
       THEN /\ last' = [command |-> "extract", status |-> 1, requested |-> requested]
            /\ UNCHANGED job
       ELSE /\ last' = NoCommand
            /\ LET known == OrderedDocs(Rows)
               IN  job' = [step |-> "collect", requested |-> requested, todo |-> requested,
                           order |-> known \o Unlisted(requested, known),
                           rows |-> ByDoc(Rows), fixtures |-> <<>>, status |-> 0,
                           fresh |-> TRUE]
    /\ UNCHANGED <<docs, files, manifest, zig, removed, events>>

\* Mutant of CollectDocument: the rows are replaced before the files exist.
CollectDocumentNoFiles ==
    /\ job.step = "collect"
    /\ job.todo # <<>>
    /\ LET d == Head(job.todo)
           found == Collect(d)
       IN  job' = IF found.usable
                  THEN [job EXCEPT !.todo = Tail(@), !.rows[d] = found.fixtures]
                  ELSE [job EXCEPT !.todo = Tail(@), !.status = 1]
    /\ UNCHANGED <<docs, files, manifest, zig, last, removed, events>>

\* One requested document: its fixtures, or an error that later refuses the
\* manifest but not the next document.
CollectDocument ==
    /\ job.step = "collect"
    /\ job.todo # <<>>
    /\ LET d == Head(job.todo)
           found == Collect(d)
       IN  job' = IF found.usable
                  THEN [job EXCEPT !.todo = Tail(@), !.rows[d] = found.fixtures,
                                   !.fixtures = found.fixtures, !.step = "fixtures"]
                  ELSE [job EXCEPT !.todo = Tail(@), !.status = 1]
    /\ UNCHANGED <<docs, files, manifest, zig, last, removed, events>>

\* One fixture file; content is Cut when the write is interrupted.
PutFixture(content) ==
    LET f == Head(job.fixtures)
    IN  /\ files' = [files EXCEPT ![f.source] = content]
        /\ removed' = removed \ {f.source}

\* Mutant of WriteFixture: the files of a document are not written when one of
\* its fixtures already exists.
WriteFixtureOnce ==
    /\ job.step = "fixtures"
    /\ IF job.fixtures = <<>>
       THEN /\ job' = [job EXCEPT !.step = "collect"]
            /\ UNCHANGED <<files, removed>>
       ELSE /\ IF files[Head(job.fixtures).source] = NoFile
               THEN PutFixture(Head(job.fixtures).sha256)
               ELSE UNCHANGED <<files, removed>>
            /\ job' = [job EXCEPT !.fixtures = Tail(@)]
    /\ UNCHANGED <<docs, manifest, zig, last, events>>

WriteFixture ==
    /\ job.step = "fixtures"
    /\ IF job.fixtures = <<>>
       THEN /\ job' = [job EXCEPT !.step = "collect"]
            /\ UNCHANGED <<files, removed>>
       ELSE /\ PutFixture(Head(job.fixtures).sha256)
            /\ job' = [job EXCEPT !.fixtures = Tail(@)]
    /\ UNCHANGED <<docs, manifest, zig, last, events>>

Ended(status) ==
    /\ job' = Idle
    /\ last' = IF job.fresh
               THEN [command |-> "extract", status |-> status, requested |-> job.requested]
               ELSE NoCommand

\* Mutant of Merged: only the documents that were asked for are written.
MergedRequestedOnly ==
    FlattenSeq([n \in DOMAIN job.requested |-> job.rows[job.requested[n]]])

Merged == FlattenSeq([n \in DOMAIN job.order |-> job.rows[job.order[n]]])

\* A document that could not be consumed ends the command before the manifest
\* is written.
WriteManifest ==
    /\ job.step = "collect"
    /\ job.todo = <<>>
    /\ IF job.status # 0
       THEN Ended(job.status) /\ UNCHANGED manifest
       ELSE /\ manifest' = [rows |-> Merged, cut |-> FALSE]
            /\ job' = [job EXCEPT !.step = "module"]
            /\ UNCHANGED last
    /\ UNCHANGED <<docs, files, zig, removed, events>>

WriteModule ==
    /\ job.step = "module"
    /\ zig' = RenderZig(Rows)
    /\ Ended(0)
    /\ UNCHANGED <<docs, files, manifest, removed, events>>

-----------------------------------------------------------------------------
(* What happens around the tool. *)

Event == events < MaxEvents /\ events' = events + 1

\* The process is killed between two writes, or inside one: a file that is
\* being written has been truncated and holds a part of its content.
Interrupt ==
    /\ Event
    /\ job # Idle
    /\ job' = Idle
    /\ last' = NoCommand
    /\ \/ UNCHANGED <<files, manifest, zig, removed>>
       \/ /\ job.step = "fixtures" /\ job.fixtures # <<>>
          /\ PutFixture(Cut)
          /\ UNCHANGED <<manifest, zig>>
       \/ /\ job.step = "collect" /\ job.todo = <<>> /\ job.status = 0
          /\ manifest' \in CutManifests(Merged)
          /\ UNCHANGED <<files, zig, removed>>
       \/ /\ job.step = "module"
          /\ zig' = Cut
          /\ UNCHANGED <<files, manifest, removed>>
    /\ UNCHANGED docs

NoticeEdit ==
    /\ last' = NoCommand
    /\ job' = IF job = Idle THEN job ELSE [job EXCEPT !.fresh = FALSE]

\* The author writes another text, or deletes the document.
EditDocument(d, text) ==
    /\ Event
    /\ text # docs[d]
    /\ docs' = [docs EXCEPT ![d] = text]
    /\ NoticeEdit
    /\ UNCHANGED <<files, manifest, zig, removed>>

RemoveFixture(s) ==
    /\ Event
    /\ files[s] # NoFile
    /\ files' = [files EXCEPT ![s] = NoFile]
    /\ removed' = removed \cup {s}
    /\ NoticeEdit
    /\ UNCHANGED <<docs, manifest, zig>>

-----------------------------------------------------------------------------
Requests == {s \in UNION {[1 .. n -> Docs] : n \in 1 .. Cardinality(Docs)} : IsInjective(s)}

Init ==
    /\ docs \in [Docs -> (UNION {Texts[d] : d \in Docs}) \cup {NoDocument}]
    /\ \A d \in Docs : docs[d] \in Texts[d] \cup {NoDocument}
    /\ files = [s \in Sources |-> NoFile]
    /\ manifest = [rows |-> <<>>, cut |-> FALSE]
    /\ zig = NoFile
    /\ job = Idle
    /\ last = NoCommand
    /\ removed = {}
    /\ events = 0

Next ==
    \/ \E strict \in BOOLEAN : Check(strict)
    \/ \E requested \in Requests : Extract(requested)
    \/ CollectDocument
    \/ WriteFixture
    \/ WriteManifest
    \/ WriteModule
    \/ Interrupt
    \/ \E d \in Docs : \E text \in Texts[d] \cup {NoDocument} : EditDocument(d, text)
    \/ \E s \in Sources : RemoveFixture(s)

Spec == Init /\ [][Next]_vars

-----------------------------------------------------------------------------
Contents == {f.sha256 : f \in AllFixtures} \cup {NoFile, Cut}
AllRows == AllFixtures \cup {HalfRow(f) : f \in AllFixtures}

TypeOK ==
    /\ \A d \in Docs : docs[d] \in Texts[d] \cup {NoDocument}
    /\ files \in [Sources -> Contents]
    /\ manifest.rows \in Seq(AllRows) /\ manifest.cut \in BOOLEAN
    /\ zig \in {NoFile, Cut} \/ Len(zig) >= 0
    /\ job.step \in {"idle", "collect", "fixtures", "module"}
    /\ last.command \in {"none", "check", "extract"}
    /\ removed \subseteq Sources
    /\ events \in 0 .. MaxEvents

\* What `zig build test` assembles.
Listed == IF zig \in {NoFile, Cut} THEN {} ELSE {zig[n] : n \in DOMAIN zig}

Passed(command) == last.command = command /\ last.status = 0

\* After a check that passes, every fixture the build assembles is the one its
\* document defines now: the file on disk is the text of the example, and the
\* target and the expectation are those the document gives, whatever edits,
\* failed or interrupted extracts came before.
CheckedFixturesAreTheManual ==
    Passed("check") =>
      \A entry \in Listed : \E d \in Docs : \E f \in FixturesNamed(d, entry.id) :
        /\ Collect(d).usable
        /\ [id |-> f.id, source |-> f.source, target |-> f.target, expected |-> f.expected] = entry
        /\ files[entry.source] = f.sha256

\* At every moment, after any interruption too, the fixture files the build
\* lists exist, unless somebody removed them: fixtures are written before the
\* manifest and the manifest before the module.
ListedFixturesExist ==
    \A entry \in Listed : files[entry.source] # NoFile \/ entry.source \in removed

\* A completed extract of every document in the manifest leaves nothing for
\* check to report, whatever interrupted or failed runs left behind, as the
\* messages of check promise ("run `tools/doc_examples.py extract`").
ExtractRepairs ==
    (Passed("extract") /\ {Rows[n].doc : n \in DOMAIN Rows} \subseteq Range(last.requested))
      => Errors = {}

\* Extracting some documents leaves the rows of the others as they were, when
\* the manifest is written whole.
OtherDocumentsKeepTheirRows ==
    [][ (job # Idle /\ job' # Idle) =>
          \A d \in Docs : ~Contains(job.requested, d)
                            => RowsOf(manifest'.rows, d) = RowsOf(manifest.rows, d) ]_vars
=============================================================================
