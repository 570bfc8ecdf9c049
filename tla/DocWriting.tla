----------------------------- MODULE DocWriting -----------------------------
(***************************************************************************)
(* A chapter of the manual written line by line, read after each line the  *)
(* way tools/doc_examples.py reads it (DocText).                           *)
(***************************************************************************)
EXTENDS DocText

CONSTANTS
    Doc,            \* the path of the document
    Lines,          \* the lines the author writes
    Beginnings,     \* what is written before the author goes on
    MaxLines        \* bound: lines the author adds

\* What a line is when it is read: an info string is a list of words, the
\* characters after `bytes=` or `bytes:` are a list, and a line of a dump is made
\* of pairs of hexadecimal digits.  No language is one of examples and of outputs.
ASSUME LinesAssumption ==
    /\ MaxLines \in Nat /\ Doc.dirs \in Seq(Range(Doc.dirs))
    /\ SourceLangs \cap OutputLangs = {}
    /\ Beginnings \subseteq Seq(Lines)
    /\ \A l \in Lines :
         /\ l.kind = "fence" =>
              /\ l = [kind |-> "fence", tokens |-> l.tokens]
              /\ l.tokens \in Seq(Range(l.tokens))
              /\ \A t \in Range(l.tokens) : t.eq /\ t.word = "bytes" => t.value \in Seq(Range(t.value))
         /\ l.kind = "plain" /\ l.form = "bytes" => l.of \in Seq(Range(l.of))
         /\ l.kind = "plain" /\ l.form = "hex"   => l.of \in Seq(DOMAIN Lower) /\ Len(l.of) % 2 = 0

VARIABLES
    draft,          \* the document
    added           \* how many lines were added to its beginning

writingVars == <<draft, added>>

WritingInit == draft \in Beginnings /\ added = 0

Write(line) ==
    /\ added < MaxLines
    /\ draft' = Append(draft, line)
    /\ added' = added + 1

WritingNext == \E line \in Lines : Write(line)

WritingSpec == WritingInit /\ [][WritingNext]_writingVars

-----------------------------------------------------------------------------
Fixtures == CollectFixtures(Doc, draft).fixtures

FenceLines(t) == {n \in DOMAIN t : t[n].kind = "fence"}
FenceLine(t, k) == InOrder(FenceLines(t))[k]

Paired(blocks, marks) ==
    /\ Len(blocks) = (marks + 1) \div 2
    /\ \A k \in DOMAIN blocks :
         LET last == IF 2 * k <= marks THEN FenceLine(draft, 2 * k) ELSE Len(draft) + 1
         IN  /\ blocks[k].start = FenceLine(draft, 2 * k - 1)
             /\ blocks[k].lines = SubSeq(draft, blocks[k].start + 1, last - 1)

\* Fence lines alternate between opening and closing, whatever they say: block
\* k runs from fence line 2k - 1 to fence line 2k, or to the end of the
\* document, and holds exactly the lines between them (parse_fences).
BlocksArePaired == Paired(ParseFences(draft), Cardinality(FenceLines(draft)))

\* Two examples of one document never claim the same fixture file, positive
\* and negative ones included (collect_fixtures and fixture_relpath).
FixtureFilesAreDistinct ==
    \A f, g \in Range(Fixtures) : f.block # g.block => f.source # g.source

\* The bytes a fixture expects are whole bytes in lower case, so that they can
\* be compared with an output file, whichever way the document gave them:
\* `bytes=`, a `bytes:` line or a dump.
ExpectedBytesAreWhole ==
    \A f \in Range(Fixtures) :
      f.expected.tag = "bytes" =>
        /\ Len(f.expected.of) % 2 = 0
        /\ \A i \in DOMAIN f.expected.of : f.expected.of[i] \in {Lower[c] : c \in DOMAIN Lower}

\* The document with an id added to the opening line of a block.
WithId(t, line, id) ==
    [t EXCEPT ![line].tokens = Append(@, [eq |-> TRUE, word |-> "id", value |-> id])]

Undeclared(block) ==
    /\ block.info.lang \in SourceLangs
    /\ ~Annotated(block)
    /\ {"bytes", "error"} \cap DOMAIN block.info.meta = {}

ListTellsTheTruth(blocks) ==
    \A n \in {m \in DOMAIN blocks : Undeclared(blocks[m])} : \A id \in ValidIds :
      ExpectedFor(ParseFences(WithId(draft, blocks[n].start, id)), n) \in
        IF n \in Pending(blocks) THEN {ExpectedFromOutputBlock(blocks[n + 1])} ELSE {Ok, Refused}

\* What `list` reports as "followed by an output block but missing an id" is
\* what the example would be checked against if it were given one, unless it
\* declares its own; an example it does not report would be checked against
\* nothing but its own declaration.
PendingIsWhatAnIdWouldCheck == ListTellsTheTruth(ParseFences(draft))

KeepsAllButTheLast(before, after) ==
    after.usable => \A n \in DOMAIN before : n < Len(before) =>
                      n \in DOMAIN after.fixtures /\ after.fixtures[n] = before[n]

\* What is written after the next example does not change a fixture: a line
\* added to the end of a document can only change its last fixture.
LaterTextKeepsFixtures ==
    [][KeepsAllButTheLast(Fixtures, CollectFixtures(Doc, draft'))]_writingVars

Declared(meta, expected) ==
    /\ "bytes" \in DOMAIN meta => expected = NormaliseHex(meta["bytes"])
    /\ ("error" \in DOMAIN meta /\ "bytes" \notin DOMAIN meta) => expected = ErrorOf(meta["error"])

\* A declared expectation is the one checked: an output block after the
\* example does not override `bytes=` or `error=` ("Overrides derivation").
DeclaredOverridesDerived ==
    \A f \in Range(Fixtures) : Declared(ParseFences(draft)[f.block].info.meta, f.expected)

\* The variables have their shapes, and so has what the tool makes of the
\* document: paired blocks, one file for each fixture, whole bytes.
WritingTypeOK ==
    /\ draft \in Seq(Lines) /\ added \in 0 .. MaxLines
    /\ BlocksArePaired
    /\ FixtureFilesAreDistinct
    /\ ExpectedBytesAreWhole

\* What an example is checked against is what the document says it is: its own
\* declaration if it has one, and for an example without an id what `list`
\* shows the author (expected_for, pending_blocks).
ExpectationsFollowTheDocument ==
    /\ DeclaredOverridesDerived
    /\ PendingIsWhatAnIdWouldCheck
=============================================================================
