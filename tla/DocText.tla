------------------------------ MODULE DocText ------------------------------
(***************************************************************************)
(* How tools/doc_examples.py reads one document of the manual: the fences  *)
(* of the text, the expectation of an annotated example, and the fixtures  *)
(* the document defines.  A document is a sequence of lines                *)
(*   [kind |-> "fence",   tokens |-> the words of the info string]         *)
(*   [kind |-> "heading", title  |-> its text]                             *)
(*   [kind |-> "plain",   form   |-> what the line looks like, of |-> ...] *)
(* where the form of a plain line is "blank", "bytes" (`bytes: ...`, of    *)
(* its characters), "error" (`... error: needle`, of the needle, NoNeedle  *)
(* when nothing follows the colon), "hex" (byte pairs only) or "code".     *)
(* A token is a word, or a key with its value (eq tells which).            *)
(***************************************************************************)
EXTENDS Naturals, Sequences, FiniteSets, SequencesExt

CONSTANTS
    SourceLangs,        \* the languages of an example
    OutputLangs,        \* the languages of an expected-output block
    ValidIds,           \* the ids FIXTURE_ID_RE accepts
    Lookahead,          \* LOOKAHEAD_LINES
    DefaultTarget,      \* the target of an example that names none
    NoNeedle,           \* the empty diagnostic
    Lower               \* [hex digit spellings -> lower case digits]

ASSUME LookaheadAssumption == Lookahead \in Nat

-----------------------------------------------------------------------------
\* The members of a set of positions, in ascending order.
InOrder(S) ==
    [k \in 1 .. Cardinality(S) |-> CHOOSE n \in S : Cardinality({m \in S : m <= n}) = k]

\* The elements of a sequence at some of its positions, in their order.
ElementsAt(seq, S) == LET at == InOrder(S) IN [k \in DOMAIN at |-> seq[at[k]]]

-----------------------------------------------------------------------------
(* Info strings and fences. *)

NoInfo == [lang |-> "", meta |-> <<>>, flags |-> {}]

\* parse_info_string: the first word is the language unless it is a pair; a
\* pair given twice keeps its last value.
ParseInfo(tokens) ==
    LET isLang(n) == n = 1 /\ ~tokens[n].eq
        pairs == {n \in DOMAIN tokens : tokens[n].eq}
        words == {n \in DOMAIN tokens : ~tokens[n].eq /\ ~isLang(n)}
        final(k) == CHOOSE n \in pairs :
                      /\ tokens[n].word = k
                      /\ \A m \in pairs : tokens[m].word = k => m <= n
    IN  [lang  |-> IF tokens # <<>> /\ ~tokens[1].eq THEN tokens[1].word ELSE "",
         meta  |-> [k \in {tokens[n].word : n \in pairs} |-> tokens[final(k)].value],
         flags |-> {tokens[n].word : n \in words}]

\* section_for: the last heading above the line, headings inside blocks too.
SectionFor(text, n) ==
    LET above == {m \in 1 .. n - 1 : text[m].kind = "heading"}
    IN  IF above = {} THEN "" ELSE text[CHOOSE m \in above : \A k \in above : k <= m].title

\* Mutant of ScanLine: a fence line with an info string opens a new block
\* instead of closing the one being read.
ScanLineNested(text, state, n) ==
    LET line == text[n]
        fresh == [index |-> Len(state.fences) + 1, info |-> ParseInfo(line.tokens),
                  lines |-> <<>>, start |-> n, end |-> n, section |-> SectionFor(text, n)]
    IN  IF line.kind # "fence"
        THEN IF state.open = <<>> THEN state ELSE [state EXCEPT !.open[1].lines = Append(@, line)]
        ELSE IF state.open = <<>> \/ line.tokens # <<>> THEN [state EXCEPT !.open = <<fresh>>]
        ELSE [open |-> <<>>, fences |-> Append(state.fences, [state.open[1] EXCEPT !.end = n])]

\* One line of parse_fences: open is the block being read, or <<>>.
ScanLine(text, state, n) ==
    LET line == text[n]
    IN  IF state.open = <<>>
        THEN IF line.kind # "fence" THEN state
             ELSE [state EXCEPT !.open =
                     <<[index |-> Len(state.fences) + 1,
                        info |-> ParseInfo(line.tokens),
                        lines |-> <<>>, start |-> n, end |-> n,
                        section |-> SectionFor(text, n)]>>]
        ELSE IF line.kind = "fence"
             THEN [open |-> <<>>,
                   fences |-> Append(state.fences, [state.open[1] EXCEPT !.end = n])]
             ELSE [state EXCEPT !.open[1].lines = Append(@, line)]

\* What the scan has read after n lines, for every n.
ScanTo(text) ==
    LET scan[n \in 0 .. Len(text)] ==
          IF n = 0 THEN [fences |-> <<>>, open |-> <<>>] ELSE ScanLine(text, scan[n - 1], n)
    IN  scan

\* parse_fences: a block that is never closed ends with the document.
ParseFences(text) ==
    LET end == ScanTo(text)[Len(text)]
    IN  IF end.open = <<>> THEN end.fences
        ELSE Append(end.fences, [end.open[1] EXCEPT !.end = Len(text)])

-----------------------------------------------------------------------------
(* Expectations.  A reading that raises DocError is Refused. *)

Refused == [tag |-> "refused"]
Nothing == [tag |-> "none"]
Ok      == [tag |-> "ok"]
Bytes(digits) == [tag |-> "bytes", of |-> digits]
ErrorOf(needle) == [tag |-> "error", of |-> <<needle>>]

\* normalise_hex
NormaliseHex(raw) ==
    LET compact == ElementsAt(raw, {n \in DOMAIN raw : raw[n] \in DOMAIN Lower})
    IN  IF compact = <<>> \/ Len(compact) % 2 # 0 THEN Refused
        ELSE Bytes([n \in DOMAIN compact |-> Lower[compact[n]]])

\* The lines of a block that are not blank.
Filled(lines) == ElementsAt(lines, {n \in DOMAIN lines : lines[n].kind # "plain" \/ lines[n].form # "blank"})

\* expected_from_output_block.  ERROR_SPEC_RE needs a character after the
\* colon, so a line `error:` matches neither expression and the branch that
\* refuses an empty needle is never taken.
ExpectedFromOutputBlock(fence) ==
    LET filled == Filled(fence.lines)
        first  == filled[1]
        says(form) == first.kind = "plain" /\ first.form = form
        dump   == FlattenSeq([n \in DOMAIN filled |-> filled[n].of])
    IN  IF filled = <<>> THEN Nothing
        ELSE IF says("bytes") THEN NormaliseHex(first.of)
        ELSE IF says("error") /\ first.of # NoNeedle THEN ErrorOf(first.of)
        ELSE IF \A n \in DOMAIN filled : filled[n].kind = "plain" /\ filled[n].form = "hex"
             THEN Bytes([n \in DOMAIN dump |-> Lower[dump[n]]])
        ELSE Nothing

\* The block expected_for and command_list look at: the next one, when it is
\* an output block close enough.
Following(fences, position) ==
    /\ position + 1 <= Len(fences)
    /\ fences[position + 1].info.lang \in OutputLangs
    /\ fences[position + 1].start - fences[position].end <= Lookahead

\* Mutant of ExpectedFor: the derived expectation overrides the declared one.
ExpectedForDerivedFirst(fences, position) ==
    LET meta == fences[position].info.meta
        derived == ExpectedFromOutputBlock(fences[position + 1])
    IN  IF Following(fences, position) /\ derived # Nothing THEN derived
        ELSE IF "bytes" \in DOMAIN meta THEN NormaliseHex(meta["bytes"])
        ELSE IF "error" \in DOMAIN meta THEN ErrorOf(meta["error"])
        ELSE Ok

\* Mutant of ExpectedFor: the last output block of the document is looked at.
ExpectedForLast(fences, position) ==
    LET outputs == {n \in DOMAIN fences : n > position /\ fences[n].info.lang \in OutputLangs}
        last == CHOOSE n \in outputs : \A m \in outputs : m <= n
    IN  IF outputs = {} \/ ExpectedFromOutputBlock(fences[last]) = Nothing THEN Ok
        ELSE ExpectedFromOutputBlock(fences[last])

\* expected_for: declared, derived, or `ok`.
ExpectedFor(fences, position) ==
    LET meta == fences[position].info.meta
        derived == ExpectedFromOutputBlock(fences[position + 1])
    IN  IF "bytes" \in DOMAIN meta THEN NormaliseHex(meta["bytes"])
        ELSE IF "error" \in DOMAIN meta THEN ErrorOf(meta["error"])
        ELSE IF Following(fences, position) /\ derived # Nothing THEN derived
        ELSE Ok

-----------------------------------------------------------------------------
(* Fixtures.  A document path is [dirs, stem]; its suffix is dropped.  The  *)
(* hash of a text is the text.                                              *)

DocRoot == "document"

UnderDocRoot(doc) == doc.dirs # <<>> /\ Head(doc.dirs) = DocRoot

\* fixture_relpath
FixtureRelpath(doc, id, negative) ==
    Tail(doc.dirs) \o <<doc.stem>> \o (IF negative THEN <<"negative">> ELSE <<>>) \o <<id>>

\* fixture_text: the lines without the blank ones at the end.
FixtureText(fence) ==
    LET filled == {n \in DOMAIN fence.lines :
                     fence.lines[n].kind # "plain" \/ fence.lines[n].form # "blank"}
    IN  SubSeq(fence.lines, 1, CHOOSE n \in filled \cup {0} : \A m \in filled : m <= n)

Annotated(fence) == "id" \in DOMAIN fence.info.meta
Skipped(fence) == "skip" \in fence.info.flags
Id(fence) == fence.info.meta["id"]

Case(expected) == IF expected.tag = "error" THEN "negative" ELSE "positive"

Fixture(doc, fence, expected) ==
    [id |-> Id(fence), doc |-> doc, block |-> fence.index, section |-> fence.section,
     source |-> FixtureRelpath(doc, Id(fence), expected.tag = "error"),
     target |-> IF "target" \in DOMAIN fence.info.meta
                THEN fence.info.meta["target"] ELSE DefaultTarget,
     case |-> Case(expected), expected |-> expected,
     sha256 |-> FixtureText(fence)]

FixtureOf(doc, fences, position) == Fixture(doc, fences[position], ExpectedFor(fences, position))

\* The examples collect_fixtures raises DocError at.
Unusable(doc, fences, position) ==
    LET fence == fences[position]
    IN  /\ Annotated(fence)
        /\ \/ fence.info.lang \notin SourceLangs
           \/ Id(fence) \notin ValidIds
           \/ \E m \in 1 .. position - 1 : Annotated(fences[m]) /\ Id(fences[m]) = Id(fence)
           \/ /\ ~Skipped(fence)
              /\ \/ ExpectedFor(fences, position) = Refused
                 \/ FixtureText(fence) = <<>>
                 \/ ~UnderDocRoot(doc)

FixturesOf(doc, fences) ==
    LET kept == InOrder({n \in DOMAIN fences : Annotated(fences[n]) /\ ~Skipped(fences[n])})
    IN  IF \E n \in DOMAIN fences : Unusable(doc, fences, n)
        THEN [usable |-> FALSE, fixtures |-> <<>>]
        ELSE [usable |-> TRUE,
              fixtures |-> [n \in DOMAIN kept |-> FixtureOf(doc, fences, kept[n])]]

\* collect_fixtures: the fixtures in document order, or a DocError.
CollectFixtures(doc, text) == FixturesOf(doc, ParseFences(text))

-----------------------------------------------------------------------------
(* command_list: the examples without an id that an output block follows.   *)

\* The positions of the examples list reports.
Pending(fences) ==
    {n \in DOMAIN fences :
       /\ fences[n].info.lang \in SourceLangs
       /\ ~Annotated(fences[n])
       /\ Following(fences, n)
       /\ ExpectedFromOutputBlock(fences[n + 1]) \notin {Nothing, Refused}}
=============================================================================
