----------------------------- MODULE Conversion -----------------------------
(***************************************************************************)
(* normalize of tools/arm64/normalize_a64.py and normalize_a64_e5.py: the  *)
(* XML rows of a batch are read one after another, each looks for its      *)
(* translation rule in several tables, and every alternative of the rule   *)
(* is compiled.  What the generators accept of the result is Validates.    *)
(* A row is [encoding, conflict, rules], rules giving for each table       *)
(* NoRule or [forget, alternatives]; an alternative is "ok" or "fails" in  *)
(* compile_form, or is "unselected" by its names or bits.                  *)
(***************************************************************************)
EXTENDS Integers, Sequences, FiniteSets, SequencesExt

CONSTANTS
    BatchNames,     \* batches to convert
    XmlRows,        \* XML rows there may be
    RecordOf,       \* by_encoding: encoding |-> the record it belongs to
    MemoryRecords,  \* records of group "ldst"
    ExpectedRows,   \* xml_entries a batch must have
    MaxRows,        \* bound: rows of the XML
    NoRule

\* A batch has records, and what memory_rule answers is never a rule that says
\* to forget the row: it puts its own rule in the place of one.
ASSUME BatchAssumption ==
    /\ MaxRows \in Nat /\ DOMAIN RecordOf # {}
    /\ \A row \in XmlRows : row.rules.memory # NoRule => ~row.rules.memory.forget

VARIABLES
    batch, rows, forms, blocked, failures, alternatives, reading

batchVars == <<batch, rows, forms, blocked, failures, alternatives, reading>>

Records == Range(RecordOf)
Extension == batch \in {"E1", "E2", "E3", "E4"}

-----------------------------------------------------------------------------
(* The tables in the order they are asked. *)

OrElse(rule, other) == IF rule = NoRule THEN other ELSE rule

Memory(row) == batch = "B3" \/ (Extension /\ RecordOf[row.encoding] \in MemoryRecords)

\* memory_rule replaces a rule that says to forget the row.
AfterScalar(row) ==
    LET source == IF batch = "B4" THEN OrElse(row.rules.named, row.rules.source) ELSE row.rules.source
    IN  IF batch = "B4" \/ Extension THEN OrElse(source, row.rules.scalar) ELSE source

AfterMemory(row) ==
    LET rule == AfterScalar(row)
    IN  IF Memory(row) /\ (rule = NoRule \/ rule.forget) THEN row.rules.memory ELSE rule

RuleOf(row) ==
    IF batch = "E5" THEN row.rules.e5
    ELSE IF batch = "B1" THEN OrElse(AfterMemory(row), row.rules.modern)
    ELSE LET compatible == OrElse(AfterMemory(row), row.rules.compatible)
         IN  IF Extension THEN OrElse(OrElse(compatible, row.rules.extension), row.rules.modern) ELSE compatible

Selected(rule) == {n \in DOMAIN rule.alternatives : rule.alternatives[n] # "unselected"}
Fails(rule) == {n \in Selected(rule) : rule.alternatives[n] = "fails"}

-----------------------------------------------------------------------------
Raise == reading' = "raised" /\ UNCHANGED <<batch, forms, blocked, failures, alternatives>>

Block(record) == blocked' = blocked \cup {record}

\* A row without a rule, or with one that says to ignore it.
Reject(row, reason) ==
    /\ Block(RecordOf[row.encoding])
    /\ failures' = failures \cup {[row |-> Len(rows) + 1, record |-> RecordOf[row.encoding], reason |-> reason]}
    /\ UNCHANGED <<batch, forms, alternatives, reading>>

\* Mutant of Compile: an alternative that fails is recorded, the record is not blocked.
CompileUnblocked(row, rule) ==
    LET record == RecordOf[row.encoding]
        Of(S)  == {[row |-> Len(rows) + 1, record |-> record, alternative |-> n] : n \in S}
    IN  /\ forms' = forms \cup Of(Selected(rule) \ Fails(rule))
        /\ alternatives' = alternatives
             \cup {[row |-> Len(rows) + 1, alternative |-> n,
                    converted |-> n \notin Fails(rule)] : n \in Selected(rule)}
        /\ failures' = failures \cup {[row |-> Len(rows) + 1, record |-> record, reason |-> "compile"] : n \in Fails(rule)}
        /\ UNCHANGED <<batch, blocked, reading>>

\* Every selected alternative is compiled; those that fail block the record.
Compile(row, rule) ==
    LET record == RecordOf[row.encoding]
        Of(S)  == {[row |-> Len(rows) + 1, record |-> record, alternative |-> n] : n \in S}
    IN  /\ forms' = forms \cup Of(Selected(rule) \ Fails(rule))
        /\ alternatives' = alternatives
             \cup {[row |-> Len(rows) + 1, alternative |-> n,
                    converted |-> n \notin Fails(rule)] : n \in Selected(rule)}
        /\ IF Fails(rule) = {} THEN UNCHANGED <<blocked, failures>>
           ELSE /\ Block(record)
                /\ failures' = failures \cup {[row |-> Len(rows) + 1, record |-> record, reason |-> "compile"]}
        /\ UNCHANGED <<batch, reading>>

\* One row of the XML; rows of other encodings are not of the batch.
ReadRow(row) ==
    LET rule == RuleOf(row)
    IN  /\ reading = "reading" /\ Len(rows) < MaxRows
        /\ row.encoding \in DOMAIN RecordOf
        /\ rows' = Append(rows, row)
        /\ IF row.conflict THEN Raise
           ELSE IF rule = NoRule
           THEN IF batch \in {"B1", "E5"} THEN Raise ELSE Reject(row, "missing translation rule")
           ELSE IF rule.forget THEN Reject(row, "ignored source rule")
           ELSE IF Selected(rule) = {} THEN Raise
           ELSE Compile(row, rule)

Converted == {f.record : f \in forms}

\* The accounting before anything is written.
Accounted ==
    CASE batch = "B1" -> /\ Len(rows) = ExpectedRows
                         /\ Converted \cup blocked = Records
                         /\ blocked = {}
      [] batch = "E5" -> failures = {} /\ Converted = Records /\ Len(rows) = Cardinality(Records)
      [] OTHER        -> Len(rows) = ExpectedRows /\ Converted \cup blocked = Records

FinishBatch ==
    /\ reading = "reading"
    /\ reading' = IF Accounted THEN "written" ELSE "raised"
    /\ UNCHANGED <<batch, rows, forms, blocked, failures, alternatives>>

BatchInit ==
    /\ batch \in BatchNames
    /\ rows = <<>> /\ forms = {} /\ blocked = {} /\ failures = {} /\ alternatives = {}
    /\ reading = "reading"

BatchNext == (\E row \in XmlRows : ReadRow(row)) \/ FinishBatch

BatchSpec == BatchInit /\ [][BatchNext]_batchVars

-----------------------------------------------------------------------------
(* What the generators ask of the file. *)

\* The batch is complete, nothing is blocked, and every alternative that was
\* tried was converted; B1 does not list rows, failures and alternatives.
Validates ==
    /\ Converted = Records
    /\ batch # "B1" =>
         /\ blocked = {} /\ failures = {}
         /\ alternatives # {} /\ \A a \in alternatives : a.converted
    /\ batch \notin {"B1", "E5"} => Len(rows) = ExpectedRows

-----------------------------------------------------------------------------
BatchTypeOK ==
    /\ rows \in Seq(XmlRows) /\ Len(rows) <= MaxRows
    /\ blocked \subseteq Records
    /\ \A f \in forms : f.row \in DOMAIN rows /\ f.record \in Records
    /\ \A a \in alternatives : a.row \in DOMAIN rows
    /\ reading \in {"reading", "raised", "written"}

\* A file is only written when every record of the batch was converted or is
\* listed as blocked, and a record is blocked exactly if a failure says why.
NoRecordIsLost ==
    /\ reading = "written" => \A r \in Records : r \in Converted \cup blocked
    /\ blocked = {f.record : f \in failures}

\* What the generators accept was converted in full: no row of the batch was
\* left out and no alternative its rule selects failed, although records,
\* rows and alternatives are counted separately and one record may have
\* several rows.
AcceptedMeansConverted ==
    (reading = "written" /\ Validates) =>
      \A n \in DOMAIN rows :
        LET rule == RuleOf(rows[n])
        IN  /\ rule # NoRule /\ ~rule.forget
            /\ \A k \in Selected(rule) :
                 [row |-> n, record |-> RecordOf[rows[n].encoding], alternative |-> k] \in forms

\* B1 and E5 have no incomplete file to show: what is written is complete.
WrittenMeansComplete ==
    (reading = "written" /\ batch \in {"B1", "E5"}) => Validates

\* A memory row is ignored or without a rule only if memory_rule, which knows
\* the decode selectors and the byte forms, has none to offer either.
MemoryRowsUseTheirTable ==
    \A f \in failures :
      LET row == rows[f.row]
      IN  (f.reason # "compile" /\ Memory(row)) => row.rules.memory = NoRule

\* No row of a batch is lost between the XML and a file the generators take:
\* every record is converted or blocked for a reason, what is accepted was
\* converted in full, and a memory row is asked of every table that knows it.
BatchesAreComplete ==
    /\ NoRecordIsLost
    /\ AcceptedMeansConverted
    /\ WrittenMeansComplete
    /\ MemoryRowsUseTheirTable
=============================================================================
