----------------------------- MODULE Encodeset -----------------------------
(***************************************************************************)
(* The bits of an instruction word as the inventory reader inherits them   *)
(* down the tree of the Arm data (tools/arm64/source.py).  An encodeset is *)
(* a sequence of fields [name, start, width, value, should], value and     *)
(* should listing their bits from the lowest; a bit is "0", "1" or "x".    *)
(* Bits are [Places -> slots], a slot is Absent as long as no field covers it. *)
(***************************************************************************)
EXTENDS Integers, Sequences, FiniteSets, SequencesExt

CONSTANTS
    EncodingBits,       \* bits of an instruction word (32)
    Absent

Places == 0 .. EncodingBits - 1
NoBits == [p \in Places |-> Absent]

\* A slot whose value the architecture fixes: "should be" bits may be refined.
Hard(slot) == slot # Absent /\ slot.value # "x" /\ ~slot.should
Preferred(slot) == slot # Absent /\ slot.value # "x" /\ slot.should

Covers(field, p) == p \in field.start .. field.start + field.width - 1
Covering(encodeset, p) == {n \in DOMAIN encodeset : Covers(encodeset[n], p)}

Bit(field, p) == field.value[p - field.start + 1]
Should(field, p) == field.should[p - field.start + 1]

-----------------------------------------------------------------------------
(* merge_encoding *)

FieldIsLegal(field) ==
    /\ field.start \in Places
    /\ field.width \in 1 .. EncodingBits - field.start
    /\ Len(field.value) = field.width /\ Len(field.should) = field.width
    /\ \A n \in 1 .. field.width : field.should[n] => field.value[n] # "x"

\* A field may not give a bit that is fixed a fixed value of its own.
Contradicts(field, parent) ==
    \E p \in Places :
      /\ Covers(field, p) /\ Hard(parent[p])
      /\ Bit(field, p) # "x" /\ ~Should(field, p) /\ Bit(field, p) # parent[p].value

MergeIsLegal(encodeset, parent) ==
    /\ \A n \in DOMAIN encodeset : FieldIsLegal(encodeset[n])
    /\ \A p \in Places : Cardinality(Covering(encodeset, p)) <= 1
    /\ \A n \in DOMAIN encodeset : ~Contradicts(encodeset[n], parent)

\* Mutant of Merged: a field that says nothing about a fixed bit frees it.
MergedRelaxed(encodeset, parent, source) ==
    [p \in Places |->
       IF Covering(encodeset, p) = {} THEN parent[p]
       ELSE LET n == CHOOSE m \in DOMAIN encodeset : Covers(encodeset[m], p)
                field == encodeset[n]
            IN  [value    |-> Bit(field, p),
                 should   |-> Should(field, p),
                 field    |-> field.name,
                 fieldBit |-> p - field.start,
                 source   |-> <<source, n>>]]

\* A field keeps the value of a fixed bit it covers and takes over the rest.
Merged(encodeset, parent, source) ==
    [p \in Places |->
       IF Covering(encodeset, p) = {} THEN parent[p]
       ELSE LET n     == CHOOSE m \in DOMAIN encodeset : Covers(encodeset[m], p)
                field == encodeset[n]
                kept  == Hard(parent[p])
            IN  [value    |-> IF kept THEN parent[p].value ELSE Bit(field, p),
                 should   |-> ~kept /\ Should(field, p),
                 field    |-> field.name,
                 fieldBit |-> p - field.start,
                 source   |-> <<source, n>>]]

-----------------------------------------------------------------------------
(* summarize_encoding *)

OnesOf(bits, positions) == {p \in positions : bits[p].value = "1"}

\* The fragment a slot continues: the next bit of the same field.
Continues(fragment, slot, p) ==
    /\ fragment.source = slot.source
    /\ fragment.lsb + fragment.width = p
    /\ fragment.fieldLsb + fragment.width = slot.fieldBit

AddSlot(fragments, slot, p) ==
    IF slot = Absent THEN fragments
    ELSE IF fragments # <<>> /\ Continues(Last(fragments), slot, p)
    THEN [fragments EXCEPT ![Len(fragments)].width = @ + 1]
    ELSE Append(fragments, [name |-> slot.field, lsb |-> p, width |-> 1,
                            fieldLsb |-> slot.fieldBit, source |-> slot.source])

\* The fragments of the lowest n bits, for every n.
FragmentsTo(bits) ==
    LET at[n \in 0 .. EncodingBits] ==
          IF n = 0 THEN <<>> ELSE AddSlot(at[n - 1], bits[n - 1], n - 1)
    IN  at

Fragments(bits) == FragmentsTo(bits)[EncodingBits]

Summary(bits) ==
    LET fixed   == {p \in Places : Hard(bits[p])}
        should  == {p \in Places : Preferred(bits[p])}
        covered == {p \in Places : bits[p] # Absent}
    IN  [fixed |-> fixed, fixedOnes |-> OnesOf(bits, fixed),
         should |-> should, shouldOnes |-> OnesOf(bits, should), covered |-> covered,
         fragments |-> Fragments(bits)]
=============================================================================
