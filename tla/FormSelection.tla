--------------------------- MODULE FormSelection ---------------------------
(***************************************************************************)
(* How generate_a64.py turns the forms of one mnemonic into one function,  *)
(* and what that function does.  A form is [family, kinds, list, low,      *)
(* high, multiple, word]: the kinds of its operands with their list        *)
(* counts, the values its last operand accepts, the expression it emits.   *)
(* The function asks for the signature of the operands first and then      *)
(* tries the alternatives in order.                                        *)
(***************************************************************************)
EXTENDS Integers, Sequences, FiniteSets, SequencesExt

CONSTANTS
    KINDS,          \* the operand kinds in their order
    MnemonicForms,  \* forms the batches may hold
    LastValues,     \* values of the last operand
    MaxForms        \* bound: forms of a mnemonic

VARIABLES
    mnemonic,       \* the forms of the mnemonic in the order of the batches
    nextForm,       \* the place in the sorted forms
    function,       \* key |-> the alternatives written for it
    rendering

selection == <<mnemonic, nextForm, function, rendering>>

-----------------------------------------------------------------------------
(* signature: a kind takes six bits of a digit, a list count the three above. *)

IndexOf(kind) == (CHOOSE n \in DOMAIN KINDS : KINDS[n] = kind) - 1

Digit(operand) == IndexOf(operand.kind) + operand.list * 64

\* The key of the first n operands, for every n.
SignatureTo(operands) ==
    LET key[n \in 0 .. Len(operands)] ==
          IF n = 0 THEN 1 ELSE key[n - 1] * 512 + Digit(operands[n])
    IN  key

Signature(operands) == SignatureTo(operands)[Len(operands)]

\* The operands that validate lets through: their list count fits three bits.
Operands == [kind : Range(KINDS), list : 0 .. 4]

ASSUME SelectionAssumption ==
    /\ KINDS \in Seq(Range(KINDS)) /\ Len(KINDS) <= 64
    /\ \A m, n \in DOMAIN KINDS : KINDS[m] = KINDS[n] => m = n
    /\ \A f \in MnemonicForms : f.kinds \in Seq(Operands)

-----------------------------------------------------------------------------
(* The alternatives *)

\* Shifted registers and MOVZ/MOVN come before the aliases they overlap.
Priority(form) ==
    CASE form.family = "addsub_ext" -> 2
      [] form.family = "movn"       -> 1
      [] form.family = "orr_imm"    -> 3
      [] OTHER                      -> 0

\* Mutant of Sorted: the forms stay in the order of the batches.
SortedAsGiven(fs) == fs

\* The forms of one priority among the first n, in their order, for every n.
PriorityTo(fs, p) ==
    LET at[n \in 0 .. Len(fs)] ==
          IF n = 0 THEN <<>>
          ELSE IF Priority(fs[n]) = p THEN Append(at[n - 1], fs[n]) ELSE at[n - 1]
    IN  at

\* A stable sort.
Sorted(fs) ==
    LET Of(p) == PriorityTo(fs, p)[Len(fs)]
    IN  Of(0) \o Of(1) \o Of(2) \o Of(3)

Selector(form) == <<form.low, form.high, form.multiple>>
Alternative(form) == [selector |-> Selector(form), word |-> form.word, form |-> form]

AlternativesFor(key) == IF key \in DOMAIN function THEN function[key] ELSE <<>>

Accepts(alternative, value) ==
    LET s == alternative.selector
    IN  s[1] <= value /\ value <= s[2] /\ value % s[3] = 0

\* What the function does with operands of these kinds and this last value.
Outcome(operands, value) ==
    LET key == Signature(operands)
        matching == {n \in DOMAIN AlternativesFor(key) : Accepts(AlternativesFor(key)[n], value)}
    IN  IF key \notin DOMAIN function THEN "invalid operand classes"
        ELSE IF matching # {} THEN AlternativesFor(key)[CHOOSE n \in matching : \A m \in matching : n <= m].word
        ELSE IF \E n \in DOMAIN AlternativesFor(key) : value % AlternativesFor(key)[n].selector[3] # 0
        THEN "must be a multiple"
        ELSE "out of range"

Known(form) ==
    \E n \in DOMAIN AlternativesFor(Signature(form.kinds)) :
      LET a == AlternativesFor(Signature(form.kinds))[n]
      IN  a.selector = Selector(form) /\ a.word = form.word

Ambiguous(form) ==
    \E n \in DOMAIN AlternativesFor(Signature(form.kinds)) :
      AlternativesFor(Signature(form.kinds))[n].selector = Selector(form)

WithKey(key, alternatives) ==
    [k \in DOMAIN function \cup {key} |-> IF k = key THEN alternatives ELSE function[k]]

\* One form of the loop: an alias record may repeat another form.
WriteForm ==
    LET form == Sorted(mnemonic)[nextForm]
        key == Signature(form.kinds)
    IN  /\ rendering = "rendering" /\ nextForm <= Len(mnemonic)
        /\ nextForm' = nextForm + 1
        /\ IF Known(form) THEN UNCHANGED <<function, rendering>>
           ELSE IF Ambiguous(form) THEN rendering' = "refused" /\ UNCHANGED function
           ELSE function' = WithKey(key, Append(AlternativesFor(key), Alternative(form))) /\ UNCHANGED rendering
        /\ UNCHANGED mnemonic

FinishFunction ==
    /\ rendering = "rendering" /\ nextForm > Len(mnemonic)
    /\ rendering' = "done"
    /\ UNCHANGED <<mnemonic, nextForm, function>>

SelectionInit ==
    /\ \E n \in 1 .. MaxForms : mnemonic \in [1 .. n -> MnemonicForms]
    /\ nextForm = 1 /\ function = [k \in {} |-> <<>>] /\ rendering = "rendering"

SelectionNext == WriteForm \/ FinishFunction

SelectionSpec == SelectionInit /\ [][SelectionNext]_selection

-----------------------------------------------------------------------------
\* The forms that accept operands of these kinds with this last value.
Matching(operands, value) ==
    {f \in Range(mnemonic) : f.kinds = operands /\ Accepts(Alternative(f), value)}

OperandLists == {f.kinds : f \in MnemonicForms}
Messages == {"invalid operand classes", "must be a multiple", "out of range"}

\* The function assembles exactly what some form accepts, and emits the word
\* of one that does: skipping repeated forms and looking at the signature
\* first lose nothing and let nothing in.
AssemblesWhatAFormAccepts ==
    rendering = "done" =>
      \A operands \in OperandLists : \A value \in LastValues :
        LET matching == Matching(operands, value)
        IN  IF matching = {} THEN Outcome(operands, value) \in Messages
            ELSE Outcome(operands, value) \in {f.word : f \in matching}

\* Among overlapping forms the preferred ones win, whatever the order of the
\* batches and of the forms in them.
PreferredFormWins ==
    rendering = "done" =>
      \A operands \in OperandLists : \A value \in LastValues :
        LET matching == Matching(operands, value)
            best == {f \in matching : \A g \in matching : Priority(f) <= Priority(g)}
        IN  matching # {} => Outcome(operands, value) \in {f.word : f \in best}

\* Rendering fails only if two forms claim the same operands by the same
\* selector and disagree about the word, and always then.
RefusedIfAmbiguous ==
    LET conflict == \E f, g \in Range(mnemonic) :
                      f.kinds = g.kinds /\ Selector(f) = Selector(g) /\ f.word # g.word
    IN  (rendering = "refused" => conflict) /\ (rendering = "done" => ~conflict)

\* The generated function is the mnemonic: it assembles what some form accepts,
\* by the preferred one, and is written unless two forms contradict each other
\* (signature, priority, render).
FunctionIsTheMnemonic ==
    /\ AssemblesWhatAFormAccepts
    /\ PreferredFormWins
    /\ RefusedIfAmbiguous
=============================================================================
