----------------------------- MODULE FormWords -----------------------------
(***************************************************************************)
(* A normalized A64 form, what the generators make of it and what they     *)
(* demand of it (tools/arm64/generate_a64.py, generate_a64_e5.py).  A word *)
(* is the set of its bits that are one, a mask a set of bits.  A form is   *)
(*   [word, fields, operands, constraints, fixed, ones]                    *)
(* where fixed are the bits the encoding fixes or prefers and ones those   *)
(* of them that are one; a field is [operand, lsb, width, by], by the      *)
(* transform [kind, of]; an operand is [kind, literal, min, max, multiple, *)
(* allowed, default], with None for what it does not have.                 *)
(***************************************************************************)
EXTENDS Integers, Sequences, FiniteSets, SequencesExt

CONSTANTS
    WordBits,       \* bits of an instruction word (32)
    ValueBits,      \* bits of an operand value in a generated function (64)
    MaxFieldWidth,  \* the widest dynamic field the generators take (26)
    MaxArity,       \* the most operands they take (6)
    None

ASSUME WidthAssumption ==
    /\ WordBits \in Nat \ {0} /\ ValueBits \in Nat \ {0}
    /\ MaxFieldWidth \in 0 .. ValueBits /\ MaxArity \in Nat

ASSUME NoneAssumption == None \notin Int /\ None \notin Seq(Int)

Word == 0 .. WordBits - 1

\* The powers of two.
Power2[n \in Nat] == IF n = 0 THEN 1 ELSE 2 * Power2[n - 1]

Values == 0 .. Power2[ValueBits] - 1

SignedValues == -Power2[ValueBits - 1] .. Power2[ValueBits - 1] - 1

Unsigned(v) == v % Power2[ValueBits]
Signed(v) == IF v >= Power2[ValueBits - 1] THEN v - Power2[ValueBits] ELSE v

Ones(value, width) == {b \in 0 .. width - 1 : (value \div Power2[b]) % 2 = 1}
Shifted(bits, lsb) == {lsb + b : b \in bits}
Mask(lsb, width) == lsb .. lsb + width - 1

FieldMask(field) == Mask(field.lsb, field.width)
Dynamic(fields) == UNION {FieldMask(fields[n]) : n \in DOMAIN fields}

Larger(a, b) == IF a >= b THEN a ELSE b
Smaller(a, b) == IF a <= b THEN a ELSE b

-----------------------------------------------------------------------------
(* What a generated function computes from its arguments. *)

\* Mutant of OptionIndex: a value that is not among the options has the first index.
OptionIndexOrFirst(v, options) ==
    IF \E n \in DOMAIN options : Unsigned(options[n]) = v
    THEN (CHOOSE n \in DOMAIN options : Unsigned(options[n]) = v) - 1 ELSE 0

\* a64_option_index: the assertion refuses a value that is not among the options.
OptionIndex(v, options) ==
    IF \E n \in DOMAIN options : Unsigned(options[n]) = v
    THEN (CHOOSE n \in DOMAIN options : Unsigned(options[n]) = v) - 1 ELSE None

\* value_expr before the mask: an operand as the field encodes it.
Transformed(field, args) ==
    LET v == args[field.operand]
        of == field.by.of
    IN  CASE field.by.kind = "plain"      -> v
          [] field.by.kind = "subone"     -> Unsigned(Power2[of] - v)
          [] field.by.kind = "slice"      -> v \div Power2[of]
          [] field.by.kind = "lookup"     -> OptionIndex(v, of)
          [] field.by.kind = "xor"        -> IF v % 2 = 0 THEN v + 1 ELSE v - 1
          [] field.by.kind = "bias"       -> Unsigned(v - of)
          [] field.by.kind = "negate"     -> Unsigned(-v)
          [] field.by.kind = "complement" -> Unsigned(-v - 1)
          [] field.by.kind = "sum"        -> Unsigned(args[of] + v - 1)

\* The expression the function returns.
Emit(form, args) ==
    form.word \cup UNION {Shifted(Ones(Transformed(f, args), f.width), f.lsb) : f \in Range(form.fields)}

\* Mutant of InRange: a range with a negative lower bound is written like any other.
InRangeOnce(op, v) ==
    (op.min # None => v >= Unsigned(op.min)) /\ (op.max # None => v <= Unsigned(op.max))

\* Values and the literals they are compared with are unsigned words: a range
\* with a negative lower bound is two.
InRange(op, v) ==
    LET low  == IF op.min = None THEN 0 ELSE op.min
        high == IF op.max = None THEN -1 ELSE op.max
    IN  IF low < 0 /\ 0 <= high
        THEN v >= Unsigned(op.min) \/ v <= op.max
        ELSE (op.min # None => v >= Unsigned(op.min)) /\ (op.max # None => v <= Unsigned(op.max))

\* The condition of one operand in the selector of a form.
AcceptsOperand(op, v) ==
    IF op.literal # None THEN v = op.literal
    ELSE /\ InRange(op, v)
         /\ op.allowed # None => \E n \in DOMAIN op.allowed : v = Unsigned(op.allowed[n])
         /\ v % op.multiple = 0

Satisfies(constraint, args) ==
    LET left == args[constraint.left]
        right == args[constraint.right]
    IN  CASE constraint.kind = "next" -> left = Unsigned(right + 1)
          [] constraint.kind = "sum"  -> Unsigned(left + right) <= constraint.most

Arguments(form) == [DOMAIN form.operands -> Values]

\* The arguments the selector of a form accepts.
Accepted(form) ==
    {args \in Arguments(form) :
       /\ \A n \in DOMAIN args : AcceptsOperand(form.operands[n], args[n])
       /\ \A c \in Range(form.constraints) : Satisfies(c, args)}

\* What the generated function returns, None for an assertion that fails.
Answer(form, args) ==
    IF args \in Accepted(form) /\ \A f \in Range(form.fields) : Transformed(f, args) # None
    THEN Emit(form, args) ELSE None

-----------------------------------------------------------------------------
(* What the generators check before they write anything. *)

FieldInWord(form, field) ==
    /\ field.operand \in DOMAIN form.operands
    /\ field.width \in 1 .. MaxFieldWidth
    /\ field.lsb \in 0 .. WordBits - field.width

\* The part of validate that looks at one form.
Valid(form) ==
    /\ form.word \subseteq Word
    /\ form.word \cap form.fixed = form.ones
    /\ \A n \in DOMAIN form.fields :
         /\ FieldInWord(form, form.fields[n])
         /\ FieldMask(form.fields[n]) \cap (form.word \cup form.fixed) = {}
         /\ \A m \in 1 .. n - 1 : FieldMask(form.fields[n]) \cap FieldMask(form.fields[m]) = {}
    /\ Len(form.operands) <= MaxArity

\* validate_e5: any arity, but no constraint compile_form can put.
ValidE5(form) ==
    /\ form.word \subseteq Word
    /\ form.word \cap form.fixed = form.ones
    /\ \A n \in DOMAIN form.fields :
         /\ FieldInWord(form, form.fields[n])
         /\ FieldMask(form.fields[n]) \cap (form.word \cup form.fixed) = {}
         /\ \A m \in 1 .. n - 1 : FieldMask(form.fields[n]) \cap FieldMask(form.fields[m]) = {}
    /\ form.constraints = <<>>

-----------------------------------------------------------------------------
(* generate_a64_e5.py has its own value_expr and writes its own selectors. *)

\* The transforms its value_expr knows; it stops at any other.
KnownToE5(form) ==
    \A f \in Range(form.fields) :
      f.by.kind \in {"plain", "subone", "slice", "lookup", "xor", "bias", "negate", "complement"}

TransformedE5(field, args) ==
    LET v == args[field.operand]
        of == field.by.of
    IN  CASE field.by.kind = "plain"      -> v
          [] field.by.kind = "subone"     -> Unsigned(Power2[of] - v)
          [] field.by.kind = "slice"      -> v \div Power2[of]
          [] field.by.kind = "lookup"     -> OptionIndex(v, of)
          [] field.by.kind = "xor"        -> IF v % 2 = 0 THEN v + 1 ELSE v - 1
          [] field.by.kind = "bias"       -> Unsigned(v - of)
          [] field.by.kind = "negate"     -> Unsigned(-v)
          [] field.by.kind = "complement" -> Unsigned(-v - 1)

\* Its selector asks for no list of allowed values.
AcceptsOperandE5(op, v) ==
    IF op.literal # None THEN v = op.literal ELSE InRange(op, v) /\ v % op.multiple = 0

AcceptedE5(form) ==
    {args \in Arguments(form) :
       /\ \A n \in DOMAIN args : AcceptsOperandE5(form.operands[n], args[n])
       /\ \A c \in Range(form.constraints) : Satisfies(c, args)}

\* What the function it writes returns.
AnswerE5(form, args) ==
    IF args \in AcceptedE5(form) /\ \A f \in Range(form.fields) : TransformedE5(f, args) # None
    THEN form.word \cup UNION {Shifted(Ones(TransformedE5(f, args), f.width), f.lsb) : f \in Range(form.fields)}
    ELSE None
=============================================================================
