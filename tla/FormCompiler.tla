---------------------------- MODULE FormCompiler ----------------------------
(***************************************************************************)
(* compile_form of tools/arm64/normalize_a64.py: the commands of a         *)
(* translation rule assign bits of the instruction word, to constants or   *)
(* to operands, one after another.  owners are the bits assigned so far,   *)
(* cursor is the next operand a command takes.  Every rule is tried: any   *)
(* sequence of MaxCommands commands on any shape of operands and any       *)
(* encoding.  A require that fails ends the rule (status "refused").       *)
(***************************************************************************)
EXTENDS FormWords

CONSTANTS
    RegBits,        \* bits of a register field (5)
    CondBits,       \* bits of a condition field (4)
    Encodings,      \* [fixed, ones, row, rowOnes, zeros]: JSON masks, XML bits, late zeros
    Shapes,         \* operand sequences
    Commands,       \* what a rule may say
    MaxCommands     \* bound: commands of a rule

VARIABLES
    encoding, operands, word, owners, fields, constraints, cursor, done, status

vars == <<encoding, operands, word, owners, fields, constraints, cursor, done, status>>

Form == [word |-> word, fields |-> fields, operands |-> operands,
         constraints |-> constraints, fixed |-> encoding.fixed, ones |-> encoding.ones]

\* The operands commands walk over: those that are not literal; FlatTo has
\* those among the first n, for every n.
FlatTo(ops) ==
    LET at[n \in 0 .. Len(ops)] ==
          IF n = 0 THEN <<>>
          ELSE IF ops[n].literal = None THEN Append(at[n - 1], n) ELSE at[n - 1]
    IN  at

Flat(ops) == FlatTo(ops)[Len(ops)]
Current == Flat(operands)[cursor + 1]
HasCurrent == cursor < Len(Flat(operands))

\* flat[cursor - 1]: before the first operand that is the last one.
Previous == IF cursor > 0 THEN Flat(operands)[cursor] ELSE Last(Flat(operands))

Kinds == {"reg", "cond", "imm", "target", "lsl", "lsr", "asr", "ror"}
Modifiers == <<"lsl", "lsr", "asr", "ror">>
ImmediateKinds == Kinds \ {"reg", "cond"}

-----------------------------------------------------------------------------
(* insert and constrain *)

InWord(lsb, width) == width > 0 /\ lsb >= 0 /\ lsb + width <= WordBits

\* insert with a value, which has no more than width bits: a zero may be put on
\* a dynamic field, nothing else may change a bit that is assigned.
StaticFits(lsb, width, value, ones) ==
    /\ InWord(lsb, width)
    /\ value \in 0 .. Power2[width] - 1
    /\ ones \cap Dynamic(fields) = {}
    /\ \A b \in Mask(lsb, width) \cap (owners \ Dynamic(fields)) : b \in word <=> b \in ones

InsertStatic(lsb, width, ones) ==
    /\ word' = word \cup ones
    /\ owners' = owners \cup Mask(lsb, width)
    /\ UNCHANGED fields

\* Mutant of FieldsFit: the fields of one command are only compared with what
\* was assigned before it.
FieldsFitApart(new) ==
    \A n \in DOMAIN new : InWord(new[n].lsb, new[n].width) /\ FieldMask(new[n]) \cap owners = {}

\* insert without a value, once or several times.
FieldsFit(new) ==
    /\ \A n \in DOMAIN new : InWord(new[n].lsb, new[n].width) /\ FieldMask(new[n]) \cap owners = {}
    /\ \A m, n \in DOMAIN new : m # n => FieldMask(new[m]) \cap FieldMask(new[n]) = {}

InsertFields(new) ==
    /\ fields' = fields \o new
    /\ owners' = owners \cup Dynamic(new)
    /\ UNCHANGED word

Field(operand, lsb, width, kind, of) ==
    [operand |-> operand, lsb |-> lsb, width |-> width, by |-> [kind |-> kind, of |-> of]]

\* constrain: ranges only get narrower.
Constrained(op, low, high) ==
    [op EXCEPT !.min = IF @ = None THEN low ELSE Larger(low, @),
               !.max = IF @ = None THEN high ELSE Smaller(high, @)]

Inhabited(op) == op.min <= op.max

-----------------------------------------------------------------------------
(* Commands.  A command is [name, at, width, ...]; Takes says what an       *)
(* operand command makes of the operand at the cursor: its new bounds and   *)
(* the fields that encode it.                                               *)

BitLength(n) == CHOOSE w \in 0 .. ValueBits : Power2[w] > n /\ (w = 0 \/ Power2[w - 1] <= n)

\* R, R4, REven, RNoZr
Register(c) ==
    [kinds |-> Kinds \ {"imm", "cond"}, low |-> 0,
     high |-> IF c.name = "RNoZr" THEN Power2[RegBits] - 2
              ELSE IF c.name = "R4" THEN Power2[RegBits - 1] - 1 ELSE Power2[RegBits] - 1,
     multiple |-> IF c.name = "REven" THEN 2 ELSE None, allowed |-> None,
     fields |-> <<Field(Current, c.at, IF c.name = "R4" THEN RegBits - 1 ELSE RegBits, "plain", 0)>>]

\* Cond, InvCond: AL and NV have no inverse.
Condition(c) ==
    [kinds |-> {"cond"}, low |-> 0,
     high |-> IF c.name = "InvCond" THEN Power2[CondBits] - 3 ELSE Power2[CondBits] - 1,
     multiple |-> None, allowed |-> None,
     fields |-> <<Field(Current, c.at, CondBits, IF c.name = "InvCond" THEN "xor" ELSE "plain", 1)>>]

Immediate(low, high, multiple, allowed, new) ==
    [kinds |-> ImmediateKinds, low |-> low, high |-> high, multiple |-> multiple,
     allowed |-> allowed, fields |-> new]

\* Urange, Usubmod, Usubzero, Usum
Biased(c) ==
    IF c.name = "Urange"
    THEN Immediate(c.low, c.high, None, None,
                   <<Field(Current, c.at, BitLength(c.high - c.low), "bias", c.low)>>)
    ELSE IF c.name = "Usum"
    THEN Immediate(1, Power2[c.width], None, None,
                   <<Field(Current, c.at, c.width, "sum", Previous)>>)
    ELSE Immediate(0, Power2[c.width] - 1, None, None,
                   <<Field(Current, c.at, c.width,
                           IF c.name = "Usubmod" THEN "negate" ELSE "complement", 0)>>)

\* Mutant of Scaled: the range of a signed field is one too wide.
ScaledWide(c) ==
    LET signed == c.name # "Uscaled"
    IN  Immediate(IF signed THEN -(Power2[c.width - 1 + c.shift]) ELSE 0,
                  Power2[IF signed THEN c.width - 1 ELSE c.width] * Power2[c.shift],
                  Power2[c.shift], None,
                  <<Field(Current, c.at, c.width, "slice", c.shift)>>)

\* Sbits, Sscaled, Uscaled
Scaled(c) ==
    LET signed == c.name # "Uscaled"
    IN  Immediate(IF signed THEN -(Power2[c.width - 1 + c.shift]) ELSE 0,
                  (Power2[IF signed THEN c.width - 1 ELSE c.width] - 1) * Power2[c.shift],
                  Power2[c.shift], None,
                  <<Field(Current, c.at, c.width, "slice", c.shift)>>)

\* Offset to ADR: the two low bits lie apart from the rest.
Address(c) ==
    Immediate(-(Power2[c.width - 1]), Power2[c.width - 1] - 1, 1, None,
              <<Field(Current, c.at, 1, "slice", 0), Field(Current, c.rest, c.width - 1, "slice", 1)>>)

\* Ubits, Usubone
Counted(c) ==
    IF c.name = "Ubits"
    THEN Immediate(0, Power2[c.width] - 1, None, None, <<Field(Current, c.at, c.width, "plain", 0)>>)
    ELSE Immediate(1, Power2[c.width], None, None, <<Field(Current, c.at, c.width, "subone", c.width)>>)

\* Ufields: the first bit named is the highest of the operand.
Scattered(c) ==
    LET places == Reverse(c.places)
    IN  Immediate(0, Power2[Len(places)] - 1, None, None,
                  [n \in DOMAIN places |-> Field(Current, places[n], 1, "slice", n - 1)])

\* Ulist: the index of the value in a list of options.
Listed(c) ==
    LET options == c.options
        least == CHOOSE v \in Range(options) : \A w \in Range(options) : v <= w
        most  == CHOOSE v \in Range(options) : \A w \in Range(options) : w <= v
    IN  Immediate(least, most, None, options,
                  <<Field(Current, c.at, Larger(1, BitLength(Len(options) - 1)), "lookup", options)>>)

Takes(c) ==
    CASE c.name \in {"R", "R4", "REven", "RNoZr"}                -> Register(c)
      [] c.name \in {"Cond", "InvCond"}                          -> Condition(c)
      [] c.name \in {"Urange", "Usubmod", "Usubzero", "Usum"}    -> Biased(c)
      [] c.name \in {"Sbits", "Sscaled", "Uscaled"}              -> Scaled(c)
      [] c.name = "Offset"                                       -> Address(c)
      [] c.name \in {"Ubits", "Usubone"}                         -> Counted(c)
      [] c.name = "Ufields"                                      -> Scattered(c)
      [] c.name = "Ulist"                                        -> Listed(c)

OperandCommands ==
    {"R", "R4", "REven", "RNoZr", "Cond", "InvCond", "Urange", "Usubmod", "Usubzero", "Usum",
     "Sbits", "Sscaled", "Uscaled", "Offset", "Ubits", "Usubone", "Ufields", "Ulist"}
StaticCommands == {"Static", "Rotates"}
CursorCommands == {"A", "C"}
CheckCommands == {"CUrange", "CSscaled"}
SliceCommands == {"Uslice", "Sslice"}
PairCommands == {"RNext", "CUSum"}

\* What the data and the rules are known to keep to: the bits that are one lie
\* in their masks, neither operands nor fields are more or wider than the
\* generators take, and numbers are signed values: those a matcher and a command
\* name, and those a command makes of widths and shifts.
ASSUME MaskAssumption ==
    \A e \in Encodings :
      /\ e.fixed \subseteq Word /\ e.row \subseteq Word
      /\ e.ones \subseteq e.fixed /\ e.rowOnes \subseteq e.row

\* What operand_shapes makes of a matcher.
OperandShapes ==
    [kind : Kinds, literal : Int \cup {None}, min : Int \cup {None}, max : Int \cup {None},
     multiple : {1}, allowed : {None}, default : {0, None}]

ASSUME ShapeAssumption ==
    \A s \in Shapes :
      /\ s \in Seq(Range(s)) /\ Len(s) <= MaxArity
      /\ \A op \in Range(s) :
           /\ op \in OperandShapes
           /\ {op.min, op.max} \subseteq SignedValues \cup {None}
           /\ op.min # None => op.max # None /\ op.min <= op.max

ASSUME CommandAssumption ==
    /\ MaxFieldWidth >= 1 /\ RegBits \in 1 .. MaxFieldWidth /\ CondBits \in 1 .. MaxFieldWidth
    /\ \A c \in Commands :
         /\ c.at \in Int /\ c.rest \in Int /\ c.width \in Int /\ c.places \in Seq(Int)
         /\ c.name \notin StaticCommands => c.width <= MaxFieldWidth
         /\ c.name = "Urange" => BitLength(c.high - c.low) \in 0 .. MaxFieldWidth
         /\ c.name = "Ulist" => BitLength(Len(c.options) - 1) \in 0 .. MaxFieldWidth

ASSUME ValueAssumption ==
    \A c \in Commands :
      /\ c.name \in CheckCommands \cup {"Urange"} => {c.low, c.high} \subseteq SignedValues
      /\ c.name = "CSscaled" => \E k \in 0 .. ValueBits : c.multiple = Power2[k]
      /\ c.name \in {"Sbits", "Sscaled", "Uscaled"} => c.shift \in Nat /\ c.width + c.shift <= ValueBits
      /\ c.name \in {"Usubone", "Usum"} => c.width < ValueBits
      /\ c.name = "Ufields" => Len(c.places) <= MaxFieldWidth
      /\ c.name = "Ulist" =>
           /\ c.options \in Seq(SignedValues) /\ c.options # <<>>
           /\ \A m, n \in DOMAIN c.options : c.options[m] = c.options[n] => m = n

-----------------------------------------------------------------------------
Refuse ==
    /\ status' = "refused"
    /\ UNCHANGED <<encoding, operands, word, owners, fields, constraints, cursor>>

Begin(c) ==
    /\ status = "rule"
    /\ done < MaxCommands
    /\ done' = done + 1

\* Static and Rotates (whose value is the place of the modifier's kind).
StaticCommand(c) ==
    LET modifier == c.name = "Rotates"
        value == IF modifier THEN CHOOSE n \in 0 .. 3 : Modifiers[n + 1] = operands[Current].kind
                 ELSE c.value
        ones == Shifted(Ones(value, c.width), c.at)
    IN  /\ c.name \in StaticCommands
        /\ Begin(c)
        /\ IF /\ modifier => HasCurrent /\ operands[Current].kind \in Range(Modifiers)
              /\ StaticFits(c.at, c.width, value, ones)
           THEN /\ InsertStatic(c.at, c.width, ones)
                /\ UNCHANGED <<encoding, operands, constraints, cursor, status>>
           ELSE Refuse

\* A and C move the cursor.
CursorCommand(c) ==
    /\ c.name \in CursorCommands
    /\ Begin(c)
    /\ IF c.name = "A" /\ HasCurrent
       THEN cursor' = cursor + 1 /\ UNCHANGED <<encoding, operands, word, owners, fields, constraints, status>>
       ELSE IF c.name = "C" /\ cursor > 0
       THEN cursor' = cursor - 1 /\ UNCHANGED <<encoding, operands, word, owners, fields, constraints, status>>
       ELSE Refuse

\* CUbits, CUrange and CSscaled narrow the operand without encoding it.
CheckCommand(c) ==
    LET op == Constrained(operands[Current], c.low, c.high)
    IN  /\ c.name \in CheckCommands
        /\ Begin(c)
        /\ IF HasCurrent /\ Inhabited(op)
           THEN /\ operands' = [operands EXCEPT ![Current] =
                                  IF c.name = "CSscaled" THEN [op EXCEPT !.multiple = c.multiple] ELSE op]
                /\ UNCHANGED <<encoding, word, owners, fields, constraints, cursor, status>>
           ELSE Refuse

\* Uslice and Sslice encode a part of the operand and leave the cursor.
SliceCommand(c) ==
    LET new == <<Field(Current, c.at, c.width, "slice", c.shift)>>
    IN  /\ c.name \in SliceCommands
        /\ Begin(c)
        /\ IF /\ HasCurrent
              /\ c.name = "Uslice" => operands[Current].kind \in ImmediateKinds
              /\ FieldsFit(new)
           THEN InsertFields(new) /\ UNCHANGED <<encoding, operands, constraints, cursor, status>>
           ELSE Refuse

\* RNext and CUSum relate the operand to the one before it.
PairCommand(c) ==
    LET op == Constrained(operands[Current], 0, Power2[RegBits] - 1)
        next == c.name = "RNext"
    IN  /\ c.name \in PairCommands
        /\ Begin(c)
        /\ IF HasCurrent /\ (next => Inhabited(op))
           THEN /\ operands' = IF next THEN [operands EXCEPT ![Current] = op] ELSE operands
                /\ constraints' = Append(constraints,
                      IF next THEN [kind |-> "next", left |-> Current, right |-> Previous, most |-> 0]
                      ELSE [kind |-> "sum", left |-> Previous, right |-> Current, most |-> Power2[c.width]])
                /\ cursor' = IF next THEN cursor + 1 ELSE cursor
                /\ UNCHANGED <<encoding, word, owners, fields, status>>
           ELSE Refuse

\* The commands that encode the whole operand and step to the next one.
OperandCommand(c) ==
    LET t == Takes(c)
        op == Constrained(operands[Current], t.low, t.high)
    IN  /\ c.name \in OperandCommands
        /\ Begin(c)
        /\ IF /\ HasCurrent
              /\ operands[Current].kind \in t.kinds
              /\ Inhabited(op)
              /\ FieldsFit(t.fields)
           THEN /\ operands' = [operands EXCEPT ![Current] =
                      [op EXCEPT !.multiple = IF t.multiple = None THEN @ ELSE t.multiple,
                                 !.allowed = IF t.allowed = None THEN @ ELSE t.allowed]]
                /\ InsertFields(t.fields)
                /\ constraints' = IF c.name # "Usum" THEN constraints
                                  ELSE Append(constraints, [kind |-> "sum", left |-> Previous,
                                                            right |-> Current, most |-> Power2[c.width]])
                /\ cursor' = cursor + 1
                /\ UNCHANGED <<encoding, status>>
           ELSE Refuse

\* The end of the rule: every operand is consumed, bits the encoding demands
\* to be zero are taken if nobody owns them, and no bit is left unassigned.
Finish ==
    LET late == encoding.zeros \ owners
    IN  /\ status = "rule"
        /\ done' = done
        /\ IF cursor = Len(Flat(operands)) /\ owners \cup late = Word
           THEN /\ owners' = owners \cup late
                /\ status' = "compiled"
                /\ UNCHANGED <<encoding, operands, word, fields, constraints, cursor>>
           ELSE Refuse

-----------------------------------------------------------------------------
(* Forms whose last operand may be left out, as normalize appends them. *)

HasDefault(form) == form.operands # <<>> /\ Last(form.operands).default = 0

DefaultFields(form) == {f \in Range(form.fields) : f.operand = Len(form.operands)}

\* The require that refuses a default whose option list begins with something else.
DefaultIsZero(form) ==
    \A f \in DefaultFields(form) : f.by.kind = "lookup" => Head(f.by.of) = 0

\* The form without it keeps the fields of the other operands, each at its place.
ShortForm(form) ==
    [form EXCEPT !.operands = Front(@),
                 !.fields = Restrict(@, {n \in DOMAIN @ : @[n].operand # Len(form.operands)})]

-----------------------------------------------------------------------------
\* The masks of the inventory and the bits of the diagram come first; a
\* diagram that contradicts the masks is refused before a rule is read.
Init ==
    /\ encoding \in Encodings
    /\ operands \in Shapes
    /\ word = encoding.ones \cup encoding.rowOnes
    /\ owners = encoding.fixed \cup encoding.row
    /\ fields = <<>> /\ constraints = <<>> /\ cursor = 0 /\ done = 0
    /\ status = IF \A b \in encoding.fixed \cap encoding.row : b \in encoding.ones <=> b \in encoding.rowOnes
                THEN "rule" ELSE "refused"

Command(c) ==
    \/ StaticCommand(c) \/ CursorCommand(c) \/ CheckCommand(c)
    \/ SliceCommand(c) \/ PairCommand(c) \/ OperandCommand(c)

Next == (\E c \in Commands : Command(c)) \/ Finish

Spec == Init /\ [][Next]_vars

\* The rules that leave no operand out, encode none in pieces of its own and
\* begin with none that is related to the one before it.
WholeCommands == {c \in Commands : c.name \notin SliceCommands \cup {"A"}}

WholeNext ==
    \/ \E c \in WholeCommands : (c.name \in {"RNext", "Usum"} => cursor > 0) /\ Command(c)
    \/ Finish

WholeSpec == Init /\ [][WholeNext]_vars

-----------------------------------------------------------------------------
TypeOK ==
    /\ encoding \in Encodings
    /\ word \subseteq Word /\ owners \subseteq Word
    /\ \A n \in DOMAIN fields : fields[n].operand \in DOMAIN operands
    /\ cursor \in 0 .. Len(operands)
    /\ status \in {"rule", "refused", "compiled"}

Compiled == status = "compiled"

\* Whatever the rule, a form compile_form returns is one the generator takes:
\* its fields lie in the word, apart from each other and from every bit that
\* is fixed or one.  The two programs state this separately.
CompiledFormsAreValid == Compiled => Valid(Form)

\* No operand value the generated function accepts changes a bit the
\* architecture fixes, prefers, or shows in its diagram.
FixedBitsSurvive ==
    Compiled =>
      \A args \in Accepted(Form) :
        Emit(Form, args) \cap (encoding.fixed \cup encoding.row) = encoding.ones \cup encoding.rowOnes

\* A generated function emits a different word for each list of operands it
\* accepts, as long as the rule encodes every operand: ranges, multiples and
\* option lists are exactly what the transform of the field can tell apart.
OperandsAreEncodedUniquely ==
    Compiled =>
      Cardinality({Emit(Form, args) : args \in Accepted(Form)}) = Cardinality(Accepted(Form))

\* The unsigned conditions of the generated function accept exactly the
\* signed range that was compiled.
SelectorsAcceptTheRange ==
    Compiled =>
      \A op \in {o \in Range(operands) : o.literal = None /\ o.min # None /\ o.min < 0} :
        \A v \in Values :
          AcceptsOperand(op, v) <=>
            /\ Signed(v) \in op.min .. op.max
            /\ Signed(v) % op.multiple = 0
            /\ op.allowed # None => Signed(v) \in Range(op.allowed)

\* A form whose last operand may be left out emits, without it, the word it
\* emits for zero, as long as the rule encodes it by itself as it is,
\* scaled or by a list of options.
DefaultOperandIsZero ==
    (/\ Compiled /\ HasDefault(Form) /\ DefaultIsZero(Form)
     /\ \A f \in DefaultFields(Form) : f.by.kind \in {"plain", "slice", "lookup"}
     /\ \A f \in Range(fields) : f.by.kind # "sum")
    => \A args \in Accepted(Form) :
          args[Len(args)] = 0 => Emit(ShortForm(Form), Front(args)) = Emit(Form, args)

\* A compiled form that validate_e5 takes has no transform the E5 generator
\* stops at, and the two generators make one function of it: both answer the
\* same operands with the same word.  E5 asks for no list of options; that an
\* operand with such a list is always encoded by its index in that very list,
\* whatever commands follow, is what refuses the others.
GeneratorsAgree ==
    (Compiled /\ ValidE5(Form)) =>
      /\ KnownToE5(Form)
      /\ \A args \in Arguments(Form) : Answer(Form, args) = AnswerE5(Form, args)

\* A compiled form fits its word: it is one the generators take, and no operand
\* they accept changes a bit the architecture fixes (compile_form, validate and
\* the generated functions).
CompiledFormsFit == CompiledFormsAreValid /\ FixedBitsSurvive

\* A generated function tells its operands apart, and one that is left out is
\* one that is zero.
WordsTellOperandsApart == OperandsAreEncodedUniquely /\ DefaultOperandIsZero
=============================================================================
