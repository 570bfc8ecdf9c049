---------------------------- MODULE MCArm64Tools ----------------------------
(***************************************************************************)
(* tools/arm64 for TLC: the constants of Arm64Tools.                       *)
(***************************************************************************)
EXTENDS Arm64Tools

MCInventoryFiles == <<"inventory.json", "rules.json", "summary.json">>

-----------------------------------------------------------------------------
(* FormCompiler: a word of six bits, of which an encoding leaves four or   *)
(* five open; values of four bits; registers and conditions of two.        *)

Encoding(fixed, ones, row, rowOnes, zeros) ==
    [fixed |-> fixed, ones |-> ones, row |-> row, rowOnes |-> rowOnes, zeros |-> zeros]

MCEncodings ==
    { Encoding({5}, {5}, {4}, {}, {}),
      Encoding({5}, {}, {4, 5}, {4}, {3}),
      Encoding({5}, {5}, {5}, {}, {}) }

Operand(kind) ==
    [kind |-> kind, literal |-> None, min |-> None, max |-> None, multiple |-> 1,
     allowed |-> None, default |-> None]

Register4 == [Operand("reg") EXCEPT !.min = 0, !.max = 2]

MCShapes ==
    { <<Operand("imm")>>,
      <<Operand("reg"), Operand("imm")>>,
      <<[Operand("imm") EXCEPT !.literal = 0], Register4>>,
      <<Operand("imm"), Operand("imm")>>,
      <<Operand("cond")>>,
      <<Operand("imm"), [Operand("lsl") EXCEPT !.default = 0]>> }

Cmd(name, at, width) ==
    [name |-> name, at |-> at, width |-> width, value |-> 0, low |-> 0, high |-> 0, shift |-> 0,
     multiple |-> 1, places |-> <<>>, options |-> <<>>, rest |-> 0]

Ubits == {Cmd("Ubits", 0, 2), Cmd("Ubits", 2, 2), Cmd("Ubits", 0, 4)}
Registers == {Cmd("R", 0, 0), Cmd("R4", 2, 0), Cmd("RNoZr", 2, 0), Cmd("REven", 2, 0)}
Conditions == {Cmd("Cond", 0, 0), Cmd("InvCond", 2, 0)}
Statics == {[Cmd("Static", 3, 2) EXCEPT !.value = v] : v \in 0 .. 2}
             \cup {[Cmd("Static", 2, 2) EXCEPT !.value = 0]} \cup {Cmd("Rotates", 0, 2)}
Signs == {Cmd("Sbits", 0, 3), [Cmd("Sscaled", 2, 2) EXCEPT !.shift = 1],
          [Cmd("Uscaled", 0, 2) EXCEPT !.shift = 1], [Cmd("Offset", 3, 3) EXCEPT !.rest = 0]}
Lists == {[Cmd("Ulist", 2, 0) EXCEPT !.options = o] : o \in {<<0, 3, 1>>, <<2, 0>>}}
Biases == {[Cmd("Urange", 0, 0) EXCEPT !.low = -1, !.high = 2], Cmd("Usubmod", 2, 2),
           Cmd("Usubzero", 0, 2), Cmd("Usum", 2, 2), Cmd("Usubone", 0, 2)}
Scatter == {[Cmd("Ufields", 0, 0) EXCEPT !.places = p] : p \in {<<3, 0>>, <<2, 2>>}}
Slices == {[Cmd("Uslice", 0, 2) EXCEPT !.shift = 1], Cmd("Sslice", 3, 1), Cmd("Sslice", 6, 1)}
Checks == {[Cmd("CUrange", 0, 0) EXCEPT !.low = 1, !.high = 3],
           [Cmd("CSscaled", 0, 0) EXCEPT !.low = -4, !.high = 2, !.multiple = 2]}
Cursors == {Cmd("A", 0, 0), Cmd("C", 0, 0)}
Pairs == {Cmd("RNext", 0, 0), Cmd("CUSum", 0, 2)}

MCCommands == Ubits \cup Registers \cup Conditions \cup Statics \cup Signs \cup Lists
                   \cup Biases \cup Scatter \cup Slices \cup Checks \cup Cursors \cup Pairs

-----------------------------------------------------------------------------
(* FormSelection: forms of up to two operands.  The kinds are KINDS as far *)
(* as the first vector kinds, so that list counts and indices can be       *)
(* confused.                                                               *)

SelectionKinds == <<"imm", "cond", "w", "x", "b", "h", "s", "d">>

Taking(kind, list) == [kind |-> kind, list |-> list]

SelectionShapes == {<<Taking("imm", 0)>>, <<Taking("cond", 0)>>, <<Taking("imm", 1)>>, <<Taking("imm", 0), Taking("imm", 0)>>}

Entry(family, kinds, low, high, multiple, of) ==
    [family |-> family, kinds |-> kinds, low |-> low, high |-> high, multiple |-> multiple, word |-> of]

SelectionForms ==
    {Entry("plain", k, 0, 2, 1, "w1") : k \in SelectionShapes}
      \cup {Entry("addsub_ext", <<Taking("imm", 0)>>, 0, 3, 1, "w2"),
            Entry("movn", <<Taking("imm", 0)>>, 1, 4, 1, "w3"),
            Entry("orr_imm", <<Taking("imm", 0)>>, 0, 5, 1, "w4"),
            Entry("plain", <<Taking("imm", 0)>>, 0, 4, 2, "w1"),
            Entry("plain", <<Taking("imm", 0)>>, 0, 2, 1, "w5"),
            Entry("alias", <<Taking("imm", 0)>>, 0, 2, 1, "w1"),
            Entry("movn", <<Taking("cond", 0)>>, 0, 2, 1, "w6")}

SelectionValues == 0 .. 6

-----------------------------------------------------------------------------
(* Conversion: three encodings of two records; three XML entries are       *)
(* expected.                                                               *)

BatchRecords == [e \in {"ADD_32", "ADD_64", "LDR"} |-> IF e = "LDR" THEN "ldr" ELSE "add"]

Offers(alts) == [forget |-> FALSE, alternatives |-> alts]
Forget == [forget |-> TRUE, alternatives |-> <<>>]
Nothing == [t \in {"source", "named", "scalar", "memory", "compatible", "extension", "modern", "e5"} |-> NoRule]

Fine == Offers(<<"ok">>)
Partial == Offers(<<"ok", "fails">>)
Broken == Offers(<<"fails">>)
Alternatives == Offers(<<"unselected", "ok">>)

RuleTables ==
    { Nothing,
      [Nothing EXCEPT !.source = Fine, !.e5 = Fine],
      [Nothing EXCEPT !.source = Forget, !.memory = Alternatives, !.e5 = Fine],
      [Nothing EXCEPT !.scalar = Partial, !.compatible = Fine, !.e5 = Broken],
      [Nothing EXCEPT !.named = Alternatives, !.extension = Offers(<<"unselected">>), !.modern = Fine, !.e5 = Fine] }

BatchRows ==
    {[encoding |-> e, conflict |-> FALSE, rules |-> t] : e \in DOMAIN BatchRecords, t \in RuleTables}
      \cup {[encoding |-> "LDR", conflict |-> TRUE, rules |-> Nothing]}

-----------------------------------------------------------------------------
(* Inventory: words of four bits.  One set of nodes varies the fields, the *)
(* other the conditions and operations.                                    *)

Expr(op, name, left, right) ==
    [op |-> op, name |-> name, left |-> left, right |-> right, parts |-> {}]
Other(parts) == [Expr("other", Absent, Absent, Absent) EXCEPT !.parts = parts]
T == Expr("true", Absent, Absent, Absent)
A == Expr("feature", "FEAT_A", Absent, Absent)
B == Expr("feature", "FEAT_B", Absent, Absent)
Unknown == Expr("feature", "FEAT_C", Absent, Absent)
O == Other({B})
Stray == Other({Unknown})
NotB == Expr("not", Absent, B, Absent)
NotO == Expr("not", Absent, O, Absent)
BorO == Expr("or", Absent, B, O)
OandB == Expr("and", Absent, O, B)
NotOandB == Expr("not", Absent, OandB, Absent)

TreeConditions == {T, A, B, Unknown, O, Stray, NotB, NotO, BorO, OandB, NotOandB}
TreeDepth == [e \in TreeConditions |->
                CASE e \in {O, Stray} -> 1 [] e \in {NotB, NotO, BorO, OandB} -> 2
                  [] e = NotOandB -> 3 [] OTHER -> 0]
TreeOperations == [n \in {"op", "alias", "other", "loop"} |->
                   CASE n = "alias" -> [alias |-> TRUE, to |-> "op"]
                     [] n = "loop"  -> [alias |-> TRUE, to |-> "loop"]
                     [] OTHER       -> [alias |-> FALSE, to |-> Absent]]
TreeGroups == [n \in {"dp", "sve"} |-> IF n = "dp" THEN "regular" ELSE "scalable"]

\* A field named by its value, lowest bit first, with the preferred ones.
TreeField(name, start, value, preferred) ==
    [name |-> name, start |-> start, width |-> Len(value), value |-> value,
     should |-> [n \in DOMAIN value |-> n \in preferred]]

Varies(n) == [m \in 1 .. n |-> "x"]

FieldLists ==
    { <<>>,
      <<TreeField("opc", 2, <<"1", "0">>, {})>>,
      <<TreeField("Rd", 0, Varies(4), {})>>,
      <<TreeField("size", 1, <<"0", "x">>, {})>>,
      <<TreeField("size", 1, <<"0", "1">>, {1})>>,
      <<TreeField("op", 2, <<"0">>, {1}), TreeField("Rn", 0, Varies(1), {})>>,
      <<TreeField("opc", 2, <<"1">>, {}), TreeField("Rm", 2, Varies(2), {})>> }

Node(kind, name, holds, condition, operation) ==
    [kind |-> kind, name |-> name, encoding |-> holds, condition |-> condition, operation |-> operation]

MCFieldNodes ==
    {Node("InstructionGroup", "dp", e, T, Absent) : e \in FieldLists}
      \cup {Node("Instruction", n, e, T, "op") : n \in {"add", "sub"}, e \in FieldLists}
      \cup {Node("InstructionAlias", "mov", <<>>, T, Absent)}

MCConditionNodes ==
    {Node("InstructionGroup", g, <<>>, c, Absent) : g \in {"dp", "sve"}, c \in {T, NotO}}
      \cup {Node("Instruction", n, <<>>, c, "op") : n \in {"add", "sub"}, c \in TreeConditions}
      \cup {Node("InstructionAlias", "mov", <<>>, c, o) :
              c \in {T, OandB}, o \in {Absent, "alias", "other", "loop", "none"}}

\* The instruction set fixes no bit but covers one, and is always there.
MCRoot == Node("InstructionSet", "A64", <<TreeField("op0", 3, Varies(1), {})>>, T, Absent)

TreeNodes == MCFieldNodes \cup MCConditionNodes \cup {MCRoot}
=============================================================================
