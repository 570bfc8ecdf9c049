----------------------------- MODULE MCLowering -----------------------------
(***************************************************************************)
(* Values of the constants of Lowering for TLC: a one-byte instruction, a  *)
(* two-byte jump to a label, one chunk of data, and sizes chosen so that   *)
(* an alignment is sometimes needed and sometimes already met.             *)
(***************************************************************************)
EXTENDS Lowering

MCTexts == {"nop", "jmp"}
MCEncoding == [t \in Texts |-> IF t = "nop" THEN <<144>> ELSE <<235, 0>>]
MCReferences ==
  [t \in Texts |->
     IF t = "nop" THEN {}
     ELSE {[label |-> "L", at |-> 1, kind |-> "pc_relative"]}]
MCLabels == {"L"}
MCChunks == {<<17>>}
=============================================================================
