----------------------------- MODULE MCAssembly -----------------------------
(***************************************************************************)
(* Values of the constants of Assembly for TLC.  The two-byte jump refers  *)
(* to L relative to the next instruction; "mov" holds the address of L.    *)
(***************************************************************************)
EXTENDS Assembly

MCEncoding ==
  [t \in Texts |-> CASE t = "nop" -> <<144>>
                     [] t = "jmp" -> <<235, 0>>
                     [] t = "mov" -> <<176, 0>>]
MCReferences ==
  [t \in Texts |->
     IF t = "nop" THEN {}
     ELSE {[label |-> "L", at |-> 1,
            kind |-> IF t = "jmp" THEN "pc_relative" ELSE "absolute"]}]
MCLabels == {"L"}
MCChunks == {<<17>>}
=============================================================================
