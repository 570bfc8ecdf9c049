--------------------------- MODULE MCActivations ---------------------------
(***************************************************************************)
(* Source files; the model values are theirs.  All but the file given to   *)
(* the assembler are interchangeable.                                      *)
(***************************************************************************)
EXTENDS Activations

CONSTANTS a, b, c, d

Interchangeable == Permutations(Identities \ {Root})
=============================================================================
