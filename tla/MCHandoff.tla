----------------------------- MODULE MCHandoff -----------------------------
(* TLC instances of the handoff files: three instances of the operator in  *)
(* one project.                                                            *)
EXTENDS Handoff, TLC

CONSTANTS i1, i2, i3

Three    == {i1, i2, i3}
Symmetry == Permutations(Three)
=============================================================================
