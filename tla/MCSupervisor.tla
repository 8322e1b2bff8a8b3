---------------------------- MODULE MCSupervisor ----------------------------
(* TLC instances of the supervisor: two or three supervisor processes, two *)
(* or three invocations of the operator.                                   *)
EXTENDS Supervisor, TLC

CONSTANTS p1, p2, p3, c1, c2, c3

TwoCallers   == {c1, c2}
TwoSups      == {p1, p2}
ThreeSups    == {p1, p2, p3}
ThreeCallers == {c1, c2, c3}

Symmetry == Permutations(ThreeSups) \union Permutations(ThreeCallers)
=============================================================================
