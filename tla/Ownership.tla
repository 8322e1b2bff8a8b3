----------------------------- MODULE Ownership -----------------------------
(***************************************************************************)
(* What the claim store promises, without rows, revisions or clocks: a     *)
(* work item has at most one owner, an instance owns at most one item, and *)
(* ownership passes from one instance to another only in one step, with    *)
(* nobody else owning the item in between.                                 *)
(*                                                                         *)
(* work_claims.py, module docstring: "One work item, one owner" and "an    *)
(* agent holds at most one item at a time (spec D6)".                      *)
(***************************************************************************)

CONSTANTS
  Items,      \* the work items of one project
  Instances   \* the named operator instances working on it

VARIABLE
  holds       \* the set of <<item, instance>> pairs: who owns what

Unowned(item) == \A p \in holds : p[1] # item
Idle(inst)    == \A p \in holds : p[2] # inst

Init == holds = {}

Take(item, inst) ==
  /\ Unowned(item)
  /\ Idle(inst)
  /\ holds' = holds \union {<<item, inst>>}

Drop(item, inst) ==
  /\ <<item, inst>> \in holds
  /\ holds' = holds \ {<<item, inst>>}

Move(item, from, to) ==
  /\ <<item, from>> \in holds
  /\ Idle(to)
  /\ holds' = (holds \ {<<item, from>>}) \union {<<item, to>>}

Next ==
  \E item \in Items, inst \in Instances :
    \/ Take(item, inst)
    \/ Drop(item, inst)
    \/ \E to \in Instances : Move(item, inst, to)

Spec == Init /\ [][Next]_holds
=============================================================================
