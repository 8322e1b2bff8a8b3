----------------------------- MODULE WorkClaims -----------------------------
(***************************************************************************)
(* The claim store by itself (work_claims.py): any instance calls any      *)
(* operation of module ClaimTable at any time, with any arguments.         *)
(***************************************************************************)
EXTENDS ClaimTable

Init ==
  /\ table = {}
  /\ now = 0
  /\ seen = [i \in Instances |-> NoRow]

DoClaim(inst) ==
  /\ \E item \in Items, tree \in Worktrees, id \in Identities :
       ClaimItem(item, inst, tree, id, now)
  /\ UNCHANGED <<now, seen>>

DoHeartbeat(inst) ==
  /\ \E item \in Items : Heartbeat(item, inst, now)
  /\ UNCHANGED <<now, seen>>

DoRetain(inst) ==
  /\ \E item \in Items, stamp \in Times :
       /\ stamp <= now
       /\ Holds(inst, item)
       /\ Retain(item, inst, stamp)
  /\ UNCHANGED <<now, seen>>

DoRelease(inst) ==
  /\ \E item \in Items :
       /\ Holds(inst, item)
       /\ Release(item, inst)
  /\ UNCHANGED <<now, seen>>

(* claim_for_item(), as `operator work reclaim` reads it: an item held by  *)
(* another instance (one it holds itself is refused as ALREADY_MINE).      *)
DoRead(inst) ==
  /\ \E r \in table :
       /\ r.instance # inst
       /\ seen' = [seen EXCEPT ![inst] = r]
  /\ UNCHANGED <<table, now>>

DoReassign(inst) ==
  /\ seen[inst] # NoRow
  /\ \E id \in Identities : Reassign(seen[inst], inst, id, now)
  /\ seen' = [seen EXCEPT ![inst] = NoRow]
  /\ UNCHANGED now

Tick ==
  /\ now < MaxTime
  /\ now' = now + 1
  /\ UNCHANGED <<table, seen>>

StoreStep(inst) ==
  \/ DoClaim(inst)
  \/ DoHeartbeat(inst)
  \/ DoRetain(inst)
  \/ DoRelease(inst)
  \/ DoRead(inst)
  \/ DoReassign(inst)

Next == Tick \/ \E inst \in Instances : StoreStep(inst)

Spec == Init /\ [][Next]_claimVars

-----------------------------------------------------------------------------
(* Properties.                                                             *)

TypeOK ==
  /\ table \subseteq Claim
  /\ now \in Times
  /\ seen \in [Instances -> Claim \union {NoRow}]

(* A claim that changes hands goes to an instance that had read the very   *)
(* row the claim is taken from: no field of it moved in between, so a      *)
(* heartbeat, a new pid or a moved worktree written after the verdict      *)
(* keeps the owner in place (reassign's expect_claim).                     *)
HandoverNeedsTheRowRead ==
  [][\A r \in table, s \in table' :
       (r.item = s.item /\ r.instance # s.instance) =>
          seen[s.instance] = r]_claimVars

(* The store implements the abstract ownership relation.                   *)
ImplementsOwnership == Abstract!Spec
=============================================================================
