-------------------------- MODULE WorkClaimsProofs --------------------------
(***************************************************************************)
(* What the claim store guarantees for every set of items, instances and   *)
(* identities and every clock: its type, its schema, how a claim changes   *)
(* hands, and that it implements module Ownership.                         *)
(*                                                                         *)
(* Every write but an INSERT, a DELETE and the compare-and-swap maps each  *)
(* row to one with the same item and the same instance (KeepsKeys). Two    *)
(* lemmas say what such a write preserves, and the theorems then look at   *)
(* the other three one by one.                                             *)
(***************************************************************************)
EXTENDS WorkClaims, TLAPS

(* A write that moves no row to another item or another instance, and      *)
(* merges and splits none.                                                 *)
KeepsKeys ==
  \E f \in [table -> Claim] :
    /\ table' = {f[r] : r \in table}
    /\ \A r \in table : f[r].item = r.item /\ f[r].instance = r.instance

LEMMA RowType ==
  ASSUME NEW r \in Claim
  PROVE  /\ r.item \in Items /\ r.instance \in Instances
         /\ r.worktree \in Worktrees /\ r.identity \in Identities
         /\ r.claimed_at \in Times /\ r.heartbeat_at \in Times
         /\ r.revision \in Revisions
  BY DEF Claim

LEMMA ResumeKeepsKeys ==
  ASSUME TypeOK, NEW item \in Items, NEW inst \in Instances,
         NEW tree \in Worktrees, NEW id \in Identities, NEW stamp \in Times,
         Resume(item, inst, tree, id, stamp)
  PROVE  KeepsKeys
<1> DEFINE f == [r \in table |->
                   IF r.item = item /\ r.instance = inst
                   THEN [r EXCEPT !.worktree = tree, !.identity = id,
                                  !.heartbeat_at = stamp,
                                  !.revision = r.revision + 1]
                   ELSE r]
<1>1. f \in [table -> Claim]
  <2>1. SUFFICES ASSUME NEW r \in table, r.item = item, r.instance = inst
                 PROVE  [r EXCEPT !.worktree = tree, !.identity = id,
                                  !.heartbeat_at = stamp,
                                  !.revision = r.revision + 1] \in Claim
    BY DEF TypeOK
  <2>2. r \in Claim /\ r.revision < MaxRevision
    BY <2>1 DEF TypeOK, Resume, RowsOfItem
  <2>3. r.revision + 1 \in Revisions
    BY <2>2, BoundsAssumption, RowType DEF Revisions
  <2>4. QED
    BY <2>2, <2>3 DEF Claim
<1>2. table' = {f[r] : r \in table}
  BY DEF Resume
<1>3. \A r \in table : f[r].item = r.item /\ f[r].instance = r.instance
  BY DEF TypeOK, Claim
<1>4. QED
  BY <1>1, <1>2, <1>3 DEF KeepsKeys

LEMMA HeartbeatKeepsKeys ==
  ASSUME TypeOK, NEW item \in Items, NEW inst \in Instances,
         NEW stamp \in Times, Heartbeat(item, inst, stamp)
  PROVE  KeepsKeys
<1> DEFINE f == [r \in table |->
                   IF r.item = item /\ r.instance = inst
                   THEN [r EXCEPT !.heartbeat_at = stamp,
                                  !.revision = r.revision + 1]
                   ELSE r]
<1>1. f \in [table -> Claim]
  <2>1. SUFFICES ASSUME NEW r \in table, r.item = item, r.instance = inst
                 PROVE  [r EXCEPT !.heartbeat_at = stamp,
                                  !.revision = r.revision + 1] \in Claim
    BY DEF TypeOK
  <2>2. r \in Claim /\ r.revision < MaxRevision
    BY <2>1 DEF TypeOK, Heartbeat, RowsOfItem
  <2>3. r.revision + 1 \in Revisions
    BY <2>2, BoundsAssumption, RowType DEF Revisions
  <2>4. QED
    BY <2>2, <2>3 DEF Claim
<1>2. table' = {f[r] : r \in table}
  BY DEF Heartbeat
<1>3. \A r \in table : f[r].item = r.item /\ f[r].instance = r.instance
  BY DEF TypeOK, Claim
<1>4. QED
  BY <1>1, <1>2, <1>3 DEF KeepsKeys

LEMMA RetainKeepsKeys ==
  ASSUME TypeOK, NEW item \in Items, NEW inst \in Instances,
         NEW stamp \in Times, Retain(item, inst, stamp)
  PROVE  KeepsKeys
<1> DEFINE f == [r \in table |->
                   IF r.item = item /\ r.instance = inst
                   THEN [r EXCEPT !.heartbeat_at = stamp]
                   ELSE r]
<1>1. f \in [table -> Claim]
  BY DEF TypeOK, Claim
<1>2. table' = {f[r] : r \in table}
  BY DEF Retain
<1>3. \A r \in table : f[r].item = r.item /\ f[r].instance = r.instance
  BY DEF TypeOK, Claim
<1>4. QED
  BY <1>1, <1>2, <1>3 DEF KeepsKeys

(* What a write that keeps the keys preserves. *)
LEMMA KeepsKeysPreserves ==
  ASSUME TypeOK, SchemaHolds, KeepsKeys
  PROVE  table' \subseteq Claim /\ SchemaHolds' /\ holds' = holds
<1>1. PICK f \in [table -> Claim] :
        /\ table' = {f[r] : r \in table}
        /\ \A r \in table : f[r].item = r.item /\ f[r].instance = r.instance
  BY DEF KeepsKeys
<1>2. table' \subseteq Claim
  BY <1>1
<1>3. OneOwnerPerItem'
  <2>1. SUFFICES ASSUME NEW r \in table, NEW s \in table, f[r].item = f[s].item
                 PROVE  f[r] = f[s]
    BY <1>1 DEF OneOwnerPerItem
  <2>2. r = s
    BY <1>1, <2>1 DEF SchemaHolds, OneOwnerPerItem
  <2>3. QED
    BY <2>2
<1>4. OneItemPerInstance'
  <2>1. SUFFICES ASSUME NEW r \in table, NEW s \in table,
                        f[r].instance = f[s].instance
                 PROVE  f[r] = f[s]
    BY <1>1 DEF OneItemPerInstance
  <2>2. r = s
    BY <1>1, <2>1 DEF SchemaHolds, OneItemPerInstance
  <2>3. QED
    BY <2>2
<1>5. holds' = holds
  <2>1. holds' = {<<f[r].item, f[r].instance>> : r \in table}
    BY <1>1 DEF holds
  <2>2. QED
    BY <2>1, <1>1 DEF holds
<1>6. QED
  BY <1>2, <1>3, <1>4, <1>5 DEF SchemaHolds

(* In such a write, no claim changes hands. *)
LEMMA KeepsKeysMovesNothing ==
  ASSUME TypeOK, SchemaHolds, KeepsKeys,
         NEW r \in table, NEW s \in table', r.item = s.item
  PROVE  r.instance = s.instance
<1>1. PICK f \in [table -> Claim] :
        /\ table' = {f[t] : t \in table}
        /\ \A t \in table : f[t].item = t.item /\ f[t].instance = t.instance
  BY DEF KeepsKeys
<1>2. PICK t \in table : s = f[t]
  BY <1>1
<1>3. t = r
  BY <1>1, <1>2 DEF SchemaHolds, OneOwnerPerItem
<1>4. QED
  BY <1>1, <1>2, <1>3

-----------------------------------------------------------------------------
(* The writes that do change keys. *)

LEMMA NewRowType ==
  ASSUME NEW item \in Items, NEW inst \in Instances, NEW tree \in Worktrees,
         NEW id \in Identities, NEW stamp \in Times
  PROVE  /\ NewRow(item, inst, tree, id, stamp) \in Claim
         /\ NewRow(item, inst, tree, id, stamp).item = item
         /\ NewRow(item, inst, tree, id, stamp).instance = inst
<1>1. 0 \in Revisions
  BY BoundsAssumption DEF Revisions
<1>2. QED
  BY <1>1 DEF NewRow, Claim

LEMMA InsertPreserves ==
  ASSUME TypeOK, SchemaHolds,
         NEW item \in Items, NEW inst \in Instances, NEW tree \in Worktrees,
         NEW id \in Identities, NEW stamp \in Times,
         Insert(item, inst, tree, id, stamp)
  PROVE  /\ table' \subseteq Claim /\ SchemaHolds'
         /\ \A r \in table, s \in table' :
              r.item = s.item => r.instance = s.instance
         /\ Abstract!Take(item, inst)
<1> DEFINE new == NewRow(item, inst, tree, id, stamp)
<1> HIDE DEF new
<1>1. new \in Claim /\ new.item = item /\ new.instance = inst
  BY NewRowType DEF new
<1>2. table' = table \union {new}
  BY DEF Insert, new
<1>3. \A r \in table : r.item # item
  BY DEF Insert, RowsOfItem
<1>4. \A r \in table : r.instance # inst
  BY <1>3 DEF Insert, InstanceBusy, RowsOfInstance
<1>5. table' \subseteq Claim
  BY <1>1, <1>2 DEF TypeOK
<1>6. SchemaHolds'
  <2>1. OneOwnerPerItem'
    BY <1>1, <1>2, <1>3 DEF SchemaHolds, OneOwnerPerItem
  <2>2. OneItemPerInstance'
    BY <1>1, <1>2, <1>4 DEF SchemaHolds, OneItemPerInstance
  <2>3. QED
    BY <2>1, <2>2 DEF SchemaHolds
<1>7. \A r \in table, s \in table' : r.item = s.item => r.instance = s.instance
  BY <1>1, <1>2, <1>3 DEF SchemaHolds, OneOwnerPerItem
<1>8. Abstract!Take(item, inst)
  <2>1. holds' = holds \union {<<item, inst>>}
    BY <1>1, <1>2 DEF holds
  <2>2. \A p \in holds : p[1] # item /\ p[2] # inst
    BY <1>3, <1>4 DEF holds
  <2>3. QED
    BY <2>1, <2>2 DEF Abstract!Take, Abstract!Unowned, Abstract!Idle
<1>9. QED
  BY <1>5, <1>6, <1>7, <1>8

LEMMA ReleasePreserves ==
  ASSUME TypeOK, SchemaHolds, NEW item \in Items, NEW inst \in Instances,
         Holds(inst, item), Release(item, inst)
  PROVE  /\ table' \subseteq Claim /\ SchemaHolds'
         /\ \A r \in table, s \in table' :
              r.item = s.item => r.instance = s.instance
         /\ Abstract!Drop(item, inst)
<1>1. table' = {r \in table : ~(r.item = item /\ r.instance = inst)}
  BY DEF Release
<1>2. table' \subseteq table
  BY <1>1
<1>3. table' \subseteq Claim /\ SchemaHolds'
  BY <1>2 DEF TypeOK, SchemaHolds, OneOwnerPerItem, OneItemPerInstance
<1>4. \A r \in table, s \in table' : r.item = s.item => r.instance = s.instance
  BY <1>2 DEF SchemaHolds, OneOwnerPerItem
<1>5. Abstract!Drop(item, inst)
  <2>1. <<item, inst>> \in holds
    BY DEF Holds, holds
  <2>2. holds' = holds \ {<<item, inst>>}
    BY <1>1 DEF holds
  <2>3. QED
    BY <2>1, <2>2 DEF Abstract!Drop
<1>6. QED
  BY <1>3, <1>4, <1>5

LEMMA ReassignPreserves ==
  ASSUME TypeOK, SchemaHolds, NEW expect \in Claim, NEW to \in Instances,
         NEW id \in Identities, NEW stamp \in Times,
         expect.instance # to, Reassign(expect, to, id, stamp)
  PROVE  /\ table' \subseteq Claim /\ SchemaHolds'
         /\ \A r \in table, s \in table' :
              (r.item = s.item /\ r.instance # s.instance) =>
                 r = expect /\ s.instance = to
         /\ Abstract!Move(expect.item, expect.instance, to)
<1> DEFINE moved == [expect EXCEPT !.instance = to, !.identity = id,
                                   !.claimed_at = stamp,
                                   !.heartbeat_at = stamp,
                                   !.revision = expect.revision + 1]
<1>1. /\ moved \in Claim
      /\ moved.item = expect.item
      /\ moved.instance = to
  <2>1. expect.revision + 1 \in Revisions
    <3>1. expect.revision < MaxRevision
      BY DEF Reassign, MayReassign, RowsOfItem
    <3>2. expect.revision \in Revisions
      BY RowType
    <3>3. QED
      BY <3>1, <3>2, BoundsAssumption DEF Revisions
  <2>2. QED
    BY <2>1 DEF Claim
<1>2. expect \in table
  BY DEF Reassign, MayReassign
<1>3. \A r \in table : r.item = expect.item => r = expect
  BY <1>2 DEF SchemaHolds, OneOwnerPerItem
<1>4. \A r \in table : r.instance = to => r = expect
  BY <1>3 DEF Reassign, MayReassign, InstanceBusy, RowsOfInstance
<1>5. table' = (table \ {expect}) \union {moved}
  <2>1. table' = {IF r = expect THEN moved ELSE r : r \in table}
    <3>1. \A r \in table : (r.item = expect.item /\ r.instance = expect.instance)
                              <=> r = expect
      BY <1>3
    <3>2. table' = {IF r.item = expect.item /\ r.instance = expect.instance
                    THEN [r EXCEPT !.instance = to, !.identity = id,
                                   !.claimed_at = stamp,
                                   !.heartbeat_at = stamp,
                                   !.revision = r.revision + 1]
                    ELSE r : r \in table}
      BY DEF Reassign
    <3>3. QED
      BY <3>1, <3>2
  <2>2. QED
    BY <2>1, <1>2
<1> HIDE DEF moved
<1>6. table' \subseteq Claim
  BY <1>1, <1>5 DEF TypeOK
<1>7. SchemaHolds'
  <2>1. OneOwnerPerItem'
    BY <1>1, <1>3, <1>5 DEF SchemaHolds, OneOwnerPerItem
  <2>2. OneItemPerInstance'
    BY <1>1, <1>4, <1>5 DEF SchemaHolds, OneItemPerInstance
  <2>3. QED
    BY <2>1, <2>2 DEF SchemaHolds
<1>8. \A r \in table, s \in table' :
        (r.item = s.item /\ r.instance # s.instance) =>
           r = expect /\ s.instance = to
  BY <1>1, <1>3, <1>5 DEF SchemaHolds, OneOwnerPerItem
<1>9. Abstract!Move(expect.item, expect.instance, to)
  <2>1. <<expect.item, expect.instance>> \in holds
    BY <1>2 DEF holds
  <2>2. holds' = (holds \ {<<expect.item, expect.instance>>})
                    \union {<<expect.item, to>>}
    <3>1. holds' = {<<r.item, r.instance>> : r \in table \ {expect}}
                      \union {<<expect.item, to>>}
      BY <1>1, <1>5 DEF holds
    <3>2. {<<r.item, r.instance>> : r \in table \ {expect}}
            = holds \ {<<expect.item, expect.instance>>}
      BY <1>2, <1>3 DEF holds
    <3>3. QED
      BY <3>1, <3>2
  <2>3. Abstract!Idle(to)
    BY <1>4 DEF holds, Abstract!Idle
  <2>4. QED
    BY <2>1, <2>2, <2>3 DEF Abstract!Move
<1>10. QED
  BY <1>6, <1>7, <1>8, <1>9
-----------------------------------------------------------------------------
(* The inductive invariant: the type, the schema, and that the row an      *)
(* instance intends to take over is never its own (reclaim() refuses that  *)
(* as ALREADY_MINE), without which the compare-and-swap need not be a      *)
(* change of owner.                                                        *)

SeenIsAnothers == \A i \in Instances : seen[i] # NoRow => seen[i].instance # i

IInv == TypeOK /\ SchemaHolds /\ SeenIsAnothers

LEMMA InitIInv == Init => IInv
<1>1. 0 \in Times
  BY BoundsAssumption DEF Times
<1>2. QED
  BY <1>1 DEF Init, IInv, TypeOK, SchemaHolds, OneOwnerPerItem,
              OneItemPerInstance, SeenIsAnothers

(* What one step of the store does, in the terms the theorems need: the    *)
(* invariant is kept, a claim that changes hands was read by its new       *)
(* owner, and ownership takes an abstract step or none.                    *)
StepFacts ==
  /\ IInv'
  /\ \A r \in table, s \in table' :
       (r.item = s.item /\ r.instance # s.instance) => seen[s.instance] = r
  /\ Abstract!Next \/ holds' = holds

LEMMA SameKeysStep ==
  ASSUME IInv, KeepsKeys, UNCHANGED <<now, seen>>
  PROVE  StepFacts
<1>1. table' \subseteq Claim /\ SchemaHolds' /\ holds' = holds
  BY KeepsKeysPreserves DEF IInv
<1>2. \A r \in table, s \in table' : r.item = s.item => r.instance = s.instance
  BY KeepsKeysMovesNothing DEF IInv
<1>3. IInv'
  BY <1>1 DEF IInv, TypeOK, SeenIsAnothers
<1>4. QED
  BY <1>1, <1>2, <1>3 DEF StepFacts

LEMMA ClaimStep ==
  ASSUME IInv, NEW inst \in Instances, DoClaim(inst)
  PROVE  StepFacts
<1>1. PICK item \in Items, tree \in Worktrees, id \in Identities :
        ClaimItem(item, inst, tree, id, now)
  BY DEF DoClaim
<1>2. now \in Times /\ UNCHANGED <<now, seen>>
  BY DEF DoClaim, IInv, TypeOK
<1>3. CASE Insert(item, inst, tree, id, now)
  <2>1. /\ table' \subseteq Claim /\ SchemaHolds'
        /\ \A r \in table, s \in table' :
             r.item = s.item => r.instance = s.instance
        /\ Abstract!Take(item, inst)
    BY <1>2, <1>3, InsertPreserves DEF IInv
  <2>2. IInv'
    BY <2>1, <1>2 DEF IInv, TypeOK, SeenIsAnothers
  <2>3. Abstract!Next
    BY <2>1 DEF Abstract!Next
  <2>4. QED
    BY <2>1, <2>2, <2>3 DEF StepFacts
<1>4. CASE Resume(item, inst, tree, id, now)
  BY <1>2, <1>4, ResumeKeepsKeys, SameKeysStep DEF IInv
<1>5. QED
  BY <1>1, <1>3, <1>4 DEF ClaimItem

LEMMA ReleaseStep ==
  ASSUME IInv, NEW inst \in Instances, DoRelease(inst)
  PROVE  StepFacts
<1>1. PICK item \in Items : Holds(inst, item) /\ Release(item, inst)
  BY DEF DoRelease
<1>2. UNCHANGED <<now, seen>>
  BY DEF DoRelease
<1>3. /\ table' \subseteq Claim /\ SchemaHolds'
      /\ \A r \in table, s \in table' :
           r.item = s.item => r.instance = s.instance
      /\ Abstract!Drop(item, inst)
  BY <1>1, ReleasePreserves DEF IInv
<1>4. IInv'
  BY <1>2, <1>3 DEF IInv, TypeOK, SeenIsAnothers
<1>5. Abstract!Next
  BY <1>3 DEF Abstract!Next
<1>6. QED
  BY <1>3, <1>4, <1>5 DEF StepFacts

LEMMA ReassignStep ==
  ASSUME IInv, NEW inst \in Instances, DoReassign(inst)
  PROVE  StepFacts
<1> DEFINE expect == seen[inst]
<1>1. PICK id \in Identities : Reassign(expect, inst, id, now)
  BY DEF DoReassign
<1>2. /\ expect \in Claim /\ expect.instance # inst
      /\ now \in Times /\ now' = now
  BY DEF DoReassign, IInv, TypeOK, SeenIsAnothers
<1>3. seen' = [seen EXCEPT ![inst] = NoRow]
  BY DEF DoReassign
<1> HIDE DEF expect
<1>4. /\ table' \subseteq Claim /\ SchemaHolds'
      /\ \A r \in table, s \in table' :
           (r.item = s.item /\ r.instance # s.instance) =>
              r = expect /\ s.instance = inst
      /\ Abstract!Move(expect.item, expect.instance, inst)
  BY <1>1, <1>2, ReassignPreserves DEF IInv
<1>5. IInv'
  BY <1>2, <1>3, <1>4 DEF IInv, TypeOK, SeenIsAnothers
<1>6. Abstract!Next
  BY <1>2, <1>4, RowType DEF Abstract!Next
<1>7. QED
  BY <1>4, <1>5, <1>6 DEF StepFacts, expect

LEMMA NextStep == IInv /\ [Next]_claimVars => StepFacts
<1> SUFFICES ASSUME IInv, [Next]_claimVars
             PROVE  StepFacts
  OBVIOUS
<1>1. ASSUME table' = table, TypeOK', SeenIsAnothers'
      PROVE  StepFacts
  BY <1>1 DEF StepFacts, IInv, SchemaHolds, OneOwnerPerItem,
              OneItemPerInstance, holds
<1>2. CASE UNCHANGED claimVars
  BY <1>1, <1>2 DEF claimVars, IInv, TypeOK, SeenIsAnothers
<1>3. CASE Tick
  <2>1. now' \in Times
    BY <1>3, BoundsAssumption DEF Tick, Times, IInv, TypeOK
  <2>2. QED
    BY <1>1, <1>3, <2>1 DEF Tick, IInv, TypeOK, SeenIsAnothers
<1>4. ASSUME NEW inst \in Instances, StoreStep(inst)
      PROVE  StepFacts
  <2>1. CASE DoClaim(inst)
    BY <2>1, ClaimStep
  <2>2. CASE DoHeartbeat(inst)
    <3>1. now \in Times
      BY DEF IInv, TypeOK
    <3>2. KeepsKeys
      BY <2>2, <3>1, HeartbeatKeepsKeys DEF DoHeartbeat, IInv
    <3>3. QED
      BY <2>2, <3>2, SameKeysStep DEF DoHeartbeat
  <2>3. CASE DoRetain(inst)
    <3>1. KeepsKeys
      BY <2>3, RetainKeepsKeys DEF DoRetain, IInv
    <3>2. QED
      BY <2>3, <3>1, SameKeysStep DEF DoRetain
  <2>4. CASE DoRelease(inst)
    BY <2>4, ReleaseStep
  <2>5. CASE DoRead(inst)
    <3>1. seen' \in [Instances -> Claim \union {NoRow}] /\ SeenIsAnothers'
      BY <2>5 DEF DoRead, IInv, TypeOK, SeenIsAnothers
    <3>2. QED
      BY <1>1, <2>5, <3>1 DEF DoRead, IInv, TypeOK
  <2>6. CASE DoReassign(inst)
    BY <2>6, ReassignStep
  <2>7. QED
    BY <1>4, <2>1, <2>2, <2>3, <2>4, <2>5, <2>6 DEF StoreStep
<1>5. QED
  BY <1>2, <1>3, <1>4 DEF Next

-----------------------------------------------------------------------------
(* The theorems.                                                           *)

LEMMA Invariance == Spec => []IInv
<1>1. IInv /\ [Next]_claimVars => IInv'
  BY NextStep DEF StepFacts
<1>2. QED
  BY InitIInv, <1>1, PTL DEF Spec

(* Every row, stamp and remembered row keeps its type. *)
THEOREM TypeCorrect == Spec => []TypeOK
<1>1. IInv => TypeOK
  BY DEF IInv
<1>2. QED
  BY Invariance, <1>1, PTL

(* The checks inside claim() and reassign() never let a write reach the    *)
(* schema's constraints: one row per item and one per instance, for every  *)
(* interleaving of any number of instances.                                *)
THEOREM SchemaNeverViolated == Spec => []SchemaHolds
<1>1. IInv => SchemaHolds
  BY DEF IInv
<1>2. QED
  BY Invariance, <1>1, PTL

(* A claim changes hands only to an instance that read, in an earlier      *)
(* transaction, exactly the row it replaces.                               *)
THEOREM HandoverIsCompareAndSwap == Spec => HandoverNeedsTheRowRead
<1>1. IInv /\ [Next]_claimVars =>
        [\A r \in table, s \in table' :
           (r.item = s.item /\ r.instance # s.instance) =>
              seen[s.instance] = r]_claimVars
  BY NextStep DEF StepFacts
<1>2. QED
  BY Invariance, <1>1, PTL DEF Spec, HandoverNeedsTheRowRead

(* The table implements the abstract ownership relation: claim() is a      *)
(* Take, release() a Drop, reassign() a Move, everything else a stutter.   *)
THEOREM StoreImplementsOwnership == Spec => ImplementsOwnership
<1>1. Init => Abstract!Init
  BY DEF Init, Abstract!Init, holds
<1>2. IInv /\ [Next]_claimVars => [Abstract!Next]_holds
  BY NextStep DEF StepFacts
<1>3. QED
  BY Invariance, <1>1, <1>2, PTL
     DEF Spec, ImplementsOwnership, Abstract!Spec
=============================================================================
