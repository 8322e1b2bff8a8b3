----------------------------- MODULE ClaimTable -----------------------------
(***************************************************************************)
(* The claim store behind `operator work` (work_claims.py): the sqlite     *)
(* table work_claims and the writes the program makes to it.               *)
(*                                                                         *)
(* The table is a set of rows. Nothing in the shape of `table` enforces    *)
(* the schema's two constraints (item PRIMARY KEY, instance UNIQUE): that  *)
(* the checks in claim() and reassign() keep every write inside them is    *)
(* an invariant below, not an assumption.                                  *)
(*                                                                         *)
(* Every write is one sqlite transaction (BEGIN IMMEDIATE, or a single     *)
(* statement), hence one step. A compare-and-swap needs two: reassign() is *)
(* given the row its caller read in an earlier transaction, so `seen`      *)
(* keeps, for every instance, the row it last read.                        *)
(*                                                                         *)
(* Module WorkClaims is the store by itself, called by anybody at any      *)
(* time; module OperatorWork is the program that calls it.                 *)
(***************************************************************************)
EXTENDS Integers

CONSTANTS
  Items,         \* work items, the table's primary key
  Instances,     \* operator instances, the other unique column
  Worktrees,     \* recorded checkouts (a path, or the null of a claim
                 \*   without one), with the branch that travels with it
  Identities,    \* recorded runtime identities: boot_id, mux_session,
                 \*   pid, pid_start and platform, compared as one value
  NoRow,         \* "no row": the None of claim_for_item
  MaxTime,       \* bound: the last second the clock reaches
  MaxRevision    \* bound: the last revision a row reaches

ASSUME BoundsAssumption == MaxTime \in Nat /\ MaxRevision \in Nat

Times     == 0 .. MaxTime
Revisions == 0 .. MaxRevision

(* One row of work_claims (the Claim dataclass).                           *)
Claim == [item         : Items,
          instance     : Instances,
          worktree     : Worktrees,
          identity     : Identities,
          claimed_at   : Times,
          heartbeat_at : Times,
          revision     : Revisions]

ASSUME NoRowAssumption == NoRow \notin Claim

VARIABLES
  table,   \* the rows of work_claims
  now,     \* utcnow(), in whole seconds: TS_FORMAT has no sub-second field
  seen     \* the row each instance last read in order to judge its owner

claimVars == <<table, now, seen>>

-----------------------------------------------------------------------------
(* Reads.                                                                  *)

RowsOfItem(item)     == {r \in table : r.item = item}
RowsOfInstance(inst) == {r \in table : r.instance = inst}

Holds(inst, item) == \E r \in table : r.item = item /\ r.instance = inst

ItemHeld(item, inst)     == \E r \in RowsOfItem(item) : r.instance # inst
InstanceBusy(inst, item) == \E r \in RowsOfInstance(inst) : r.item # item

-----------------------------------------------------------------------------
(* Writes. Each leaves now and seen to its caller.                         *)

NewRow(item, inst, tree, id, stamp) ==
  [item |-> item, instance |-> inst, worktree |-> tree, identity |-> id,
   claimed_at |-> stamp, heartbeat_at |-> stamp, revision |-> 0]

(* Mutant of Insert: no INSTANCE_BUSY check. *)
InsertUnchecked(item, inst, tree, id, stamp) ==
  /\ RowsOfItem(item) = {}
  /\ table' = table \union {NewRow(item, inst, tree, id, stamp)}

(* claim() on an item nobody holds: the INSERT.                            *)
Insert(item, inst, tree, id, stamp) ==
  /\ RowsOfItem(item) = {}
  /\ ~InstanceBusy(inst, item)
  /\ table' = table \union {NewRow(item, inst, tree, id, stamp)}

(* claim() on an item the caller already holds: a resume, which rewrites   *)
(* the identity and the checkout and keeps claimed_at.                     *)
Resume(item, inst, tree, id, stamp) ==
  /\ Holds(inst, item)
  /\ ~ItemHeld(item, inst)
  /\ ~InstanceBusy(inst, item)
  /\ \A r \in RowsOfItem(item) : r.revision < MaxRevision
  /\ table' = {IF r.item = item /\ r.instance = inst
               THEN [r EXCEPT !.worktree = tree, !.identity = id,
                              !.heartbeat_at = stamp,
                              !.revision = r.revision + 1]
               ELSE r : r \in table}

ClaimItem(item, inst, tree, id, stamp) ==
  \/ Insert(item, inst, tree, id, stamp)
  \/ Resume(item, inst, tree, id, stamp)

(* heartbeat(): owner-guarded.                                             *)
Heartbeat(item, inst, stamp) ==
  /\ Holds(inst, item)
  /\ \A r \in RowsOfItem(item) : r.revision < MaxRevision
  /\ table' = {IF r.item = item /\ r.instance = inst
               THEN [r EXCEPT !.heartbeat_at = stamp,
                              !.revision = r.revision + 1]
               ELSE r : r \in table}

(* The refresh `session end` writes for a claim it retains. It is its own  *)
(* UPDATE (operator_session.py), which does not touch the revision, and    *)
(* its stamp was read before the handoff was written, so it may be old.    *)
Retain(item, inst, stamp) ==
  table' = {IF r.item = item /\ r.instance = inst
            THEN [r EXCEPT !.heartbeat_at = stamp]
            ELSE r : r \in table}

(* release(): owner-guarded DELETE.                                        *)
Release(item, inst) ==
  table' = {r \in table : ~(r.item = item /\ r.instance = inst)}

(* Mutant of MayReassign: expect_owner alone, without expect_claim. *)
MayReassignByName(expect, to) ==
  /\ Holds(expect.instance, expect.item)
  /\ ~InstanceBusy(to, expect.item)

(* The refusals of reassign(): the owner changed, the row is not the one   *)
(* the caller judged, or the caller already works on something else.       *)
MayReassign(expect, to) ==
  /\ expect \in table
  /\ ~InstanceBusy(to, expect.item)

(* reassign(): the compare-and-swap that moves a claim.                    *)
Reassign(expect, to, id, stamp) ==
  /\ MayReassign(expect, to)
  /\ \A r \in RowsOfItem(expect.item) : r.revision < MaxRevision
  /\ table' = {IF r.item = expect.item /\ r.instance = expect.instance
               THEN [r EXCEPT !.instance = to, !.identity = id,
                              !.claimed_at = stamp, !.heartbeat_at = stamp,
                              !.revision = r.revision + 1]
               ELSE r : r \in table}

-----------------------------------------------------------------------------
(* What both specifications promise of the table.                          *)

(* No write leaves two rows for one item or two rows for one instance: the *)
(* checks made inside the transactions of claim() and reassign() keep      *)
(* every write within the schema, so PRIMARY KEY and UNIQUE never raise an *)
(* IntegrityError in place of a named ClaimRefused.                        *)
OneOwnerPerItem    == \A r, s \in table : r.item = s.item => r = s
OneItemPerInstance == \A r, s \in table : r.instance = s.instance => r = s
SchemaHolds        == OneOwnerPerItem /\ OneItemPerInstance

(* The store implements the abstract ownership relation.                   *)
holds == {<<r.item, r.instance>> : r \in table}

Abstract == INSTANCE Ownership WITH holds <- holds
=============================================================================
