------------------------- MODULE OperatorWorkProofs -------------------------
(***************************************************************************)
(* What the work protocol guarantees for every number of instances, items, *)
(* sessions and reboots, every set of commands and every clock: nobody     *)
(* takes an item from a recorded agent that runs, what changes hands is    *)
(* banked, and no checkout with changes is removed.                        *)
(*                                                                         *)
(* The proof looks at a step through four summaries: how it changes the    *)
(* table (TableChanges), a checkout (TreeChanges), the sessions            *)
(* (SessionsGrow), and what it leaves to the others (OthersUnmoved). The   *)
(* inductive invariant WorkInv says what is known of a reclaim at each of  *)
(* its steps (Judging): the owner that was judged is gone and, as a        *)
(* process that ended never comes back, stays gone while the checkout is   *)
(* banked and the claim moved. That needs every recorded identity to be    *)
(* honest (RowsHonest), as the verdict is passed on an identity.           *)
(***************************************************************************)
EXTENDS OperatorWork, TLAPS

LEMMA RowType ==
  ASSUME NEW r \in Claim
  PROVE  /\ r.item \in Items /\ r.instance \in Instances
         /\ r.worktree \in Worktrees /\ r.identity \in Identities
         /\ r.claimed_at \in Times /\ r.heartbeat_at \in Times
         /\ r.revision \in Revisions
  BY DEF Claim

(* What agent_identity() records is an identity of the table, whatever it  *)
(* could confirm.                                                          *)
LEMMA IdentityType ==
  ASSUME TypeOK, NEW i \in Instances, NEW c \in Confirmed, session[i] # 0
  PROVE  IdentityOf(i, c) \in Identities
<1>1. Process(i) \in Processes
  BY DEF TypeOK, Process, Processes
<1>2. IdentityOf(i, c) \in
        [boot_id     : {BootId(n) : n \in 0 .. MaxBoot} \union {None},
         mux_session : Instances \union {None},
         pid         : Processes \union {None},
         pid_start   : {Token(p) : p \in Processes} \union {None}]
  BY <1>1 DEF IdentityOf, AgentIdentity, TypeOK
<1>3. QED
  BY <1>2, IdentityAssumption

(* Two rows of the same claim: whoever holds the item, and the identity    *)
(* recorded for it, are the same.                                          *)
Like(r, s) == r.item = s.item /\ r.instance = s.instance /\ r.identity = s.identity

(* A row that the command of instance i has just written in its own name.  *)
OwnRow(i, s) ==
  s.instance = i /\ \E c \in Confirmed : s.identity = IdentityOf(i, c)

(* What a write by instance i may do to the table: refresh or delete rows  *)
(* of its own, write one in its own name, and take nothing from another.   *)
Writes(i) ==
  /\ table' \subseteq Claim
  /\ OneOwnerPerItem'
  /\ \A s \in table' : OwnRow(i, s) \/ \E r \in table : Like(r, s)
  /\ \A r \in table : r.instance # i => r \in table'

(* A write that keeps every claim and what is recorded on it.              *)
Refreshes ==
  /\ table' \subseteq Claim
  /\ OneOwnerPerItem'
  /\ \A s \in table' : \E r \in table : Like(r, s)
  /\ \A r \in table : \E s \in table' : Like(r, s)

LEMMA InsertWrites ==
  ASSUME TypeOK, OneOwnerPerItem, NEW item \in Items, NEW i \in Instances,
         NEW c \in Confirmed, session[i] # 0,
         Insert(item, i, item, IdentityOf(i, c), now)
  PROVE  /\ Writes(i)
         /\ \E s \in table' : /\ s.item = item /\ s.instance = i
                              /\ s.identity = IdentityOf(i, c)
<1> DEFINE new == NewRow(item, i, item, IdentityOf(i, c), now)
<1>1. new \in Claim
  BY IdentityType, ProtocolAssumption, BoundsAssumption
  DEF NewRow, Claim, TypeOK, Revisions
<1>2. table' = table \union {new} /\ \A r \in table : r.item # item
  BY DEF Insert, RowsOfItem
<1>3. new.item = item /\ new.instance = i /\ new.identity = IdentityOf(i, c)
  BY DEF NewRow
<1> HIDE DEF new
<1>4. table' \subseteq Claim
  BY <1>1, <1>2 DEF TypeOK
<1>5. OneOwnerPerItem'
  BY <1>2, <1>3 DEF OneOwnerPerItem
<1>6. \A s \in table' : OwnRow(i, s) \/ \E r \in table : Like(r, s)
  BY <1>2, <1>3 DEF OwnRow, Like
<1>7. QED
  BY <1>2, <1>3, <1>4, <1>5, <1>6 DEF Writes

LEMMA ResumeWrites ==
  ASSUME TypeOK, OneOwnerPerItem, NEW item \in Items, NEW i \in Instances,
         NEW c \in Confirmed, session[i] # 0,
         Resume(item, i, item, IdentityOf(i, c), now)
  PROVE  /\ Writes(i)
         /\ \E s \in table' : /\ s.item = item /\ s.instance = i
                              /\ s.identity = IdentityOf(i, c)
<1> DEFINE new(r) == [r EXCEPT !.worktree = item, !.identity = IdentityOf(i, c),
                               !.heartbeat_at = now, !.revision = r.revision + 1]
           f(r)   == IF r.item = item /\ r.instance = i THEN new(r) ELSE r
<1>1. \A r \in table : r.item = item =>
        /\ new(r) \in Claim
        /\ new(r).item = r.item /\ new(r).instance = r.instance
        /\ new(r).identity = IdentityOf(i, c)
  <2>1. SUFFICES ASSUME NEW r \in table, r.item = item
                 PROVE  /\ new(r) \in Claim
                        /\ new(r).item = r.item /\ new(r).instance = r.instance
                        /\ new(r).identity = IdentityOf(i, c)
    OBVIOUS
  <2>2. r \in Claim /\ r.revision < MaxRevision
    BY <2>1 DEF TypeOK, Resume, RowsOfItem
  <2>3. r.revision + 1 \in Revisions
    BY <2>2, BoundsAssumption, RowType DEF Revisions
  <2>4. QED
    BY <2>2, <2>3, IdentityType, ProtocolAssumption DEF Claim, TypeOK
<1>2. table' = {f(r) : r \in table}
  BY DEF Resume
<1> HIDE DEF new
<1>3. table' \subseteq Claim
  BY <1>1, <1>2 DEF TypeOK
<1>4. OneOwnerPerItem'
  BY <1>1, <1>2 DEF OneOwnerPerItem
<1>5. \A s \in table' : OwnRow(i, s) \/ \E r \in table : Like(r, s)
  BY <1>1, <1>2 DEF OwnRow, Like
<1>6. \A r \in table : r.instance # i => r \in table'
  BY <1>2
<1>7. \E s \in table' : s.item = item /\ s.instance = i /\ s.identity = IdentityOf(i, c)
  <2>1. PICK r \in table : r.item = item /\ r.instance = i
    BY DEF Resume, Holds
  <2>2. f(r) \in table' /\ f(r) = new(r)
    BY <1>2, <2>1
  <2>3. QED
    BY <1>1, <2>1, <2>2
<1>8. QED
  BY <1>3, <1>4, <1>5, <1>6, <1>7 DEF Writes

LEMMA HeartbeatRefreshes ==
  ASSUME TypeOK, OneOwnerPerItem, NEW item \in Items, NEW i \in Instances,
         Heartbeat(item, i, now)
  PROVE  Refreshes
<1> DEFINE new(r) == [r EXCEPT !.heartbeat_at = now, !.revision = r.revision + 1]
           f(r)   == IF r.item = item /\ r.instance = i THEN new(r) ELSE r
<1>1. \A r \in table : r.item = item => new(r) \in Claim /\ Like(r, new(r))
  <2>1. SUFFICES ASSUME NEW r \in table, r.item = item
                 PROVE  new(r) \in Claim /\ Like(r, new(r))
    OBVIOUS
  <2>2. r \in Claim /\ r.revision < MaxRevision
    BY <2>1 DEF TypeOK, Heartbeat, RowsOfItem
  <2>3. r.revision + 1 \in Revisions
    BY <2>2, BoundsAssumption, RowType DEF Revisions
  <2>4. QED
    BY <2>2, <2>3 DEF Claim, TypeOK, Like
<1>2. table' = {f(r) : r \in table}
  BY DEF Heartbeat
<1> HIDE DEF new
<1>3. table' \subseteq Claim
  BY <1>1, <1>2 DEF TypeOK
<1>4. OneOwnerPerItem'
  BY <1>1, <1>2 DEF OneOwnerPerItem, Like
<1>5. \A r \in table : f(r) \in table' /\ Like(r, f(r))
  BY <1>1, <1>2 DEF Like
<1>6. QED
  BY <1>2, <1>3, <1>4, <1>5 DEF Refreshes

LEMMA RetainRefreshes ==
  ASSUME TypeOK, OneOwnerPerItem, NEW item, NEW i \in Instances,
         NEW stamp \in Times, Retain(item, i, stamp)
  PROVE  Refreshes
<1> DEFINE new(r) == [r EXCEPT !.heartbeat_at = stamp]
           f(r)   == IF r.item = item /\ r.instance = i THEN new(r) ELSE r
<1>1. \A r \in table : new(r) \in Claim /\ Like(r, new(r))
  BY DEF Claim, TypeOK, Like
<1>2. table' = {f(r) : r \in table}
  BY DEF Retain
<1> HIDE DEF new
<1>3. table' \subseteq Claim
  BY <1>1, <1>2 DEF TypeOK
<1>4. OneOwnerPerItem'
  BY <1>1, <1>2 DEF OneOwnerPerItem, Like
<1>5. \A r \in table : f(r) \in table' /\ Like(r, f(r))
  BY <1>1, <1>2 DEF Like
<1>6. QED
  BY <1>2, <1>3, <1>4, <1>5 DEF Refreshes

LEMMA ReleaseWrites ==
  ASSUME TypeOK, OneOwnerPerItem, NEW item, NEW i \in Instances,
         Release(item, i)
  PROVE  Writes(i)
<1>1. table' \subseteq table /\ \A r \in table : r.instance # i => r \in table'
  BY DEF Release
<1>2. QED
  BY <1>1 DEF Writes, TypeOK, OneOwnerPerItem, Like

(* The compare-and-swap: the row that was judged, and no other, becomes    *)
(* the caller's.                                                           *)
Takes(i) ==
  /\ seen[i] \in table
  /\ table' \subseteq Claim
  /\ OneOwnerPerItem'
  /\ \A s \in table' : (OwnRow(i, s) /\ s.item = seen[i].item) \/ s \in table
  /\ \A r \in table : r # seen[i] => r \in table'

LEMMA ReassignTakes ==
  ASSUME TypeOK, OneOwnerPerItem, NEW i \in Instances, NEW c \in Confirmed,
         session[i] # 0, Reassign(seen[i], i, IdentityOf(i, c), now)
  PROVE  Takes(i)
<1> DEFINE e == seen[i]
           new == [e EXCEPT !.instance = i, !.identity = IdentityOf(i, c),
                            !.claimed_at = now, !.heartbeat_at = now,
                            !.revision = e.revision + 1]
<1>1. e \in table /\ e \in Claim
  BY DEF Reassign, MayReassign, TypeOK
<1>2. e.revision + 1 \in Revisions
  <2>1. e.revision < MaxRevision
    BY <1>1 DEF Reassign, RowsOfItem
  <2>2. QED
    BY <1>1, <2>1, BoundsAssumption, RowType DEF Revisions
<1>3. new \in Claim
  BY <1>1, <1>2, IdentityType DEF Claim, TypeOK
<1>4. new.item = e.item /\ new.instance = i /\ new.identity = IdentityOf(i, c)
  BY <1>1 DEF Claim
<1>5. \A r \in table : (r.item = e.item /\ r.instance = e.instance) <=> r = e
  BY <1>1 DEF OneOwnerPerItem
<1>6. table' = {IF r = e THEN new ELSE r : r \in table}
  <2>1. table' = {IF r.item = e.item /\ r.instance = e.instance
                  THEN [r EXCEPT !.instance = i, !.identity = IdentityOf(i, c),
                                 !.claimed_at = now, !.heartbeat_at = now,
                                 !.revision = r.revision + 1]
                  ELSE r : r \in table}
    BY DEF Reassign
  <2>2. QED
    BY <1>5, <2>1
<1> HIDE DEF new, e
<1>7. table' \subseteq Claim
  BY <1>3, <1>6 DEF TypeOK
<1>8. OneOwnerPerItem'
  BY <1>1, <1>4, <1>6 DEF OneOwnerPerItem
<1>9. \A s \in table' : (OwnRow(i, s) /\ s.item = e.item) \/ s \in table
  BY <1>4, <1>6 DEF OwnRow
<1>10. \A r \in table : r # e => r \in table'
  BY <1>6
<1>11. QED
  BY <1>1, <1>7, <1>8, <1>9, <1>10 DEF Takes, e

-----------------------------------------------------------------------------
(* What the steps of a command know about their own instance: a command    *)
(* runs only in an agent that runs, except the supervisor's own launch of  *)
(* one, and a command that works on an item remembers which.               *)
ItemLabels ==
  {"judge", "preserve", "move", "claim", "add", "status", "remove", "release"}

UpWhileBusy ==
  \A i \in Instances :
    /\ up[i] => session[i] # 0
    /\ at[i] = "openRow" => ~up[i] /\ session[i] < MaxSession
    /\ at[i] \notin {"idle", "openRow"} => up[i]

HasItem == \A i \in Instances : at[i] \in ItemLabels => arg[i].item \in Items

Base == TypeOK /\ OneOwnerPerItem /\ UpWhileBusy /\ HasItem

(* The four ways a step of instance i changes the table.                   *)
TableChange(i) ==
  \/ UNCHANGED table
  \/ /\ Refreshes
     /\ \/ UNCHANGED <<at, arg, seen, tree, up, session>>
        \/ Close(i)
  \/ /\ Writes(i)
     /\ up[i] /\ UNCHANGED <<up, session>>
     /\ \/ at'[i] = "idle" /\ at[i] # "release"
        \/ ReleaseLast(i)
        \/ ClaimFirst(i) /\ \E s \in table', c \in Confirmed :
             /\ s.item = arg[i].item /\ s.instance = i
             /\ s.identity = IdentityOf(i, c)
  \/ Move(i) /\ Takes(i)

LEMMA ClaimItemWrites ==
  ASSUME TypeOK, OneOwnerPerItem, NEW item \in Items, NEW i \in Instances,
         NEW c \in Confirmed, session[i] # 0,
         ClaimItem(item, i, item, IdentityOf(i, c), now)
  PROVE  /\ Writes(i)
         /\ \E s \in table' : /\ s.item = item /\ s.instance = i
                              /\ s.identity = IdentityOf(i, c)
  BY InsertWrites, ResumeWrites DEF ClaimItem

LEMMA TableChanges ==
  ASSUME Base, NEW i \in Instances, Step(i)
  PROVE  TableChange(i)
<1>1. CASE Request(i)
  <2>1. up[i] /\ Idle(i) /\ UNCHANGED <<up, session, at>>
    BY <1>1 DEF Request, May, cmdVars
  <2>2. Writes(i)
    <3>1. PICK item \in Items, c \in Confirmed :
            ClaimItem(item, i, item, IdentityOf(i, c), now)
      BY <1>1 DEF Request
    <3>2. QED
      BY <2>1, <3>1, ClaimItemWrites DEF Base, UpWhileBusy
  <2>3. QED
    BY <2>1, <2>2 DEF TableChange, Idle
<1>2. CASE Refresh(i)
  <2>1. Refreshes
    BY <1>2, HeartbeatRefreshes DEF Refresh, Base
  <2>2. QED
    BY <1>2, <2>1 DEF Refresh, TableChange, envVars, cmdVars, diskVars
<1>3. CASE GiveUp(i)
  <2>1. up[i] /\ Idle(i) /\ UNCHANGED <<up, session, at>>
    BY <1>3 DEF GiveUp, May, cmdVars
  <2>2. Writes(i)
    BY <1>3, ReleaseWrites DEF GiveUp, Base
  <2>3. QED
    BY <2>1, <2>2 DEF TableChange, Idle
<1>4. CASE Move(i)
  <2>1. up[i] /\ session[i] # 0
    BY <1>4 DEF Move, Base, UpWhileBusy
  <2>2. QED
    BY <1>4, <2>1, ReassignTakes DEF Move, Base, TableChange
<1>5. CASE Close(i)
  <2>1. /\ up[i] /\ UNCHANGED <<up, session>>
        /\ at[i] = "close" /\ at'[i] = "idle" /\ arg[i].stamp \in Times
    BY <1>5 DEF Close, Finished, Base, UpWhileBusy, TypeOK
  <2>2. CASE arg[i].item = None
    BY <1>5, <2>2 DEF Close, DisposeClaim, TableChange
  <2>3. CASE arg[i].item # None /\ arg[i].done
    <3>1. Writes(i)
      BY <1>5, <2>3, ReleaseWrites DEF Close, DisposeClaim, Base
    <3>2. QED
      BY <2>1, <3>1 DEF TableChange
  <2>4. CASE arg[i].item # None /\ ~arg[i].done
    <3>1. Refreshes
      BY <1>5, <2>1, <2>4, RetainRefreshes DEF Close, DisposeClaim, Base
    <3>2. QED
      BY <1>5, <3>1 DEF TableChange
  <2>5. QED
    BY <2>2, <2>3, <2>4
<1>6. CASE ClaimFirst(i)
  <2>1. /\ up[i] /\ session[i] # 0 /\ UNCHANGED <<up, session>>
        /\ arg[i].item \in Items
    BY <1>6 DEF ClaimFirst, Base, UpWhileBusy, HasItem, ItemLabels, envVars
  <2>2. PICK c \in Confirmed :
          ClaimItem(arg[i].item, i, arg[i].item, IdentityOf(i, c), now)
    BY <1>6 DEF ClaimFirst
  <2>3. QED
    BY <1>6, <2>1, <2>2, ClaimItemWrites DEF Base, TableChange
<1>7. CASE AddFails(i)
  <2>1. /\ up[i] /\ UNCHANGED <<up, session>>
        /\ at[i] = "add" /\ at'[i] = "idle"
    BY <1>7 DEF AddFails, Finished, Base, UpWhileBusy, TypeOK, envVars
  <2>2. (UNCHANGED table) \/ Writes(i)
    BY <1>7, ReleaseWrites DEF AddFails, Undo, Base
  <2>3. QED
    BY <2>1, <2>2 DEF TableChange
<1>8. CASE ReleaseLast(i)
  <2>1. up[i] /\ UNCHANGED <<up, session>>
    BY <1>8 DEF ReleaseLast, Base, UpWhileBusy
  <2>2. Writes(i)
    BY <1>8, ReleaseWrites DEF ReleaseLast, Base
  <2>3. QED
    BY <1>8, <2>1, <2>2 DEF TableChange
<1>9. CASE \/ ResolveAssignment(i) \/ Exit(i) \/ OpenRow(i)
           \/ ReadClaim(i) \/ EndSession(i) \/ NewWorktree(i)
           \/ FinishWorktree(i) \/ Recover(i) \/ Edit(i) \/ Commit(i)
  BY <1>9 DEF ResolveAssignment, Exit, OpenRow, ReadClaim, EndSession,
     NewWorktree, FinishWorktree, Recover, Edit, Commit, claimVars, TableChange
<1>10. CASE \/ Judge(i) \/ Preserve(i) \/ PreserveFails(i) \/ Raced(i)
            \/ WriteHandoff(i) \/ HandoffFails(i) \/ CloseFails(i)
            \/ ClaimFirstRefused(i) \/ AddWorktree(i)
            \/ CheckClean(i) \/ FinishRefused(i) \/ RemoveWorktree(i)
  BY <1>10 DEF Judge, Preserve, PreserveFails, Raced, WriteHandoff,
     HandoffFails, CloseFails, ClaimFirstRefused, AddWorktree, CheckClean,
     FinishRefused, RemoveWorktree, claimVars, TableChange
<1>11. QED
  BY <1>1, <1>2, <1>3, <1>4, <1>5, <1>6, <1>7, <1>8, <1>9, <1>10
  DEF Step, CommandStep

(* A step of one instance leaves the commands, the agents and the sessions *)
(* of the others as they were, and starts no boot.                         *)
LEMMA OthersUnmoved ==
  ASSUME TypeOK, NEW i \in Instances, Step(i)
  PROVE  /\ boot' = boot
         /\ \A j \in Instances \ {i} :
              /\ at'[j] = at[j] /\ arg'[j] = arg[j] /\ seen'[j] = seen[j]
              /\ up'[j] = up[j] /\ session'[j] = session[j]
<1>1. CASE \/ ResolveAssignment(i) \/ Exit(i) \/ OpenRow(i)
           \/ Request(i) \/ Refresh(i) \/ GiveUp(i)
  BY <1>1 DEF ResolveAssignment, Exit, OpenRow, Request, Refresh, GiveUp,
     Goto, Remember, Finished, claimVars, envVars, cmdVars, TypeOK
<1>2. CASE \/ ReadClaim(i) \/ Judge(i) \/ Preserve(i) \/ PreserveFails(i)
           \/ Move(i) \/ Raced(i)
  BY <1>2 DEF ReadClaim, Judge, Preserve, PreserveFails, Move, Raced, Forget,
     Goto, Remember, Finished, claimVars, envVars, cmdVars, TypeOK
<1>3. CASE \/ EndSession(i) \/ WriteHandoff(i) \/ HandoffFails(i)
           \/ Close(i) \/ CloseFails(i)
  BY <1>3 DEF EndSession, WriteHandoff, HandoffFails, Close, CloseFails,
     Goto, Remember, Finished, claimVars, envVars, cmdVars, TypeOK
<1>4. CASE \/ NewWorktree(i) \/ ClaimFirst(i) \/ ClaimFirstRefused(i)
           \/ AddWorktree(i) \/ AddFails(i)
  BY <1>4 DEF NewWorktree, ClaimFirst, ClaimFirstRefused, AddWorktree, AddFails,
     Goto, Remember, Finished, claimVars, envVars, cmdVars, TypeOK
<1>5. CASE \/ FinishWorktree(i) \/ CheckClean(i) \/ FinishRefused(i)
           \/ RemoveWorktree(i) \/ ReleaseLast(i)
           \/ Recover(i) \/ Edit(i) \/ Commit(i)
  BY <1>5 DEF FinishWorktree, CheckClean, FinishRefused, RemoveWorktree,
     ReleaseLast, Recover, Edit, Commit,
     Goto, Remember, Finished, claimVars, envVars, cmdVars, TypeOK
<1>6. QED
  BY <1>1, <1>2, <1>3, <1>4, <1>5 DEF Step, CommandStep

(* An agent starts only with a session number nobody had.                  *)
LEMMA SessionsGrow ==
  ASSUME TypeOK, NEW i \in Instances, Step(i)
  PROVE  \/ session' = session /\ \A j \in Instances : up'[j] => up[j]
         \/ /\ at[i] = "openRow"
            /\ session' = [session EXCEPT ![i] = @ + 1]
            /\ up' = [up EXCEPT ![i] = TRUE]
<1>1. CASE \/ ResolveAssignment(i) \/ Exit(i) \/ OpenRow(i)
           \/ Request(i) \/ Refresh(i) \/ GiveUp(i)
  BY <1>1 DEF ResolveAssignment, Exit, OpenRow, Request, Refresh, GiveUp,
     envVars, TypeOK
<1>2. CASE \/ ReadClaim(i) \/ Judge(i) \/ Preserve(i) \/ PreserveFails(i)
           \/ Move(i) \/ Raced(i)
  BY <1>2 DEF ReadClaim, Judge, Preserve, PreserveFails, Move, Raced, envVars
<1>3. CASE \/ EndSession(i) \/ WriteHandoff(i) \/ HandoffFails(i)
           \/ Close(i) \/ CloseFails(i)
  BY <1>3 DEF EndSession, WriteHandoff, HandoffFails, Close, CloseFails, envVars
<1>4. CASE \/ NewWorktree(i) \/ ClaimFirst(i) \/ ClaimFirstRefused(i)
           \/ AddWorktree(i) \/ AddFails(i)
  BY <1>4 DEF NewWorktree, ClaimFirst, ClaimFirstRefused, AddWorktree, AddFails,
     envVars
<1>5. CASE \/ FinishWorktree(i) \/ CheckClean(i) \/ FinishRefused(i)
           \/ RemoveWorktree(i) \/ ReleaseLast(i)
           \/ Recover(i) \/ Edit(i) \/ Commit(i)
  BY <1>5 DEF FinishWorktree, CheckClean, FinishRefused, RemoveWorktree,
     ReleaseLast, Recover, Edit, Commit, envVars
<1>6. QED
  BY <1>1, <1>2, <1>3, <1>4, <1>5 DEF Step, CommandStep

(* The ways a step of instance i changes the checkout of an item.          *)
TreeChange(i, item) ==
  \/ tree'[item] = tree[item]
  \/ tree'[item] = Banked(item)
  \/ tree'[item] = CleanTree /\ tree[item].dirty
  \/ tree'[item] = CleanTree /\ AddWorktree(i) /\ arg[i].item = item
  \/ tree'[item] = NoTree /\ RemoveWorktree(i) /\ arg[i].item = item
  \/ /\ up[i] /\ tree[item].present
     /\ tree'[item] = [present |-> TRUE, dirty |-> TRUE,
                       unsaved |-> tree[item].unsaved \union {Process(i)}]

LEMMA TreeChanges ==
  ASSUME TypeOK, NEW i \in Instances, Step(i), NEW item \in Items
  PROVE  TreeChange(i, item)
<1>1. CASE \/ ResolveAssignment(i) \/ Exit(i) \/ OpenRow(i)
           \/ Request(i) \/ Refresh(i) \/ GiveUp(i)
  BY <1>1 DEF ResolveAssignment, Exit, OpenRow, Request, Refresh, GiveUp,
     diskVars, TreeChange
<1>2. CASE \/ ReadClaim(i) \/ Judge(i) \/ PreserveFails(i)
           \/ Move(i) \/ Raced(i)
  BY <1>2 DEF ReadClaim, Judge, PreserveFails, Move, Raced, diskVars, TreeChange
<1>3. CASE \/ EndSession(i) \/ WriteHandoff(i) \/ HandoffFails(i)
           \/ Close(i) \/ CloseFails(i)
  BY <1>3 DEF EndSession, WriteHandoff, HandoffFails, Close, CloseFails, diskVars,
     TreeChange
<1>4. CASE \/ NewWorktree(i) \/ ClaimFirst(i) \/ ClaimFirstRefused(i)
           \/ AddFails(i)
  BY <1>4 DEF NewWorktree, ClaimFirst, ClaimFirstRefused, AddFails, diskVars,
     TreeChange
<1>5. CASE \/ FinishWorktree(i) \/ CheckClean(i) \/ FinishRefused(i)
           \/ ReleaseLast(i)
  BY <1>5 DEF FinishWorktree, CheckClean, FinishRefused, ReleaseLast, diskVars,
     TreeChange
<1>6. CASE Preserve(i)
  BY <1>6 DEF Preserve, TreeChange, TypeOK
<1>7. CASE AddWorktree(i)
  <2>1. tree' = [tree EXCEPT ![arg[i].item] = CleanTree]
    BY <1>7 DEF AddWorktree
  <2>2. QED
    BY <1>7, <2>1 DEF TreeChange, TypeOK
<1>8. CASE RemoveWorktree(i)
  <2>1. tree' = [tree EXCEPT ![arg[i].item] = NoTree]
    BY <1>8 DEF RemoveWorktree
  <2>2. QED
    BY <1>8, <2>1 DEF TreeChange, TypeOK
<1>9. CASE Recover(i)
  BY <1>9 DEF Recover, TreeChange, TypeOK
<1>10. CASE Edit(i)
  BY <1>10 DEF Edit, TreeChange, TypeOK
<1>11. CASE Commit(i)
  BY <1>11 DEF Commit, TreeChange, TypeOK
<1>12. QED
  BY <1>1, <1>2, <1>3, <1>4, <1>5, <1>6, <1>7, <1>8, <1>9, <1>10, <1>11
  DEF Step, CommandStep


-----------------------------------------------------------------------------
(* Types, and what a command knows of its own instance.                    *)

LEMMA TableTypes ==
  ASSUME Base, NEW i \in Instances, Step(i)
  PROVE  table' \subseteq Claim /\ OneOwnerPerItem'
<1>1. CASE UNCHANGED table
  BY <1>1 DEF Base, TypeOK, OneOwnerPerItem
<1>2. CASE ~UNCHANGED table
  BY <1>2, TableChanges DEF TableChange, Refreshes, Writes, Takes
<1>3. QED
  BY <1>1, <1>2

LEMMA SessionTypes ==
  ASSUME Base, NEW i \in Instances, Step(i)
  PROVE  /\ up' \in [Instances -> BOOLEAN]
         /\ session' \in [Instances -> 0 .. MaxSession]
         /\ \A j \in Instances : up'[j] => session'[j] # 0
<1>1. CASE /\ at[i] = "openRow"
           /\ session' = [session EXCEPT ![i] = @ + 1]
           /\ up' = [up EXCEPT ![i] = TRUE]
  <2>1. session[i] < MaxSession
    BY <1>1 DEF Base, UpWhileBusy
  <2>2. session[i] + 1 \in 0 .. MaxSession /\ session[i] + 1 # 0
    BY <2>1, ProtocolAssumption DEF Base, TypeOK
  <2>3. QED
    BY <1>1, <2>2 DEF Base, TypeOK, UpWhileBusy
<1>2. CASE session' = session /\ \A j \in Instances : up'[j] => up[j]
  <2>1. up' \in [Instances -> BOOLEAN]
    <3>1. CASE Exit(i)
      BY <3>1 DEF Exit, Base, TypeOK
    <3>2. CASE OpenRow(i)
      BY <3>2 DEF OpenRow, Base, TypeOK
    <3>3. CASE ~Exit(i) /\ ~OpenRow(i)
      <4>1. UNCHANGED up
        BY <3>3 DEF Step, CommandStep, ResolveAssignment, Request, Refresh,
           GiveUp, ReadClaim, Judge, Preserve, PreserveFails, Move, Raced,
           EndSession, WriteHandoff, HandoffFails, Close, CloseFails,
           NewWorktree, ClaimFirst, ClaimFirstRefused, AddWorktree, AddFails,
           FinishWorktree, CheckClean, FinishRefused, RemoveWorktree,
           ReleaseLast, Recover, Edit, Commit, envVars
      <4>2. QED
        BY <4>1 DEF Base, TypeOK
    <3>4. QED
      BY <3>1, <3>2, <3>3
  <2>2. QED
    BY <1>2, <2>1 DEF Base, TypeOK, UpWhileBusy
<1>3. QED
  BY <1>1, <1>2, SessionsGrow DEF Base

(* The command of an instance, step by step.                               *)
CommandTypes ==
  /\ seen \in [Instances -> Claim \union {NoRow}]
  /\ assigned \in [Instances -> Items \union {None}]
  /\ at \in [Instances -> Labels]
  /\ arg \in [Instances -> [item : Items \union {None}, mine : BOOLEAN,
                            done : BOOLEAN, stamp : Times]]

LEMMA NoArgType ==
  ASSUME TypeOK
  PROVE  /\ NoArg \in [item : Items \union {None}, mine : BOOLEAN,
                       done : BOOLEAN, stamp : Times]
         /\ \A item \in Items \union {None}, mine \in BOOLEAN, done \in BOOLEAN :
              [item |-> item, mine |-> mine, done |-> done, stamp |-> now] \in
                [item : Items \union {None}, mine : BOOLEAN,
                 done : BOOLEAN, stamp : Times]
<1>1. 0 \in Times /\ now \in Times
  BY BoundsAssumption DEF Times, TypeOK
<1>2. QED
  BY <1>1 DEF NoArg

LEMMA FinishedTypes ==
  ASSUME TypeOK, NEW i \in Instances, Finished(i)
  PROVE  /\ at' \in [Instances -> Labels]
         /\ arg' \in [Instances -> [item : Items \union {None}, mine : BOOLEAN,
                                   done : BOOLEAN, stamp : Times]]
  BY NoArgType DEF Finished, Labels, TypeOK

LEMMA GotoTypes ==
  ASSUME TypeOK, NEW i, NEW l \in Labels, Goto(i, l)
  PROVE  at' \in [Instances -> Labels]
  BY DEF Goto, TypeOK

LEMMA CommandTypesStep ==
  ASSUME Base, NEW i \in Instances, Step(i)
  PROVE  CommandTypes' /\ now' = now
<1> USE NoArgType
<1>1. CASE ResolveAssignment(i)
  <2>1. PICK item \in Items \union {None} : Remember(i, item, FALSE, FALSE)
    BY <1>1 DEF ResolveAssignment
  <2>2. QED
    BY <1>1, <2>1 DEF ResolveAssignment, Remember, Goto, claimVars, envVars,
       Base, TypeOK, CommandTypes, Labels
<1>2. CASE EndSession(i)
  <2>1. PICK done \in BOOLEAN, item \in Items \union {None} :
          Remember(i, item, FALSE, done)
    BY <1>2 DEF EndSession
  <2>2. QED
    BY <1>2, <2>1 DEF EndSession, Remember, Goto, claimVars, envVars,
       Base, TypeOK, CommandTypes, Labels
<1>3. CASE NewWorktree(i)
  <2>1. PICK item \in Items : Remember(i, item, Holds(i, item), FALSE)
    BY <1>3 DEF NewWorktree
  <2>2. Holds(i, item) \in BOOLEAN
    BY DEF Holds
  <2>3. QED
    BY <1>3, <2>1, <2>2 DEF NewWorktree, Remember, Goto, claimVars, envVars,
       Base, TypeOK, CommandTypes, Labels
<1>4. CASE FinishWorktree(i)
  <2>1. PICK item \in Items : Remember(i, item, TRUE, FALSE)
    BY <1>4 DEF FinishWorktree
  <2>2. QED
    BY <1>4, <2>1 DEF FinishWorktree, Remember, Goto, claimVars, envVars,
       Base, TypeOK, CommandTypes, Labels
<1>5. CASE ReadClaim(i)
  <2>1. PICK r \in table : /\ seen' = [seen EXCEPT ![i] = r]
                           /\ Remember(i, r.item, FALSE, FALSE)
    BY <1>5 DEF ReadClaim
  <2>2. r \in Claim /\ r.item \in Items
    BY RowType DEF Base, TypeOK
  <2>3. QED
    BY <1>5, <2>1, <2>2 DEF ReadClaim, Remember, Goto, envVars,
       Base, TypeOK, CommandTypes, Labels
<1>6. CASE Judge(i) \/ Preserve(i) \/ WriteHandoff(i) \/ ClaimFirst(i)
           \/ CheckClean(i) \/ RemoveWorktree(i)
  <2>1. (\E l \in Labels : Goto(i, l) /\ arg' = arg) \/ Finished(i)
    BY <1>6 DEF Judge, Preserve, WriteHandoff, ClaimFirst, CheckClean,
       RemoveWorktree, Forget, Labels
  <2>2. /\ at' \in [Instances -> Labels]
        /\ arg' \in [Instances -> [item : Items \union {None}, mine : BOOLEAN,
                                  done : BOOLEAN, stamp : Times]]
    BY <2>1, GotoTypes, FinishedTypes DEF Base, TypeOK
  <2>3. now' = now /\ assigned' = assigned
    BY <1>6 DEF Judge, Preserve, WriteHandoff, ClaimFirst, CheckClean,
       RemoveWorktree, claimVars, envVars
  <2>4. seen' = seen \/ seen' = [seen EXCEPT ![i] = NoRow]
    BY <1>6 DEF Judge, Preserve, WriteHandoff, ClaimFirst, CheckClean,
       RemoveWorktree, Forget, claimVars
  <2>5. QED
    BY <2>2, <2>3, <2>4 DEF Base, TypeOK, CommandTypes
<1>7. CASE Request(i) \/ Refresh(i) \/ GiveUp(i) \/ Recover(i) \/ Edit(i) \/ Commit(i)
  <2>1. UNCHANGED <<now, seen, at, arg>>
    BY <1>7 DEF Request, Refresh, GiveUp, Recover, Edit, Commit, claimVars, cmdVars
  <2>2. (\E item \in Items \union {None} : assigned' = [assigned EXCEPT ![i] = item])
        \/ assigned' = assigned
    BY <1>7 DEF Request, Refresh, GiveUp, Recover, Edit, Commit, envVars
  <2>3. QED
    BY <2>1, <2>2 DEF Base, TypeOK, CommandTypes
<1>8. CASE \/ Exit(i) \/ OpenRow(i) \/ PreserveFails(i) \/ Move(i) \/ Raced(i)
           \/ HandoffFails(i) \/ Close(i) \/ CloseFails(i)
           \/ ClaimFirstRefused(i) \/ AddWorktree(i) \/ AddFails(i)
           \/ FinishRefused(i) \/ ReleaseLast(i)
  <2>1. Finished(i)
    BY <1>8 DEF Exit, OpenRow, PreserveFails, Move, Raced, HandoffFails, Close,
       CloseFails, ClaimFirstRefused, AddWorktree, AddFails, FinishRefused,
       ReleaseLast, Forget
  <2>2. now' = now
    BY <1>8 DEF Exit, OpenRow, PreserveFails, Move, Raced, HandoffFails, Close,
       CloseFails, ClaimFirstRefused, AddWorktree, AddFails, FinishRefused,
       ReleaseLast, claimVars
  <2>3. seen' = seen \/ seen' = [seen EXCEPT ![i] = NoRow]
    BY <1>8 DEF Exit, OpenRow, PreserveFails, Move, Raced, HandoffFails, Close,
       CloseFails, ClaimFirstRefused, AddWorktree, AddFails, FinishRefused,
       ReleaseLast, Forget, claimVars
  <2>4. \E item \in Items \union {None} : assigned' = [assigned EXCEPT ![i] = item]
    BY <1>8 DEF Exit, OpenRow, PreserveFails, Move, Raced, HandoffFails, Close,
       CloseFails, ClaimFirstRefused, AddWorktree, AddFails, FinishRefused,
       ReleaseLast, envVars, Base, TypeOK
  <2>5. QED
    BY <2>1, <2>2, <2>3, <2>4, FinishedTypes DEF Base, TypeOK, CommandTypes
<1>9. QED
  BY <1>1, <1>2, <1>3, <1>4, <1>5, <1>6, <1>7, <1>8
  DEF Step, CommandStep

(* What the program keeps on disk beside the table.                        *)
DiskTypes ==
  /\ tree \in [Items -> [present : BOOLEAN, dirty : BOOLEAN,
                         unsaved : SUBSET Processes]]
  /\ log \subseteq [instance : Instances, session : 1 .. MaxSession,
                    item : Items \union {None},
                    outcome : {"open", "ended", "abandoned"}]
  /\ handoffs \subseteq Processes

LEMMA ProcessType ==
  ASSUME TypeOK, UpWhileBusy, NEW i \in Instances, up[i]
  PROVE  Process(i) \in Processes /\ Running(Process(i))
  BY DEF TypeOK, UpWhileBusy, Process, Processes, Running

LEMMA DiskTypesStep ==
  ASSUME Base, NEW i \in Instances, Step(i)
  PROVE  DiskTypes'
<1> DEFINE Tree == [present : BOOLEAN, dirty : BOOLEAN, unsaved : SUBSET Processes]
           Row  == [instance : Instances, session : 1 .. MaxSession,
                    item : Items \union {None},
                    outcome : {"open", "ended", "abandoned"}]
<1>1. tree' \in [Items -> Tree]
  <2>1. CASE AddWorktree(i)
    BY <2>1 DEF AddWorktree, CleanTree, Base, TypeOK
  <2>2. CASE RemoveWorktree(i)
    BY <2>2 DEF RemoveWorktree, NoTree, Base, TypeOK
  <2>3. CASE Preserve(i)
    <3>1. arg[i].item \in Items
      BY <2>3 DEF Preserve, Base, HasItem, ItemLabels
    <3>2. Banked(arg[i].item) \in Tree
      BY <3>1 DEF Banked, Base, TypeOK
    <3>3. QED
      BY <2>3, <3>2 DEF Preserve, Base, TypeOK
  <2>4. CASE Recover(i)
    <3>1. PICK item \in Items : tree' = [tree EXCEPT ![item] = Banked(item)]
      BY <2>4 DEF Recover
    <3>2. Banked(item) \in Tree
      BY DEF Banked, Base, TypeOK
    <3>3. QED
      BY <3>1, <3>2 DEF Base, TypeOK
  <2>5. CASE Edit(i)
    <3>1. Process(i) \in Processes
      BY <2>5, ProcessType DEF Edit, Base
    <3>2. QED
      BY <2>5, <3>1 DEF Edit, Base, TypeOK
  <2>6. CASE Commit(i)
    BY <2>6 DEF Commit, CleanTree, Base, TypeOK
  <2>7. CASE \/ ResolveAssignment(i) \/ Exit(i) \/ OpenRow(i)
             \/ Request(i) \/ Refresh(i) \/ GiveUp(i)
             \/ ReadClaim(i) \/ Judge(i) \/ PreserveFails(i)
             \/ Move(i) \/ Raced(i)
             \/ EndSession(i) \/ WriteHandoff(i) \/ HandoffFails(i)
             \/ Close(i) \/ CloseFails(i)
             \/ NewWorktree(i) \/ ClaimFirst(i) \/ ClaimFirstRefused(i)
             \/ AddFails(i) \/ FinishWorktree(i) \/ CheckClean(i)
             \/ FinishRefused(i) \/ ReleaseLast(i)
    <3>1. tree' = tree
      BY <2>7 DEF ResolveAssignment, Exit, OpenRow, Request, Refresh, GiveUp,
         ReadClaim, Judge, PreserveFails, Move, Raced, EndSession, WriteHandoff,
         HandoffFails, Close, CloseFails, NewWorktree, ClaimFirst,
         ClaimFirstRefused, AddFails, FinishWorktree, CheckClean, FinishRefused,
         ReleaseLast, diskVars
    <3>2. QED
      BY <3>1 DEF Base, TypeOK
  <2>8. QED
    BY <2>1, <2>2, <2>3, <2>4, <2>5, <2>6, <2>7 DEF Step, CommandStep
<1>2. log' \subseteq Row
  <2>1. CASE OpenRow(i)
    <3>1. session[i] + 1 \in 1 .. MaxSession /\ arg[i].item \in Items \union {None}
      <4>1. session[i] < MaxSession
        BY <2>1 DEF OpenRow, Base, UpWhileBusy
      <4>2. QED
        BY <4>1, ProtocolAssumption DEF Base, TypeOK
    <3>2. Closed(OpenRows(i), "abandoned") \subseteq Row
      BY DEF Closed, OpenRows, Base, TypeOK
    <3>3. QED
      BY <2>1, <3>1, <3>2 DEF OpenRow, AbandonOpenRows, Base, TypeOK
  <2>2. CASE Close(i)
    <3>1. EndedRows(i) \subseteq Row
      BY DEF EndedRows, OpenRows, Base, TypeOK
    <3>2. Closed(EndedRows(i), "ended") \subseteq Row
      BY <3>1 DEF Closed
    <3>3. QED
      BY <2>2, <3>2 DEF Close, Base, TypeOK
  <2>3. CASE ~OpenRow(i) /\ ~Close(i)
    <3>1. log' = log
      BY <2>3 DEF Step, CommandStep, ResolveAssignment, Exit, Request, Refresh,
         GiveUp, ReadClaim, Judge, Preserve, PreserveFails, Move, Raced,
         EndSession, WriteHandoff, HandoffFails, CloseFails, NewWorktree,
         ClaimFirst, ClaimFirstRefused, AddWorktree, AddFails, FinishWorktree,
         CheckClean, FinishRefused, RemoveWorktree, ReleaseLast, Recover, Edit,
         Commit, diskVars
    <3>2. QED
      BY <3>1 DEF Base, TypeOK
  <2>4. QED
    BY <2>1, <2>2, <2>3
<1>3. handoffs' \subseteq Processes
  <2>1. CASE WriteHandoff(i)
    <3>1. Process(i) \in Processes
      BY <2>1, ProcessType DEF WriteHandoff, Base, UpWhileBusy
    <3>2. QED
      BY <2>1, <3>1 DEF WriteHandoff, Base, TypeOK
  <2>2. CASE ~WriteHandoff(i)
    <3>1. handoffs' = handoffs
      BY <2>2 DEF Step, CommandStep, ResolveAssignment, Exit, OpenRow, Request,
         Refresh, GiveUp, ReadClaim, Judge, Preserve, PreserveFails, Move, Raced,
         EndSession, HandoffFails, Close, CloseFails, NewWorktree,
         ClaimFirst, ClaimFirstRefused, AddWorktree, AddFails, FinishWorktree,
         CheckClean, FinishRefused, RemoveWorktree, ReleaseLast, Recover, Edit,
         Commit, diskVars
    <3>2. QED
      BY <3>1 DEF Base, TypeOK
  <2>3. QED
    BY <2>1, <2>2
<1>4. QED
  BY <1>1, <1>2, <1>3 DEF DiskTypes

LEMMA KnowsOwnStep ==
  ASSUME Base, NEW i \in Instances, Step(i)
  PROVE  UpWhileBusy' /\ HasItem'
<1> DEFINE Knows == /\ at'[i] = "openRow" => ~up'[i] /\ session'[i] < MaxSession
                    /\ at'[i] \notin {"idle", "openRow"} => up'[i]
                    /\ at'[i] \in ItemLabels => arg'[i].item \in Items
<1>1. Knows
  <2>1. CASE ResolveAssignment(i) \/ Exit(i) \/ OpenRow(i)
    BY <2>1 DEF ResolveAssignment, Exit, OpenRow, Goto, Finished, envVars,
       ItemLabels, Base, TypeOK
  <2>2. CASE Request(i) \/ Refresh(i) \/ GiveUp(i) \/ Recover(i) \/ Edit(i) \/ Commit(i)
    BY <2>2 DEF Request, Refresh, GiveUp, Recover, Edit, Commit, envVars, cmdVars,
       Base, TypeOK, UpWhileBusy, HasItem
  <2>3. CASE ReadClaim(i)
    <3>1. PICK r \in table : Remember(i, r.item, FALSE, FALSE)
      BY <2>3 DEF ReadClaim
    <3>2. r.item \in Items
      BY RowType DEF Base, TypeOK
    <3>3. QED
      BY <2>3, <3>1, <3>2 DEF ReadClaim, May, Remember, Goto, envVars, Base, TypeOK
  <2>4. CASE EndSession(i) \/ NewWorktree(i) \/ FinishWorktree(i)
    BY <2>4 DEF EndSession, NewWorktree, FinishWorktree, May, Remember, Goto,
       envVars, ItemLabels, Base, TypeOK
  <2>5. CASE Judge(i) \/ Preserve(i) \/ PreserveFails(i) \/ Move(i) \/ Raced(i)
    BY <2>5 DEF Judge, Preserve, PreserveFails, Move, Raced, Forget, Finished,
       Goto, envVars, ItemLabels, Base, TypeOK, UpWhileBusy, HasItem
  <2>6. CASE WriteHandoff(i) \/ HandoffFails(i) \/ Close(i) \/ CloseFails(i)
    BY <2>6 DEF WriteHandoff, HandoffFails, Close, CloseFails, Finished, Goto,
       envVars, ItemLabels, Base, TypeOK, UpWhileBusy
  <2>7. CASE ClaimFirst(i) \/ ClaimFirstRefused(i) \/ AddWorktree(i) \/ AddFails(i)
    BY <2>7 DEF ClaimFirst, ClaimFirstRefused, AddWorktree, AddFails, Finished,
       Goto, envVars, ItemLabels, Base, TypeOK, UpWhileBusy, HasItem
  <2>8. CASE CheckClean(i) \/ FinishRefused(i) \/ RemoveWorktree(i) \/ ReleaseLast(i)
    BY <2>8 DEF CheckClean, FinishRefused, RemoveWorktree, ReleaseLast, Finished,
       Goto, envVars, ItemLabels, Base, TypeOK, UpWhileBusy, HasItem
  <2>9. QED
    BY <2>1, <2>2, <2>3, <2>4, <2>5, <2>6, <2>7, <2>8 DEF Step, CommandStep
<1>2. \A j \in Instances \ {i} :
        /\ at'[j] = at[j] /\ arg'[j] = arg[j]
        /\ up'[j] = up[j] /\ session'[j] = session[j]
  BY OthersUnmoved DEF Base
<1>3. UpWhileBusy'
  BY <1>1, <1>2, SessionTypes DEF UpWhileBusy, Base
<1>4. HasItem'
  BY <1>1, <1>2 DEF HasItem, Base
<1>5. QED
  BY <1>3, <1>4

LEMMA BaseStep ==
  ASSUME Base, NEW i \in Instances, Step(i)
  PROVE  Base'
<1>1. boot' = boot
  BY OthersUnmoved DEF Base
<1>2. now' = now /\ CommandTypes'
  BY CommandTypesStep
<1>3. TypeOK'
  <2>1. now' \in Times /\ boot' \in 0 .. MaxBoot
    BY <1>1, <1>2 DEF Base, TypeOK
  <2>2. QED
    BY <2>1, <1>2, TableTypes, SessionTypes, DiskTypesStep
    DEF TypeOK, CommandTypes, DiskTypes
<1>4. QED
  BY <1>3, TableTypes, KnowsOwnStep DEF Base


-----------------------------------------------------------------------------
(* What was recorded about the owner of a claim.                           *)

(* A recorded process is one that has run, with the start token, the boot  *)
(* and the multiplexer session it had.                                     *)
Honest(id) ==
  id.pid # None =>
    /\ id.pid \in Processes
    /\ id.pid[2] <= session[id.pid[1]]
    /\ id.pid_start = Token(id.pid)
    /\ Running(id.pid) => /\ id.boot_id \in {None, BootId(boot)}
                          /\ id.mux_session \in {None, id.pid[1]}

RowsHonest ==
  /\ \A r \in table : Honest(r.identity)
  /\ \A i \in Instances : seen[i] # NoRow => Honest(seen[i].identity)

(* A process that has ended does not come back.                            *)
LEMMA NoComeback ==
  ASSUME Base, NEW i \in Instances, Step(i),
         NEW p \in Processes, p[2] <= session[p[1]]
  PROVE  p[2] <= session'[p[1]] /\ (Running(p)' => Running(p))
<1>1. p[1] \in Instances /\ p[2] \in 1 .. MaxSession
  BY DEF Processes
<1>2. session[p[1]] \in Nat /\ session[i] \in Nat
  BY <1>1 DEF Base, TypeOK
<1>3. CASE session' = session /\ \A j \in Instances : up'[j] => up[j]
  BY <1>1, <1>3 DEF Running
<1>4. CASE /\ at[i] = "openRow"
           /\ session' = [session EXCEPT ![i] = @ + 1]
           /\ up' = [up EXCEPT ![i] = TRUE]
  BY <1>1, <1>2, <1>4, ProtocolAssumption DEF Running, Base, TypeOK
<1>5. QED
  BY <1>3, <1>4, SessionsGrow DEF Base

LEMMA StaysHonest ==
  ASSUME Base, NEW i \in Instances, Step(i), NEW id, Honest(id)
  PROVE  Honest(id)'
<1>1. CASE id.pid = None
  BY <1>1 DEF Honest
<1>2. CASE id.pid # None
  <2>1. id.pid \in Processes /\ id.pid[2] <= session[id.pid[1]]
    BY <1>2 DEF Honest
  <2>2. id.pid[2] <= session'[id.pid[1]] /\ (Running(id.pid)' => Running(id.pid))
    BY <2>1, NoComeback
  <2>3. boot' = boot
    BY OthersUnmoved DEF Base
  <2>4. QED
    BY <1>2, <2>1, <2>2, <2>3 DEF Honest
<1>3. QED
  BY <1>1, <1>2

(* What agent_identity() writes is honest.                                 *)
LEMMA WrittenHonest ==
  ASSUME TypeOK, UpWhileBusy, NEW i \in Instances, up[i], NEW c \in Confirmed
  PROVE  Honest(IdentityOf(i, c))
<1> DEFINE id == IdentityOf(i, c)
<1>1. id.pid \in {None, Process(i)} /\ id.boot_id \in {None, BootId(boot)}
      /\ id.mux_session \in {None, i}
      /\ (id.pid # None => id.pid_start = Token(Process(i)))
  BY DEF IdentityOf, AgentIdentity, Yes, Unknown
<1>2. Process(i) \in Processes /\ Process(i) = <<i, session[i]>>
  BY ProcessType DEF Process
<1>3. session[i] \in Nat
  BY DEF TypeOK
<1> HIDE DEF id
<1>4. Honest(id)
  BY <1>1, <1>2, <1>3 DEF Honest
<1>5. QED
  BY <1>4 DEF id

LEMMA HonestStep ==
  ASSUME Base, RowsHonest, NEW i \in Instances, Step(i)
  PROVE  RowsHonest'
<1>1. \A r \in table : Honest(r.identity)'
  BY StaysHonest DEF RowsHonest
<1>2. \A s \in table' : OwnRow(i, s) \/ \E r \in table : s.identity = r.identity
  <2>1. CASE Refreshes
    BY <2>1 DEF Refreshes, Like
  <2>2. CASE Writes(i)
    BY <2>2 DEF Writes, Like
  <2>3. CASE Takes(i)
    BY <2>3 DEF Takes
  <2>4. CASE UNCHANGED table
    BY <2>4
  <2>5. QED
    BY <2>1, <2>2, <2>3, <2>4, TableChanges DEF TableChange
<1>3. ASSUME NEW s \in table', OwnRow(i, s), ~\E r \in table : s.identity = r.identity
      PROVE  Honest(s.identity)'
  <2>1. up[i]
    <3>1. CASE Refreshes
      BY <3>1, <1>3 DEF Refreshes, Like
    <3>2. CASE Writes(i) /\ up[i]
      BY <3>2
    <3>3. CASE Move(i)
      BY <3>3 DEF Move, Base, UpWhileBusy
    <3>4. CASE UNCHANGED table
      BY <3>4, <1>3
    <3>5. QED
      BY <3>1, <3>2, <3>3, <3>4, TableChanges DEF TableChange
  <2>2. PICK c \in Confirmed : s.identity = IdentityOf(i, c)
    BY <1>3 DEF OwnRow
  <2>3. Honest(s.identity)
    BY <2>1, <2>2, WrittenHonest DEF Base
  <2>4. QED
    BY <2>3, StaysHonest
<1>4. \A s \in table' : Honest(s.identity)'
  BY <1>1, <1>2, <1>3
<1>5. ASSUME NEW j \in Instances, (seen[j] # NoRow)'
      PROVE  Honest(seen[j].identity)'
  <2> SUFFICES ASSUME NEW id, id = seen'[j].identity
               PROVE  Honest(id)'
    BY DEF Honest, Running
  <2>1. CASE seen'[j] = seen[j]
    <3>1. Honest(id)
      BY <1>5, <2>1 DEF RowsHonest
    <3>2. QED
      BY <3>1, StaysHonest
  <2>2. CASE seen'[j] # seen[j]
    <3>1. j = i
      BY <2>2, OthersUnmoved DEF Base
    <3>2. ReadClaim(i)
      BY <2>2, <3>1, <1>5 DEF Step, CommandStep, ResolveAssignment, Exit,
         OpenRow, Request, Refresh, GiveUp, Judge, Preserve, PreserveFails, Move,
         Raced, EndSession, WriteHandoff, HandoffFails, Close, CloseFails,
         NewWorktree, ClaimFirst, ClaimFirstRefused, AddWorktree, AddFails,
         FinishWorktree, CheckClean, FinishRefused, RemoveWorktree, ReleaseLast,
         Recover, Edit, Commit, Forget, claimVars, Base, TypeOK
    <3>3. seen'[i] \in table
      BY <3>2 DEF ReadClaim, Base, TypeOK
    <3>4. QED
      BY <1>1, <3>1, <3>3
  <2>3. QED
    BY <2>1, <2>2
<1>6. QED
  BY <1>4, <1>5 DEF RowsHonest


-----------------------------------------------------------------------------
(* A reclaim that goes on: the owner it judged is gone, for good, and after *)
(* preserve() nothing of it is unsaved.                                    *)

Judging ==
  \A i \in Instances :
    /\ at[i] \in {"judge", "preserve", "move"} =>
         seen[i] # NoRow /\ arg[i].item = seen[i].item
    /\ at[i] \in {"preserve", "move"} =>
         (seen[i].identity.pid # None => ~Running(seen[i].identity.pid))
    /\ at[i] = "move" => seen[i].identity.pid \notin tree[seen[i].item].unsaved

(* An ending session that has come to its claim has written its handoff.   *)
Closing == \A i \in Instances : at[i] = "close" => Process(i) \in handoffs

(* Unsaved edits are changes, and changes are in a checkout that is there. *)
Trees ==
  \A item \in Items :
    /\ tree[item].unsaved # {} => tree[item].dirty
    /\ tree[item].dirty => tree[item].present

(* No reading of the probes makes the verdict on a recorded process that   *)
(* runs anything but LIVE or STALE.                                        *)
LEMMA DeadIsGone ==
  ASSUME NEW r, Honest(r.identity), r.identity.pid # None,
         NEW rd \in Readings(r), Reclaimable(Verdict(r, rd))
  PROVE  ~Running(r.identity.pid)
<1> DEFINE id == r.identity
<1> SUFFICES ASSUME Running(id.pid) PROVE FALSE
  OBVIOUS
<1>1. /\ id.pid \in Processes /\ id.pid_start = Token(id.pid)
      /\ id.boot_id \in {None, BootId(boot)}
      /\ id.mux_session \in {None, id.pid[1]}
  BY DEF Honest
<1>2. /\ rd.boot \in {BootId(boot), None}
      /\ rd.running \in {Yes, Unknown}
      /\ rd.token \in {Token(id.pid), None}
      /\ rd.session \in {Truth(r).session, Unknown}
  BY DEF Readings, Truth
<1>3. ~BootDiffers(id, rd)
  BY <1>1, <1>2 DEF BootDiffers, SameBoot, Same, BootId, Unknown, Yes, No
<1>4. ~PidGone(id, rd)
  <2>1. SameStartToken(id.pid_start, rd.token) # No
    BY <1>1, <1>2 DEF SameStartToken, IsStartToken, Same, Unknown, Yes, No
  <2>2. QED
    BY <1>2, <2>1 DEF PidGone, Unknown, Yes, No
<1>5. ~MuxGone(id, rd)
  BY <1>1, <1>2 DEF MuxGone, Truth, Running, Unknown, Yes, No
<1>6. Verdict(r, rd) # DEAD
  BY <1>3, <1>4, <1>5 DEF Verdict, Assess, STALE, DEAD, LIVE
<1>7. QED
  BY <1>6 DEF Reclaimable

(* A process that does not run adds nothing to a checkout.                 *)
LEMMA NothingAdded ==
  ASSUME Base, NEW i \in Instances, Step(i), NEW item \in Items, NEW p,
         p \in Processes => ~Running(p), p \notin tree[item].unsaved
  PROVE  p \notin tree'[item].unsaved
<1>1. CASE up[i] /\ tree'[item] = [present |-> TRUE, dirty |-> TRUE,
                        unsaved |-> tree[item].unsaved \union {Process(i)}]
  BY <1>1, ProcessType DEF Base
<1>2. CASE tree'[item] \in {tree[item], Banked(item), CleanTree, NoTree}
  BY <1>2 DEF Banked, CleanTree, NoTree, Base, TypeOK
<1>3. QED
  BY <1>1, <1>2, TreeChanges DEF TreeChange, Base

LEMMA JudgingStep ==
  ASSUME Base, RowsHonest, Judging, NEW i \in Instances, Step(i)
  PROVE  Judging'
<1>1. ASSUME NEW j \in Instances, NEW e, e = seen[j],
             at[j] \in {"judge", "preserve", "move"}
      PROVE  /\ e # NoRow /\ arg[j].item = e.item
             /\ Honest(e.identity) /\ e \in Claim /\ e.item \in Items
  BY <1>1, RowType DEF Judging, RowsHonest, Base, TypeOK
<1>2. ASSUME NEW p, p # None => p \in Processes /\ p[2] <= session[p[1]] /\ ~Running(p)
      PROVE  p # None => ~Running(p)'
  BY <1>2, NoComeback
<1> DEFINE Fit(j) ==
      /\ at'[j] \in {"judge", "preserve", "move"} =>
           seen'[j] # NoRow /\ arg'[j].item = seen'[j].item
      /\ at'[j] \in {"preserve", "move"} =>
           \A p : p = seen'[j].identity.pid /\ p # None => ~Running(p)'
      /\ at'[j] = "move" =>
           seen'[j].identity.pid \notin tree'[seen'[j].item].unsaved
<1>3. ASSUME NEW j \in Instances, at'[j] = at[j], arg'[j] = arg[j], seen'[j] = seen[j]
      PROVE  Fit(j)
  <2>1. CASE at[j] \notin {"judge", "preserve", "move"}
    BY <1>3, <2>1
  <2>2. CASE at[j] \in {"judge", "preserve", "move"}
    <3>1. PICK e : e = seen[j]
      OBVIOUS
    <3>2. e # NoRow /\ arg[j].item = e.item /\ Honest(e.identity) /\ e.item \in Items
      BY <1>1, <2>2, <3>1
    <3>3. PICK p : p = e.identity.pid
      OBVIOUS
    <3>4. at[j] \in {"preserve", "move"} => (p # None => ~Running(p))
      BY <3>1, <3>3 DEF Judging
    <3>5. at[j] = "move" => p \notin tree[e.item].unsaved
      BY <3>1, <3>3 DEF Judging
    <3>6. at[j] \in {"preserve", "move"} => (p # None => ~Running(p)')
      BY <1>2, <3>2, <3>3, <3>4 DEF Honest
    <3>7. at[j] = "move" => p \notin tree'[e.item].unsaved
      <4>1. None \notin Processes
        BY IdentityAssumption
      <4>2. QED
        BY <4>1, <3>2, <3>4, <3>5, NothingAdded
    <3>8. QED
      BY <1>3, <3>1, <3>2, <3>3, <3>6, <3>7
  <2>3. QED
    BY <2>1, <2>2
<1>4. Fit(i)
  <2>1. CASE ReadClaim(i)
    <3>1. at'[i] = "judge"
      BY <2>1 DEF ReadClaim, Goto, Base, TypeOK
    <3>2. PICK r \in table : /\ seen' = [seen EXCEPT ![i] = r]
                             /\ Remember(i, r.item, FALSE, FALSE)
      BY <2>1 DEF ReadClaim
    <3>3. r # NoRow /\ seen'[i] = r /\ arg'[i].item = r.item
      BY <3>2, NoRowAssumption DEF Remember, Base, TypeOK
    <3>4. QED
      BY <3>1, <3>3
  <2>2. CASE Judge(i)
    <3>1. CASE at'[i] # "preserve"
      BY <2>2, <3>1 DEF Judge, Goto, Forget, Finished, Base, TypeOK
    <3>2. CASE at'[i] = "preserve"
      <4>1. PICK e : e = seen[i]
        OBVIOUS
      <4>2. PICK rd \in Readings(e) : Reclaimable(Verdict(e, rd))
        BY <2>2, <3>2, <4>1 DEF Judge, Goto, Forget, Finished, Base, TypeOK
      <4>3. seen'[i] = e /\ arg'[i] = arg[i] /\ at[i] = "judge"
        BY <2>2, <3>2, <4>1 DEF Judge, Goto, Forget, Finished, Base, TypeOK
      <4>4. e # NoRow /\ arg[i].item = e.item /\ Honest(e.identity)
        BY <1>1, <4>1, <4>3
      <4>5. PICK p : p = e.identity.pid
        OBVIOUS
      <4>6. p # None => ~Running(p)
        BY <4>2, <4>4, <4>5, DeadIsGone
      <4>7. p # None => ~Running(p)'
        BY <1>2, <4>4, <4>5, <4>6 DEF Honest
      <4>8. QED
        BY <3>2, <4>3, <4>4, <4>5, <4>7
    <3>3. QED
      BY <3>1, <3>2
  <2>3. CASE Preserve(i)
    <3>1. /\ at[i] = "preserve" /\ at'[i] = "move"
          /\ seen'[i] = seen[i] /\ arg'[i] = arg[i]
          /\ tree' = [tree EXCEPT ![arg[i].item] = Banked(arg[i].item)]
      BY <2>3 DEF Preserve, Goto, claimVars, Base, TypeOK
    <3>2. PICK e : e = seen[i]
      OBVIOUS
    <3>3. e # NoRow /\ arg[i].item = e.item /\ Honest(e.identity) /\ e.item \in Items
      BY <1>1, <3>1, <3>2
    <3>4. PICK p : p = e.identity.pid
      OBVIOUS
    <3>5. p # None => ~Running(p)
      BY <3>1, <3>2, <3>4 DEF Judging
    <3>6. p # None => ~Running(p)'
      BY <1>2, <3>3, <3>4, <3>5 DEF Honest
    <3>7. tree'[e.item].unsaved = {}
      BY <3>1, <3>3 DEF Banked, Base, TypeOK
    <3>8. QED
      BY <3>1, <3>2, <3>3, <3>4, <3>6, <3>7
  <2>4. CASE at'[i] = at[i] /\ arg'[i] = arg[i] /\ seen'[i] = seen[i]
    BY <1>3, <2>4
  <2>5. CASE at'[i] \notin {"judge", "preserve", "move"}
    BY <2>5
  <2>6. QED
    <3>1. CASE \/ ResolveAssignment(i) \/ Exit(i) \/ OpenRow(i)
               \/ PreserveFails(i) \/ Move(i) \/ Raced(i)
               \/ EndSession(i) \/ WriteHandoff(i) \/ HandoffFails(i)
               \/ Close(i) \/ CloseFails(i)
      <4>1. at'[i] \notin {"judge", "preserve", "move"}
        BY <3>1 DEF ResolveAssignment, Exit, OpenRow, PreserveFails, Move, Raced,
           EndSession, WriteHandoff, HandoffFails, Close, CloseFails, Goto,
           Finished, Forget, Base, TypeOK
      <4>2. QED
        BY <4>1, <2>5
    <3>2. CASE \/ NewWorktree(i) \/ ClaimFirst(i) \/ ClaimFirstRefused(i)
               \/ AddWorktree(i) \/ AddFails(i) \/ FinishWorktree(i)
               \/ CheckClean(i) \/ FinishRefused(i) \/ RemoveWorktree(i)
               \/ ReleaseLast(i)
      <4>1. at'[i] \notin {"judge", "preserve", "move"}
        BY <3>2 DEF NewWorktree, ClaimFirst, ClaimFirstRefused, AddWorktree,
           AddFails, FinishWorktree, CheckClean, FinishRefused, RemoveWorktree,
           ReleaseLast, Goto, Finished, Base, TypeOK
      <4>2. QED
        BY <4>1, <2>5
    <3>3. CASE \/ Request(i) \/ Refresh(i) \/ GiveUp(i)
               \/ Recover(i) \/ Edit(i) \/ Commit(i)
      <4>1. at'[i] = at[i] /\ arg'[i] = arg[i] /\ seen'[i] = seen[i]
        BY <3>3 DEF Request, Refresh, GiveUp, Recover, Edit, Commit, claimVars,
           cmdVars
      <4>2. QED
        BY <4>1, <2>4
    <3>4. QED
      BY <2>1, <2>2, <2>3, <3>1, <3>2, <3>3 DEF Step, CommandStep
<1>5. \A j \in Instances : Fit(j)
  BY <1>3, <1>4, OthersUnmoved DEF Base
<1>6. QED
  BY <1>5 DEF Judging, Running


LEMMA ClosingStep ==
  ASSUME Base, Closing, NEW i \in Instances, Step(i)
  PROVE  Closing'
<1>1. handoffs \subseteq handoffs'
  BY DEF Step, CommandStep, ResolveAssignment, Exit, OpenRow, Request,
     Refresh, GiveUp, ReadClaim, Judge, Preserve, PreserveFails, Move, Raced,
     EndSession, WriteHandoff, HandoffFails, Close, CloseFails, NewWorktree,
     ClaimFirst, ClaimFirstRefused, AddWorktree, AddFails, FinishWorktree,
     CheckClean, FinishRefused, RemoveWorktree, ReleaseLast, Recover, Edit,
     Commit, diskVars
<1>2. \A j \in Instances \ {i} : at'[j] = "close" => Process(j)' \in handoffs'
  BY <1>1, OthersUnmoved DEF Base, Closing, Process
<1>3. at'[i] = "close" => Process(i)' \in handoffs'
  <2>1. CASE WriteHandoff(i)
    BY <2>1 DEF WriteHandoff, envVars, Process
  <2>2. CASE at'[i] = at[i] /\ session' = session
    BY <1>1, <2>2 DEF Closing, Process
  <2>3. CASE at'[i] # "close"
    BY <2>3
  <2>4. QED
    <3>1. CASE \/ ResolveAssignment(i) \/ Exit(i) \/ OpenRow(i)
               \/ ReadClaim(i) \/ Judge(i) \/ Preserve(i) \/ PreserveFails(i)
               \/ Move(i) \/ Raced(i) \/ EndSession(i) \/ HandoffFails(i)
               \/ Close(i) \/ CloseFails(i)
      <4>1. at'[i] # "close"
        BY <3>1 DEF ResolveAssignment, Exit, OpenRow, ReadClaim, Judge, Preserve,
           PreserveFails, Move, Raced, EndSession, HandoffFails, Close,
           CloseFails, Goto, Finished, Forget, Base, TypeOK
      <4>2. QED
        BY <4>1, <2>3
    <3>2. CASE \/ NewWorktree(i) \/ ClaimFirst(i) \/ ClaimFirstRefused(i)
               \/ AddWorktree(i) \/ AddFails(i) \/ FinishWorktree(i)
               \/ CheckClean(i) \/ FinishRefused(i) \/ RemoveWorktree(i)
               \/ ReleaseLast(i)
      <4>1. at'[i] # "close"
        BY <3>2 DEF NewWorktree, ClaimFirst, ClaimFirstRefused, AddWorktree,
           AddFails, FinishWorktree, CheckClean, FinishRefused, RemoveWorktree,
           ReleaseLast, Goto, Finished, Base, TypeOK
      <4>2. QED
        BY <4>1, <2>3
    <3>3. CASE \/ Request(i) \/ Refresh(i) \/ GiveUp(i)
               \/ Recover(i) \/ Edit(i) \/ Commit(i)
      <4>1. at'[i] = at[i] /\ session' = session
        BY <3>3 DEF Request, Refresh, GiveUp, Recover, Edit, Commit, cmdVars, envVars
      <4>2. QED
        BY <4>1, <2>2
    <3>4. QED
      BY <2>1, <3>1, <3>2, <3>3 DEF Step, CommandStep
<1>4. QED
  BY <1>2, <1>3 DEF Closing

LEMMA TreesStep ==
  ASSUME Base, Trees, NEW i \in Instances, Step(i)
  PROVE  Trees'
<1>1. SUFFICES ASSUME NEW item \in Items
               PROVE  /\ tree'[item].unsaved # {} => tree'[item].dirty
                      /\ tree'[item].dirty => tree'[item].present
  BY DEF Trees
<1>2. CASE tree'[item] \in {tree[item], Banked(item), CleanTree, NoTree}
  BY <1>2 DEF Trees, Banked, CleanTree, NoTree, Base, TypeOK
<1>3. CASE tree'[item] = [present |-> TRUE, dirty |-> TRUE,
                          unsaved |-> tree[item].unsaved \union {Process(i)}]
  BY <1>3
<1>4. QED
  BY <1>2, <1>3, TreeChanges DEF TreeChange, Base

-----------------------------------------------------------------------------
(* The inductive invariant.                                                *)
WorkInv ==
  /\ Base
  /\ RowsHonest
  /\ Judging
  /\ Closing
  /\ Trees

LEMMA InitWork == Init => WorkInv
<1> SUFFICES ASSUME Init PROVE WorkInv
  OBVIOUS
<1>1. TypeOK
  <2>1. 0 \in Times /\ 0 \in 0 .. MaxBoot /\ 0 \in 0 .. MaxSession
    BY BoundsAssumption, ProtocolAssumption DEF Times
  <2>2. NoArg \in [item : Items \union {None}, mine : BOOLEAN,
                   done : BOOLEAN, stamp : Times]
    BY <2>1 DEF NoArg
  <2>3. tree \in [Items -> [present : BOOLEAN, dirty : BOOLEAN,
                            unsaved : SUBSET Processes]]
    <3>1. {NoTree, CleanTree} \subseteq
            [present : BOOLEAN, dirty : BOOLEAN, unsaved : SUBSET Processes]
      BY DEF NoTree, CleanTree
    <3>2. QED
      BY <3>1 DEF Init
  <2>4. QED
    BY <2>1, <2>2, <2>3 DEF Init, TypeOK, Labels
<1>2. Base
  BY <1>1 DEF Init, Base, OneOwnerPerItem, UpWhileBusy, HasItem, ItemLabels
<1>3. QED
  BY <1>2 DEF Init, WorkInv, RowsHonest, Judging, Closing, Trees, NoTree, CleanTree

LEMMA RebootWork == WorkInv /\ Reboot => WorkInv'
<1> SUFFICES ASSUME WorkInv, Reboot PROVE WorkInv'
  OBVIOUS
<1>1. TypeOK'
  <2>1. boot' \in 0 .. MaxBoot
    BY ProtocolAssumption DEF Reboot, WorkInv, Base, TypeOK
  <2>2. arg' \in [Instances -> [item : Items \union {None}, mine : BOOLEAN,
                                done : BOOLEAN, stamp : Times]]
    BY NoArgType DEF Reboot, WorkInv, Base
  <2>3. QED
    BY <2>1, <2>2 DEF Reboot, WorkInv, Base, TypeOK, Labels, diskVars
<1>2. Base'
  <2>1. OneOwnerPerItem'
    BY DEF Reboot, WorkInv, Base, OneOwnerPerItem
  <2>2. UpWhileBusy' /\ HasItem'
    BY DEF Reboot, UpWhileBusy, HasItem, ItemLabels
  <2>3. QED
    BY <1>1, <2>1, <2>2 DEF Base
<1>3. RowsHonest'
  <2>1. \A r \in table' : Honest(r.identity)'
    <3>1. SUFFICES ASSUME NEW r \in table PROVE Honest(r.identity)'
      BY DEF Reboot
    <3>2. Honest(r.identity)
      BY DEF WorkInv, RowsHonest
    <3>3. r.identity.pid \in Processes => r.identity.pid[1] \in Instances
      BY DEF Processes
    <3>4. QED
      BY <3>2, <3>3 DEF Honest, Running, Reboot
  <2>2. QED
    BY <2>1 DEF RowsHonest, Reboot
<1>4. Judging' /\ Closing' /\ Trees'
  BY DEF WorkInv, Judging, Closing, Trees, Reboot, diskVars
<1>5. QED
  BY <1>2, <1>3, <1>4 DEF WorkInv

LEMMA StillWork ==
  WorkInv /\ UNCHANGED <<table, seen, envVars, cmdVars, diskVars>> /\ now' \in Times
    => WorkInv'
<1> SUFFICES ASSUME WorkInv, UNCHANGED <<table, seen, envVars, cmdVars, diskVars>>,
                    now' \in Times
             PROVE  WorkInv'
  OBVIOUS
<1> USE DEF envVars, cmdVars, diskVars
<1>1. TypeOK'
  BY DEF WorkInv, Base, TypeOK
<1>2. Base'
  BY <1>1 DEF WorkInv, Base, OneOwnerPerItem, UpWhileBusy, HasItem
<1>3. \A id : Honest(id) => Honest(id)'
  BY DEF Honest, Running
<1>4. RowsHonest'
  <2>1. \A r \in table' : Honest(r.identity)'
    BY <1>3 DEF WorkInv, RowsHonest
  <2>2. ASSUME NEW i \in Instances, (seen[i] # NoRow)'
        PROVE  Honest(seen[i].identity)'
    <3> SUFFICES ASSUME NEW id, id = seen'[i].identity
                 PROVE  Honest(id)'
      BY DEF Honest, Running
    <3>1. Honest(id)
      BY <2>2 DEF WorkInv, RowsHonest
    <3>2. QED
      BY <1>3, <3>1
  <2>3. QED
    BY <2>1, <2>2 DEF RowsHonest
<1>5. Judging' /\ Closing' /\ Trees'
  BY DEF WorkInv, Judging, Running, Closing, Process, Trees
<1>6. QED
  BY <1>2, <1>4, <1>5 DEF WorkInv

LEMMA NextWork == WorkInv /\ [Next]_vars => WorkInv'
<1> SUFFICES ASSUME WorkInv, [Next]_vars PROVE WorkInv'
  OBVIOUS
<1>1. CASE Tick
  <2>1. now' \in Times
    BY <1>1, BoundsAssumption DEF Tick, WorkInv, Base, TypeOK, Times
  <2>2. QED
    BY <1>1, <2>1, StillWork DEF Tick
<1>2. CASE Reboot
  BY <1>2, RebootWork
<1>3. ASSUME NEW i \in Instances, Step(i)
      PROVE  WorkInv'
  BY <1>3, BaseStep, HonestStep, JudgingStep, ClosingStep, TreesStep DEF WorkInv
<1>4. CASE UNCHANGED vars
  BY <1>4, StillWork DEF vars, claimVars, WorkInv, Base, TypeOK
<1>5. QED
  BY <1>1, <1>2, <1>3, <1>4 DEF Next

(* Type correctness of the work protocol: rows, checkouts, log and the     *)
(* memory of the commands stay what the code's columns and fields hold.    *)
THEOREM WorkTypes == Spec => []TypeOK
<1>1. Spec => []WorkInv
  BY InitWork, NextWork, PTL DEF Spec
<1>2. WorkInv => TypeOK
  BY DEF WorkInv, Base
<1>3. QED
  BY <1>1, <1>2, PTL

LEMMA SpecWork == Spec => []WorkInv
  BY InitWork, NextWork, PTL DEF Spec

(* A claim changes hands in one way only: the compare-and-swap of a        *)
(* reclaim, on the very row it judged.                                     *)
LEMMA HandOver ==
  ASSUME Base, [Next]_vars, NEW r \in table, HandedOver(r)
  PROVE  \E i \in Instances : Move(i) /\ r = seen[i]
<1>1. UNCHANGED table => FALSE
  BY DEF HandedOver, Base, OneOwnerPerItem
<1>2. PICK i \in Instances : Step(i)
  BY <1>1 DEF Next, Tick, Reboot, vars, claimVars
<1>3. PICK s \in table' : s.item = r.item /\ s.instance # r.instance
  BY DEF HandedOver
<1>4. CASE Refreshes
  BY <1>3, <1>4 DEF Refreshes, Like, Base, OneOwnerPerItem
<1>5. CASE Writes(i)
  <2>1. CASE OwnRow(i, s)
    <3>1. r \in table'
      BY <1>3, <1>5, <2>1 DEF OwnRow, Writes
    <3>2. QED
      BY <1>3, <1>5, <3>1 DEF Writes, OneOwnerPerItem
  <2>2. CASE \E q \in table : Like(q, s)
    BY <1>3, <2>2 DEF Like, Base, OneOwnerPerItem
  <2>3. QED
    BY <1>5, <2>1, <2>2 DEF Writes
<1>6. CASE Move(i) /\ Takes(i)
  <2>1. CASE r # seen[i]
    BY <1>3, <1>6, <2>1 DEF Takes, OneOwnerPerItem
  <2>2. QED
    BY <1>6, <2>1
<1>7. QED
  BY <1>1, <1>2, <1>4, <1>5, <1>6, TableChanges DEF TableChange

LEMMA HandOverJudged ==
  ASSUME WorkInv, [Next]_vars, NEW r \in table, HandedOver(r)
  PROVE  /\ r.identity.pid # None => ~Running(r.identity.pid)
         /\ r.identity.pid \notin tree[r.item].unsaved
<1>1. PICK i \in Instances : Move(i) /\ r = seen[i]
  BY HandOver DEF WorkInv
<1>2. QED
  BY <1>1 DEF Move, WorkInv, Judging

(* A claim that names its owner's process is never taken while that        *)
(* process runs, for every number of instances, items, sessions and        *)
(* reboots, and whatever the probes answer or leave unknown.               *)
THEOREM NoRecordedAgentIsRobbed == Spec => RecordedAgentKeepsItem
<1>1. WorkInv /\ [Next]_vars =>
        [\A r \in table :
           (HandedOver(r) /\ r.identity.pid # None) => ~Running(r.identity.pid)]_vars
  BY HandOverJudged
<1>2. QED
  BY <1>1, SpecWork, PTL DEF Spec, RecordedAgentKeepsItem

(* When an item changes hands, what the recorded process had not committed *)
(* is on a wip/ branch already.                                            *)
THEOREM HandedOverIsBanked == Spec => RecordedWorkIsBanked
<1>1. WorkInv /\ [Next]_vars =>
        [\A r \in table :
           HandedOver(r) => r.identity.pid \notin tree[r.item].unsaved]_vars
  BY HandOverJudged
<1>2. QED
  BY <1>1, SpecWork, PTL DEF Spec, RecordedWorkIsBanked

(* A claim that `session end --done` releases has its handoff on disk.     *)
THEOREM DoneLeavesHandoff == Spec => ReleasedHasHandoff
<1>1. WorkInv /\ [Next]_vars =>
        [\A i \in Instances :
           (at[i] = "close" /\ \E item \in Items : Holds(i, item) /\ ~Holds(i, item)') =>
              Process(i) \in handoffs]_vars
  BY DEF WorkInv, Closing
<1>2. QED
  BY <1>1, SpecWork, PTL DEF Spec, ReleasedHasHandoff

(* No step of the program removes a checkout with unsaved changes in it.   *)
THEOREM RemovedHadNothing == Spec => NoWorkDestroyed
<1>1. WorkInv /\ [Next]_vars =>
        [\A item \in Items :
           (tree[item].present /\ ~tree[item].present') => tree[item].unsaved = {}]_vars
  <2> SUFFICES ASSUME WorkInv, [Next]_vars, NEW item \in Items,
                      tree[item].present, ~tree'[item].present
               PROVE  tree[item].unsaved = {}
    BY DEF vars, diskVars
  <2>1. PICK i \in Instances : Step(i)
    BY DEF Next, Tick, Reboot, vars, diskVars
  <2>2. RemoveWorktree(i) /\ arg[i].item = item
    <3>1. Banked(item).present = tree[item].present /\ CleanTree.present
      BY DEF Banked, CleanTree, WorkInv, Base, TypeOK
    <3>2. TreeChange(i, item)
      BY <2>1, TreeChanges DEF WorkInv, Base
    <3>3. /\ tree'[item] # tree[item] /\ tree'[item] # Banked(item)
          /\ tree'[item] # CleanTree
      BY <3>1
    <3>4. tree'[item] # [present |-> TRUE, dirty |-> TRUE,
                         unsaved |-> tree[item].unsaved \union {Process(i)}]
      OBVIOUS
    <3>5. QED
      BY <3>2, <3>3, <3>4 DEF TreeChange
  <2>3. QED
    BY <2>2 DEF RemoveWorktree, Removable, WorkInv, Trees
<1>2. QED
  BY <1>1, SpecWork, PTL DEF Spec, NoWorkDestroyed


-----------------------------------------------------------------------------
(* `worktree finish` and `worktree new`. An identity without a pid can be  *)
(* written twice in one second, and the compare-and-swap cannot then tell  *)
(* a claim from the one that replaced it; with the pid it can, and the     *)
(* claim that stands behind a checkout being added stays until it is there.*)

Adding ==
  \A i \in Instances : at[i] = "add" =>
    \E r \in table : /\ r.item = arg[i].item /\ r.instance = i
                     /\ r.identity.pid = Process(i)

Finishing ==
  \A i \in Instances :
    (at[i] = "release" /\ Holds(i, arg[i].item)) => ~tree[arg[i].item].present

PidsConfirmed == \A c \in Confirmed : "pid" \in c

LEMMA IdentityNamesProcess ==
  ASSUME PidsConfirmed, NEW i \in Instances, NEW c \in Confirmed
  PROVE  IdentityOf(i, c).pid = Process(i)
  BY DEF PidsConfirmed, IdentityOf, AgentIdentity, Yes

LEMMA AddingStep ==
  ASSUME PidsConfirmed, WorkInv, Adding, NEW i \in Instances, Step(i)
  PROVE  Adding'
<1> SUFFICES ASSUME NEW j \in Instances, at'[j] = "add"
             PROVE  \E s \in table' : /\ s.item = arg'[j].item /\ s.instance = j
                                      /\ s.identity.pid = <<j, session'[j]>>
  BY DEF Adding, Process
<1>1. CASE at[j] = "add" /\ arg'[j] = arg[j] /\ session'[j] = session[j]
  <2>1. PICK r \in table : /\ r.item = arg[j].item /\ r.instance = j
                           /\ r.identity.pid = Process(j)
    BY <1>1 DEF Adding
  <2>2. SUFFICES \E s \in table' : Like(r, s)
    BY <1>1, <2>1 DEF Like, Process
  <2>3. CASE UNCHANGED table
    BY <2>3 DEF Like
  <2>4. CASE Refreshes
    BY <2>4 DEF Refreshes
  <2>5. CASE Writes(i) /\ j # i
    BY <2>1, <2>5 DEF Writes, Like
  <2>6. CASE Move(i) /\ Takes(i)
    <3>1. r # seen[i]
      <4>1. SUFFICES ASSUME r = seen[i] PROVE FALSE
        OBVIOUS
      <4>2. Running(Process(j)) /\ Process(j) \in Processes
        BY <1>1, ProcessType DEF WorkInv, Base, UpWhileBusy
      <4>3. Process(j) # None
        BY <4>2, IdentityAssumption
      <4>4. QED
        BY <2>1, <2>6, <4>1, <4>2, <4>3 DEF Move, WorkInv, Judging
    <3>2. QED
      BY <2>6, <3>1 DEF Takes, Like
  <2>7. ~(j = i /\ (at'[i] = "idle" \/ ReleaseLast(i) \/ ClaimFirst(i)))
    BY <1>1 DEF ReleaseLast, ClaimFirst, WorkInv, Base, TypeOK
  <2>8. QED
    BY <2>3, <2>4, <2>5, <2>6, <2>7, TableChanges DEF TableChange, WorkInv
<1>2. CASE ClaimFirst(i) /\ j = i
  <2>1. arg' = arg /\ session' = session
    BY <1>2 DEF ClaimFirst, envVars
  <2>2. PICK c \in Confirmed :
          ClaimItem(arg[i].item, i, arg[i].item, IdentityOf(i, c), now)
    BY <1>2 DEF ClaimFirst
  <2>3. session[i] # 0 /\ arg[i].item \in Items
    BY <1>2 DEF ClaimFirst, WorkInv, Base, UpWhileBusy, HasItem, ItemLabels
  <2>4. \E s \in table' : /\ s.item = arg[i].item /\ s.instance = i
                          /\ s.identity = IdentityOf(i, c)
    BY <2>2, <2>3, ClaimItemWrites DEF WorkInv, Base
  <2>5. QED
    BY <1>2, <2>1, <2>4, IdentityNamesProcess DEF Process
<1>3. CASE j # i
  BY <1>1, <1>3, OthersUnmoved DEF WorkInv, Base
<1>4. CASE j = i /\ ~ClaimFirst(i)
  <2>1. at'[i] = "add"
    BY <1>4
  <2>2. \/ Request(i) \/ Refresh(i) \/ GiveUp(i)
        \/ Recover(i) \/ Edit(i) \/ Commit(i)
    <3>1. ~(ResolveAssignment(i) \/ Exit(i) \/ OpenRow(i)
            \/ ReadClaim(i) \/ Judge(i) \/ Preserve(i) \/ PreserveFails(i)
            \/ Move(i) \/ Raced(i) \/ EndSession(i) \/ WriteHandoff(i)
            \/ HandoffFails(i) \/ Close(i) \/ CloseFails(i))
      BY <2>1 DEF ResolveAssignment, Exit, OpenRow, ReadClaim, Judge, Preserve,
         PreserveFails, Move, Raced, EndSession, WriteHandoff, HandoffFails,
         Close, CloseFails, Goto, Finished, Forget, WorkInv, Base, TypeOK
    <3>2. ~(NewWorktree(i) \/ ClaimFirstRefused(i)
            \/ AddWorktree(i) \/ AddFails(i) \/ FinishWorktree(i)
            \/ CheckClean(i) \/ FinishRefused(i) \/ RemoveWorktree(i)
            \/ ReleaseLast(i))
      BY <2>1 DEF NewWorktree, ClaimFirstRefused, AddWorktree, AddFails,
         FinishWorktree, CheckClean, FinishRefused, RemoveWorktree, ReleaseLast,
         Goto, Finished, WorkInv, Base, TypeOK
    <3>3. QED
      BY <1>4, <3>1, <3>2 DEF Step, CommandStep
  <2>3. UNCHANGED <<at, arg, session>>
    BY <2>2 DEF Request, Refresh, GiveUp, Recover, Edit, Commit, cmdVars, envVars
  <2>4. QED
    BY <1>1, <1>4, <2>1, <2>3
<1>5. QED
  BY <1>2, <1>3, <1>4

(* What instance i holds while it releases was its own when it came there. *)
LEMMA HoldsNothingNew ==
  ASSUME WorkInv, NEW i \in Instances, Step(i), NEW j \in Instances, NEW item,
         Holds(j, item)', at'[j] = "release"
  PROVE  Holds(j, item)
<1>1. PICK s \in table' : s.item = item /\ s.instance = j
  BY DEF Holds
<1>2. SUFFICES \E r \in table : r.item = s.item /\ r.instance = s.instance
  BY <1>1 DEF Holds
<1>3. CASE OwnRow(i, s) /\ j = i
  <2>1. CASE Writes(i) /\ (at'[i] = "idle" \/ ReleaseLast(i) \/ ClaimFirst(i))
    BY <1>3, <2>1 DEF ReleaseLast, ClaimFirst, Finished, Goto, WorkInv, Base, TypeOK
  <2>2. CASE Move(i)
    BY <1>3, <2>2 DEF Move, Forget, Finished, WorkInv, Base, TypeOK
  <2>3. CASE Refreshes \/ UNCHANGED table
    BY <2>3 DEF Refreshes, Like
  <2>4. QED
    BY <2>1, <2>2, <2>3, TableChanges DEF TableChange, WorkInv
<1>4. CASE ~(OwnRow(i, s) /\ j = i)
  <2>1. ~OwnRow(i, s)
    BY <1>1, <1>4 DEF OwnRow
  <2>2. QED
    BY <2>1, TableChanges DEF TableChange, Refreshes, Writes, Takes, Like, WorkInv
<1>5. QED
  BY <1>3, <1>4

LEMMA FinishingStep ==
  ASSUME WorkInv, Adding, Finishing, NEW i \in Instances, Step(i)
  PROVE  Finishing'
<1> SUFFICES ASSUME NEW j \in Instances, at'[j] = "release",
                    Holds(j, arg[j].item)'
             PROVE  ~tree'[arg'[j].item].present
  BY DEF Finishing
<1>1. PICK item : item = arg'[j].item
  OBVIOUS
<1>2. Holds(j, item)' /\ item \in Items
  <2>1. HasItem'
    BY KnowsOwnStep DEF WorkInv
  <2>2. QED
    BY <1>1, <2>1 DEF HasItem, ItemLabels, Holds
<1>3. Holds(j, item)
  BY <1>2, HoldsNothingNew
<1>4. CASE at[j] = "release" /\ arg'[j] = arg[j]
  <2>1. ~tree[item].present
    BY <1>1, <1>3, <1>4 DEF Finishing
  <2>2. ~(AddWorktree(i) /\ arg[i].item = item)
    <3>1. SUFFICES ASSUME AddWorktree(i), arg[i].item = item
                   PROVE  FALSE
      OBVIOUS
    <3>2. at[i] = "add" /\ i # j
      BY <1>4, <3>1 DEF AddWorktree
    <3>3. \E r \in table : r.item = item /\ r.instance = i
      BY <3>1, <3>2 DEF Adding
    <3>4. QED
      BY <1>3, <3>2, <3>3 DEF Holds, WorkInv, Base, OneOwnerPerItem
  <2>3. TreeChange(i, item)
    BY <1>2, TreeChanges DEF WorkInv, Base
  <2>4. ~tree[item].dirty /\ ~Banked(item).present
    BY <1>2, <2>1 DEF Banked, WorkInv, Trees, Base, TypeOK
  <2>5. ~tree'[item].present
    BY <2>1, <2>2, <2>3, <2>4 DEF TreeChange, NoTree
  <2>6. QED
    BY <1>1, <2>5
<1>5. CASE j # i
  BY <1>4, <1>5, OthersUnmoved DEF WorkInv, Base
<1>6. CASE j = i
  <2>1. CASE CheckClean(i)
    BY <1>6, <2>1 DEF CheckClean, Goto, diskVars, WorkInv, Base, TypeOK
  <2>2. CASE RemoveWorktree(i)
    <3>1. arg'[i] = arg[i] /\ tree' = [tree EXCEPT ![arg[i].item] = NoTree]
      BY <2>2 DEF RemoveWorktree
    <3>2. QED
      BY <1>1, <1>2, <1>6, <3>1 DEF NoTree, WorkInv, Base, TypeOK
  <2>3. CASE \/ Request(i) \/ Refresh(i) \/ GiveUp(i)
             \/ Recover(i) \/ Edit(i) \/ Commit(i)
    <3>1. UNCHANGED <<at, arg>>
      BY <2>3 DEF Request, Refresh, GiveUp, Recover, Edit, Commit, cmdVars
    <3>2. QED
      BY <1>4, <3>1
  <2>4. ~(ResolveAssignment(i) \/ Exit(i) \/ OpenRow(i)
          \/ ReadClaim(i) \/ Judge(i) \/ Preserve(i) \/ PreserveFails(i)
          \/ Move(i) \/ Raced(i) \/ EndSession(i) \/ WriteHandoff(i)
          \/ HandoffFails(i) \/ Close(i) \/ CloseFails(i))
    BY <1>6 DEF ResolveAssignment, Exit, OpenRow, ReadClaim, Judge, Preserve,
       PreserveFails, Move, Raced, EndSession, WriteHandoff, HandoffFails,
       Close, CloseFails, Goto, Finished, Forget, WorkInv, Base, TypeOK
  <2>5. ~(NewWorktree(i) \/ ClaimFirst(i) \/ ClaimFirstRefused(i)
          \/ AddWorktree(i) \/ AddFails(i) \/ FinishWorktree(i)
          \/ FinishRefused(i) \/ ReleaseLast(i))
    BY <1>6 DEF NewWorktree, ClaimFirst, ClaimFirstRefused, AddWorktree, AddFails,
       FinishWorktree, FinishRefused, ReleaseLast,
       Goto, Finished, WorkInv, Base, TypeOK
  <2>6. QED
    BY <2>1, <2>2, <2>3, <2>4, <2>5 DEF Step, CommandStep
<1>7. QED
  BY <1>5, <1>6

TreeInv == WorkInv /\ Adding /\ Finishing

LEMMA SpecTree == ASSUME PidsConfirmed PROVE Spec => []TreeInv
<1>1. Init => TreeInv
  BY InitWork DEF Init, TreeInv, Adding, Finishing
<1>2. TreeInv /\ [Next]_vars => TreeInv'
  <2> SUFFICES ASSUME TreeInv, [Next]_vars PROVE TreeInv'
    OBVIOUS
  <2>1. WorkInv'
    BY NextWork DEF TreeInv
  <2>2. ASSUME UNCHANGED <<table, cmdVars, session, tree>>
        PROVE  Adding' /\ Finishing'
    BY <2>2 DEF TreeInv, Adding, Finishing, cmdVars, Process, Holds
  <2>3. ASSUME Reboot
        PROVE  Adding' /\ Finishing'
    BY <2>3 DEF Reboot, Adding, Finishing
  <2>4. ASSUME \E i \in Instances : Step(i)
        PROVE  Adding' /\ Finishing'
    BY <2>4, AddingStep, FinishingStep DEF TreeInv
  <2>5. Adding' /\ Finishing'
    BY <2>2, <2>3, <2>4 DEF Next, Tick, vars, cmdVars, envVars, diskVars, claimVars
  <2>6. QED
    BY <2>1, <2>5 DEF TreeInv
<1>3. QED
  BY <1>1, <1>2, PTL DEF Spec

(* `worktree finish` never leaves a checkout that nobody owns, where       *)
(* agent_identity() could confirm the process that claims: the claim goes  *)
(* last, and a checkout made meanwhile stands under another claim.         *)
THEOREM FinishLeavesNoOrphan ==
  ASSUME PidsConfirmed PROVE Spec => FinishStrandsNoTree
<1>1. TreeInv /\ [Next]_vars =>
        [\A i \in Instances, item \in Items :
           (/\ at[i] = "release" /\ at'[i] = "idle"
            /\ RowsOfItem(item) # {} /\ RowsOfItem(item)' = {}) =>
              ~tree[item].present]_vars
  <2> SUFFICES ASSUME TreeInv, [Next]_vars, NEW i \in Instances, NEW item \in Items,
                      at[i] = "release", at'[i] = "idle",
                      RowsOfItem(item) # {}, RowsOfItem(item)' = {}
               PROVE  ~tree[item].present
    OBVIOUS
  <2>1. ~UNCHANGED table
    BY DEF RowsOfItem
  <2>2. PICK j \in Instances : Step(j)
    BY <2>1 DEF Next, Tick, Reboot, vars, claimVars
  <2>3. j = i
    BY <2>2, OthersUnmoved DEF TreeInv, WorkInv, Base
  <2>4. PICK r \in table : r.item = item
    BY DEF RowsOfItem
  <2>5. \A s \in table' : s.item # item
    BY DEF RowsOfItem
  <2>6. CASE Writes(i) /\ ReleaseLast(i)
    <3>1. r.instance = i
      BY <2>4, <2>5, <2>6 DEF Writes
    <3>2. arg[i].item = item
      BY <2>4, <2>5, <2>6, <3>1 DEF ReleaseLast, Release
    <3>3. QED
      BY <2>4, <3>1, <3>2 DEF TreeInv, Finishing, Holds
  <2>7. CASE Refreshes
    BY <2>4, <2>5, <2>7 DEF Refreshes, Like
  <2>8. ~Move(i) /\ ~ClaimFirst(i)
    BY DEF Move, ClaimFirst
  <2>9. QED
    BY <2>1, <2>2, <2>3, <2>6, <2>7, <2>8, TableChanges
    DEF TableChange, TreeInv, WorkInv
<1>2. QED
  BY <1>1, SpecTree, PTL DEF Spec, FinishStrandsNoTree

=============================================================================
