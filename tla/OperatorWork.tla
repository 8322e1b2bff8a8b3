---------------------------- MODULE OperatorWork ----------------------------
(***************************************************************************)
(* The work protocol: agents that take items, edit the item's checkout,    *)
(* end their sessions, crash and come back, while others judge them and    *)
(* reclaim what they held (operator_work.py, operator_session.py,          *)
(* operator_worktree.py and their callers in copilot_operator.py).         *)
(*                                                                         *)
(* Each database transaction, each git command and each read of the world  *)
(* is a step of its own: `at[i]` says where instance i's current command   *)
(* is, and other instances step in between. A command dies with the agent  *)
(* that runs it.                                                           *)
(*                                                                         *)
(* The table is module ClaimTable's, its rows carrying the identity that    *)
(* agent_identity() recorded; the verdicts are module Liveness'. A process *)
(* is named by its instance and session number, so pids are not reused     *)
(* here (module OwnerWorld is about that). The checkout of an item is the  *)
(* path operator_worktree derives from it, so an item names its worktree.  *)
(***************************************************************************)
EXTENDS ClaimTable, Liveness, FiniteSets

CONSTANTS
  Commands,     \* bound: the commands agents give in this run
  Confirmed,    \* bound: the sets of signals agent_identity may confirm
  MaxSession,   \* bound: sessions of one instance
  MaxBoot       \* bound: reboots

ASSUME ProtocolAssumption ==
  /\ MaxSession \in Nat \ {0}
  /\ MaxBoot \in Nat
  /\ Worktrees = Items

VARIABLES
  boot,       \* number of the machine's current boot
  up,         \* up[i]: the agent of instance i is running, in its session
  session,    \* session[i]: number of its current or last session
  assigned,   \* assigned[i]: the item the running agent was told is its own
  at,         \* at[i]: the next step of the command instance i is running
  arg,        \* arg[i]: what that command remembers
  tree,       \* tree[item]: the item's checkout
  log,        \* the rows of session_log
  handoffs    \* <<instance, session>> of every handoff on disk

envVars  == <<boot, up, session, assigned>>
cmdVars  == <<at, arg>>
diskVars == <<tree, log, handoffs>>
vars     == <<claimVars, envVars, cmdVars, diskVars>>

(* The process of an agent. When there is none yet, _agent_pid() falls back *)
(* to the supervisor's, which is left out.                                 *)
Process(i)  == <<i, session[i]>>
Processes   == Instances \X (1 .. MaxSession)
Running(p)  == up[p[1]] /\ session[p[1]] = p[2]

BootId(n)   == [kind |-> "uuid", value |-> n]
Token(p)    == [kind |-> "linux", value |-> p]

(* Whatever agent_identity() can record is an identity of the table.       *)
ASSUME IdentityAssumption ==
  /\ None \notin Processes
  /\ [boot_id     : {BootId(n) : n \in 0 .. MaxBoot} \union {None},
      mux_session : Instances \union {None},
      pid         : Processes \union {None},
      pid_start   : {Token(p) : p \in Processes} \union {None}] \subseteq Identities

(* A checkout: is it there, does git status show changes, and whose edits  *)
(* in it are on no commit and no wip/ branch yet.                          *)
NoTree    == [present |-> FALSE, dirty |-> FALSE, unsaved |-> {}]
CleanTree == [present |-> TRUE,  dirty |-> FALSE, unsaved |-> {}]

NoArg == [item |-> None, mine |-> FALSE, done |-> FALSE, stamp |-> 0]

Idle(i)      == at[i] = "idle"
Goto(i, l)   == at' = [at EXCEPT ![i] = l]
Remember(i, item, mine, done) ==
  arg' = [arg EXCEPT ![i] = [item |-> item, mine |-> mine,
                             done |-> done, stamp |-> now]]
Finished(i) ==
  /\ at' = [at EXCEPT ![i] = "idle"]
  /\ arg' = [arg EXCEPT ![i] = NoArg]

(* An agent that runs gives a command only when the last one has returned. *)
May(i, command) == command \in Commands /\ up[i] /\ Idle(i)

-----------------------------------------------------------------------------
(* Judging a claim.                                                        *)

Truth(r) ==
  LET p == r.identity.pid
  IN [boot    |-> BootId(boot),
      running |-> IF p = None THEN Unknown
                  ELSE IF Running(p) THEN Yes ELSE No,
      token   |-> IF p = None THEN None
                  ELSE IF Running(p) THEN Token(p) ELSE None,
      session |-> IF r.identity.mux_session = None THEN Unknown
                  ELSE IF up[r.identity.mux_session] THEN Yes ELSE No]

Blind(r) ==
  [boot |-> None, running |-> Unknown, token |-> None, session |-> Unknown]

Verdict(r, probes) == Assess(r.identity, probes, now - r.heartbeat_at)

(* What agent_identity() writes for the agent of instance i: the signals   *)
(* of `confirmed` answered, the others are NULL.                           *)
IdentityOf(i, confirmed) ==
  AgentIdentity(i, Process(i),
    [boot    |-> IF "boot" \in confirmed THEN BootId(boot) ELSE None,
     running |-> IF "pid" \in confirmed THEN Yes ELSE Unknown,
     token   |-> Token(Process(i)),
     session |-> IF "mux" \in confirmed THEN Yes ELSE Unknown])

-----------------------------------------------------------------------------
(* The supervisor starts a session: resolve the assignment, open the log   *)
(* row in a second transaction, launch the agent.                          *)

(* resolve_assignment(): an instance's own claim is resumed and never      *)
(* judged; offers are reports, and change nothing.                         *)
ResolveAssignment(i) ==
  /\ ~up[i] /\ Idle(i)
  /\ session[i] < MaxSession
  /\ \E item \in Items \union {None} :
       /\ IF item = None THEN RowsOfInstance(i) = {} ELSE Holds(i, item)
       /\ Remember(i, item, FALSE, FALSE)
  /\ Goto(i, "openRow")
  /\ UNCHANGED <<claimVars, envVars, diskVars>>

OpenRows(i) == {e \in log : e.instance = i /\ e.outcome = "open"}

Closed(rows, outcome) == {[e EXCEPT !.outcome = outcome] : e \in rows}

(* start_session() closes what an earlier session left open.               *)
AbandonOpenRows(i) ==
  (log \ OpenRows(i)) \union Closed(OpenRows(i), "abandoned")

OpenRow(i) ==
  /\ at[i] = "openRow"
  /\ log' = AbandonOpenRows(i) \union
              {[instance |-> i, session |-> session[i] + 1,
                item |-> arg[i].item, outcome |-> "open"]}
  /\ up' = [up EXCEPT ![i] = TRUE]
  /\ session' = [session EXCEPT ![i] = @ + 1]
  /\ assigned' = [assigned EXCEPT ![i] = arg[i].item]
  /\ Finished(i)
  /\ UNCHANGED <<claimVars, boot, tree, handoffs>>

(* The agent exits or is killed, between any two steps of its command.     *)
Exit(i) ==
  /\ up[i]
  /\ up' = [up EXCEPT ![i] = FALSE]
  /\ assigned' = [assigned EXCEPT ![i] = None]
  /\ seen' = [seen EXCEPT ![i] = NoRow]
  /\ Finished(i)
  /\ UNCHANGED <<table, now, boot, session, diskVars>>

Reboot ==
  /\ boot < MaxBoot
  /\ boot' = boot + 1
  /\ up' = [i \in Instances |-> FALSE]
  /\ assigned' = [i \in Instances |-> None]
  /\ seen' = [i \in Instances |-> NoRow]
  /\ at' = [i \in Instances |-> "idle"]
  /\ arg' = [i \in Instances |-> NoArg]
  /\ UNCHANGED <<table, now, session, diskVars>>

-----------------------------------------------------------------------------
(* `work request`, `work heartbeat`, `work release`.                       *)

Request(i) ==
  /\ May(i, "request")
  /\ \E item \in Items, c \in Confirmed :
       /\ ClaimItem(item, i, item, IdentityOf(i, c), now)
       /\ assigned' = [assigned EXCEPT ![i] = item]
  /\ UNCHANGED <<now, seen, boot, up, session, cmdVars, diskVars>>

(* The supervisor's heartbeat (and `work heartbeat`): whatever the         *)
(* instance holds now, while its session runs. (Its bound on the revision  *)
(* leaves room for the write of a command that has started.)               *)
Refresh(i) ==
  /\ up[i]
  /\ \A r \in RowsOfInstance(i) : r.revision + 1 < MaxRevision
  /\ \E item \in Items : Heartbeat(item, i, now)
  /\ UNCHANGED <<now, seen, envVars, cmdVars, diskVars>>

GiveUp(i) ==
  /\ May(i, "release")
  /\ \E item \in Items : Holds(i, item) /\ Release(item, i)
  /\ assigned' = [assigned EXCEPT ![i] = None]
  /\ UNCHANGED <<now, seen, boot, up, session, cmdVars, diskVars>>

-----------------------------------------------------------------------------
(* `work reclaim`: read the claim, judge its owner, preserve the checkout, *)
(* and only then move the claim. Each is a step.                           *)

(* reclaim() reads the row; it refuses a free item (NO_SUCH_CLAIM), its    *)
(* own (ALREADY_MINE), and a caller that holds another (INSTANCE_BUSY).    *)
ReadClaim(i) ==
  /\ May(i, "reclaim")
  /\ \E r \in table :
       /\ r.instance # i
       /\ ~InstanceBusy(i, r.item)
       /\ r.revision < MaxRevision
       /\ seen' = [seen EXCEPT ![i] = r]
       /\ Remember(i, r.item, FALSE, FALSE)
  /\ Goto(i, "judge")
  /\ UNCHANGED <<table, now, envVars, diskVars>>

(* Forget the row: the reclaim is over, refused or done.                   *)
Forget(i) ==
  /\ seen' = [seen EXCEPT ![i] = NoRow]
  /\ Finished(i)

Readings(r) ==
  {[boot |-> b, running |-> p, token |-> t, session |-> s] :
     b \in {Truth(r).boot, None}, p \in {Truth(r).running, Unknown},
     t \in {Truth(r).token, None}, s \in {Truth(r).session, Unknown}}

(* Mutant of Reclaimable: a stale owner is taken for a dead one. *)
ReclaimableIfStale(verdict) == verdict # LIVE

Reclaimable(verdict) == verdict = DEAD

(* assess(): only DEAD proceeds; OWNER_LIVE and OWNER_STALE are refusals.  *)
Judge(i) ==
  /\ at[i] = "judge"
  /\ \E rd \in Readings(seen[i]) :
       IF Reclaimable(Verdict(seen[i], rd))
       THEN Goto(i, "preserve") /\ UNCHANGED <<seen, arg>>
       ELSE Forget(i)
  /\ UNCHANGED <<table, now, envVars, diskVars>>

(* Mutant of Banked: the dirty tree is taken for a clean one. *)
BankedNever(item) == tree[item]

(* preserve(): the changes of the tree, tracked and untracked, go to a new *)
(* wip/ branch through a copy of the index; the tree itself is untouched.  *)
(* An absent or clean tree has nothing to preserve.                        *)
Banked(item) == [tree[item] EXCEPT !.unsaved = {}]

Preserve(i) ==
  /\ at[i] = "preserve"
  /\ tree' = [tree EXCEPT ![arg[i].item] = Banked(arg[i].item)]
  /\ Goto(i, "move")
  /\ UNCHANGED <<claimVars, envVars, arg, log, handoffs>>

(* GitUnavailable: PRESERVE_FAILED, and the claim stays where it was.      *)
PreserveFails(i) ==
  /\ at[i] = "preserve"
  /\ tree[arg[i].item].present
  /\ Forget(i)
  /\ UNCHANGED <<table, now, envVars, diskVars>>

(* reassign(), with the row judged as the expected one.                    *)
Move(i) ==
  /\ at[i] = "move"
  /\ \E c \in Confirmed : Reassign(seen[i], i, IdentityOf(i, c), now)
  /\ assigned' = [assigned EXCEPT ![i] = arg[i].item]
  /\ Forget(i)
  /\ UNCHANGED <<now, boot, up, session, diskVars>>

(* ClaimRefused: RACED. *)
Raced(i) ==
  /\ at[i] = "move"
  /\ ~MayReassign(seen[i], i)
  /\ Forget(i)
  /\ UNCHANGED <<table, now, envVars, diskVars>>

-----------------------------------------------------------------------------
(* `session end`: the handoff, then one transaction for the log row and    *)
(* the claim. `done` is --done/--release.                                  *)

EndSession(i) ==
  /\ May(i, "end")
  /\ \E done \in BOOLEAN, item \in Items \union {None} :
       /\ IF item = None THEN RowsOfInstance(i) = {} ELSE Holds(i, item)
       /\ Remember(i, item, FALSE, done)
  /\ Goto(i, "handoff")
  /\ UNCHANGED <<claimVars, envVars, diskVars>>

WriteHandoff(i) ==
  /\ at[i] = "handoff"
  /\ handoffs' = handoffs \union {Process(i)}
  /\ Goto(i, "close")
  /\ UNCHANGED <<claimVars, envVars, arg, tree, log>>

(* Mutant of HandoffFails: the failure is reported and the end goes on. *)
HandoffFailsOnward(i) ==
  /\ at[i] = "handoff"
  /\ Goto(i, "close")
  /\ UNCHANGED <<claimVars, envVars, arg, diskVars>>

(* A handoff that fails leaves the claim held and the log row open.        *)
HandoffFails(i) ==
  /\ at[i] = "handoff"
  /\ Finished(i)
  /\ UNCHANGED <<claimVars, envVars, diskVars>>

(* Only the row of the session that ends.                                  *)
EndedRows(i) == {e \in OpenRows(i) : e.session = session[i]}

DisposeClaim(i) ==
  IF arg[i].item = None THEN UNCHANGED table
  ELSE IF arg[i].done THEN Release(arg[i].item, i)
  ELSE Retain(arg[i].item, i, arg[i].stamp)

Close(i) ==
  /\ at[i] = "close"
  /\ log' = (log \ EndedRows(i)) \union Closed(EndedRows(i), "ended")
  /\ DisposeClaim(i)
  /\ assigned' = [assigned EXCEPT ![i] = IF arg[i].done THEN None ELSE @]
  /\ Finished(i)
  /\ UNCHANGED <<now, seen, boot, up, session, tree, handoffs>>

(* The transaction fails: handoff on disk, log and claim as they were.     *)
CloseFails(i) ==
  /\ at[i] = "close"
  /\ Finished(i)
  /\ UNCHANGED <<claimVars, envVars, diskVars>>

-----------------------------------------------------------------------------
(* `worktree new`: the claim first, then the checkout.                     *)

(* A held item with a checkout that stands is refused as ALREADY_YOURS.    *)
NewWorktree(i) ==
  /\ May(i, "new")
  /\ \E item \in Items :
       /\ ~(Holds(i, item) /\ tree[item].present)
       /\ \A r \in RowsOfItem(item) : r.revision < MaxRevision
       /\ Remember(i, item, Holds(i, item), FALSE)
  /\ Goto(i, "claim")
  /\ UNCHANGED <<claimVars, envVars, diskVars>>

ClaimFirst(i) ==
  /\ at[i] = "claim"
  /\ \E c \in Confirmed :
       ClaimItem(arg[i].item, i, arg[i].item, IdentityOf(i, c), now)
  /\ Goto(i, "add")
  /\ UNCHANGED <<now, seen, envVars, arg, diskVars>>

ClaimFirstRefused(i) ==
  /\ at[i] = "claim"
  /\ ItemHeld(arg[i].item, i) \/ InstanceBusy(i, arg[i].item)
  /\ Finished(i)
  /\ UNCHANGED <<claimVars, envVars, diskVars>>

(* `git worktree add` at a path that does not exist. The line it may add   *)
(* to the .gitignore of the main checkout is left out.                     *)
AddWorktree(i) ==
  /\ at[i] = "add"
  /\ ~tree[arg[i].item].present
  /\ tree' = [tree EXCEPT ![arg[i].item] = CleanTree]
  /\ assigned' = [assigned EXCEPT ![i] = arg[i].item]
  /\ Finished(i)
  /\ UNCHANGED <<claimVars, boot, up, session, log, handoffs>>

(* A refusal after the claim releases it, if this call took it.            *)
Undo(i) ==
  IF arg[i].mine THEN UNCHANGED table ELSE Release(arg[i].item, i)

(* PATH_EXISTS, PATH_UNREADABLE or GIT_FAILED. *)
AddFails(i) ==
  /\ at[i] = "add"
  /\ Undo(i)
  /\ Finished(i)
  /\ UNCHANGED <<now, seen, envVars, diskVars>>

-----------------------------------------------------------------------------
(* `worktree finish`: look, remove the checkout, then release the claim.   *)

FinishWorktree(i) ==
  /\ May(i, "finish")
  /\ \E item \in Items :
       /\ Holds(i, item)
       /\ Remember(i, item, TRUE, FALSE)
  /\ Goto(i, "status")
  /\ UNCHANGED <<claimVars, envVars, diskVars>>

(* Mutant of CheckClean: the claim is released before the tree is removed. *)
CheckCleanReleaseFirst(i) ==
  /\ at[i] = "status"
  /\ ~tree[arg[i].item].dirty
  /\ Goto(i, "release")
  /\ UNCHANGED <<claimVars, envVars, arg, diskVars>>

(* A tree that is there must be clean; one that is gone is pruned.         *)
CheckClean(i) ==
  /\ at[i] = "status"
  /\ ~tree[arg[i].item].dirty
  /\ Goto(i, IF tree[arg[i].item].present THEN "remove" ELSE "release")
  /\ UNCHANGED <<claimVars, envVars, arg, diskVars>>

(* WORKTREE_DIRTY, PATH_UNREADABLE or GIT_FAILED. *)
FinishRefused(i) ==
  /\ at[i] \in {"status", "remove"}
  /\ Finished(i)
  /\ UNCHANGED <<claimVars, envVars, diskVars>>

(* Mutant of Removable: `git worktree remove --force`. *)
RemovableByForce(item) == tree[item].present

(* `git worktree remove` without --force refuses a tree with changes.      *)
Removable(item) == tree[item].present /\ ~tree[item].dirty

RemoveWorktree(i) ==
  /\ at[i] = "remove"
  /\ Removable(arg[i].item)
  /\ tree' = [tree EXCEPT ![arg[i].item] = NoTree]
  /\ Goto(i, "release")
  /\ UNCHANGED <<claimVars, envVars, arg, log, handoffs>>

(* The branch, which `git branch -d` drops when it is merged, is left out. *)
ReleaseLast(i) ==
  /\ at[i] = "release"
  /\ Release(arg[i].item, i)
  /\ assigned' = [assigned EXCEPT ![i] = None]
  /\ Finished(i)
  /\ UNCHANGED <<now, seen, boot, up, session, diskVars>>

-----------------------------------------------------------------------------
(* `worktree recover --preserve`: survey() banks the changes of a checkout *)
(* that nobody claims or whose owner is judged dead, and removes nothing.  *)
Recover(i) ==
  /\ May(i, "recover")
  /\ \E item \in Items :
       /\ tree[item].present /\ tree[item].dirty
       /\ \A r \in RowsOfItem(item) :
            \E rd \in Readings(r) : Verdict(r, rd) = DEAD
       /\ tree' = [tree EXCEPT ![item] = Banked(item)]
  /\ UNCHANGED <<claimVars, envVars, cmdVars, log, handoffs>>

-----------------------------------------------------------------------------
(* The agent's own work, in the checkout it was told is its own.           *)

Edit(i) ==
  /\ "edit" \in Commands
  /\ up[i] /\ Idle(i)
  /\ assigned[i] # None
  /\ tree[assigned[i]].present
  /\ tree' = [tree EXCEPT ![assigned[i]] =
                [present |-> TRUE, dirty |-> TRUE,
                 unsaved |-> @.unsaved \union {Process(i)}]]
  /\ UNCHANGED <<claimVars, envVars, cmdVars, log, handoffs>>

Commit(i) ==
  /\ "edit" \in Commands
  /\ up[i] /\ Idle(i)
  /\ assigned[i] # None
  /\ tree[assigned[i]].dirty
  /\ tree' = [tree EXCEPT ![assigned[i]] = CleanTree]
  /\ UNCHANGED <<claimVars, envVars, cmdVars, log, handoffs>>

Tick ==
  /\ now < MaxTime
  /\ now' = now + 1
  /\ UNCHANGED <<table, seen, envVars, cmdVars, diskVars>>

-----------------------------------------------------------------------------
Init ==
  /\ table = {} /\ now = 0 /\ seen = [i \in Instances |-> NoRow]
  /\ boot = 0
  /\ up = [i \in Instances |-> FALSE]
  /\ session = [i \in Instances |-> 0]
  /\ assigned = [i \in Instances |-> None]
  /\ at = [i \in Instances |-> "idle"]
  /\ arg = [i \in Instances |-> NoArg]
  /\ tree \in [Items -> {NoTree, CleanTree}]
  /\ log = {}
  /\ handoffs = {}

(* The next step of a command that is under way.                           *)
CommandStep(i) ==
  \/ OpenRow(i)
  \/ Judge(i) \/ Preserve(i) \/ PreserveFails(i) \/ Move(i) \/ Raced(i)
  \/ WriteHandoff(i) \/ HandoffFails(i) \/ Close(i) \/ CloseFails(i)
  \/ ClaimFirst(i) \/ ClaimFirstRefused(i) \/ AddWorktree(i) \/ AddFails(i)
  \/ CheckClean(i) \/ FinishRefused(i) \/ RemoveWorktree(i) \/ ReleaseLast(i)

Step(i) ==
  \/ ResolveAssignment(i) \/ Exit(i)
  \/ Request(i) \/ Refresh(i) \/ GiveUp(i)
  \/ ReadClaim(i) \/ EndSession(i) \/ NewWorktree(i) \/ FinishWorktree(i)
  \/ Recover(i) \/ Edit(i) \/ Commit(i)
  \/ CommandStep(i)

Next == Tick \/ Reboot \/ \E i \in Instances : Step(i)

Spec == Init /\ [][Next]_vars

-----------------------------------------------------------------------------
(* Properties.                                                             *)

Labels == {"idle", "openRow", "judge", "preserve", "move", "handoff", "close",
           "claim", "add", "status", "remove", "release"}

TypeOK ==
  /\ table \subseteq Claim
  /\ now \in Times
  /\ seen \in [Instances -> Claim \union {NoRow}]
  /\ boot \in 0 .. MaxBoot
  /\ up \in [Instances -> BOOLEAN]
  /\ session \in [Instances -> 0 .. MaxSession]
  /\ assigned \in [Instances -> Items \union {None}]
  /\ at \in [Instances -> Labels]
  /\ arg \in [Instances -> [item : Items \union {None}, mine : BOOLEAN,
                            done : BOOLEAN, stamp : Times]]
  /\ tree \in [Items -> [present : BOOLEAN, dirty : BOOLEAN,
                         unsaved : SUBSET Processes]]
  /\ log \subseteq [instance : Instances, session : 1 .. MaxSession,
                    item : Items \union {None},
                    outcome : {"open", "ended", "abandoned"}]
  /\ handoffs \subseteq Processes

(* r's claim passes to another instance in this step. *)
HandedOver(r) == \E s \in table' : s.item = r.item /\ s.instance # r.instance

(* A claim that names its owner's process is never taken while that        *)
(* process runs: what the reclaimer read may be old and its probes blind,  *)
(* but the verdict, the preservation and the compare-and-swap together     *)
(* leave a running, recorded owner in place.                               *)
RecordedAgentKeepsItem ==
  [][\A r \in table :
       (HandedOver(r) /\ r.identity.pid # None) => ~Running(r.identity.pid)]_vars

(* When an item changes hands, whatever the process recorded on its claim  *)
(* had not committed is on a wip/ branch: preservation came first, and     *)
(* after it that process could not add anything.                           *)
RecordedWorkIsBanked ==
  [][\A r \in table :
       HandedOver(r) => r.identity.pid \notin tree[r.item].unsaved]_vars

(* FR-5: a claim that `session end --done` releases has the handoff of    *)
(* that session on disk, whatever fails or dies between the handoff, the   *)
(* log row and the claim.                                                  *)
ReleasedHasHandoff ==
  [][\A i \in Instances :
       (at[i] = "close" /\ \E item \in Items : Holds(i, item) /\ ~Holds(i, item)') =>
          Process(i) \in handoffs]_vars

(* No step of the program destroys an uncommitted change: a checkout is    *)
(* removed only with nothing unsaved in it, even if somebody dirtied it    *)
(* after `finish` looked.                                                  *)
NoWorkDestroyed ==
  [][\A item \in Items :
       (tree[item].present /\ ~tree[item].present') => tree[item].unsaved = {}]_vars

(* `worktree finish` never leaves a checkout on disk that nobody owns: the *)
(* claim goes last, once the tree is gone, and if another instance took    *)
(* the item and made the tree again in between, its claim stays.           *)
FinishStrandsNoTree ==
  [][\A i \in Instances, item \in Items :
       (/\ at[i] = "release" /\ at'[i] = "idle"
        /\ RowsOfItem(item) # {} /\ RowsOfItem(item)' = {}) =>
          ~tree[item].present]_vars

(* operator_work.reclaim(): "Take an item from an owner that is provably   *)
(* gone". A claim never leaves an instance whose agent is running.         *)
ReclaimedOwnerIsGone == [][\A r \in table : HandedOver(r) => ~up[r.instance]]_vars
=============================================================================
