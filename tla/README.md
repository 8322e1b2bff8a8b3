# A verification of the copilot-tools operator

The operator runs several unattended Copilot agents ("instances") on one
machine: it gives them work items, keeps each one's session alive in a terminal
multiplexer, carries messages between them, records what they cost and said,
and takes work away from the ones that died. Its parts are short-lived
processes that share SQLite tables, files and a mux server, and that take almost
no locks. This directory holds TLA+ models of those parts, the TLC runs that
check them on small instances, and TLAPS proofs, for all values of the
constants, of every safety property that a passing run checks.

    tlc -workers 2 -config Work.cfg MCOperatorWork        # one run
    tlapm WorkClaimsProofs.tla                            # the proofs of one module

Sources are named relative to the repository's root. `PROJECT.json` maps every
definition that models code to its lines, lists the hazards the properties are
aimed at, and names for each property a mutant of the code that breaks it.

## 1. Inventory

| component | state | operations | interacts with | hard part |
|---|---|---|---|---|
| claim store, `work_claims.py` | table `work_claims` (PRIMARY KEY project+item, UNIQUE project+instance) | claim, heartbeat, release, reassign (compare-and-swap), reads | SQLite transactions; called by the work protocol | two instances, one item; one instance, two items; a hand-over from a row read long ago |
| liveness, `operator_liveness.py` | none | `assess` over boot identity, pid and start token, mux session, heartbeat age | process table, mux server, clock | pid reuse, reboot, clock correction, probes that cannot look |
| work protocol, `operator_work.py` | claims, checkouts | request, heartbeat, release, preserve, reclaim | claim store, liveness, git | preserve before move; the owner acts in between |
| operator session, `operator_session.py` | table `session_log`, handoffs | start (resolve, log row, mail), end (handoff, log row, claim) | claim store, handoff, mail | a failure or death between the three effects |
| worktrees, `operator_worktree.py` | checkouts on disk | new, finish, survey (`recover`) | git, claim store | claim and checkout must not come apart; edits between status and removal |
| loop supervisor, `copilot_operator.py` | files in `RESTART_DIR`: markers, pid, code record, startup record, state, lock; the mux session; `tabs.json` | `run_loop_mode`, and start, stop, stop-loop, restart-loop, stop-session, forget; `list` and its pruning; tabs and `restore` | the runner, the mux server, all commands | starts, stops and restarts that overlap; supervisors that are starting, slow or dead; records that outlive their writer |
| progress breakers, `copilot_operator.py` | two counts in files, a baseline fingerprint | `evaluate_progress`, `evaluate_unaccounted` | the supervisor, git | swaps of the supervisor, sessions that cannot be judged |
| runner, `operator_runner.py` | exit marker, pid file, launch spec | spawn, publish, capture | supervisor, metrics ingest | markers of the session before; a look while the runner publishes |
| mail, `operator_mail.py`, `copilot_operator.py` | inbox and archive, a file per message | send, pending, consume, archive | supervisor's launch, `operator inbox`, `session start` | several readers and no lock; half-done batches; files whose id is not their name |
| handoff, `handoff_tool.py` | one handoff file per instance, banked copies | write, bank, migrate | operator session, restart marker | write-once files and a migration, done by several processes |
| metrics ingest, `operator_ingest.py` | SQLite metrics, a row per process log | ingest, adopt old rows, skip, prune logs | runner, Copilot, supervisor | logs still being written; several ingests; a key that changed |
| conversation log, `conversation_log.py` | SQLite store, spool files | ingest the spool, seed from the session store, mail, handoffs | capture extension, Copilot, mail | two sources of one message; sessions that go on; files that move |
| backlog, `backlog_tool.py` | a file per item, a watermark per project | new, approve, close, reject, merge; check-in | git, several users | checks and writes apart; several checkouts |
| setup, `setup_tools.py`, `install_manifest.py` | deployed files, asides, the manifest | deploy, update, adopt | the user, Copilot | edited against outdated; kills between renames |
| project identity and instructions, `project_instructions.py` | catalog, AGENTS.md blocks, the user-scope file | retire the user-scope file | git, every project | one project of many fails; everything changes under a prompt |
| multiplexer, trace, viewer, guards, extensions, scripts | see `PROJECT.json` | | | I/O or stateless |

What makes each one right, in a sentence: the store gives an item one owner
and an instance one item; liveness never calls a running owner dead and finds
one that is gone; a reclaim takes only from the dead and saves what they left;
a session that ended left a handoff; no command destroys uncommitted work; one
supervisor watches a session, a stop is final, and a lost agent comes back; a
breaker stops only loops that really stand still, and stops those; an exit code
is counted for the session it came from; a queued message reaches an agent; a
handoff is neither lost nor hidden by an older one; a recorded session keeps
its row; a message is filed once and in the right view; only what the owner
approved is closed; a check-in names every commit; setup overwrites nothing of
the user's without an answer and never leaves less than one copy; the
conventions are never in no place at all.

## 2. Modules

Work and liveness.

`Ownership` is the abstract specification of the claim store: a set of
<<item, instance>> pairs with Take, Drop and Move.

`ClaimTable` has the rows of `work_claims` and each call of `work_claims.py` as
an operator on the table: `Insert`, `Resume`, `Heartbeat`, `Release`,
`Retain` (the UPDATE that `session end` does itself) and `Reassign`. It
instantiates `Ownership` with the refinement mapping `holds`.

`WorkClaims` lets any instance make any call at any time and states what the
store promises. The variable `seen` is what an
instance last read with `claim_for_item`; `reassign` gets it as `expect_claim`.

`Liveness` is `assess()` with its comparisons of boot identities and start
tokens, a pure function of the claim and of three-valued probe answers.
`OwnerWorld` puts it in a machine: processes exit, pids are reused, the clock is
corrected, mux sessions are closed and opened again, the machine reboots, on
each of the three platforms. The machine's actions are the environment; the
probes (`Truth`, `Readings`) are the code's.

`OperatorWork` composes `ClaimTable` and `Liveness` with sessions, checkouts,
the session log and handoffs. A command is a sequence of steps, one for each
transaction, git command or look at the world; `at[i]` is the next step and
`arg[i]` what the command remembers. Reclaim is ReadClaim, Judge, Preserve,
Move (or Raced); `worktree new` is NewWorktree, ClaimFirst, AddWorktree (or
AddFails); `worktree finish` is FinishWorktree, CheckClean, RemoveWorktree,
ReleaseLast; `session end` is EndSession, WriteHandoff, Close. An agent may die
at any step. `tree[item].unsaved` names the processes whose edits are in the
checkout and on no commit and no `wip/` branch.

The loop.

`Supervisor` is `run_loop_mode` as a program counter per supervisor process
(guard, publish, top, launch, claim, poll, look, restart, halt, stopping, ...)
and the six commands as one per invocation. A step lies between two looks at
shared state. `era` counts how often the user asked for a loop, `ended` is the
last era a completed stop covers, and `swept` says whether some `cleanup_files`
or `forget` has removed the record of another supervisor that runs, or the lock
of a restart-loop under way. The three are history: no guard reads them, only
the properties do.

`Runner` refines the launch and the end of a session: `start_session` clears
the markers and launches, the runner boots, spawns Copilot, watches it and
publishes its code through a temporary file, and the loop looks, settles and
charges the session. Removals, writes, reads and panes may fail. A code that
could not be published does not keep the runner from the metrics (`unmarked`),
and one that could not be read counts as none (`unread`, history).

`LoopRecords` has the pid file and the code record of supervisors that follow
one another on a machine that reuses pids and reboots; a reader prunes and
concludes as `operator list` does. It uses `Liveness` for the comparison of
start tokens. Each of the two stamps of a record may be missing. A file is
compared by what it says (`Says`); who wrote it (`by`) and who wrote the file
that was read again (`again`) are history.

`LoopBreakers` refines one choice of `Supervisor`, whether a breaker trips: the
counts in memory and on disk, the baseline, verdicts. A fingerprint is the
repository's version, or None when git does not answer. `truth` counts the sessions that really were idle or
killed, `stale` remembers that a lower count never reached the disk; both are
history.

`Tabs` is `tabs.json`: every command that starts or stops an instance in a
terminal tab reads the file, changes one entry, truncates, writes and moves one
shared temporary file. `restore` opens many tabs at once. `wanted` and `unkept`
are history: which entries there should be, and which an overlap or a refusal
excuses.

`Mail` has one step for each read, write, unlink and rename of a message file
by `consume`, `archive` and `record_delivered`, the launch of a session around
`pending` and `archive`, and the two ways `operator send` goes. A file says its
own id, another's, none (`NoId`), one that is not a string (`BadId`), or is not
a message (`Junk`). `taken` and `shown` are history, `stuck` marks the uncaught
KeyError of section 5.

`Handoff` has one step for each look at a file, each rename and each write of
the command `handoff`: `LookOld` to `ArchiveDone` are `migrate_project_handoff`,
`LookBox`, `Bank` and `BankFails` are `bank_prior_handoff`, `Write` is
`write_atomic` and the restart marker that follows it. `disk` maps paths to
documents; a document is its author's stamp and a number. The agent's reading
and deleting of its handoff is external.

Records.

`Ingest`: two ingestors (the runner and the command line) read a log, read the
row and write it in a transaction, while Copilot goes on writing and `operator
logs --prune` deletes. A log is its facts and the second of its mtime; `before`
is what it said when that second began.

`ConversationLog`: one session whose turns are appended to the day's spool by
the hook and to the session store by Copilot, while runs of `operator
conversations` ingest the one and seed from the other and are killed. A run
re-reads every file it can open (`opened`, any of them may be unreadable in any
run), the oldest first, so a row ends as the last file that has its line leaves
it (`Filing`, `Latest`), and goes on to the session store. There it looks for a
message under the text that is left when appended mail is cut off, which for a
launch prompt with mail (kind `mailed`) is not the text the hook stored
(`Stripped`). `run.missed`, the lines the run could not or could no longer see,
and `taken`, what it filed from the session store all the same, are history.
`Seeding` is the other two sources, mail and handoffs, files that are copied and
moved between the listing, the reads and the commit of a run.

Projects.

`Backlog`: users who create, approve, close and reject items, each command
reading the files first and rewriting one later, with merges that bring files
of other checkouts. `approved` is history. `CheckIn`: `backlog scrum` in
several checkouts with one watermark; `covered` is history.

`Install`: one deployed thing, a skill, an extension or a template, through
`decide`, staging, the two renames, the cleanup and the manifest entry, with a
user who edits, links and removes it, and with kills and failures between any
two steps. `free`, `taken` and `owned` are history.

`Retire`: `operator projects retire` with its prompt, the rewriting of each
AGENTS.md, the commits, the archive copy, the fingerprints and the removal.
`reached` and `late` are history.

Proofs. `WorkClaimsProofs`, `OwnerWorldProofs`, `OperatorWorkProofs`,
`SupervisorProofs` and `HandoffProofs` are about the module of their name. The
other three follow the instances below: `LoopProofs` has `Runner`, `Mail` and
`LoopBreakers`, `RecordsProofs` has `CheckIn`, `Tabs`, `LoopRecords`, `Retire`
and `Backlog`, and `PartsProofs` has `Ingest`, `Install`, `ConversationLog` and
`Seeding`, each by its own specification (`Metrics!Spec`, `Post!Spec`, ...).

Instances for TLC.

`MCOperatorWork`, `MCSupervisor` and `MCHandoff` give the sets and symmetries
of one module. `MCParts`, `MCOwnerWorld` and `MCMail` hold several modules that
share no state: the initial state picks one, and only that one moves. `MCParts`
has `WorkClaims`, `Ingest`, `ConversationLog`, `Seeding` and `Install`;
`MCOwnerWorld` has `OwnerWorld`, `LoopRecords`, `Tabs`, `CheckIn`, `Retire` and
`Backlog`; `MCMail` has `Runner`, `Mail` and `LoopBreakers`, and states the
fairness of the last two again for the part that runs. That a part does not see
another is a fact of the code where the parts use different files; the three of
`MCMail` meet only in the loop, which `Supervisor` has.

## 3. Runs

| run | asks | instance |
|---|---|---|
| parts | claim store: `HandoverNeedsTheRowRead`, `ImplementsOwnership` | 2 items, 2 instances, 2 identities, 1 tick, revision at most 1 |
| | metrics: `HistoryKept`, `SkipLosesOneSecond` | 2 logs of one name, 1 fact, 2 ingestors, 2 seconds (`MaxSecond` 1); one log without a time, rows of earlier versions |
| | conversations: `FiledOnce`, `PeersKeptApart` | 2 turns of any of the 4 kinds, 2 days, any number of runs, each with any files unreadable; 3 letters and 2 handoffs |
| | setup: `EditsNeedAnAnswer`, `NeverNeither` | 2 versions, 2 edits, 2 faults; a skill, an extension or a template |
| owner_world | liveness: `DeadOnlyIfGone`, `GoneIsFound` | 2 pids, 4 instants, 2 boots, corrections up to the tolerance |
| | records: `PrunedHasEnded`, `VerdictIsItsOwn` | 2 pids, 3 processes started, 2 boots |
| | tabs: `TabsSurvive` | 2 tabs, 2 commands at once |
| | check-ins: `WatermarkIsCovered` | 2 checkouts, 3 commits |
| | retirement: `NeverInNone` | 2 projects, 2 texts, 1 edit of each AGENTS.md, 2 faults |
| | backlog: `ClosedWasWorkable` | 2 users, 2 ids, 2 slugs, 2 files |
| work | `RecordedAgentKeepsItem`, `RecordedWorkIsBanked`, `ReleasedHasHandoff`, `NoWorkDestroyed`, `FinishStrandsNoTree` | 2 instances, 1 item, 2 sessions each; claims and reclaims with 1 reboot and 1 tick, or worktrees and ends of sessions |
| commands | `OneSupervisor`, `NoStrandedDetach`, `LaunchKillsNoAgent`, `CleanStopIsFinal` | 3 supervisors, 3 invocations of start, stop, stop-session, stop-loop, restart-loop; crashes |
| returns | `InvocationsReturn`, `AgentComesBack` under fairness | 2 supervisors, 2 invocations of all six commands, timeouts |
| mail | `QueuedIsDelivered`, `ShownIsArchived` | 2 messages, 2 readers of which one may also launch, 1 fault, every mailbox with one id edited (away, to another type, to nobody's) or two exchanged |
| | breakers: `StopsNoHealthyLoop`, `StalledLoopStops` | limits 2 and 3; 2 changes, 2 swaps, 2 faults |
| | runner: `CodeIsOwn`, `OutlivedIsObserved` | 4 sessions, 3 faults |
| handoff | `NewestInBox`, `NothingVanishes` | 3 instances, 1 archived file, 2 handoffs each, any of the files an older version leaves; deaths anywhere |
| owner_gone, stop_timeout, mail_loop, prune, retire | each finds a disagreement, section 5 | |

Every run is exhaustive within its bounds. The largest are owner_world (1.3
million distinct states), parts (0.9 million) and mail (0.6 million, with
liveness), of about two minutes each. Each module has a type invariant; it
was checked while the module was written and is not part of the runs; those of
the claim store, the work protocol and the supervisor are theorems, and every
inductive invariant of section 4 starts with one.

Why the bounds are enough. The claim store compares rows for equality and
identity by name: two items and two instances show every pairwise conflict, and
a revision and a clock tick make a row differ from the one read. A reclaim
involves one owner and one reclaimer; each may die, come back as a second
session and reboot once. A conflict over the supervisor needs the one that
runs, one that is being started and one that starts later, hence three. The
runner needs a session, its successor that inherits the markers, and one after
that for a wrong conclusion to be counted; a fourth shows that it goes on so,
each session given up on publishing over the markers of the next. Two logs of one name are what the
keys of the metrics are about; a second instant is needed for a log to be newer
than its row. A conversation needs two turns for a reply to follow the wrong
prompt and two days for the two to be in different files, one of which a run may
find unreadable and the next not. A setup that was
killed needs one new version and one edit to confuse the two copies; the second
of each shows that the cure does not depend on the first. Check-ins need a
commit on each branch and a merge. The breakers treat both limits by comparison
only; 2 and 3 stand for the code's 3 and 5 and keep that the limit on killed
sessions is the larger, so that either can trip first. In the mailbox the code
treats files one at a time in the order of names; two files tell "the whole
batch" from "the first of it", and two readers make any overlap. In the handoff
files a late delivery needs its author, the one that delivers and one that
moved the same file in between, hence three instances; one archived file
collides with nothing of its own name but with two migrations that want it, and
two handoffs show one banked and pushed out. Two saves are enough to overlap on
one temporary file, and a third adds only another loser.

Bounds that leave behaviour out, by name: `Commands` (which commands a run
has), `Confirmed` (which signals of an identity could be confirmed), `Apart`
(which commands never run at once, section 5), `Loops` (which readers of the
mail may launch), `MayTimeOut`, `MayCrash`, `MaxLaunches`, `MaxFailures`,
`MaxRevision`, `MaxSession`, `MaxSessions`, `MaxBoot`, `MaxBoots`, `MaxTime`,
`MaxSecond`, `MaxStarts`, `MaxFaults`, `MaxMishaps`, `MaxWork`, `MaxSwaps`,
`MaxNudge`, `MaxTurns`, `MaxDays`, `MaxVersion`, `MaxEdits`, `MaxId`,
`MaxFiles`, `MaxCommits`, `MaxTexts`, `MaxOwn`, `Archived`, `MaxParked` (a name
in `legacy/` is always found within it), `MaxWritten`, `MayFail` (whether a
migration may fail on a file that is there, section 5). `CHECK_DEADLOCK FALSE`
where the system may stop: all sessions used up, all invocations returned, a
part at rest.

Symmetry is declared only over names that no other part of the same run uses
for something that tells them apart.

Fairness. `Supervisor!FairSpec`: a process that has been started goes on
running (WF of its steps), every wait in the code having a deadline or a poll.
Nothing is assumed of agents. `LoopBreakers!FairSpec`: the loop goes on and
sessions end; an agent that never ends its session is not stalled but busy, and
the breaker says nothing of it. `Mail!FairSpec`: a reader runs on, sessions
end and the loop launches the next; nobody is obliged to consume. `MCMail`
states the two again over the variables of their part, for the part that runs.

## 4. Proofs

Every safety property of a passing run is stated by a theorem; the table says
which, and what is assumed beyond the types of the constants.

| theorem | property | assumed |
|---|---|---|
| `HandoverIsCompareAndSwap`, `StoreImplementsOwnership` | `HandoverNeedsTheRowRead`, `ImplementsOwnership` | |
| `NeverDeadWhileRunning`, `GoneIsAlwaysFound` | `DeadOnlyIfGone`, `GoneIsFound` | corrections of the clock within the tolerance |
| `NoRecordedAgentIsRobbed`, `HandedOverIsBanked` | `RecordedAgentKeepsItem`, `RecordedWorkIsBanked` | |
| `DoneLeavesHandoff`, `RemovedHadNothing` | `ReleasedHasHandoff`, `NoWorkDestroyed` | |
| `FinishLeavesNoOrphan` | `FinishStrandsNoTree` | `PidsConfirmed`: a claim records a process |
| `NoMarkerIsLeft` | `NoStrandedDetach` | |
| `OneWatches`, `NoLaunchKillsAnAgent` | `OneSupervisor`, `LaunchKillsNoAgent` | `StartsAreApart` |
| `AnsweredStopIsFinal` | `CleanStopIsFinal` | `StartsAreApart`, `StopsAreApart`, no wait runs out |
| `CountedCodeIsOwn`, `OutlivedIsSeen` | `CodeIsOwn`, `OutlivedIsObserved` | |
| `NoQueuedMessageIsLost` | `QueuedIsDelivered` | |
| `NoHealthyLoopIsStopped` | `StopsNoHealthyLoop` | |
| `BoxHoldsTheLatest`, `UnreadIsKept` | `NewestInBox`, `NothingVanishes` | migrations do not fail on a file that is there |
| `RunningIsNotPruned`, `VerdictsAreTheirOwn` | `PrunedHasEnded`, `VerdictIsItsOwn` | |
| `RegistryKeepsEntries` | `TabsSurvive` | |
| `NoCommitFallsBetween` | `WatermarkIsCovered` | |
| `ConventionsSurvive` | `NeverInNone` | |
| `SkippedIsRecorded`, `RowsAreKept` | `SkipLosesOneSecond`, `HistoryKept` | |
| `EachIsFiledOnce`, `PeersStayApart` | `FiledOnce`, `PeersKeptApart` | |
| `NothingIsTakenUnasked` | `EditsNeedAnAnswer` | |
| `SkillOutlivesTwoFailures` | `NeverNeither` | at most two failures |
| `ClosedWasApproved` | `ClosedWasWorkable` | |

The assumptions that are not in the last column say that the bounds are natural
numbers and that a value that stands for "nothing" is none of the things it is
compared with (`MailConstants`, `BreakerConstants`, `NoneIsNoRecord`,
`RetireConstants`, `InstallConstants`, `TalkConstants`, `SeedConstants`,
`NamesAreApart`, `SlugsAreOrdered`, `NoneIsNoSession`; `SupervisorAssumption` and
`IdentityAssumption` are stated in the modules themselves and evaluated by TLC).

`WorkClaimsProofs` proves for every set of items, instances, worktrees and
identities, and every bound:

- `TypeCorrect`: `Spec => []TypeOK`;
- `SchemaNeverViolated`: `Spec => []SchemaHolds`, no call would make SQLite
  raise a constraint error, an item has one owner and an instance one item;
- `HandoverIsCompareAndSwap`: a claim changes hands only from the row that its
  new owner had read;
- `StoreImplementsOwnership`: the store refines `Ownership`.

The inductive invariant is `IInv == TypeOK /\ SchemaHolds /\ SeenIsAnothers`.
`SchemaHolds` alone is not inductive: `reassign` does not look at who asks, and
keeps "one item per instance" only because what an instance has read is
another's row (`reclaim` refuses an item that is its own), which is
`SeenIsAnothers`. The calls that update rows in place (resume, heartbeat,
retain) share the lemma `KeepsKeysPreserves`: the new table is the image of the
old under a function that keeps item and instance. `Insert`, `Release` and
`Reassign` have a lemma each. `StepFacts` collects what every step gives, and
the temporal theorems follow with PTL. Assumptions: `ClaimTable`'s constants
(`NoRow` is no claim, bounds are natural numbers).

`OwnerWorldProofs` proves for every set of pids, every number of boots, every
clock, every heartbeat timeout and every tolerance:

- `NeverDeadWhileRunning`: `Spec => []DeadOnlyIfGone`;
- `GoneIsAlwaysFound`: `Spec => []GoneIsFound`;
- `DeadForGood`: `Spec => DeathIsFinal`, that no step turns a death that was
  established back into life. It follows from the other two and from the fact
  that an owner does not come back, so no run repeats it.

None of them follows from the verdict's inputs alone; the invariant
`WInv == World /\ PidIsOwners /\ PidIsLaters /\ ClaimFits` says how the inputs
came about. `ClaimFits`: a claim was written by its owner, so its boot identity
and start token are those of the owner's process, up to a correction of the
boot instant within `MaxNudge`. `PidIsOwners`: an owner that runs is in its own
boot and has its pid. `PidIsLaters`: whoever else has that pid started later.
From `WInv` alone, `RunningIsNotDead` goes through the cascade's DEAD outcomes
and excludes each for a running owner, and `GoneIsDead` finds the outcome that
catches an owner that is gone. Assumptions: `WorldAssumption`, of which
`MaxNudge <= Tolerance` is the substantial one (corrections of the clock that
exceed the code's tolerance are outside the claim), and `ValuesAssumption`
(`None` and `Damaged` are no readings).

`OperatorWorkProofs` proves for every number of instances, items, sessions,
reboots and clock ticks, for any set of commands, whatever the probes answer or
leave unknown, and for every set `Confirmed` of signals that could be recorded:

- `NoRecordedAgentIsRobbed`: `Spec => RecordedAgentKeepsItem`;
- `HandedOverIsBanked`: `Spec => RecordedWorkIsBanked`;
- `DoneLeavesHandoff`: `Spec => ReleasedHasHandoff`;
- `RemovedHadNothing`: `Spec => NoWorkDestroyed`;
- `FinishLeavesNoOrphan`: `Spec => FinishStrandsNoTree`, if `PidsConfirmed`;
- `WorkTypes`: `Spec => []TypeOK`.

Each of thirty kinds of step could each disturb a reclaim. The proof therefore
looks at a step through summaries of what it can do to the table
(`TableChanges`), to a checkout (`TreeChanges`), to the sessions
(`SessionsGrow`) and to the memory of the others (`OthersUnmoved`). The
invariant is `WorkInv`. Its core is `Judging`: at each step of a reclaim the
owner that was judged is gone, and stays gone while the checkout is banked and
the claim moved, since a process that ended never comes back. A verdict is
passed on an identity, so this needs `RowsHonest`: every recorded identity is
one that some session had. `Closing` holds the handoff until the claim is
released, `Trees` says that a checkout with unsaved edits is dirty and there.

`FinishStrandsNoTree` needs more (`Adding`, `Finishing`): that the claim behind
a checkout that is being added is still there. Without a recorded pid it need
not be. A release and a new claim in the same second, with revision 0, give a
row that the compare-and-swap of a reclaim cannot tell from the one it read; the
proof shows that the pid in the row is what tells them apart.

`SupervisorProofs` proves for any number of supervisors, invocations, launches
and failures:

- `SupervisorTypes`: `Spec => []TypeInv`, which has, beside the types, the
  limits of the counts, the order of the eras and the steps of each command;
- `NoMarkerIsLeft`: `Spec => []NoStrandedDetach`, with nothing assumed: the
  marker always has an owner (`DetachHasOwner`), an invocation that will
  withdraw it or a supervisor that will honour it;
- `OneWatches`: `Spec => []OneSupervisor`, if `StartsAreApart`;
- `NoLaunchKillsAnAgent`: `Spec => LaunchKillsNoAgent`, likewise;
- `AnsweredStopIsFinal`: `Spec => CleanStopIsFinal`, if also `StopsAreApart` and
  `~MayTimeOut`.

The commands keep one supervisor by looking at two files before they spawn.
`OneInv` says who is behind the files: a supervisor that runs is the published
one, the starting one, or the child of an invocation about to record it
(`Recorded`); an invocation that saw nobody is right until it has spawned
(`Clear`, `OnlyChild`); at most one is in that position, because starts are kept
apart and a restart-loop has its lock (`OneKeeper`); and a supervisor that is
about to launch has no agent to kill (`Empty`). The proof is where the two
conditions come from. Nothing in the code makes starts exclusive (section 5), so
`StartsAreApart` is a condition on the user. And the properties hold only while
no clean-up sweeps away a record or a lock in use (`~swept`): with one more
invocation than the run `commands` has, a stop that overlaps a start does that.

For the stop, `EraInv` orders the eras: every start has one, a stop covers those
before the starts under way (`StopsBefore`, `StartsLater`), and from the look
that finds nobody on, every supervisor that runs is of a later era than the stop
covers (`SupsAfter`), and so is every session after the kill. `Settled` is the
least of a set of numbers, whence the lemma `LeastNumber`. Without
`~MayTimeOut` the property is false, which the run `stop_timeout` shows, and
without `StopsAreApart` an adopter of a killed session relaunches it
(section 5).

`HandoffProofs` proves for every set of instances, every archive and every
bound, where migrations do not fail on a file that is there (`~MayFail`):

- `BoxHoldsTheLatest`: `Spec => []NewestInBox`;
- `UnreadIsKept`: `Spec => NothingVanishes`.

Nothing locks, so no step is safe by what it looks at: each look may be stale
when its rename comes. What makes the renames safe is that a file that has been
moved never comes back, and that an instance writes only after its own
migration. So a delivery whose box has been filled in the meantime finds
nothing to deliver: whoever filled the box had moved the old file first. The
invariant `HInv` says this for each step that remembers something
(`Fits(i)`): `MovedAway` (once an instance's migration has dealt with
`next-session.md`, that file is gone), `BoxFree` (a box that was found empty is
empty while the old file is there), `NameFree` (the same for a name in
`legacy/`), `Stamped` (the author remembered is the file's), `BoxAsRead` and
`BoxToWrite` (no one else puts a file where an instance has read or banked
one). The proof has a lemma per kind of step; `NothingVanishes` follows from the
invariant action by action.

`RecordsProofs` proves `NoCommitFallsBetween` (`Spec => []WatermarkIsCovered`)
for any number of checkouts and commits, with no assumption. A check-in reads
the watermark and HEAD, and writes the watermark many steps of others later.
`CheckInInv` therefore says of what it holds what `WatermarkIsCovered` says of
the file (`HeldMark`): the watermark it compares with, and after the report the
HEAD it will write, reach only commits that some check-in has accounted for.
Commits that are made in between are new (`Made`), so they disturb neither.

It proves `RegistryKeepsEntries` (`Spec => []TabsSurvive`) for any
number of tabs and commands, with no assumption. `TabsSurvive` excuses what
overlapping saves lose, so it has to be carried from the read of a registry to
the rename by the saves that did not overlap: `Alone(c)` says of a command that
no other has crossed that it is the only one at work, holds every entry of the
registry but those it drops, and finds in the temporary file what it wrote.

For any supervisors, pids, boots and corrections of the clock within the
tolerance it proves `RunningIsNotPruned` (`Records!Spec => []PrunedHasEnded`) and
`VerdictsAreTheirOwn` (`Records!Spec => []VerdictIsItsOwn`). A stamp is read long
after it was written, when its pid may be another's. `StampFits` says that what
it says is true of its writer as long as that runs, and `TokenTells` that its
start token belongs to nobody else, anywhere (Windows) or in the boot it names
(Linux); `ReaderKnows` carries both over the steps of a reader. The file that is
read again before it is removed says what the first did, and may still be
another's: `TokenTells` of both gives that, where the stamps are there, its
writer is the one that was judged. `CodeIsSaved` is the order of the two writes.

It proves `ConventionsSurvive` (`Retirement!Spec => []NeverInNone`) for any
projects, texts, edits and faults. What licenses the removal is established over
many steps, `CopyIsMade` and `TurnsPlaced` (whoever had its turn holds the
block, unless something blocks the removal), and nothing others do meanwhile
takes it back (`ReachedHold`).

It proves `ClosedWasApproved` (`Tickets!Spec => []ClosedWasWorkable`) for any
number of users, ids, titles and files. A command judges an item and rewrites
it later without a lock; `Justified` says that what it judged still holds then,
because an approval is never taken back, a file never goes away and `blocks` is
never rewritten. Assumption: `SlugsAreOrdered` (ids and slugs are numbers, of
any slugs one comes first, `None` is no item).

`PartsProofs` proves for any logs, facts, ingestors and seconds:

- `SkippedIsRecorded`: `Spec => []SkipLosesOneSecond`;
- `RowsAreKept`: `Spec => HistoryKept`.

Neither says anything of a job between its look at the file and its row, which
is where they could break. `JobCovers` does: the time a job remembers is no
later than the file's, and the text it reads is at least what the file said when
the second of that time began, since texts only grow (`LogsGrow`). `RowsCover`
says the same of the rows, for any time and not only for the one that makes a
log be skipped, and `RowsAreOwn` that a row under a path is that log's, which is
why adopting the row of a name loses none. Assumption: `NamesAreApart` (a name
is not a path, "no row" is no row).

For any versions, edits and failures it proves two properties of `Install`:

- `NothingIsTakenUnasked`: `Deploy!Spec => []EditsNeedAnAnswer`;
- `SkillOutlivesTwoFailures`: `Deploy!Spec => []NeverNeither`, if
  `MaxMishaps <= 2`.

The danger to the first is that setup takes the user's bytes for its own.
`AnswerInv` says that it does so only with bytes that were given up: a digest
names the user's content it was taken of (`ContentsGenuine`), one that the
manifest has is of content given up (`EntriesGiven`), and so is what a run is
about to replace, at each of its steps (`AboutToReplace`). The second counts. A
skill is moved aside before the new copy has its name, so while nothing whole
has the name (`BareIsMoved`), the step says which copy there is and how many
failures it took to get there. After two, only the copy aside or the staged one
is left; a third can be the one too many, and the bound is sharp: with
`MaxMishaps = 3` TLC finds it (section 5).

It proves two properties of the conversation store:

- `PeersStayApart`: `Talk!Spec => []PeersKeptApart`, for any number of turns,
  days and runs;
- `EachIsFiledOnce`: `Talk!Spec /\ Seeds!Spec => []FiledOnce`, which is about
  both modules.

A row of the table may come from a file read many steps ago. `TalkInv` says how
the sources come about: a line is in one file and after its prompt
(`SpoolOrdered`), a turn is in the session store when all its lines are written
(`SaidBefore`), a row of a source is of something that source has
(`RowsFromSources`), and a run that is past the spool has filed all it had but
what it missed: lines of a file it could not read, and what was appended behind
it (`RunSawSpool`). The last one is the "order is load-bearing" of `seed_all`;
a row of each source then means that some run had missed the line (`taken`), or
that the two hold the message under different texts (`Stripped`). Both
exceptions are the code's, section 5. `PeersKeptApart` itself needs that in a
file with the prompt the last prompt before a reply is its own
(`AnswersOwnPrompt`), which follows from the order of the file. For the files
that move, `SeedInv` says that each row is under the key of what it holds, that
whatever was read has one, and that no commit takes a key away; with
`KeysTellApart` (no two letters have one identity) that is the property.

`LoopProofs` proves for any number of sessions and faults:

- `CountedCodeIsOwn`: `Spec => []CodeIsOwn`;
- `OutlivedIsSeen`: `Spec => []OutlivedIsObserved`.

All sessions write one exit file, so what a code there says depends on who can
still write it. `RunnerInv` names them: `OneRuns` (the session of the loop, or
before its launch the one before it), `GivenUp` (the latter only if the loop
judged it while it ran), `CodeExplained` (after the markers were cleared, a code
is the session's own or that of a session given up on), `CodeStays` and
`JudgedForAReason`; `ChainBegins` leads a session given up on back to a marker
that stayed. The last one came out of the proof: an earlier form of `CodeIsOwn`
excused only the session just before, which three sessions satisfy and four do
not. Assumption: `NoneIsNoSession`.

For any mailbox and any number of readers and faults it proves
`NoQueuedMessageIsLost` (`Post!Spec => []QueuedIsDelivered`). A name identifies
a file, which never comes back to the inbox once it left (`InboxQueued`), so a
reader that moves a file it chose long before finds that file or none. What a
reader has in its hands is still queued if it consumes (`Consuming`), and has
been shown if it launches (`Delivering`, `OnlyShown`), for which ids must tell
files apart (`IdsTold`).

For any limits, swaps and faults it proves `NoHealthyLoopIsStopped`
(`Breakers!Spec => []StopsNoHealthyLoop`). A count is held in memory or on disk,
and a swap of the supervisor takes it from one to the other: `CountsTrue` says
that the one the loop goes by next is no more than what has happened, unless a
lower count never reached the disk (`stale`); `Measuring`, that a session judged
idle had a baseline from before all it did.

Only model-checked: liveness under fairness (`InvocationsReturn`,
`AgentComesBack`, `ShownIsArchived`, `StalledLoopStops`), which the prover does
not do, and what the runs of section 5 find violated. The models have no RECURSIVE
operators. What `IngestSpool` does to the table is stated by its result, the
row of the last file that has the line, rather than by folding file after file:
the two are the same, and of the first the prover can reason.

## 5. Disagreements

Runs that TLC finds violated:

- owner_gone. A session that resumes its claim leaves the previous session's
  process on it (`operator_session.py:181`), and the supervisor's heartbeat only
  refreshes the time (`copilot_operator.py:2183`). The recorded process is gone,
  so `assess` says DEAD and a reclaim takes the item from an agent that runs,
  against "provably gone" (`operator_work.py:466`). `RecordedAgentKeepsItem` is
  what does hold: an owner whose process is the recorded one is safe.
- stop_timeout. `stop_operator` calls `cleanup_files()` (3928) when its wait
  has run out, which removes the stop marker that 3894-3898 says must be left
  for a slow supervisor; that supervisor then launches.
- mail_loop. A message file without an id, which the reader accepts and
  `archive` has a rule for, raises KeyError at `copilot_operator.py:5614` after
  the launch; the supervisor ends.
- prune. `manage_logs` deletes an old log that has a row (4535) and does not
  ask whether the row is up to date, as `ingest_file` does; a log that was
  ingested half-way goes with usage nobody recorded, against "so usage is never
  lost" (4514).
- retire. The list of projects is taken before the prompt (7325) and the
  fingerprint that the recheck compares with after it (7367): a project
  registered in between is in neither the list nor the difference, and the
  user-scope file goes without it, against `project_instructions.py:1370-1373`.

Others that the models show and no run carries. The claim store and worktrees:

- An owner that still runs may edit its checkout between preserve and reassign
  (`operator_work.py:537`); the item then moves with changes on no branch,
  against 479-481. They stay in the checkout: `NoWorkDestroyed` holds.
- A finish that loses the item to a reclaim after its check of ownership
  (`operator_worktree.py:583`) removes the checkout of a new owner, if it is
  clean.
- `session end` refreshes a retained claim without bumping `revision`
  (`operator_session.py:379`), against the comment on `Claim.revision`
  (`work_claims.py:113-117`).
- A claim that was released and taken again within one second, without a pid in
  its identity, is the same row as before with revision 0 (`work_claims.py:339`):
  a reclaim that read the first takes the second. `RecordedAgentKeepsItem` is
  about recorded processes, and `FinishStrandsNoTree` needs them.
- An identity that records only a mux session is judged by that alone. A
  `worktree new` whose claim was taken for that reason while `git worktree add`
  ran leaves a checkout nobody owns; the setting with worktrees in run `work`
  has identities whose process is known.

The loop:

- Two overlapping starts both find no supervisor and both spawn one: with
  `Apart = {}`, `OneSupervisor` fails. The comment at
  `copilot_operator.py:5382-5386` counts on the caller's look, which nothing
  makes exclusive. All supervisor runs keep starts apart, and a start and a
  restart-loop.
- A restart-loop whose last look at the session (4264) comes just before a
  concurrent stop kills it spawns an adopter that relaunches it. The run
  `commands` keeps stop and restart-loop apart for this reason.
- A stop that is refused after its supervisor has gone by itself leaves its
  marker (3901, 3919-3924), against 3866-3867.
- `operator stop` ends in `cleanup_files` (3928, 1015-1023), which removes every
  file whoever's it is. A stop that overlaps a start may so remove the record of
  the supervisor that start has just spawned, or the lock of a restart-loop; a
  later start then spawns a second supervisor. It takes four invocations, one
  more than the run `commands` has, and came out of the proof of
  `OneSupervisor`. Its condition `~swept` excludes this and the next.
- `operator forget` removes the pid file of a supervisor that runs
  (`copilot_operator.py:4345`); a later start then spawns a second one.
- An exit marker that could not be removed makes the loop declare a running
  session over; if that session's code then comes between the clearing of the
  markers for the next one and its launch, the next one is charged with it, and
  may be given up on in its turn (`LedAstray`, the exception in `CodeIsOwn`).
  `_record_session_exit` writes the code to the trace without asking whether it
  was cleared.
- Between the second read of a pid file and its removal
  (`copilot_operator.py:3247`) a supervisor that starts may publish its own,
  which is then removed. The second read compares what the file says (3327): of
  two supervisors with one pid whose files lack the stamps that would tell them
  apart (a probe had no answer), the later one's file is taken for the file that
  was judged and removed. `PrunedHasEnded` excepts exactly that.
- Two saves of `tabs.json` that overlap lose an entry of one of them, may
  publish a truncated or mixed file, and one of the commands may find the
  temporary file gone and die of it before it starts its instance
  (`copilot_operator.py:1104-1108`); `operator restore` starts all its tabs at
  once. A registry that cannot be parsed is repaired only by `operator tabs
  clear`.
- If the write that resets a count fails, or the supervisor is killed before
  it, its successor reads the old count and may stop a loop early
  (`stale` in `LoopBreakers`).

Mail and handoffs:

- When `_archive_one` cannot unlink, it deletes its archive copy
  (`operator_mail.py:617`); if another consumer removed the inbox file in
  between, that copy was the last one. The message had been shown. A consumer
  that is killed after archiving (478) has not shown what it archived.
- A message whose id is there and is not a string, null or a number, is shown
  at a launch and offered again at every one that follows: `m["id"]` (5614) does
  not raise, and `archive` drops such an id before it looks for the file
  (`operator_mail.py:516-519`), against its docstring (497-507), by which a
  message is found by its id or by its name and none is shown for ever, and
  against `tests/test_mail.py:759-771` ("re-delivered for ever, which is the
  failure this function exists to stop"). `BadId` is such a file;
  `ShownIsArchived` is stated of messages with an id of their own or of another
  file, and excepts it and the message without an id of run mail_loop.
- A migration in which the author itself fails to move the old file goes on to
  write its handoff; another that found the box empty before then delivers the
  old file over it, against "nothing is overwritten" (`handoff_tool.py:285`).
  With `MayFail = TRUE`, `NothingVanishes` and `NewestInBox` fail.
- A `handoff` repeated by the session that wrote one, as after a failed
  marker (`handoff_tool.py:1165-1168`), banks its own first one, against "that
  cannot happen in the ordinary flow" (`docs/operator.md:688-691`), and pushes an
  unread one out of the slot.
- Two migrations that run at once may lose an archived handoff: `_park` looks
  for a free name and then renames over whatever has it by then
  (`handoff_tool.py:303-314`), and a name with a number, tried because the plain
  one is taken, can be the plain name of another entry of `superseded/`
  (`x.md` as `superseded-x-1.md`, and `x-1.md`). In `Handoff` no entry is called
  so, and `NothingVanishes` then holds: two migrations that park one file race
  for the file, not for the name.
- The crash check looks into the box and then at `next-session.md`
  (`copilot_operator.py:2101`); a migration that moves the file the other way
  in between is missed.

Records:

- What Copilot logs in the second in which a log was ingested is lost if
  nothing follows (`operator_ingest.py:588`); `SkipLosesOneSecond` says that it
  is no more than that. The number of the session is lost when `operator ingest`
  recorded the final state of a log before the runner did.
- A prompt that a session is launched with carries the mail that waits for it.
  The hook's row has it whole (`conversation_log.py:1295`, 1321), and
  `seed_session_store` looks for it with the mail cut off (941, 959), so a launch
  prompt with mail that both sources captured is filed twice, at the first run
  that sees both, against 914-922 and the docstring of `seed_all` (1337-1341).
  `FiledOnce` excepts exactly these (`Stripped`).
- A spool that cannot be read, its directory (1266-1269) or one file
  (1279-1281), is an error in the report and `seed_all` goes on to the session
  store (1343-1344). What the hook has in there is filed from the session store,
  and again from the spool once it can be read. A line that is appended after
  the run has read its file may be filed from both sources likewise. `taken` has
  the messages of both cases. A text said twice counts as captured once it was captured
  once. A reply is taken for the human's when its prompt is in another file:
  `_prior_channel` cannot know a peer's prompt, as its docstring says.
- A handoff that is replaced twice between two runs is in no place a run reads.

Projects:

- Overlapping approve, reject and close can revive a closed item or close one
  twice, and two overlapping `new` take one id (`backlog_tool.py:1029`);
  `ClosedWasWorkable` is what is left.
- A `git log` that fails still moves the watermark (`backlog_tool.py:1281`).
  The check-in says that it could not list.
- Setup records the digest of what it finds after the swap: an edit made in
  between counts as setup's own and is later overwritten, against
  `install_manifest.py:365`. A link of the user's that leads to the same bytes
  is replaced without a question where the code asks for the bytes only
  (`LinksNeedAnAnswer` in `Install` fails, `setup_tools.py:1940-1956`). Three
  faults can leave neither copy of a skill: an aside copy that could not be
  restored is discarded (1242).
- An AGENTS.md that is edited while the combine prompt stands is overwritten
  with what was read before it, against "Nothing already in the file is changed
  or removed"; an edit of the user-scope file between its copy and its removal
  is lost; one that was made after its text was read is archived and reaches no
  project.

## 6. Not modelled, and why

Out of scope by nature: invocations of tmux, psmux, git, pip and package
managers; the text of preambles, messages, conventions and tables; the viewer's
pages; the checks that read one git diff or one history
(`operator_ownership.py`, `git_identity.py`); stateless extension hooks; test
programs; the frozen shell versions. Within the modelled parts: attaching a
terminal, the id of a resumed conversation, the extraction of single figures
from a log, listing commands and messages to the user, the migrations of
`install_manifest.py` between versions, path handling in `project_paths.py`.

In `OperatorWork` the process of an agent is that of its session: when none
runs yet, `_agent_pid` records the supervisor's
(`copilot_operator.py:7911`), which outlives sessions and is replaced by
restart-loop while the agent goes on; a claim then dies with its supervisor, a
case of the disagreement of run owner_gone. `worktree new` also appends a rule to
the `.gitignore` of the main checkout (`operator_worktree.py:369`) and `worktree
finish` deletes a branch that is merged (613-623); the model has neither that
checkout nor branches, only whether a checkout's edits are on some branch.

In `Supervisor` a pid is not reused (`OwnerWorld` and `LoopRecords` are about
that), the removals of `cleanup_files` are one step, and a dead holder of the
restart lock does not occur, so the reclaim of a stale lock is not reached. In
`Tabs` an entry is present or not, what it says is left out, and registries of
other WSL distributions are not read. In `Seeding` all letters have one text and
the programs that move files are only what a reader can see of them; `Mail` and
`Handoff` have their steps. In `Backlog` a rewrite is one step, though
`write_bytes` is not atomic.

## 7. Plan

1. An abstract specification of the handoff, "each is read once or pushed out",
   refined by `Handoff` and used for the one-step handoff of `OperatorWork`;
   one of the loop, "wanted, running, given up", refined by `Supervisor`.
2. Proofs of what the code promises of `Liveness` beyond its use in
   `OwnerWorld`: which probe may decide on each platform.
3. `migrate_legacy_state` and the migrations of the manifest: what an old
   version leaves is never put over what a new one wrote.
4. `checkout-guard`: what has been reported, across commands; the choice of a
   conversation to resume.
