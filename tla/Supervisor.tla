----------------------------- MODULE Supervisor -----------------------------
(***************************************************************************)
(* The loop supervisor of one operator instance and the commands that act  *)
(* on it (copilot_operator.py): run_loop_mode, which launches, watches and *)
(* relaunches the agent's mux session, and `operator --loop`, stop,        *)
(* stop-loop, restart-loop, stop-session and forget, each a process of its *)
(* own. They share nothing but files in RESTART_DIR and the mux session:   *)
(* a command touches a marker and waits for the supervisor to go.          *)
(*                                                                         *)
(* A step is what happens between two looks at shared state. A run of      *)
(* removals (cleanup_files) is one step. A process is named once, so pids  *)
(* are not reused (module OwnerWorld is about that), and a reader believes *)
(* a pid file iff the process it names is alive.                           *)
(***************************************************************************)
EXTENDS Integers, FiniteSets

CONSTANTS
  Sups,          \* supervisor processes
  Callers,       \* invocations of `operator <command>`
  Commands,      \* bound: the commands that are invoked in this run
  None,          \* no process
  MaxFailures,   \* MAX_LAUNCH_FAILURES
  MaxLaunches,   \* bound: sessions launched
  Apart,         \* bound: the pairs of commands that never run at once
  MayTimeOut,    \* may a wait run out of its budget before it is answered?
  MayCrash       \* may a supervisor be killed from outside?

ASSUME SupervisorAssumption ==
  /\ MaxLaunches \in Nat /\ MaxFailures \in Nat \ {0}
  /\ MayTimeOut \in BOOLEAN /\ MayCrash \in BOOLEAN
  /\ Commands \subseteq {"start", "stop", "stop-loop", "restart-loop",
                         "stop-session", "forget"}
  /\ None \notin Sups \union Callers

VARIABLES
  sup,       \* sup[p]: the next step of supervisor p, its mode, its era and
             \*   its counts of failed launches and of unexpected exits
  call,      \* call[c]: the next step of invocation c and what it remembers
  files,     \* the instance's files in RESTART_DIR
  session,   \* the mux session: "none", "running" or "dead" (its pane is
             \*   kept), and the era of the supervisor that launched it
  launches,  \* sessions launched so far
  era,       \* how often the user asked for a loop to be started
  ended,     \* the latest era that a completed `operator stop` covers
  swept      \* has a clean-up removed what somebody else relied on?

vars == <<sup, call, files, session, launches, era, ended, swept>>

(* The files: the three markers, the ownership record, the recorded loop   *)
(* arguments, the state file, the published pid, the startup record and    *)
(* the lock of restart-loop.                                               *)
NoFiles ==
  [stop |-> FALSE, detach |-> FALSE, restart |-> FALSE, managed |-> FALSE,
   args |-> FALSE, state |-> FALSE, pid |-> None, startup |-> None,
   lock |-> None]

Alive(p) == sup[p].at \notin {"unborn", "gone"}

(* cleanup_files(): everything but the state file, whoever's it is: the    *)
(* record of a supervisor other than the given ones that runs, or the lock *)
(* of a restart-loop that is under way.                                    *)
Cleaned == [NoFiles EXCEPT !.state = files.state]

InUse(own) ==
  \/ files.lock # None
  \/ \E p \in Sups \ own : Alive(p) /\ p \in {files.pid, files.startup}

Goto(p, step) == sup' = [sup EXCEPT ![p].at = step]
Then(c, step) == call' = [call EXCEPT ![c].at = step]

(* owns_live_session().                                                    *)
Owned == files.managed /\ session.is # "none"

NoSession == [is |-> "none", era |-> 0]

-----------------------------------------------------------------------------
(* Who is there? _supervisor_status(): the published pid if its process is *)
(* alive, else the startup record: believed while its process is alive,    *)
(* and for a grace period after (0 and 1, an answer either way).           *)

PublishedPid == IF files.pid # None /\ Alive(files.pid) THEN files.pid ELSE None

(* Mutant of Present: a supervisor that has not published is not seen. *)
PresentPublished == {PublishedPid}

Present ==
  IF PublishedPid # None THEN {PublishedPid}
  ELSE IF files.startup = None THEN {None}
  ELSE IF Alive(files.startup) THEN {files.startup}
  ELSE {files.startup, None}

(* A reader that stops believing a record removes it.                      *)
Pruned(answer) ==
  [files EXCEPT !.pid = PublishedPid,
                !.startup = IF answer = None THEN None ELSE @]

-----------------------------------------------------------------------------
(* run_loop_mode.                                                          *)

(* Its first act: the startup record names this process.                   *)
RecordStarting(p) ==
  /\ sup[p].at = "spawned"
  /\ files' = [files EXCEPT !.startup = p]
  /\ Goto(p, "guard")
  /\ UNCHANGED <<call, session, launches, era, ended, swept>>

(* die(): the record is removed on the way out.                            *)
Refuse(p) ==
  /\ files' = [files EXCEPT !.startup = None]
  /\ Goto(p, "gone")

(* An adopter needs a session of its own and no other supervisor; a        *)
(* supervisor that does not adopt, without a terminal to ask, refuses any  *)
(* session that is there.                                                  *)
MayStart(p) ==
  IF sup[p].adopt THEN Owned /\ PublishedPid = None ELSE session.is = "none"

Guard(p) ==
  /\ sup[p].at = "guard"
  /\ IF MayStart(p)
     THEN /\ sup' = [sup EXCEPT ![p].at = "publish",
                                ![p].era = IF sup[p].adopt THEN session.era ELSE @]
          /\ UNCHANGED files
     ELSE Refuse(p)
  /\ UNCHANGED <<call, session, launches, era, ended, swept>>

Publish(p) ==
  /\ sup[p].at = "publish"
  /\ files' = [files EXCEPT !.args = TRUE, !.pid = p, !.startup = None]
  /\ Goto(p, IF sup[p].adopt THEN "poll" ELSE "top")
  /\ UNCHANGED <<call, session, launches, era, ended, swept>>

(* The top of the loop: a stop or a detach asked for while the supervisor  *)
(* was starting, or pausing, is honoured before a session is launched.     *)
TopStop(p) ==
  /\ sup[p].at = "top"
  /\ files.stop
  /\ files' = [files EXCEPT !.stop = FALSE]
  /\ Goto(p, "stopping")
  /\ UNCHANGED <<call, session, launches, era, ended, swept>>

TopDetach(p) ==
  /\ sup[p].at = "top"
  /\ ~files.stop /\ files.detach
  /\ files' = [files EXCEPT !.detach = FALSE]
  /\ Goto(p, "leave")
  /\ UNCHANGED <<call, session, launches, era, ended, swept>>

TopLaunch(p) ==
  /\ sup[p].at = "top"
  /\ ~files.stop /\ ~files.detach
  /\ files' = [files EXCEPT !.state = TRUE]
  /\ Goto(p, "launch")
  /\ UNCHANGED <<call, session, launches, era, ended, swept>>

(* start_session(): a session of that name is killed and a new one made... *)
Launch(p) ==
  /\ sup[p].at = "launch"
  /\ launches < MaxLaunches
  /\ session' = [is |-> "running", era |-> sup[p].era]
  /\ launches' = launches + 1
  /\ files' = [files EXCEPT !.restart = FALSE]
  /\ Goto(p, "claim")
  /\ UNCHANGED <<call, era, ended, swept>>

(* ... and then claimed as the operator's own.                             *)
ClaimSession(p) ==
  /\ sup[p].at = "claim"
  /\ files' = [files EXCEPT !.managed = TRUE]
  /\ sup' = [sup EXCEPT ![p].at = "poll", ![p].fails = 0]
  /\ UNCHANGED <<call, session, launches, era, ended, swept>>

(* Mutant of LaunchFails: one failed launch too many. *)
LaunchFailsLate(p) ==
  /\ sup[p].at = "launch"
  /\ session' = NoSession
  /\ sup' = [sup EXCEPT ![p].fails = @ + 1,
                        ![p].at = IF sup[p].fails + 1 > MaxFailures
                                  THEN "leave" ELSE "top"]
  /\ files' = [files EXCEPT !.restart = FALSE]
  /\ UNCHANGED <<call, launches, era, ended, swept>>

(* MuxError: retried from the top, or given up and raised.                 *)
LaunchFails(p) ==
  /\ sup[p].at = "launch"
  /\ session' = NoSession
  /\ sup' = [sup EXCEPT ![p].fails = @ + 1,
                        ![p].at = IF sup[p].fails + 1 >= MaxFailures
                                  THEN "leave" ELSE "top"]
  /\ files' = [files EXCEPT !.restart = FALSE]
  /\ UNCHANGED <<call, launches, era, ended, swept>>

(* A poll: stop, then detach, ...                                          *)
PollStop(p) ==
  /\ sup[p].at = "poll"
  /\ files.stop
  /\ files' = [files EXCEPT !.stop = FALSE]
  /\ Goto(p, "stopping")
  /\ UNCHANGED <<call, session, launches, era, ended, swept>>

PollDetach(p) ==
  /\ sup[p].at = "poll"
  /\ ~files.stop /\ files.detach
  /\ files' = [files EXCEPT !.detach = FALSE, !.state = TRUE]
  /\ Goto(p, "leave")
  /\ UNCHANGED <<call, session, launches, era, ended, swept>>

PollNothing(p) ==
  /\ sup[p].at = "poll"
  /\ ~files.stop /\ ~files.detach
  /\ Goto(p, "look")
  /\ UNCHANGED <<call, files, session, launches, era, ended, swept>>

(* ... then, after a sleep, the session: is the agent gone, does it ask    *)
(* for a restart?                                                          *)
LookRestart(p) ==
  /\ sup[p].at = "look"
  /\ files.restart
  /\ sup' = [sup EXCEPT ![p].at = "restart", ![p].exits = 0]
  /\ UNCHANGED <<call, files, session, launches, era, ended, swept>>

LookNothing(p) ==
  /\ sup[p].at = "look"
  /\ session.is = "running" /\ ~files.restart
  /\ Goto(p, "poll")
  /\ UNCHANGED <<call, files, session, launches, era, ended, swept>>

(* Mutant of LookExit: it waits for a session that will not come back. *)
LookExitWaits(p) ==
  /\ sup[p].at = "look"
  /\ session.is # "running" /\ ~files.restart
  /\ Goto(p, "poll")
  /\ UNCHANGED <<call, files, session, launches, era, ended, swept>>

(* An unexpected exit. The count starts again after a session that stayed  *)
(* up; too many in a row end the loop.                                     *)
LookExit(p) ==
  /\ sup[p].at = "look"
  /\ session.is # "running" /\ ~files.restart
  /\ \E before \in {0, sup[p].exits} :
       sup' = [sup EXCEPT ![p].exits = before + 1,
                          ![p].at = IF before + 1 >= MaxFailures
                                    THEN "cleanup" ELSE "restart"]
  /\ UNCHANGED <<call, files, session, launches, era, ended, swept>>

(* Markers that cannot be read, time and again: the supervisor gives up    *)
(* and leaves everything alone.                                            *)
LookUnreadable(p) ==
  /\ sup[p].at = "look"
  /\ session.is # "running"
  /\ Goto(p, "leave")
  /\ UNCHANGED <<call, files, session, launches, era, ended, swept>>

(* The restart: the marker is taken, the session is asked to exit and is   *)
(* killed if it does not; the progress breakers may then end the loop.     *)
TakeRestart(p) ==
  /\ sup[p].at = "restart"
  /\ files' = [files EXCEPT !.restart = FALSE]
  /\ Goto(p, "halt")
  /\ UNCHANGED <<call, session, launches, era, ended, swept>>

Halted == {IF session.is = "none" THEN session ELSE [session EXCEPT !.is = "dead"],
           NoSession}

Halt(p) ==
  /\ sup[p].at = "halt"
  /\ session' \in Halted
  /\ files' = [files EXCEPT !.state = TRUE]
  /\ \E next \in {"top", "cleanup"} : Goto(p, next)
  /\ UNCHANGED <<call, launches, era, ended, swept>>

(* A signal to the supervisor: it shuts down, and the session with it.     *)
Interrupt(p) ==
  /\ MayCrash
  /\ sup[p].at \in {"top", "poll", "look"}
  /\ Goto(p, "stopping")
  /\ UNCHANGED <<call, files, session, launches, era, ended, swept>>

EndSession(p) ==
  /\ sup[p].at = "stopping"
  /\ session' = NoSession
  /\ Goto(p, "cleanup")
  /\ UNCHANGED <<call, files, launches, era, ended, swept>>

(* cleanup_files() and, with nothing in between, the finally clause.       *)
CleanUp(p) ==
  /\ sup[p].at = "cleanup"
  /\ files' = Cleaned
  /\ swept' = (swept \/ InUse({p}))
  /\ Goto(p, "gone")
  /\ UNCHANGED <<call, session, launches, era, ended>>

(* The finally clause alone: the records are removed, whoever's they are.  *)
Leave(p) ==
  /\ sup[p].at = "leave"
  /\ files' = [files EXCEPT !.pid = None, !.startup = None]
  /\ Goto(p, "gone")
  /\ UNCHANGED <<call, session, launches, era, ended, swept>>

Crash(p) ==
  /\ MayCrash
  /\ Alive(p)
  /\ Goto(p, "gone")
  /\ UNCHANGED <<call, files, session, launches, era, ended, swept>>

-----------------------------------------------------------------------------
(* The agent in the session.                                               *)

AgentExits ==
  /\ session.is = "running"
  /\ session' = [session EXCEPT !.is = "dead"]
  /\ UNCHANGED <<sup, call, files, launches, era, ended, swept>>

AgentAsksRestart ==
  /\ session.is = "running"
  /\ ~files.restart
  /\ files' = [files EXCEPT !.restart = TRUE]
  /\ UNCHANGED <<sup, call, session, launches, era, ended, swept>>

-----------------------------------------------------------------------------
(* The commands. Each begins with what it requires of the instance.        *)

Managed == files.managed \/ files.state

UnderWay(cmd)  == {c \in Callers : call[c].cmd = cmd /\ call[c].at # "done"}
BarredBy(cmd)  == {c \in Callers : {cmd, call[c].cmd} \in Apart /\ call[c].at # "done"}

(* The latest era whose start, and every one before it, has returned.      *)
Settled ==
  CHOOSE e \in 0 .. era :
    /\ \A c \in UnderWay("start") : e < call[c].era
    /\ e = era \/ \E c \in UnderWay("start") : call[c].era = e + 1

(* restart_loop(): only over a session of this operator's that is running, *)
(* and with the arguments its supervisor recorded.                         *)
MayRestartLoop == Owned /\ files.args

Invoke(c) ==
  /\ call[c].at = "unborn"
  /\ \E cmd \in Commands :
       /\ CASE cmd = "start"        -> TRUE
            [] cmd = "stop"         -> Managed
            [] cmd = "stop-loop"    -> TRUE
            [] cmd = "restart-loop" -> MayRestartLoop
            [] cmd = "stop-session" -> Owned
            [] cmd = "forget"       -> Managed
       /\ BarredBy(cmd) = {}
       /\ era' = IF cmd = "start" THEN era + 1 ELSE era
       /\ call' = [call EXCEPT ![c] = [at |-> cmd, cmd |-> cmd, child |-> None,
                                       era |-> IF cmd = "start" THEN era' ELSE Settled]]
  /\ UNCHANGED <<sup, files, session, launches, ended, swept>>

(* One look at _supervisor_status(): where to go if somebody is there, and *)
(* where if nobody is.                                                     *)
Ask(c, present, absent) ==
  /\ \E answer \in Present :
       /\ files' = Pruned(answer)
       /\ Then(c, IF answer = None THEN absent ELSE present)
  /\ UNCHANGED <<sup, session, launches, era, ended, swept>>

(* Nobody is there: the wait is over.                                      *)
SeeNobody(c, next) ==
  /\ None \in Present
  /\ files' = Pruned(None)
  /\ Then(c, next)
  /\ UNCHANGED <<sup, session, launches, era, ended, swept>>

Set(c, changed, next) ==
  /\ files' = changed
  /\ Then(c, next)
  /\ UNCHANGED <<sup, session, launches, era, ended, swept>>

(* `operator --loop`: attach to the supervisor that is there, or spawn one *)
(* and record it.                                                          *)
Start(c) == call[c].at = "start" /\ Ask(c, "done", "spawn")

Spawn(c) ==
  /\ call[c].at = "spawn"
  /\ \E p \in Sups :
       /\ sup[p].at = "unborn"
       /\ sup' = [sup EXCEPT ![p] =
                    [@ EXCEPT !.at = "spawned", !.era = call[c].era,
                              !.adopt = call[c].cmd = "restart-loop"]]
       /\ call' = [call EXCEPT ![c].at = "record", ![c].child = p]
  /\ UNCHANGED <<files, session, launches, era, ended, swept>>

Record(c) ==
  /\ call[c].at = "record"
  /\ Set(c, [files EXCEPT !.startup = call[c].child],
         IF call[c].cmd = "start" THEN "done" ELSE "confirm")

(* `operator stop`. _request_supervisor_stop(): the marker goes down       *)
(* before the look, and is withdrawn only when nobody is there.            *)
StopTouch(c) ==
  call[c].at = "stop" /\ Set(c, [files EXCEPT !.stop = TRUE], "stopLook")

StopLook(c) == call[c].at = "stopLook" /\ Ask(c, "stopWait", "withdraw")

StopWait(c) == call[c].at = "stopWait" /\ SeeNobody(c, "recheck")

StopTimesOut(c) ==
  call[c].at = "stopWait" /\ MayTimeOut /\ Set(c, files, "recheck")

Recheck(c) == call[c].at = "recheck" /\ Ask(c, "kill", "withdraw")

Withdraw(c) ==
  call[c].at = "withdraw" /\ Set(c, [files EXCEPT !.stop = FALSE], "kill")

(* stop_operator(): then the session, refused if it is somebody else's.    *)
Kill(c) ==
  /\ call[c].at = "kill"
  /\ IF session.is = "none" \/ Owned
     THEN session' = NoSession /\ Then(c, "tidy")
     ELSE UNCHANGED session /\ Then(c, "done")
  /\ UNCHANGED <<sup, files, launches, era, ended, swept>>

Tidy(c) ==
  /\ call[c].at = "tidy"
  /\ files' = NoFiles
  /\ Then(c, "done")
  /\ ended' = IF call[c].era > ended THEN call[c].era ELSE ended
  /\ swept' = (swept \/ InUse({}))
  /\ UNCHANGED <<sup, session, launches, era>>

(* `operator stop-loop`.                                                   *)
StopLoop(c) == call[c].at = "stop-loop" /\ Ask(c, "detach", "done")

(* `operator restart-loop`: one at a time, by the lock.                    *)
Lock(c) ==
  /\ call[c].at = "restart-loop"
  /\ IF files.lock = None
     THEN Set(c, [files EXCEPT !.lock = c], "restartLook")
     ELSE Set(c, files, "done")

RestartLook(c) == call[c].at = "restartLook" /\ Ask(c, "detach", "check")

(* Both ask the supervisor to detach and wait for it to go.                *)
Detach(c) ==
  call[c].at = "detach" /\ Set(c, [files EXCEPT !.detach = TRUE], "detachWait")

DetachWait(c) == call[c].at = "detachWait" /\ SeeNobody(c, "detached")

DetachTimesOut(c) ==
  call[c].at = "detachWait" /\ MayTimeOut
    /\ Set(c, [files EXCEPT !.detach = FALSE], "unlock")

(* Mutant of Detached: the marker nobody took is left where it is. *)
DetachedLeavesMarker(c) ==
  /\ call[c].at = "detached"
  /\ Set(c, files,
         IF call[c].cmd = "restart-loop" /\ ~files.detach THEN "check" ELSE "unlock")

(* It is gone: because of this request, or for a reason of its own? A      *)
(* marker that is still there was not taken, and nothing is spawned.       *)
Detached(c) ==
  /\ call[c].at = "detached"
  /\ Set(c, [files EXCEPT !.detach = FALSE],
         IF call[c].cmd = "restart-loop" /\ ~files.detach THEN "check" ELSE "unlock")

Check(c) ==
  /\ call[c].at = "check"
  /\ Set(c, files, IF session.is = "none" THEN "unlock" ELSE "spawn")

(* Mutant of Confirm: a wait for the published pid without a deadline. *)
ConfirmForever(c) ==
  /\ call[c].at = "confirm"
  /\ PublishedPid # None
  /\ Set(c, files, "unlock")

(* A published pid, or the end of the wait: the supervisor spawned is gone *)
(* or has not come up yet.                                                 *)
Confirm(c) ==
  /\ call[c].at = "confirm"
  /\ PublishedPid # None \/ ~Alive(call[c].child) \/ MayTimeOut
  /\ Set(c, files, "unlock")

Unlock(c) ==
  /\ call[c].at = "unlock"
  /\ Set(c, IF call[c].cmd = "restart-loop" THEN [files EXCEPT !.lock = None]
            ELSE files, "done")

(* `operator stop-session` and `operator forget`.                          *)
StopSession(c) ==
  /\ call[c].at = "stop-session"
  /\ session' = NoSession
  /\ Then(c, "done")
  /\ UNCHANGED <<sup, files, launches, era, ended, swept>>

Forget(c) ==
  /\ call[c].at = "forget"
  /\ files' = NoFiles
  /\ swept' = (swept \/ InUse({}))
  /\ Then(c, "done")
  /\ UNCHANGED <<sup, session, launches, era, ended>>

-----------------------------------------------------------------------------
Init ==
  /\ sup = [p \in Sups |-> [at |-> "unborn", adopt |-> FALSE, era |-> 0,
                             fails |-> 0, exits |-> 0]]
  /\ call = [c \in Callers |-> [at |-> "unborn", cmd |-> "none", child |-> None,
                                era |-> 0]]
  /\ files = NoFiles
  /\ session = NoSession
  /\ launches = 0 /\ era = 0 /\ ended = 0 /\ swept = FALSE

SupStep(p) ==
  \/ RecordStarting(p) \/ Guard(p) \/ Publish(p)
  \/ TopStop(p) \/ TopDetach(p) \/ TopLaunch(p)
  \/ Launch(p) \/ ClaimSession(p) \/ LaunchFails(p)
  \/ PollStop(p) \/ PollDetach(p) \/ PollNothing(p)
  \/ LookRestart(p) \/ LookNothing(p) \/ LookExit(p) \/ LookUnreadable(p)
  \/ TakeRestart(p) \/ Halt(p)
  \/ EndSession(p) \/ CleanUp(p) \/ Leave(p)

CallStep(c) ==
  \/ Start(c) \/ Spawn(c) \/ Record(c)
  \/ StopTouch(c) \/ StopLook(c) \/ StopWait(c) \/ StopTimesOut(c)
  \/ Recheck(c) \/ Withdraw(c) \/ Kill(c) \/ Tidy(c)
  \/ StopLoop(c) \/ Lock(c) \/ RestartLook(c)
  \/ Detach(c) \/ DetachWait(c) \/ DetachTimesOut(c) \/ Detached(c)
  \/ Check(c) \/ Confirm(c) \/ Unlock(c)
  \/ StopSession(c) \/ Forget(c)

Next ==
  \/ \E p \in Sups : SupStep(p) \/ Interrupt(p) \/ Crash(p)
  \/ \E c \in Callers : Invoke(c) \/ CallStep(c)
  \/ AgentExits \/ AgentAsksRestart

Spec == Init /\ [][Next]_vars

(* A supervisor and an invocation, once started, run on.                   *)
FairSpec ==
  /\ Spec
  /\ \A p \in Sups : WF_vars(SupStep(p))
  /\ \A c \in Callers : WF_vars(CallStep(c))

-----------------------------------------------------------------------------
(* Properties.                                                             *)

SupSteps == {"unborn", "spawned", "guard", "publish", "top", "launch", "claim",
             "poll", "look", "restart", "halt", "stopping", "cleanup", "leave",
             "gone"}

CallSteps == {"unborn", "start", "spawn", "record", "stop", "stopLook",
              "stopWait", "recheck", "withdraw", "kill", "tidy", "stop-loop",
              "restart-loop", "restartLook", "detach", "detachWait", "detached",
              "check", "confirm", "unlock", "stop-session", "forget", "done"}

TypeOK ==
  /\ sup \in [Sups -> [at : SupSteps, adopt : BOOLEAN, era : Nat,
                        fails : 0 .. MaxFailures, exits : 0 .. MaxFailures]]
  /\ call \in [Callers -> [at : CallSteps, cmd : Commands \union {"none"},
                           child : Sups \union {None}, era : Nat]]
  /\ files \in [stop : BOOLEAN, detach : BOOLEAN, restart : BOOLEAN,
                managed : BOOLEAN, args : BOOLEAN, state : BOOLEAN,
                pid : Sups \union {None}, startup : Sups \union {None},
                lock : Callers \union {None}]
  /\ session \in [is : {"none", "running", "dead"}, era : Nat]
  /\ launches \in 0 .. MaxLaunches
  /\ era \in Nat /\ ended \in 0 .. era /\ swept \in BOOLEAN

Watching == {p \in Sups : sup[p].at \in {"top", "launch", "claim", "poll", "look",
                                        "restart", "halt"}}

(* Never two supervisors on one session, "each relaunching what the other  *)
(* killed", through starts, restarts and stops that overlap, as long as no *)
(* clean-up removes the record or the lock that keeps them apart.          *)
OneSupervisor == ~swept => Cardinality(Watching) <= 1

(* A launch kills the session of that name: no supervisor ever does that   *)
(* to an agent that is running, under the same condition.                  *)
LaunchKillsNoAgent ==
  [][(launches' > launches /\ ~swept) => session.is # "running"]_vars

Launches(p) ==
  launches' > launches /\ sup[p].at = "launch" /\ sup'[p].at = "claim"

(* "A brand-new agent session gets launched under someone who asked for    *)
(* everything to stop": once `operator stop` has succeeded, no supervisor  *)
(* launches a session unless the user has asked for a loop after that.     *)
StopIsFinal == [][\A p \in Sups : Launches(p) => sup[p].era > ended]_vars

(* The part of it that the code keeps: a stop that removed no record of a  *)
(* supervisor that runs is final.                                          *)
CleanStopIsFinal ==
  [][\A p \in Sups : (Launches(p) /\ ~swept) => sup[p].era > ended]_vars

(* _request_supervisor_stop(): a detach marker never outlives the requests *)
(* and the supervisor they were for, "until some future supervisor started *)
(* and immediately stopped itself".                                        *)
NoStrandedDetach ==
  (/\ \A c \in Callers : call[c].at \in {"unborn", "done"}
   /\ \A p \in Sups : ~Alive(p)) => ~files.detach

(* Every invocation returns, whatever the supervisor it waits for does.    *)
InvocationsReturn ==
  \A c \in Callers : (call[c].at # "unborn") ~> (call[c].at = "done")

(* A supervisor that watches a session brings a lost agent back, or ends:  *)
(* no marker, failure or restart leaves it polling an empty session.       *)
AgentComesBack ==
  \A p \in Sups :
    (p \in Watching /\ session.is # "running") ~>
      \/ session.is = "running"
      \/ ~Alive(p)
      \/ launches = MaxLaunches
=============================================================================
