------------------------------- MODULE Runner -------------------------------
(***************************************************************************)
(* How the end of a session is recorded: the runner in the pane            *)
(* (operator_runner.py) starts Copilot, waits for it and publishes its     *)
(* exit code in a file; the loop (start_session, is_copilot_running,       *)
(* ending_was_observed in copilot_operator.py) clears that file before it  *)
(* launches the next session and reads it to tell a session that ended     *)
(* from one that was killed with everything around it.                     *)
(*                                                                         *)
(* All sessions of an instance share one exit file. A pane that is killed  *)
(* takes its runner and its Copilot with it.                               *)
(***************************************************************************)
EXTENDS Naturals

CONSTANTS
  None,
  MaxSessions,  \* bound: sessions the loop launches
  MaxFaults     \* bound: files that cannot be removed, written or read, panes killed

VARIABLES
  loop,      \* the supervisor, and the session it is about
  exitFile,  \* whose exit code the file holds; Empty is a file without one
  pidFile,   \* the session whose pid is published
  spec,      \* is the launch spec one the runner accepts?
  runner,    \* per session
  copilot,   \* per session
  ended,     \* per session: how the loop says it ended
  faults

vars == <<loop, exitFile, pidFile, spec, runner, copilot, ended, faults>>

Sessions == 1 .. MaxSessions
Empty    == 0

RunnerStates == {"none", "boot", "spawn", "record", "watch", "publish", "empty", "capture",
                 "unmarked", "done", "unpublished", "gone"}

Fault   == faults < MaxFaults /\ faults' = faults + 1
NoFault == UNCHANGED faults

Goes(n, state) == runner' = [runner EXCEPT ![n] = state]

PaneProgramRunning(n) == runner[n] \notin {"none", "done", "unpublished", "gone"}

-----------------------------------------------------------------------------
(* start_session().                                                        *)

(* Mutant of ClearMarkers: whether the file went is not looked at. *)
ClearMarkersBlindly ==
  /\ loop.at = "idle" /\ loop.n < MaxSessions
  /\ loop' = [at |-> "launch", n |-> loop.n + 1, cleared |-> TRUE]
  /\ \/ exitFile' = None /\ NoFault
     \/ exitFile # None /\ UNCHANGED exitFile /\ Fault
  /\ UNCHANGED <<pidFile, spec, runner, copilot, ended>>

ClearMarkers ==
  /\ loop.at = "idle" /\ loop.n < MaxSessions
  /\ \E cleared \in BOOLEAN :
       /\ loop' = [at |-> "launch", n |-> loop.n + 1, cleared |-> cleared]
       /\ IF cleared THEN exitFile' = None /\ NoFault
                     ELSE exitFile # None /\ UNCHANGED exitFile /\ Fault
  /\ UNCHANGED <<pidFile, spec, runner, copilot, ended>>

(* The spec is written, a pane of the session before is killed, and the    *)
(* runner is started.                                                      *)
Launch ==
  /\ loop.at = "launch"
  /\ \E good \in BOOLEAN :
       /\ spec' = good
       /\ IF good THEN NoFault ELSE Fault
  /\ runner' = [n \in Sessions |->
       IF n = loop.n THEN "boot" ELSE IF PaneProgramRunning(n) THEN "gone" ELSE runner[n]]
  /\ copilot' = [n \in Sessions |->
       IF n # loop.n /\ PaneProgramRunning(n) /\ copilot[n] = "alive" THEN "ended" ELSE copilot[n]]
  /\ loop' = [loop EXCEPT !.at = "settle"]
  /\ UNCHANGED <<exitFile, pidFile, ended>>

(* The pid, or an exit code, ends the wait early; six seconds end it too.  *)
Settle ==
  /\ loop.at = "settle"
  /\ loop' = [loop EXCEPT !.at = "poll"]
  /\ UNCHANGED <<exitFile, pidFile, spec, runner, copilot, ended, faults>>

-----------------------------------------------------------------------------
(* operator_runner.run().                                                  *)

(* A spec the runner refuses: _report_bad_spec() publishes that, if it can.*)
RefuseSpec(n) ==
  /\ runner[n] = "boot" /\ ~spec
  /\ \/ exitFile' = n /\ Goes(n, "done") /\ NoFault
     \/ UNCHANGED exitFile /\ Goes(n, "unpublished") /\ Fault
  /\ UNCHANGED <<loop, pidFile, spec, copilot, ended>>

(* A stale marker goes before Copilot starts; one that cannot be removed   *)
(* ends the runner.                                                        *)
ClearStale(n) ==
  /\ runner[n] = "boot" /\ spec
  /\ \/ exitFile' = None /\ Goes(n, "spawn") /\ NoFault
     \/ exitFile # None /\ UNCHANGED exitFile /\ Goes(n, "unpublished") /\ Fault
  /\ UNCHANGED <<loop, pidFile, spec, copilot, ended>>

Spawn(n) ==
  /\ runner[n] = "spawn"
  /\ \/ copilot' = [copilot EXCEPT ![n] = "alive"] /\ Goes(n, "record") /\ UNCHANGED exitFile /\ NoFault
     \/ exitFile' = n /\ Goes(n, "done") /\ UNCHANGED copilot /\ Fault
  /\ UNCHANGED <<loop, pidFile, spec, ended>>

RecordPid(n) ==
  /\ runner[n] = "record"
  /\ pidFile' = n
  /\ Goes(n, "watch")
  /\ UNCHANGED <<loop, exitFile, spec, copilot, ended, faults>>

(* The log is pinned while Copilot runs; proc.wait() returns.              *)
Waited(n) ==
  /\ runner[n] = "watch" /\ copilot[n] = "ended"
  /\ pidFile' = None
  /\ Goes(n, "publish")
  /\ UNCHANGED <<loop, exitFile, spec, copilot, ended, faults>>

(* Mutant of Publish: the file is created, then written. *)
PublishInPlace(n) ==
  /\ runner[n] \in {"publish", "empty"}
  /\ exitFile' = IF runner[n] = "publish" THEN Empty ELSE n
  /\ Goes(n, IF runner[n] = "publish" THEN "empty" ELSE "capture")
  /\ UNCHANGED <<loop, pidFile, spec, copilot, ended, faults>>

(* _publish_exit_code(): written aside and renamed, before the metrics;    *)
(* they are captured without it too.                                       *)
Publish(n) ==
  /\ runner[n] = "publish"
  /\ \/ exitFile' = n /\ Goes(n, "capture") /\ NoFault
     \/ UNCHANGED exitFile /\ Goes(n, "unmarked") /\ Fault
  /\ UNCHANGED <<loop, pidFile, spec, copilot, ended>>

(* The log is parsed into the metrics store, for as long as that takes.    *)
Capture(n) ==
  /\ runner[n] \in {"capture", "unmarked"}
  /\ Goes(n, IF runner[n] = "capture" THEN "done" ELSE "unpublished")
  /\ UNCHANGED <<loop, exitFile, pidFile, spec, copilot, ended, faults>>

RunnerStep(n) ==
  \/ RefuseSpec(n) \/ ClearStale(n) \/ Spawn(n) \/ RecordPid(n)
  \/ Waited(n) \/ Publish(n) \/ Capture(n)

-----------------------------------------------------------------------------
(* The loop's poll: is_copilot_running(), then ending_was_observed().      *)

LookAtMarker ==
  /\ loop.at = "poll"
  /\ loop' = [loop EXCEPT !.at = IF exitFile # None THEN "judge" ELSE "pane"]
  /\ UNCHANGED <<exitFile, pidFile, spec, runner, copilot, ended, faults>>

LookAtPane ==
  /\ loop.at = "pane"
  /\ loop' = [loop EXCEPT !.at = IF PaneProgramRunning(loop.n) THEN "poll" ELSE "judge"]
  /\ UNCHANGED <<exitFile, pidFile, spec, runner, copilot, ended, faults>>

EndingWasObserved(code) == loop.cleared /\ code \notin {None, Empty}

(* read_exit_code(): a file that cannot be read says nothing. code: whose  *)
(* exit code the loop took for the session's. running: the session was not *)
(* over.                                                                   *)
Judge ==
  /\ loop.at = "judge"
  /\ \E code \in {exitFile, None} :
       /\ IF code = exitFile THEN NoFault ELSE Fault
       /\ ended' = [ended EXCEPT ![loop.n] =
            [observed |-> EndingWasObserved(code),
             code     |-> IF EndingWasObserved(code) THEN code ELSE None,
             cleared  |-> loop.cleared,
             unread   |-> code # exitFile,
             running  |-> PaneProgramRunning(loop.n)
                           /\ runner[loop.n] \notin {"empty", "capture", "unmarked"}]]
  /\ loop' = [loop EXCEPT !.at = "idle"]
  /\ UNCHANGED <<exitFile, pidFile, spec, runner, copilot>>

-----------------------------------------------------------------------------
CopilotEnds(n) ==
  /\ copilot[n] = "alive"
  /\ copilot' = [copilot EXCEPT ![n] = "ended"]
  /\ UNCHANGED <<loop, exitFile, pidFile, spec, runner, ended, faults>>

(* Something kills the pane, or takes its runner down.                     *)
PaneKilled(n) ==
  /\ PaneProgramRunning(n)
  /\ Fault
  /\ Goes(n, IF runner[n] = "capture" THEN "done" ELSE "gone")
  /\ copilot' = [copilot EXCEPT ![n] = IF @ = "alive" THEN "ended" ELSE @]
  /\ UNCHANGED <<loop, exitFile, pidFile, spec, ended>>

Init ==
  /\ loop = [at |-> "idle", n |-> 0, cleared |-> TRUE]
  /\ exitFile = None /\ pidFile = None /\ spec = TRUE
  /\ runner = [n \in Sessions |-> "none"]
  /\ copilot = [n \in Sessions |-> "none"]
  /\ ended = [n \in Sessions |-> None]
  /\ faults = 0

LoopStep == ClearMarkers \/ Launch \/ Settle \/ LookAtMarker \/ LookAtPane \/ Judge

Next ==
  \/ LoopStep
  \/ \E n \in Sessions : RunnerStep(n) \/ CopilotEnds(n) \/ PaneKilled(n)

Spec == Init /\ [][Next]_vars

-----------------------------------------------------------------------------
(* Properties.                                                             *)

TypeOK ==
  /\ loop.at \in {"idle", "launch", "settle", "poll", "pane", "judge"}
  /\ loop.n \in 0 .. MaxSessions /\ loop.cleared \in BOOLEAN
  /\ exitFile \in Sessions \union {None, Empty}
  /\ pidFile \in Sessions \union {None}
  /\ runner \in [Sessions -> RunnerStates]
  /\ copilot \in [Sessions -> {"none", "alive", "ended"}]

(* The loop gave up on session m, which was running, for a marker that     *)
(* stayed; and on all from there to n, each for the exit code that the one *)
(* before it published when the markers had been cleared for the next.     *)
LedAstray(m, n) ==
  ~ended[m].cleared /\ \A k \in m .. n : ended[k].running

(* ending_was_observed(): an exit code "is only evidence about this        *)
(* session if the launch managed to clear whatever the last one left". A   *)
(* code the loop counts is that session's own, and the session is over;    *)
(* or it began with a marker that did stay.                                *)
CodeIsOwn ==
  \A n \in Sessions :
    (ended[n] # None /\ ended[n].observed) =>
      \/ ended[n].code = n /\ ~ended[n].running
      \/ \E m \in 1 .. (n - 1) : LedAstray(m, n - 1)

(* _publish_exit_code(): no supervisor may "file a clean exit as an        *)
(* unexplained kill". A Copilot its runner outlived has its ending         *)
(* observed, whatever happens to the runner once it records metrics;       *)
(* unless the exit file could not be cleared, written or read.             *)
OutlivedIsObserved ==
  \A n \in Sessions :
    (ended[n] # None /\ ~ended[n].observed) =>
      \/ ended[n].running \/ ~ended[n].cleared \/ ended[n].unread
      \/ runner[n] \notin {"empty", "capture", "done"}
=============================================================================
