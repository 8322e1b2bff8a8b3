---------------------------- MODULE LoopBreakers ----------------------------
(***************************************************************************)
(* The progress circuit breaker of the loop (copilot_operator.py:          *)
(* evaluate_progress, evaluate_unaccounted, and what run_loop_mode does    *)
(* with them). After each session the supervisor compares fingerprints of  *)
(* the repository; so many sessions in a row that change nothing, or end   *)
(* with nobody to say why, stop the loop. The two counts live in files, so *)
(* that a supervisor that replaces another goes on counting.               *)
(*                                                                         *)
(* Module Supervisor chooses freely whether a breaker trips; this module   *)
(* is about when it does. A fingerprint is the version of the repository.  *)
(***************************************************************************)
EXTENDS Naturals

CONSTANTS
  MaxNochange,     \* MAX_NOCHANGE_SESSIONS
  MaxUnaccounted,  \* MAX_UNACCOUNTED_SESSIONS
  None,            \* could not be established
  MaxWork,         \* bound: changes to the repository
  MaxSwaps,        \* bound: supervisors started after the first
  MaxFaults        \* bound: reads, writes and git calls that fail

VARIABLES
  work,     \* the version of the repository
  sup,      \* the supervisor: what it does, its two counts and its baseline
  files,    \* the two counts on disk; None is a file that cannot be parsed
  session,  \* the agent's session: is it up, has it (or one before it that
            \*   could not be measured) changed anything, was its start measured
  stopped,  \* the breaker that stopped the last supervisor, or None
  truth,    \* how many idle and how many killed sessions have ended since the
            \*   last one that had changed something and was measured
  stale,    \* a count on disk was not replaced by the lower one it should be
  swaps, faults

vars == <<work, sup, files, session, stopped, truth, stale, swaps, faults>>

Off       == [at |-> "off", nochange |-> 0, unaccounted |-> 0, baseline |-> None]
Zero      == [nochange |-> 0, unaccounted |-> 0]
NoSession == [up |-> FALSE, worked |-> FALSE, measured |-> FALSE]
NoTruth   == [idle |-> 0, killed |-> 0]

Counts(s) == [nochange |-> s.nochange, unaccounted |-> s.unaccounted]

Fault   == faults < MaxFaults /\ faults' = faults + 1
NoFault == UNCHANGED faults

(* What a look at x answers: x itself, or nothing.                         *)
Answer(x, a) == (a = x /\ NoFault) \/ (a = None /\ Fault)

-----------------------------------------------------------------------------
(* evaluate_progress() and evaluate_unaccounted().                         *)

Verdict(before, after, accounted) ==
  IF None \in {before, after} THEN "unknown"
  ELSE IF before # after THEN "changed"
  ELSE IF accounted THEN "unchanged" ELSE "unaccounted"

(* Mutant of OneMore: an unreadable count stays unreadable. *)
OneMoreUnhealed(count) == IF count = None THEN None ELSE count + 1

(* A count that is unknown starts again at this session.                   *)
OneMore(count) == IF count = None THEN 1 ELSE count + 1

Evaluated(counts, verdict) ==
  CASE verdict = "changed"     -> Zero
    [] verdict = "unchanged"   -> [counts EXCEPT !.nochange = OneMore(@)]
    [] verdict = "unaccounted" -> [counts EXCEPT !.unaccounted = OneMore(@)]
    [] verdict = "unknown"     -> counts

(* Mutant of Tripped: a count past the limit does not stop the loop. *)
TrippedAtLimit(counts, verdict) ==
  CASE verdict = "unchanged" /\ counts.nochange = MaxNochange -> "no_progress"
    [] verdict = "unaccounted" /\ counts.unaccounted = MaxUnaccounted -> "too_many_unaccounted"
    [] OTHER -> None

(* Only the count the verdict is about can stop the loop.                  *)
Tripped(counts, verdict) ==
  CASE verdict = "unchanged" /\ counts.nochange # None /\ counts.nochange >= MaxNochange
         -> "no_progress"
    [] verdict = "unaccounted" /\ counts.unaccounted # None
         /\ counts.unaccounted >= MaxUnaccounted -> "too_many_unaccounted"
    [] OTHER -> None

(* The files that are written.                                             *)
Saved(counts, verdict) ==
  CASE verdict = "changed"     -> Zero
    [] verdict = "unchanged"   -> [files EXCEPT !.nochange = counts.nochange]
    [] verdict = "unaccounted" -> [files EXCEPT !.unaccounted = counts.unaccounted]
    [] verdict = "unknown"     -> files

(* Would a supervisor that reads these files count too many?               *)
Exceeds(disk, counts) ==
  \E k \in {"nochange", "unaccounted"} :
    disk[k] # None /\ (counts[k] = None \/ disk[k] > counts[k])

-----------------------------------------------------------------------------
(* run_loop_mode.                                                          *)

(* The files are removed; one that cannot be is kept. Does the rest of the *)
(* step go well?                                                           *)
RemoveFiles(well) ==
  \E kept \in SUBSET DOMAIN Zero :
    /\ IF kept = {} /\ well THEN NoFault ELSE Fault
    /\ files' = [k \in DOMAIN Zero |-> IF k \in kept THEN files[k] ELSE 0]
    /\ stale' = (stale \/ Exceeds(files', Zero))

(* `operator --loop --fresh`: a fresh count, whether or not the files can  *)
(* be removed.                                                             *)
StartFresh ==
  /\ sup.at = "off" /\ ~session.up /\ swaps < MaxSwaps
  /\ \E baseline \in {work, None} :
       /\ RemoveFiles(baseline = work)
       /\ sup' = [Off EXCEPT !.at = "between", !.baseline = baseline]
  /\ truth' = NoTruth /\ stopped' = None /\ swaps' = swaps + 1
  /\ UNCHANGED <<work, session>>

(* `operator --loop`: the counts of the run before.                        *)
Resume ==
  /\ sup.at = "off" /\ ~session.up /\ swaps < MaxSwaps
  /\ \E baseline \in {work, None} :
       /\ Answer(work, baseline)
       /\ sup' = [at |-> "between", nochange |-> files.nochange,
                  unaccounted |-> files.unaccounted, baseline |-> baseline]
  /\ truth' = IF stopped = None THEN truth ELSE NoTruth
  /\ stopped' = None /\ swaps' = swaps + 1
  /\ UNCHANGED <<work, files, session, stale>>

(* Mutant of Adopt: a baseline taken in the middle of a session. *)
AdoptWithBaseline ==
  /\ sup.at = "off" /\ session.up /\ swaps < MaxSwaps
  /\ sup' = [at |-> "watching", nochange |-> files.nochange,
             unaccounted |-> files.unaccounted, baseline |-> work]
  /\ stopped' = None /\ swaps' = swaps + 1
  /\ UNCHANGED <<work, files, session, truth, stale, faults>>

(* `operator restart-loop`: the session is not this supervisor's, and is   *)
(* not judged.                                                             *)
Adopt ==
  /\ sup.at = "off" /\ session.up /\ swaps < MaxSwaps
  /\ sup' = [at |-> "watching", nochange |-> files.nochange,
             unaccounted |-> files.unaccounted, baseline |-> None]
  /\ session' = [session EXCEPT !.measured = FALSE]
  /\ stopped' = None /\ swaps' = swaps + 1
  /\ UNCHANGED <<work, files, truth, stale, faults>>

Launch ==
  /\ sup.at = "between"
  /\ session' = [session EXCEPT !.up = TRUE, !.measured = @ \/ sup.baseline # None]
  /\ sup' = [sup EXCEPT !.at = "watching"]
  /\ UNCHANGED <<work, files, stopped, truth, stale, swaps, faults>>

(* The truth about a session that has ended.                               *)
Tally(current, accounted) ==
  IF session.worked THEN (IF session.measured /\ current # None THEN NoTruth ELSE truth)
  ELSE IF accounted THEN [truth EXCEPT !.idle = IF @ < MaxNochange THEN @ + 1 ELSE @]
  ELSE [truth EXCEPT !.killed = IF @ < MaxUnaccounted THEN @ + 1 ELSE @]

(* A session whose end could not be measured keeps the old baseline, so    *)
(* its work is part of the next comparison.                                *)
Baseline(current) == IF current = None THEN sup.baseline ELSE current

(* The session is over, with a handoff or an exit somebody saw (accounted) *)
(* or without; the repository is looked at, and the counts are updated.    *)
SessionEnds ==
  /\ sup.at = "watching" /\ session.up
  /\ \E accounted \in BOOLEAN, current \in {work, None} :
       LET verdict == Verdict(sup.baseline, current, accounted)
           counts  == Evaluated(Counts(sup), verdict)
       IN /\ Answer(work, current)
          /\ sup' = [at |-> verdict, nochange |-> counts.nochange,
                     unaccounted |-> counts.unaccounted, baseline |-> Baseline(current)]
          /\ truth' = Tally(current, accounted)
          /\ session' = IF current = None /\ session.measured
                        THEN [session EXCEPT !.up = FALSE] ELSE NoSession
  /\ UNCHANGED <<work, files, stopped, stale, swaps>>

Verdicts == {"changed", "unchanged", "unaccounted", "unknown"}
Breakers == {"no_progress", "too_many_unaccounted"}

(* The counts are written; a write may fail, and the loop goes on.         *)
Save ==
  /\ sup.at \in Verdicts
  /\ \E lost \in SUBSET DOMAIN Zero :
       /\ IF lost = {} THEN NoFault ELSE Fault
       /\ files' = [k \in DOMAIN Zero |->
                      IF k \in lost THEN files[k] ELSE Saved(Counts(sup), sup.at)[k]]
  /\ stale' = (stale \/ Exceeds(files', Counts(sup)))
  /\ LET trip == Tripped(Counts(sup), sup.at)
     IN sup' = [sup EXCEPT !.at = IF trip = None THEN "between" ELSE trip]
  /\ UNCHANGED <<work, session, stopped, truth, swaps>>

(* A breaker that tripped ends the supervisor, which removes its files.    *)
Trip ==
  /\ sup.at \in Breakers
  /\ stopped' = sup.at
  /\ RemoveFiles(TRUE)
  /\ sup' = Off
  /\ UNCHANGED <<work, session, truth, swaps>>

(* The supervisor detaches or is killed, at any point; the session stays.  *)
Leave ==
  /\ sup.at # "off"
  /\ sup' = Off
  /\ session' = IF session.up THEN session ELSE NoSession
  /\ stale' = (stale \/ Exceeds(files, Counts(sup)))
  /\ UNCHANGED <<work, files, stopped, truth, swaps, faults>>

(* `operator stop`: the session goes, and the counts with it.              *)
Stop ==
  /\ sup.at # "off" \/ session.up
  /\ sup' = Off /\ session' = NoSession /\ truth' = NoTruth
  /\ RemoveFiles(TRUE)
  /\ UNCHANGED <<work, stopped, swaps>>

-----------------------------------------------------------------------------
(* The repository and the machine.                                         *)

AgentWorks ==
  /\ session.up /\ work < MaxWork
  /\ work' = work + 1
  /\ session' = [session EXCEPT !.worked = TRUE]
  /\ UNCHANGED <<sup, files, stopped, truth, stale, swaps, faults>>

OthersWork ==
  /\ work < MaxWork
  /\ work' = work + 1
  /\ UNCHANGED <<sup, files, session, stopped, truth, stale, swaps, faults>>

SessionVanishes ==
  /\ sup.at = "off" /\ session.up
  /\ session' = NoSession
  /\ UNCHANGED <<work, sup, files, stopped, truth, stale, swaps, faults>>

FileDamaged ==
  /\ Fault
  /\ \E k \in {"nochange", "unaccounted"} : files' = [files EXCEPT ![k] = None]
  /\ UNCHANGED <<work, sup, session, stopped, truth, stale, swaps>>

-----------------------------------------------------------------------------
Init ==
  /\ work = 0 /\ sup = Off /\ files = Zero /\ session = NoSession
  /\ stopped = None /\ truth = NoTruth /\ stale = FALSE
  /\ swaps = 0 /\ faults = 0

LoopStep == Launch \/ SessionEnds \/ Save \/ Trip

Next ==
  \/ StartFresh \/ Resume \/ Adopt \/ LoopStep \/ Leave \/ Stop
  \/ AgentWorks \/ OthersWork \/ SessionVanishes \/ FileDamaged

Spec == Init /\ [][Next]_vars

(* The loop goes on and sessions end.                                      *)
FairSpec == Spec /\ WF_vars(LoopStep)

-----------------------------------------------------------------------------
(* Properties.                                                             *)

TypeOK ==
  /\ work \in 0 .. MaxWork
  /\ sup.at \in {"off", "between", "watching"} \union Verdicts \union Breakers
  /\ sup.nochange \in 0 .. MaxNochange + MaxFaults \union {None}
  /\ sup.unaccounted \in 0 .. MaxUnaccounted + MaxFaults \union {None}
  /\ sup.baseline \in 0 .. work \union {None}
  /\ files.nochange \in 0 .. MaxNochange + MaxFaults \union {None}
  /\ files.unaccounted \in 0 .. MaxUnaccounted + MaxFaults \union {None}
  /\ session \in [up : BOOLEAN, worked : BOOLEAN, measured : BOOLEAN]
  /\ stopped \in Breakers \union {None}
  /\ truth \in [idle : 0 .. MaxNochange, killed : 0 .. MaxUnaccounted]
  /\ stale \in BOOLEAN /\ swaps \in 0 .. MaxSwaps /\ faults \in 0 .. MaxFaults

Deserved ==
  CASE stopped = "no_progress" -> truth.idle = MaxNochange
    [] stopped = "too_many_unaccounted" -> truth.killed = MaxUnaccounted
    [] OTHER -> TRUE

(* evaluate_progress(): "the error it can make is letting the loop run     *)
(* longer, never stopping a healthy one". A breaker stops the loop only if *)
(* as many sessions as it allows really were idle (or killed) since one    *)
(* that changed something and was measured, through swaps, adoptions,      *)
(* failed looks and damaged files; unless a lower count never reached the  *)
(* disk.                                                                   *)
StopsNoHealthyLoop == stale \/ Deserved

(* The breaker is the bound on a loop that goes on for nothing: once the   *)
(* repository has stopped changing and looks at it have stopped failing,   *)
(* no supervisor goes on for ever.                                         *)
StalledLoopStops == (sup.at # "off") ~> (sup.at = "off")
=============================================================================
