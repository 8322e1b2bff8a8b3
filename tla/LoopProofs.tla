----------------------------- MODULE LoopProofs -----------------------------
(***************************************************************************)
(* Proofs about what the loop does around a session (MCMail), for all      *)
(* values of the constants.                                                *)
(***************************************************************************)
EXTENDS MCMail, WellFoundedInduction, TLAPS

-----------------------------------------------------------------------------
(***************************************************************************)
(* What the loop concludes of a session's end, for any number of sessions  *)
(* and faults. All sessions share one exit file, so what a code in it says *)
(* depends on who may still write there: before the launch only a session  *)
(* the loop gave up on, after it only the session launched.                *)
(***************************************************************************)

(* Assumed of the constants: "no code" is no session and not the empty file. *)
NoneIsNoSession == MaxSessions \in Nat /\ None \notin 0 .. MaxSessions

Endings == [observed : BOOLEAN, code : Sessions \union {None, Empty},
            cleared : BOOLEAN, unread : BOOLEAN, running : BOOLEAN]

RunnerTypeOK ==
  /\ loop \in [at : {"idle", "launch", "settle", "poll", "pane", "judge"},
               n : Nat, cleared : BOOLEAN]
  /\ loop.at # "idle" => loop.n \in Sessions
  /\ exitFile \in Sessions \union {None}
  /\ runner \in [Sessions -> RunnerStates \ {"empty"}]
  /\ ended = [n \in Sessions |-> ended[n]]

Judged(n)    == n < loop.n \/ (n = loop.n /\ loop.at = "idle")
Launched(n)  == n < loop.n \/ (n = loop.n /\ loop.at # "launch")

(* Runs, and has not come to the metrics.                                  *)
Unfinished(n) == PaneProgramRunning(n) /\ runner[n] \notin {"capture", "unmarked"}

(* All that has been judged has an ending, and nothing else.               *)
EndingsMade ==
  \A n \in Sessions : IF Judged(n) THEN ended[n] \in Endings ELSE ended[n] = None

(* What was not launched is not there, and a launch kills what was.        *)
OneRuns ==
  \A n \in Sessions :
    /\ ~Launched(n) => runner[n] = "none"
    /\ Launched(n) => runner[n] # "none"
    /\ PaneProgramRunning(n) => n = (IF loop.at = "launch" THEN loop.n - 1 ELSE loop.n)

(* A session that goes on beyond its judgement was judged while it ran.    *)
GivenUp == \A n \in Sessions : (Judged(n) /\ Unfinished(n)) => ended[n].running

(* Somebody before n was given up for a marker that stayed.                *)
Astray(n) == \E m \in 1 .. (n - 1) : LedAstray(m, n - 1)

PreviousRan == loop.n > 1 /\ ended[loop.n - 1].running

(* A code there, after the markers were cleared, is the session's own or   *)
(* that of the one before it, which was given up.                          *)
OwnCode == exitFile = loop.n /\ Launched(loop.n) /\ ~Unfinished(loop.n)

CodeExplained ==
  (loop.at # "idle" /\ loop.cleared /\ exitFile # None) => OwnCode \/ PreviousRan

(* What a session published stays until it is judged.                      *)
CodeStays ==
  (loop.at \in {"settle", "poll", "pane", "judge"} /\ runner[loop.n] \in {"capture", "done"}) =>
    exitFile = loop.n

JudgedForAReason ==
  (loop.at = "judge" /\ loop.cleared /\ Unfinished(loop.n)) => PreviousRan

(* The chain of those that were given up begins with a marker that stayed. *)
ChainBegins ==
  \A n \in Sessions : (Judged(n) /\ ended[n].running) => ~ended[n].cleared \/ Astray(n)

RunnerInv ==
  /\ RunnerTypeOK /\ EndingsMade /\ OneRuns /\ GivenUp
  /\ CodeExplained /\ CodeStays /\ JudgedForAReason /\ ChainBegins
  /\ CodeIsOwn /\ OutlivedIsObserved

-----------------------------------------------------------------------------
(* The steps in the pane.                                                  *)

LEMMA WhoRuns ==
  ASSUME RunnerInv, NEW n \in Sessions, PaneProgramRunning(n)
  PROVE  /\ Launched(n) /\ loop.n \in Nat /\ n \in Nat
         /\ IF loop.at = "launch" THEN n = loop.n - 1 /\ Judged(n) ELSE n = loop.n
<1>1. loop.n \in Nat /\ n \in Nat
  BY DEF RunnerInv, RunnerTypeOK, Sessions
<1>2. Launched(n)
  BY DEF RunnerInv, OneRuns, PaneProgramRunning
<1>3. n = (IF loop.at = "launch" THEN loop.n - 1 ELSE loop.n)
  BY DEF RunnerInv, OneRuns
<1>4. QED
  BY <1>1, <1>2, <1>3 DEF Judged

(* A runner goes on, or is killed. It touches the file only before it has  *)
(* published, and leaves its own code there when it is through.            *)
LEMMA PaneKeeps ==
  ASSUME NoneIsNoSession, RunnerInv, NEW n \in Sessions, PaneProgramRunning(n),
         NEW s \in RunnerStates \ {"empty", "none"},
         runner' = [runner EXCEPT ![n] = s], UNCHANGED <<loop, ended>>,
         \/ exitFile' = exitFile /\ (s \in {"capture", "done"} => runner[n] = "capture")
         \/ exitFile' = None /\ s \notin {"capture", "done"} /\ Unfinished(n)
         \/ exitFile' = n /\ s \in {"capture", "done"} /\ Unfinished(n),
         s \notin {"capture", "unmarked", "done", "unpublished", "gone"} => Unfinished(n)
  PROVE  RunnerInv'
<1>1. /\ RunnerTypeOK /\ EndingsMade /\ OneRuns /\ GivenUp
      /\ CodeExplained /\ CodeStays /\ JudgedForAReason /\ ChainBegins
      /\ CodeIsOwn /\ OutlivedIsObserved
  BY DEF RunnerInv
<1>2. /\ loop' = loop /\ ended' = ended /\ runner'[n] = s
      /\ \A m \in Sessions \ {n} : runner'[m] = runner[m]
  BY <1>1 DEF RunnerTypeOK
<1>3. /\ Launched(n) /\ loop.n \in Nat /\ n \in Nat
      /\ IF loop.at = "launch" THEN n = loop.n - 1 /\ Judged(n) ELSE n = loop.n
  BY WhoRuns
<1>4. RunnerTypeOK'
  BY <1>1, <1>2 DEF RunnerTypeOK
<1>5. EndingsMade' /\ ChainBegins' /\ CodeIsOwn'
  BY <1>1, <1>2 DEF EndingsMade, ChainBegins, CodeIsOwn, Judged, Astray, LedAstray
<1>6. \A m \in Sessions : /\ PaneProgramRunning(m)' => PaneProgramRunning(m)
                          /\ Unfinished(m)' => Unfinished(m)
  <2>1. \A m \in Sessions \ {n} : /\ PaneProgramRunning(m)' <=> PaneProgramRunning(m)
                                  /\ Unfinished(m)' <=> Unfinished(m)
    BY <1>2 DEF PaneProgramRunning, Unfinished
  <2>2. Unfinished(n)' => Unfinished(n)
    BY <1>2 DEF PaneProgramRunning, Unfinished
  <2>3. QED
    BY <2>1, <2>2
<1>7. OneRuns' /\ GivenUp'
  BY <1>1, <1>2, <1>3, <1>6 DEF OneRuns, GivenUp, Launched, Judged
<1>8. CodeExplained'
  <2> SUFFICES ASSUME loop.at # "idle", loop.cleared, exitFile' # None
               PROVE  OwnCode' \/ PreviousRan'
    BY <1>2 DEF CodeExplained
  <2>1. CASE exitFile' = exitFile
    BY <1>1, <1>2, <1>6, <2>1 DEF CodeExplained, OwnCode, PreviousRan, Launched, RunnerTypeOK
  <2>2. CASE exitFile' = n /\ loop.at = "launch" /\ Unfinished(n)
    BY <1>1, <1>2, <1>3, <2>2 DEF GivenUp, PreviousRan, Sessions
  <2>3. CASE exitFile' = n /\ loop.at # "launch" /\ s \in {"capture", "done"}
    BY <1>2, <1>3, <2>3 DEF OwnCode, Launched, Unfinished, PaneProgramRunning
  <2>4. CASE exitFile' = exitFile /\ exitFile = None
    BY <2>4
  <2>5. QED
    BY <2>1, <2>2, <2>3
<1>9. CodeStays'
  BY <1>1, <1>2, <1>3 DEF CodeStays
<1>10. JudgedForAReason'
  BY <1>1, <1>2, <1>3, <1>6 DEF JudgedForAReason, PreviousRan
<1>11. OutlivedIsObserved'
  <2> SUFFICES ASSUME NEW m \in Sessions, ended[m] # None, ~ended[m].observed
               PROVE  ended[m].running \/ ~ended[m].cleared \/ ended[m].unread
                       \/ runner'[m] \notin {"empty", "capture", "done"}
    BY <1>2 DEF OutlivedIsObserved
  <2>1. CASE m # n
    BY <1>1, <1>2, <2>1 DEF OutlivedIsObserved
  <2>2. CASE m = n
    <3>1. Judged(n)
      BY <1>1, <2>2 DEF EndingsMade
    <3>2. Unfinished(n) => ended[n].running
      BY <1>1, <3>1 DEF GivenUp
    <3>3. ~Unfinished(n) => runner[n] = "capture" \/ s \notin {"empty", "capture", "done"}
      BY DEF Unfinished
    <3>4. QED
      BY <1>1, <1>2, <2>2, <3>2, <3>3 DEF OutlivedIsObserved
  <2>3. QED
    BY <2>1, <2>2
<1>12. QED
  BY <1>4, <1>5, <1>7, <1>8, <1>9, <1>10, <1>11 DEF RunnerInv

LEMMA RunnerStepKeeps ==
  ASSUME NoneIsNoSession, RunnerInv, NEW n \in Sessions, RunnerStep(n) \/ PaneKilled(n)
  PROVE  RunnerInv'
<1>1. /\ runner[n] \in RunnerStates \ {"empty"} /\ UNCHANGED <<loop, ended>>
      /\ PaneProgramRunning(n)
  <2>1. runner[n] \in RunnerStates \ {"empty"}
    BY DEF RunnerInv, RunnerTypeOK
  <2>2. UNCHANGED <<loop, ended>> /\ PaneProgramRunning(n)
    BY DEF RunnerStep, RefuseSpec, ClearStale, Spawn, RecordPid, Waited, Publish, Capture,
           PaneKilled, PaneProgramRunning
  <2>3. QED
    BY <2>1, <2>2
<1>2. PICK s \in RunnerStates : Goes(n, s)
  BY DEF RunnerStep, RefuseSpec, ClearStale, Spawn, RecordPid, Waited, Publish, Capture,
         PaneKilled, RunnerStates
<1>3. CASE RefuseSpec(n) \/ ClearStale(n) \/ Spawn(n)
  <2>1. runner[n] \in {"boot", "spawn"} /\ Unfinished(n)
    BY <1>3 DEF RefuseSpec, ClearStale, Spawn, Unfinished, PaneProgramRunning
  <2>2. \E t \in {"done", "unpublished", "spawn", "record"} :
          /\ Goes(n, t)
          /\ \/ exitFile' = exitFile /\ t \in {"unpublished", "record"}
             \/ exitFile' = None /\ t = "spawn"
             \/ exitFile' = n /\ t = "done"
    BY <1>3 DEF RefuseSpec, ClearStale, Spawn
  <2>3. QED
    BY <1>1, <2>1, <2>2, PaneKeeps DEF Goes, RunnerStates
<1>4. CASE RecordPid(n) \/ Waited(n) \/ Publish(n)
  <2>1. runner[n] \in {"record", "watch", "publish"} /\ Unfinished(n)
    BY <1>4 DEF RecordPid, Waited, Publish, Unfinished, PaneProgramRunning
  <2>2. \E t \in {"watch", "publish", "capture", "unmarked"} :
          /\ Goes(n, t)
          /\ \/ exitFile' = exitFile /\ t # "capture"
             \/ exitFile' = n /\ t = "capture"
    BY <1>4 DEF RecordPid, Waited, Publish
  <2>3. QED
    BY <1>1, <2>1, <2>2, PaneKeeps DEF Goes, RunnerStates
<1>5. CASE Capture(n) \/ PaneKilled(n)
  <2>1. /\ exitFile' = exitFile
        /\ \/ Goes(n, "done") /\ runner[n] = "capture"
           \/ Goes(n, "unpublished") \/ Goes(n, "gone")
    BY <1>5 DEF Capture, PaneKilled
  <2>2. QED
    BY <1>1, <2>1, PaneKeeps DEF Goes, RunnerStates
<1>6. QED
  BY <1>3, <1>4, <1>5 DEF RunnerStep

-----------------------------------------------------------------------------
(* The steps of the loop.                                                  *)

(* A step that judges nothing and that nobody in a pane sees.              *)
LEMMA LoopMoves ==
  ASSUME NoneIsNoSession, RunnerInv,
         loop.at \in {"settle", "poll", "pane"}, NEW at \in {"poll", "pane", "judge"},
         loop' = [loop EXCEPT !.at = at], UNCHANGED <<exitFile, runner, ended>>,
         (at = "judge" /\ loop.cleared /\ Unfinished(loop.n)) => PreviousRan
  PROVE  RunnerInv'
<1>1. loop'.at = at /\ loop'.n = loop.n /\ loop'.cleared = loop.cleared /\ RunnerTypeOK'
  BY DEF RunnerInv, RunnerTypeOK
<1>2. EndingsMade' /\ OneRuns' /\ GivenUp' /\ ChainBegins'
  BY <1>1 DEF RunnerInv, EndingsMade, OneRuns, GivenUp, ChainBegins, Judged, Launched,
     Unfinished, PaneProgramRunning, Astray, LedAstray
<1>3. CodeExplained' /\ CodeStays' /\ JudgedForAReason'
  BY <1>1 DEF RunnerInv, CodeExplained, CodeStays, JudgedForAReason, OwnCode, PreviousRan,
     Launched, Unfinished, PaneProgramRunning
<1>4. CodeIsOwn' /\ OutlivedIsObserved'
  BY DEF RunnerInv, CodeIsOwn, OutlivedIsObserved, LedAstray
<1>5. QED
  BY <1>1, <1>2, <1>3, <1>4 DEF RunnerInv

LEMMA LookKeeps ==
  ASSUME NoneIsNoSession, RunnerInv, Settle \/ LookAtMarker \/ LookAtPane
  PROVE  RunnerInv'
<1>1. CASE Settle
  BY <1>1, LoopMoves DEF Settle
<1>2. CASE LookAtMarker
  <2>1. CASE exitFile = None
    BY <1>2, <2>1, LoopMoves DEF LookAtMarker
  <2>2. CASE exitFile # None
    <3>1. loop.at = "poll" /\ loop' = [loop EXCEPT !.at = "judge"]
          /\ UNCHANGED <<exitFile, runner, ended>>
      BY <1>2, <2>2 DEF LookAtMarker
    <3>2. (loop.cleared /\ Unfinished(loop.n)) => PreviousRan
      BY <2>2, <3>1 DEF RunnerInv, CodeExplained, OwnCode
    <3>3. QED
      BY <3>1, <3>2, LoopMoves
  <2>3. QED
    BY <2>1, <2>2
<1>3. CASE LookAtPane
  <2>1. CASE PaneProgramRunning(loop.n)
    BY <1>3, <2>1, LoopMoves DEF LookAtPane
  <2>2. CASE ~PaneProgramRunning(loop.n)
    <3>1. loop.at = "pane" /\ loop' = [loop EXCEPT !.at = "judge"]
          /\ UNCHANGED <<exitFile, runner, ended>>
      BY <1>3, <2>2 DEF LookAtPane
    <3>2. QED
      BY <2>2, <3>1, LoopMoves DEF Unfinished
  <2>3. QED
    BY <2>1, <2>2
<1>4. QED
  BY <1>1, <1>2, <1>3

LEMMA ClearKeeps ==
  ASSUME NoneIsNoSession, RunnerInv, ClearMarkers
  PROVE  RunnerInv'
<1>1. PICK cleared \in BOOLEAN :
        /\ loop' = [at |-> "launch", n |-> loop.n + 1, cleared |-> cleared]
        /\ IF cleared THEN exitFile' = None ELSE UNCHANGED exitFile
  BY DEF ClearMarkers
<1>2. /\ loop.at = "idle" /\ loop.n \in Nat /\ loop.n < MaxSessions
      /\ UNCHANGED <<runner, ended>>
  BY DEF ClearMarkers, RunnerInv, RunnerTypeOK
<1>3. loop'.at = "launch" /\ loop'.n = loop.n + 1 /\ loop'.cleared = cleared
  BY <1>1
<1>4. RunnerTypeOK'
  BY <1>1, <1>2, <1>3 DEF RunnerInv, RunnerTypeOK, Sessions, NoneIsNoSession
<1>5. \A n \in Sessions : /\ n \in Nat /\ (Judged(n)' <=> Judged(n))
                          /\ Launched(n)' <=> Launched(n)
                          /\ Unfinished(n)' <=> Unfinished(n)
                          /\ PaneProgramRunning(n)' <=> PaneProgramRunning(n)
  BY <1>2, <1>3 DEF Judged, Launched, Unfinished, PaneProgramRunning, Sessions
<1>6. EndingsMade' /\ GivenUp' /\ ChainBegins'
  BY <1>2, <1>5 DEF RunnerInv, EndingsMade, GivenUp, ChainBegins, Astray, LedAstray
<1>7. OneRuns'
  BY <1>2, <1>3, <1>5 DEF RunnerInv, OneRuns
<1>8. CodeExplained' /\ CodeStays' /\ JudgedForAReason'
  BY <1>1, <1>3 DEF CodeExplained, CodeStays, JudgedForAReason
<1>9. CodeIsOwn' /\ OutlivedIsObserved'
  BY <1>2 DEF RunnerInv, CodeIsOwn, OutlivedIsObserved, LedAstray
<1>10. QED
  BY <1>4, <1>6, <1>7, <1>8, <1>9 DEF RunnerInv

LEMMA LaunchKeeps ==
  ASSUME NoneIsNoSession, RunnerInv, Launch
  PROVE  RunnerInv'
<1>1. /\ loop.at = "launch" /\ loop' = [loop EXCEPT !.at = "settle"]
      /\ UNCHANGED <<exitFile, ended>>
      /\ runner' = [n \in Sessions |->
           IF n = loop.n THEN "boot" ELSE IF PaneProgramRunning(n) THEN "gone" ELSE runner[n]]
  BY DEF Launch
<1>2. /\ loop'.at = "settle" /\ loop'.n = loop.n /\ loop'.cleared = loop.cleared
      /\ loop.n \in Sessions /\ loop.n \in Nat
  BY <1>1 DEF RunnerInv, RunnerTypeOK, Sessions
<1>3. RunnerTypeOK'
  BY <1>1, <1>2 DEF RunnerInv, RunnerTypeOK, RunnerStates
<1>4. \A n \in Sessions : /\ n \in Nat /\ (Judged(n)' <=> Judged(n))
                          /\ Launched(n)' <=> (Launched(n) \/ n = loop.n)
                          /\ PaneProgramRunning(n)' <=> n = loop.n
  BY <1>1, <1>2 DEF Judged, Launched, PaneProgramRunning, Sessions
<1>5. \A n \in Sessions : Judged(n) => n # loop.n
  BY <1>1, <1>2, <1>4 DEF Judged
<1>6. EndingsMade' /\ ChainBegins'
  BY <1>1, <1>4 DEF RunnerInv, EndingsMade, ChainBegins, Astray, LedAstray
<1>7. GivenUp'
  BY <1>4, <1>5 DEF GivenUp, Unfinished
<1>8. OneRuns'
  <2>1. ASSUME NEW n \in Sessions
        PROVE  runner'[n] = "none" <=> (runner[n] = "none" /\ n # loop.n)
    BY <1>1 DEF PaneProgramRunning
  <2>2. \A n \in Sessions : runner[n] = "none" <=> ~Launched(n)
    BY DEF RunnerInv, OneRuns
  <2>3. QED
    BY <1>2, <1>4, <2>1, <2>2 DEF OneRuns
<1>9. CodeExplained' /\ CodeStays' /\ JudgedForAReason'
  <2>1. runner'[loop.n] = "boot" /\ ~Launched(loop.n)
    BY <1>1, <1>2 DEF Launched
  <2>2. QED
    BY <1>1, <1>2, <2>1 DEF RunnerInv, CodeExplained, CodeStays, JudgedForAReason, OwnCode,
       PreviousRan
<1>10. CodeIsOwn'
  BY <1>1 DEF RunnerInv, CodeIsOwn, LedAstray
<1>11. OutlivedIsObserved'
  <2> SUFFICES ASSUME NEW n \in Sessions, ended[n] # None, ~ended[n].observed
               PROVE  ended[n].running \/ ~ended[n].cleared \/ ended[n].unread
                       \/ runner'[n] \notin {"empty", "capture", "done"}
    BY <1>1 DEF OutlivedIsObserved
  <2>1. n # loop.n
    BY <1>5 DEF RunnerInv, EndingsMade
  <2>2. runner'[n] = "gone" \/ runner'[n] = runner[n]
    BY <1>1, <2>1
  <2>3. QED
    BY <2>2 DEF RunnerInv, OutlivedIsObserved
<1>12. QED
  BY <1>3, <1>6, <1>7, <1>8, <1>9, <1>10, <1>11 DEF RunnerInv

(* Whoever ran before n was led astray, and so is n when it runs.          *)
LEMMA AstrayGoesOn ==
  ASSUME NoneIsNoSession, RunnerInv, loop.at = "judge", PreviousRan
  PROVE  Astray(loop.n)
<1>1. /\ loop.n \in Sessions /\ loop.n \in Nat /\ loop.n > 1 /\ loop.n - 1 \in Sessions
      /\ ended[loop.n - 1].running
  BY DEF RunnerInv, RunnerTypeOK, PreviousRan, Sessions, NoneIsNoSession
<1> DEFINE n == loop.n - 1
<1>2. Judged(n)
  BY <1>1 DEF Judged
<1>3. n \in Nat /\ n \in 1 .. n
  BY <1>1
<1>4. CASE ~ended[n].cleared
  <2>1. LedAstray(n, n)
    BY <1>1, <1>3, <1>4 DEF LedAstray
  <2>2. QED
    BY <1>3, <2>1 DEF Astray
<1>5. CASE Astray(n)
  <2>1. PICK m \in 1 .. (n - 1) : LedAstray(m, n - 1)
    BY <1>5 DEF Astray
  <2>2. LedAstray(m, n)
    BY <1>1, <1>3, <2>1 DEF LedAstray
  <2>3. m \in 1 .. n
    BY <1>3
  <2>4. QED
    BY <2>2, <2>3 DEF Astray
<1>6. QED
  BY <1>1, <1>2, <1>4, <1>5 DEF RunnerInv, ChainBegins

LEMMA JudgeKeeps ==
  ASSUME NoneIsNoSession, RunnerInv, Judge
  PROVE  RunnerInv'
<1>0. PICK n \in Sessions : n = loop.n
  BY DEF RunnerInv, RunnerTypeOK, Judge
<1> DEFINE ending(code) ==
             [observed |-> EndingWasObserved(code),
              code     |-> IF EndingWasObserved(code) THEN code ELSE None,
              cleared  |-> loop.cleared,
              unread   |-> code # exitFile,
              running  |-> PaneProgramRunning(n) /\ runner[n] \notin {"empty", "capture", "unmarked"}]
<1>code. PICK code \in {exitFile, None} : ended' = [ended EXCEPT ![n] = ending(code)]
  BY <1>0 DEF Judge
<1> DEFINE e == ending(code)
<1>1. /\ loop.at = "judge" /\ loop' = [loop EXCEPT !.at = "idle"]
      /\ ended' = [ended EXCEPT ![n] = e] /\ UNCHANGED <<exitFile, runner>>
  BY <1>0, <1>code DEF Judge
<1>2. /\ RunnerTypeOK /\ EndingsMade /\ OneRuns /\ GivenUp
      /\ CodeExplained /\ CodeStays /\ JudgedForAReason /\ ChainBegins
      /\ CodeIsOwn /\ OutlivedIsObserved
  BY DEF RunnerInv
<1>3. /\ loop'.at = "idle" /\ loop'.n = n /\ loop.n = n
      /\ loop'.cleared = loop.cleared
      /\ n \in Sessions /\ n \in Nat /\ loop.cleared \in BOOLEAN
      /\ exitFile \in Sessions \union {None} /\ runner[n] \in RunnerStates \ {"empty"}
  BY <1>0, <1>1, <1>2 DEF RunnerTypeOK, Sessions
<1>4. /\ EndingWasObserved(code) <=> loop.cleared /\ code # None
      /\ EndingWasObserved(code) \in BOOLEAN
  BY <1>3 DEF EndingWasObserved, Sessions, Empty
<1>5. /\ e \in Endings /\ e.observed = EndingWasObserved(code) /\ e.cleared = loop.cleared
      /\ e.observed => e.code = exitFile /\ exitFile # None
      /\ e.unread <=> code # exitFile
      /\ e.running <=> Unfinished(n)
  BY <1>3, <1>4 DEF Endings, Unfinished, PaneProgramRunning
<1> HIDE DEF e
<1>6. /\ ended'[n] = e
      /\ \A m \in Sessions \ {n} : ended'[m] = ended[m]
      /\ ended' = [m \in Sessions |-> ended'[m]]
  BY <1>1, <1>2, <1>3 DEF RunnerTypeOK
<1>7. RunnerTypeOK'
  BY <1>1, <1>2, <1>3, <1>6 DEF RunnerTypeOK
<1>8. \A m \in Sessions : /\ m \in Nat /\ (Judged(m)' <=> (Judged(m) \/ m = n))
                          /\ Launched(m)' <=> Launched(m)
                          /\ Unfinished(m)' <=> Unfinished(m)
                          /\ PaneProgramRunning(m)' <=> PaneProgramRunning(m)
  BY <1>1, <1>3 DEF Judged, Launched, Unfinished, PaneProgramRunning, Sessions
<1>9. EndingsMade' /\ GivenUp'
  BY <1>2, <1>5, <1>6, <1>8 DEF EndingsMade, GivenUp
<1>10. OneRuns'
  BY <1>1, <1>2, <1>3, <1>8 DEF OneRuns
<1>11. CodeExplained' /\ CodeStays' /\ JudgedForAReason'
  BY <1>3 DEF CodeExplained, CodeStays, JudgedForAReason
<1>12. \A m \in 1 .. n : Astray(m) => Astray(m)'
  <2> SUFFICES ASSUME NEW m \in 1 .. n, NEW k \in 1 .. (m - 1), LedAstray(k, m - 1)
               PROVE  LedAstray(k, m - 1)'
    BY DEF Astray
  <2>1. \A l \in k .. (m - 1) : l \in Sessions \ {n}
    BY <1>3 DEF Sessions, NoneIsNoSession
  <2>2. QED
    BY <1>3, <1>6, <2>1 DEF LedAstray
<1>13. Astray(n)' \/ ~PreviousRan
  <2>1. PreviousRan => Astray(loop.n)
    BY <1>1, AstrayGoesOn
  <2>2. PreviousRan => Astray(n)
    BY <1>0, <2>1 DEF Astray
  <2>3. n \in 1 .. n
    BY <1>3 DEF Sessions
  <2>4. QED
    BY <1>12, <2>2, <2>3
<1>14. ChainBegins'
  <2>1. Unfinished(n) => ~loop.cleared \/ Astray(n)'
    BY <1>0, <1>1, <1>2, <1>13 DEF JudgedForAReason
  <2>2. ASSUME NEW m \in Sessions, Judged(m)', ended'[m].running
        PROVE  ~ended'[m].cleared \/ Astray(m)'
    <3>1. CASE m = n
      BY <1>5, <1>6, <2>1, <2>2, <3>1
    <3>2. CASE m # n
      <4>1. Judged(m) /\ m \in 1 .. n
        BY <1>3, <1>8, <2>2, <3>2 DEF Judged, Sessions
      <4>2. QED
        BY <1>2, <1>6, <1>12, <2>2, <3>2, <4>1 DEF ChainBegins
    <3>3. QED
      BY <3>1, <3>2
  <2>3. QED
    BY <2>2 DEF ChainBegins
<1>15. CodeIsOwn'
  <2> SUFFICES ASSUME NEW m \in Sessions, ended'[m] # None, ended'[m].observed
               PROVE  (ended'[m].code = m /\ ~ended'[m].running) \/ Astray(m)'
    BY DEF CodeIsOwn, Astray
  <2>1. CASE m = n
    <3>1. OwnCode \/ PreviousRan
      BY <1>1, <1>2, <1>4, <1>5, <1>6, <2>1 DEF CodeExplained
    <3>2. QED
      BY <1>0, <1>5, <1>6, <1>13, <2>1, <3>1 DEF OwnCode
  <2>2. CASE m # n
    <3>1. m \in 1 .. n
      BY <1>2, <1>3, <1>6, <2>2 DEF EndingsMade, Judged, Sessions
    <3>2. (ended[m].code = m /\ ~ended[m].running) \/ Astray(m)
      BY <1>2, <1>6, <2>2 DEF CodeIsOwn, Astray
    <3>3. QED
      BY <1>6, <1>12, <2>2, <3>1, <3>2
  <2>3. QED
    BY <2>1, <2>2
<1>16. OutlivedIsObserved'
  <2> SUFFICES ASSUME NEW m \in Sessions, ended'[m] # None, ~ended'[m].observed
               PROVE  ended'[m].running \/ ~ended'[m].cleared \/ ended'[m].unread
                       \/ runner[m] \notin {"empty", "capture", "done"}
    BY <1>1 DEF OutlivedIsObserved
  <2>1. CASE m = n
    <3>1. (loop.cleared /\ runner[n] \in {"capture", "done"}) => exitFile # None
      BY <1>1, <1>2, <1>3 DEF CodeStays, Sessions, NoneIsNoSession
    <3>2. QED
      BY <1>3, <1>4, <1>5, <1>6, <2>1, <3>1
  <2>2. CASE m # n
    BY <1>2, <1>6, <2>2 DEF OutlivedIsObserved
  <2>3. QED
    BY <2>1, <2>2
<1>17. QED
  BY <1>7, <1>9, <1>10, <1>11, <1>14, <1>15, <1>16 DEF RunnerInv

-----------------------------------------------------------------------------
LEMMA RunnerInit ==
  ASSUME NoneIsNoSession, Init
  PROVE  RunnerInv
<1>1. /\ loop = [at |-> "idle", n |-> 0, cleared |-> TRUE] /\ exitFile = None
      /\ runner = [n \in Sessions |-> "none"] /\ ended = [n \in Sessions |-> None]
  BY DEF Init
<1>2. \A n \in Sessions : ~Judged(n) /\ ~Launched(n) /\ ~PaneProgramRunning(n)
  BY <1>1 DEF Judged, Launched, PaneProgramRunning, Sessions
<1>3. RunnerTypeOK
  BY <1>1 DEF RunnerTypeOK, RunnerStates
<1>4. EndingsMade /\ OneRuns /\ GivenUp /\ ChainBegins
  BY <1>1, <1>2 DEF EndingsMade, OneRuns, GivenUp, ChainBegins
<1>5. CodeExplained /\ CodeStays /\ JudgedForAReason
  BY <1>1 DEF CodeExplained, CodeStays, JudgedForAReason
<1>6. CodeIsOwn /\ OutlivedIsObserved
  BY <1>1 DEF CodeIsOwn, OutlivedIsObserved
<1>7. QED
  BY <1>3, <1>4, <1>5, <1>6 DEF RunnerInv

LEMMA RunnerStays ==
  ASSUME NoneIsNoSession, RunnerInv, [Next]_vars
  PROVE  RunnerInv'
<1>1. ASSUME UNCHANGED <<loop, exitFile, runner, ended>>
      PROVE  RunnerInv'
  BY <1>1 DEF RunnerInv, RunnerTypeOK, EndingsMade, OneRuns, GivenUp, ChainBegins, CodeExplained,
     CodeStays, JudgedForAReason, CodeIsOwn, OutlivedIsObserved, Judged, Launched, Unfinished,
     PaneProgramRunning, OwnCode, PreviousRan, Astray, LedAstray
<1>2. CASE LoopStep
  BY <1>2, ClearKeeps, LaunchKeeps, LookKeeps, JudgeKeeps DEF LoopStep
<1>3. ASSUME NEW n \in Sessions, RunnerStep(n) \/ CopilotEnds(n) \/ PaneKilled(n)
      PROVE  RunnerInv'
  BY <1>1, <1>3, RunnerStepKeeps DEF CopilotEnds
<1>4. CASE UNCHANGED vars
  BY <1>1, <1>4 DEF vars
<1>5. QED
  BY <1>2, <1>3, <1>4 DEF Next

-----------------------------------------------------------------------------
(* ending_was_observed(): the code that is counted for a session is its    *)
(* own, and the session is over; or it began with a marker that stayed.    *)
THEOREM CountedCodeIsOwn ==
  ASSUME NoneIsNoSession
  PROVE  Spec => []CodeIsOwn
<1>1. Init => RunnerInv
  BY RunnerInit
<1>2. RunnerInv /\ [Next]_vars => RunnerInv'
  BY RunnerStays
<1>3. RunnerInv => CodeIsOwn
  BY DEF RunnerInv
<1>4. QED
  BY <1>1, <1>2, <1>3, PTL DEF Spec

(* _publish_exit_code(): of a Copilot that its runner outlived the ending  *)
(* is observed, whatever then becomes of the runner.                       *)
THEOREM OutlivedIsSeen ==
  ASSUME NoneIsNoSession
  PROVE  Spec => []OutlivedIsObserved
<1>1. Init => RunnerInv
  BY RunnerInit
<1>2. RunnerInv /\ [Next]_vars => RunnerInv'
  BY RunnerStays
<1>3. RunnerInv => OutlivedIsObserved
  BY DEF RunnerInv
<1>4. QED
  BY <1>1, <1>2, <1>3, PTL DEF Spec

-----------------------------------------------------------------------------
(***************************************************************************)
(* Delivery, for any number of messages and of readers that take them. A   *)
(* file's name identifies it, and a reader that moves one it chose before  *)
(* finds it, or finds it gone; it never finds another one in its place.    *)
(***************************************************************************)

(* Assumed of the constants: a file's name is a number, and what it says   *)
(* without being an id is no id.                                           *)
MailConstants ==
  /\ Names \subseteq Nat
  /\ Foreign \notin Names
  /\ NoId \notin Post!Ids /\ BadId \notin Post!Ids /\ Junk \notin Post!Ids
  /\ NoId # Junk /\ BadId # Junk

AtFile == {"write", "unlink", "undo", "aside"}

MailTypes ==
  /\ inbox \subseteq Names
  /\ says \in [Names -> Post!Ids \union {NoId, BadId, Junk}]
  /\ mail \in [Names -> {"new", "typing", "typed", "unreachable", "live", "queued",
                         "refused"}]
  /\ reader \in [Readers -> [at : {"idle", "next", "write", "unlink", "undo", "aside",
                                   "show", "start", "match"},
                             cmd : {None, "consume", "launch"},
                             todo : SUBSET Names, took : SUBSET Names]]

(* No two files claim one id, and a file whose id another one claims has   *)
(* that one's.                                                             *)
IdsTold ==
  /\ \A n, k \in Names : (says[n] \in Post!Ids /\ says[n] = says[k]) => n = k
  /\ \A n, k \in Names : says[k] = n => says[n] \in Post!Ids

(* A file that is, or was, in the inbox does not come back there.          *)
InboxQueued == \A n \in inbox : mail[n] = "queued"

(* What a consumer has in its hands.                                       *)
Consuming(r) ==
  /\ reader[r].at \in {"next", "write", "unlink", "aside", "show"}
  /\ \A n \in reader[r].todo : mail[n] = "queued"
  /\ reader[r].at = "aside" => (Post!File(r) \notin inbox \/ says[Post!File(r)] = Junk)

(* What a launch has in its hands: it takes from the inbox only what the   *)
(* session has been shown.                                                 *)
OnlyShown(fs) == \A n \in fs : n \in shown \/ says[n] = Junk

Delivering(r) ==
  /\ reader[r].at \in {"start", "match", "next"} \union AtFile
  /\ reader[r].at \in {"start", "match"} =>
       /\ \A n \in reader[r].took : says[n] # Junk
       /\ reader[r].todo = {}
  /\ reader[r].at = "match" => reader[r].took \subseteq shown
  /\ OnlyShown(reader[r].todo)

Reader(r) ==
  /\ reader[r].at \in AtFile => reader[r].todo # {}
  /\ \/ reader[r].at = "idle" /\ reader[r] = Post!NoHand
     \/ reader[r].cmd = "consume" /\ Consuming(r)
     \/ reader[r].cmd = "launch" /\ Delivering(r)

MailInv ==
  /\ MailTypes
  /\ IdsTold
  /\ InboxQueued
  /\ \A r \in Readers : Reader(r)
  /\ Post!QueuedIsDelivered

-----------------------------------------------------------------------------
LEMMA LeastName ==
  ASSUME NEW S \in SUBSET Nat, S # {}
  PROVE  \E n \in S : \A m \in S : n <= m
<1> DEFINE R == {ss \in Nat \X Nat : ss[1] < ss[2]}
<1>1. IsWellFoundedOn(R, Nat)
  BY NatLessThanWellFounded DEF OpToRel
<1>2. ASSUME NEW x \in Nat, NEW y \in Nat, <<y, x>> \notin R
      PROVE  x <= y
  <2>1. <<y, x>> \in Nat \X Nat
    OBVIOUS
  <2>2. ~ (<<y, x>>[1] < <<y, x>>[2])
    BY <1>2, <2>1
  <2>3. QED
    BY <2>2
<1> HIDE DEF R
<1>3. \E x \in S : \A y \in S : <<y, x>> \notin R
  BY <1>1, WFMin
<1>4. QED
  BY <1>2, <1>3

(* The file a reader is at is one of those it has left.                    *)
LEMMA FileIsLeft ==
  ASSUME MailConstants, MailTypes, NEW r \in Readers, reader[r].todo # {}
  PROVE  Post!File(r) \in reader[r].todo /\ Post!File(r) \in Names
<1>1. reader[r].todo \in SUBSET Names /\ reader[r].todo \in SUBSET Nat
  BY DEF MailConstants, MailTypes
<1>2. \E n \in reader[r].todo : \A m \in reader[r].todo : n <= m
  BY <1>1, LeastName
<1>3. Post!File(r) \in reader[r].todo
  BY <1>2 DEF Post!File
<1>4. QED
  BY <1>1, <1>3

(* What archive() matches to the ids of the messages a session was shown   *)
(* are those very messages.                                                *)
LEMMA ChosenWereShown ==
  ASSUME MailConstants, MailTypes, IdsTold,
         NEW fs \in SUBSET Names, NEW took \in SUBSET Names,
         took \subseteq shown
  PROVE  /\ Post!Chosen(fs, {says[n] : n \in took} \intersect Post!Ids) \subseteq Names
         /\ OnlyShown(Post!Chosen(fs, {says[n] : n \in took} \intersect Post!Ids))
<1> DEFINE wanted == {says[n] : n \in took} \intersect Post!Ids
<1>1. ASSUME NEW n \in Names, n \in wanted, says[n] \in {n, NoId, BadId, Junk}
      PROVE  n \in shown \/ says[n] = Junk
  <2>1. PICK m \in took : n = says[m]
    BY <1>1
  <2>2. says[n] \in Post!Ids
    BY <2>1 DEF IdsTold
  <2>3. says[n] = n \/ says[n] = Junk
    BY <1>1, <2>2 DEF MailConstants
  <2>4. says[n] = n => n = m
    BY <2>1, <2>2 DEF IdsTold
  <2>5. QED
    BY <2>3, <2>4
<1>2. ASSUME NEW n \in Names, says[n] \in wanted
      PROVE  n \in shown
  <2>1. PICK m \in took : says[n] = says[m] /\ says[n] \in Post!Ids
    BY <1>2
  <2>2. n = m
    BY <2>1 DEF IdsTold
  <2>3. QED
    BY <2>2
<1> HIDE DEF wanted
<1>3. CASE Post!ByName(fs, wanted) = wanted
  <2>1. \A n \in wanted : n \in Names /\ says[n] \in {n, NoId, BadId, Junk}
    BY <1>3 DEF Post!ByName
  <2>2. wanted \subseteq Names /\ OnlyShown(wanted)
    BY <1>1, <2>1 DEF OnlyShown
  <2>3. QED
    BY <1>3, <2>2 DEF Post!Chosen, wanted
<1>4. CASE Post!ByName(fs, wanted) # wanted
  <2>1. \A n \in Post!BySaying(fs, wanted) :
          n \in Names /\ (says[n] \in wanted \/ (says[n] \in {NoId, BadId, Junk} /\ n \in wanted))
    BY DEF Post!BySaying
  <2>2. Post!BySaying(fs, wanted) \subseteq Names /\ OnlyShown(Post!BySaying(fs, wanted))
    BY <1>1, <1>2, <2>1 DEF OnlyShown
  <2>3. QED
    BY <1>4, <2>2 DEF Post!Chosen, wanted
<1>5. QED
  BY <1>3, <1>4

-----------------------------------------------------------------------------
LEMMA MailInit ==
  ASSUME MailConstants, Post!Init
  PROVE  MailInv
<1>1. inbox \in SUBSET Names /\ reader = [r \in Readers |-> Post!NoHand]
      /\ mail = [n \in Names |-> IF n \in inbox THEN "queued" ELSE "new"]
  BY DEF Post!Init
<1>2. says \in Post!Edited(inbox)
  BY DEF Post!Init
<1>3. says \in [Names -> Post!Ids \union {NoId, BadId, Junk}] /\ IdsTold
  <2>1. CASE says = Post!OwnId
    BY <2>1 DEF Post!OwnId, IdsTold, Post!Ids, MailConstants
  <2>2. ASSUME NEW n \in inbox, NEW what \in {NoId, BadId, Junk, Foreign},
               says = [Post!OwnId EXCEPT ![n] = what]
        PROVE  says \in [Names -> Post!Ids \union {NoId, BadId, Junk}] /\ IdsTold
    <3>1. n \in Names /\ \A k \in Names : says[k] = IF k = n THEN what ELSE k
      BY <1>1, <2>2 DEF Post!OwnId
    <3>2. says \in [Names -> Post!Ids \union {NoId, BadId, Junk}]
      BY <2>2 DEF Post!OwnId, Post!Ids
    <3>3. QED
      BY <3>1, <3>2 DEF IdsTold, Post!Ids, MailConstants
  <2>3. ASSUME NEW n \in inbox, NEW k \in inbox,
               says = [Post!OwnId EXCEPT ![n] = k, ![k] = n]
        PROVE  says \in [Names -> Post!Ids \union {NoId, BadId, Junk}] /\ IdsTold
    <3>1. n \in Names /\ k \in Names
          /\ \A m \in Names : says[m] = IF m = k THEN n ELSE IF m = n THEN k ELSE m
      BY <1>1, <2>3 DEF Post!OwnId
    <3>2. says \in [Names -> Post!Ids \union {NoId, BadId, Junk}]
      BY <1>1, <2>3 DEF Post!OwnId, Post!Ids
    <3>3. QED
      BY <3>1, <3>2 DEF IdsTold, Post!Ids, MailConstants
  <2>4. QED
    BY <1>2, <2>1, <2>2, <2>3 DEF Post!Edited
<1>4. Post!NoHand \in [at : {"idle", "next", "write", "unlink", "undo", "aside",
                        "show", "start", "match"},
                  cmd : {None, "consume", "launch"},
                  todo : SUBSET Names, took : SUBSET Names]
  BY DEF Post!NoHand
<1>5. MailTypes /\ InboxQueued
  BY <1>1, <1>3, <1>4 DEF MailTypes, InboxQueued
<1>6. \A r \in Readers : Reader(r)
  BY <1>1 DEF Reader, Post!NoHand, AtFile
<1>7. Post!QueuedIsDelivered
  BY <1>1 DEF Post!QueuedIsDelivered
<1>8. QED
  BY <1>3, <1>5, <1>6, <1>7 DEF MailInv

-----------------------------------------------------------------------------
Hand == [at : {"idle", "next", "write", "unlink", "undo", "aside",
               "show", "start", "match"},
         cmd : {None, "consume", "launch"},
         todo : SUBSET Names, took : SUBSET Names]

(* Only reader r moves. *)
OnlyMoves(r) ==
  /\ reader' \in [Readers -> Hand]
  /\ \A q \in Readers \ {r} : reader'[q] = reader[q]

LEMMA GotoMoves ==
  ASSUME MailTypes, NEW r \in Readers,
         NEW step \in {"idle", "next", "write", "unlink", "undo", "aside",
                       "show", "start", "match"},
         Post!Goto(r, step)
  PROVE  /\ OnlyMoves(r)
         /\ reader'[r].at = step /\ reader'[r].cmd = reader[r].cmd
         /\ reader'[r].todo = reader[r].todo /\ reader'[r].took = reader[r].took
<1>1. reader \in [Readers -> Hand] /\ reader' = [reader EXCEPT ![r].at = step]
  BY DEF MailTypes, Hand, Post!Goto
<1>2. [reader[r] EXCEPT !.at = step] \in Hand
  BY <1>1 DEF Hand
<1>3. reader'[r] = [reader[r] EXCEPT !.at = step]
  BY <1>1
<1>4. OnlyMoves(r)
  BY <1>1, <1>2 DEF OnlyMoves
<1>5. QED
  BY <1>1, <1>3, <1>4 DEF Hand

LEMMA IdleMoves ==
  ASSUME MailTypes, NEW r \in Readers, Post!Idle(r)
  PROVE  /\ OnlyMoves(r) /\ reader'[r] = Post!NoHand
         /\ reader'[r].at = "idle" /\ reader'[r].took = {}
<1>1. Post!NoHand \in Hand
  BY DEF Post!NoHand, Hand
<1>2. QED
  BY <1>1 DEF MailTypes, Hand, Post!Idle, OnlyMoves, Post!NoHand

LEMMA NextMoves ==
  ASSUME MailTypes, NEW r \in Readers, NEW took \in SUBSET Names,
         Post!NextFile(r, took)
  PROVE  /\ OnlyMoves(r)
         /\ reader'[r].at = "next" /\ reader'[r].cmd = reader[r].cmd
         /\ reader'[r].todo = reader[r].todo \ {Post!File(r)}
         /\ reader'[r].took = reader[r].took \union took
<1> DEFINE h == [reader[r] EXCEPT !.todo = @ \ {Post!File(r)}, !.at = "next",
                                  !.took = @ \union took]
<1>1. reader \in [Readers -> Hand]
  BY DEF MailTypes, Hand
<1>2. h \in Hand
  BY <1>1 DEF Hand
<1>3. reader' = [reader EXCEPT ![r] = h]
  BY <1>1 DEF Post!NextFile
<1>4. h.at = "next" /\ h.cmd = reader[r].cmd /\ h.todo = reader[r].todo \ {Post!File(r)}
      /\ h.took = reader[r].took \union took
  BY <1>1 DEF Hand
<1> HIDE DEF h
<1>5. QED
  BY <1>1, <1>2, <1>3, <1>4 DEF OnlyMoves

LEMMA LeavesFile ==
  ASSUME MailTypes, NEW r \in Readers, Post!NextFile(r, {})
  PROVE  /\ OnlyMoves(r)
         /\ reader'[r].at = "next" /\ reader'[r].cmd = reader[r].cmd
         /\ reader'[r].todo = reader[r].todo \ {Post!File(r)}
         /\ reader'[r].took = reader[r].took
<1>1. PICK took \in SUBSET Names : took = {}
  OBVIOUS
<1>2. Post!NextFile(r, took)
  BY <1>1
<1>3. reader[r].took \union took = reader[r].took
  BY <1>1
<1>4. QED
  BY <1>2, <1>3, NextMoves

(* What a step of one reader owes the others and the messages: it puts no  *)
(* file into the inbox, and what it takes out, or lays down, is shown, in  *)
(* hand, or lost with a killed consumer.                                   *)
LEMMA ReaderStepKeeps ==
  ASSUME MailInv, NEW r \in Readers, OnlyMoves(r), UNCHANGED <<says, mail>>,
         inbox' \subseteq inbox, shown \subseteq shown', taken \subseteq taken',
         Reader(r)',
         \A n \in inbox \ inbox' :
           \/ says[n] = Junk \/ n \in shown'
           \/ reader'[r].cmd = "consume" /\ n \in reader'[r].took,
         reader[r].cmd = "consume" =>
           \A n \in reader[r].took :
             \/ n \in shown' \union taken'
             \/ reader'[r].cmd = "consume" /\ n \in reader'[r].took
  PROVE  MailInv'
<1>1. MailTypes' /\ IdsTold' /\ InboxQueued'
  BY DEF MailInv, MailTypes, IdsTold, InboxQueued, OnlyMoves, Hand
<1>2. ASSUME NEW q \in Readers \ {r}
      PROVE  Reader(q)'
  <2>1. Reader(q) /\ reader'[q] = reader[q]
    BY DEF MailInv, OnlyMoves
  <2>2. Post!File(q)' = Post!File(q)
    BY <2>1 DEF Post!File
  <2>3. Consuming(q) => Consuming(q)'
    BY <2>1, <2>2 DEF Consuming
  <2>4. Delivering(q) => Delivering(q)'
    BY <2>1 DEF Delivering, OnlyShown
  <2>5. QED
    BY <2>1, <2>3, <2>4 DEF Reader
<1>3. Post!QueuedIsDelivered'
  <2> SUFFICES ASSUME NEW n \in Names, mail[n] = "queued", says[n] # Junk
               PROVE  n \in inbox' \union shown' \union Post!InHand' \union taken'
    BY DEF Post!QueuedIsDelivered
  <2>1. ASSUME NEW q \in Readers, reader'[q].cmd = "consume", n \in reader'[q].took
        PROVE  n \in Post!InHand'
    BY <2>1 DEF Post!InHand
  <2>2. CASE n \in Post!InHand
    <3>1. PICK q \in Readers : reader[q].cmd = "consume" /\ n \in reader[q].took
      BY <2>2 DEF Post!InHand
    <3>2. CASE q = r
      BY <2>1, <3>1, <3>2
    <3>3. CASE q # r
      BY <2>1, <3>1, <3>3 DEF OnlyMoves
    <3>4. QED
      BY <3>2, <3>3
  <2>3. CASE n \in inbox
    BY <2>1, <2>3
  <2>4. QED
    BY <2>2, <2>3 DEF MailInv, Post!QueuedIsDelivered
<1>4. QED
  BY <1>1, <1>2, <1>3 DEF MailInv

-----------------------------------------------------------------------------
(* The steps of a sender.                                                  *)
LEMMA SendingKeeps ==
  ASSUME MailConstants, MailInv, NEW n \in Names, Post!Sending(n)
  PROVE  MailInv'
<1> DEFINE Not(m) == mail' = [mail EXCEPT ![n] = m] /\ UNCHANGED inbox
<1>1. /\ mail[n] \in {"new", "typing", "typed", "unreachable"}
      /\ UNCHANGED <<says, reader, taken>>
      /\ shown \subseteq shown'
      /\ \/ Not("typing") \/ Not("typed") \/ Not("unreachable")
         \/ Not("live") \/ Not("refused")
         \/ mail' = [mail EXCEPT ![n] = "queued"] /\ inbox' = inbox \union {n}
  <2>1. CASE Post!CanReceiveLive(n) \/ Post!Type(n)
    BY <2>1 DEF Post!CanReceiveLive, Post!Type, Post!fileVars
  <2>2. CASE Post!TypeFails(n) \/ Post!RecordDelivered(n) \/ Post!RecordFails(n)
    BY <2>2 DEF Post!TypeFails, Post!RecordDelivered, Post!RecordFails, Post!fileVars
  <2>3. CASE Post!Queue(n) \/ Post!QueueFails(n)
    BY <2>3 DEF Post!Queue, Post!QueueFails, Post!fileVars
  <2>4. QED
    BY <2>1, <2>2, <2>3 DEF Post!Sending
<1>2. /\ MailTypes' /\ IdsTold' /\ InboxQueued'
      /\ \A k \in Names : mail[k] = "queued" => mail'[k] = "queued" /\ k # n
      /\ \A k \in Names : mail'[k] = "queued" => mail[k] = "queued" \/ k \in inbox'
      /\ inbox \subseteq inbox' /\ inbox' \subseteq inbox \union {n}
  BY <1>1 DEF MailInv, MailTypes, IdsTold, InboxQueued
<1>3. ASSUME NEW r \in Readers
      PROVE  Reader(r)'
  <2>1. Reader(r) /\ reader' = reader /\ Post!File(r)' = Post!File(r)
    BY <1>1 DEF MailInv, Post!File
  <2>2. Consuming(r) /\ Reader(r) => Consuming(r)'
    <3>1. reader[r].todo \subseteq Names
      BY DEF MailInv, MailTypes
    <3>2. reader[r].at = "aside" /\ Reader(r) => Post!File(r) \in reader[r].todo
      BY FileIsLeft DEF Reader, AtFile, MailInv
    <3>3. QED
      BY <1>1, <1>2, <2>1, <3>1, <3>2 DEF Consuming
  <2>3. Delivering(r) => Delivering(r)'
    BY <1>1, <2>1 DEF Delivering, OnlyShown
  <2>4. QED
    BY <2>1, <2>2, <2>3 DEF Reader
<1>4. Post!QueuedIsDelivered'
  BY <1>1, <1>2 DEF MailInv, Post!QueuedIsDelivered, Post!InHand
<1>5. QED
  BY <1>2, <1>3, <1>4 DEF MailInv


-----------------------------------------------------------------------------
(* The steps of a reader.                                                  *)

LEMMA FileSteps ==
  ASSUME MailConstants, MailInv, NEW r \in Readers,
         Post!ReadFile(r) \/ Post!ReadFails(r) \/ Post!MoveAside(r) \/ Post!MoveFails(r)
  PROVE  MailInv'
<1>1. MailTypes /\ Reader(r) /\ reader[r].todo # {}
  BY DEF MailInv, Reader, AtFile, Post!ReadFile, Post!ReadFails, Post!MoveAside, Post!MoveFails
<1>2. Post!File(r) \in reader[r].todo /\ Post!File(r) \in Names
  BY <1>1, FileIsLeft
<1>3. /\ reader[r].at \in {"next", "aside", "undo"}
      /\ \/ reader[r].cmd = "consume" /\ Consuming(r)
         \/ reader[r].cmd = "launch" /\ Delivering(r)
  <2>1. reader[r].at \in {"next", "aside", "undo"}
    BY DEF Post!ReadFile, Post!ReadFails, Post!MoveAside, Post!MoveFails
  <2>2. reader[r].at # "idle"
    BY <2>1
  <2>3. QED
    BY <1>1, <2>1, <2>2 DEF Reader
<1>4. UNCHANGED <<says, mail, shown, taken>>
  BY DEF Post!ReadFile, Post!ReadFails, Post!MoveAside, Post!MoveFails
<1>5. CASE Post!ReadFile(r)
  <2>1. PICK step \in {"write", "aside"} :
          /\ Post!Goto(r, step)
          /\ step = "aside" => Post!File(r) \notin inbox \/ says[Post!File(r)] = Junk
    BY <1>5 DEF Post!ReadFile
  <2>2. /\ OnlyMoves(r) /\ UNCHANGED inbox
        /\ reader'[r].at = step /\ reader'[r].cmd = reader[r].cmd
        /\ reader'[r].todo = reader[r].todo /\ reader'[r].took = reader[r].took
    BY <1>1, <1>5, <2>1, GotoMoves DEF Post!ReadFile, Post!fileVars
  <2>3. Post!File(r)' = Post!File(r)
    BY <2>2 DEF Post!File
  <2>4. Reader(r)'
    BY <1>1, <1>3, <1>4, <1>5, <2>1, <2>2, <2>3
    DEF Reader, AtFile, Consuming, Delivering, OnlyShown
  <2>5. QED
    BY <1>3, <1>4, <2>2, <2>4, ReaderStepKeeps
<1>6. CASE Post!ReadFails(r) \/ Post!MoveFails(r)
  <2>1. Post!NextFile(r, {}) /\ UNCHANGED inbox
    BY <1>6 DEF Post!ReadFails, Post!MoveFails, Post!fileVars
  <2>2. /\ OnlyMoves(r) /\ reader'[r].at = "next" /\ reader'[r].cmd = reader[r].cmd
        /\ reader'[r].todo = reader[r].todo \ {Post!File(r)}
        /\ reader'[r].took = reader[r].took
    BY <1>1, <2>1, LeavesFile
  <2>3. Reader(r)'
    BY <1>3, <1>4, <2>1, <2>2 DEF Reader, AtFile, Consuming, Delivering, OnlyShown
  <2>4. QED
    BY <1>3, <1>4, <2>1, <2>2, <2>3, ReaderStepKeeps
<1>7. CASE Post!MoveAside(r)
  <2>1. Post!NextFile(r, {}) /\ inbox' \subseteq inbox /\ inbox \ inbox' \subseteq {Post!File(r)}
    BY <1>7 DEF Post!MoveAside, Post!fileVars
  <2>2. /\ OnlyMoves(r) /\ reader'[r].at = "next" /\ reader'[r].cmd = reader[r].cmd
        /\ reader'[r].todo = reader[r].todo \ {Post!File(r)}
        /\ reader'[r].took = reader[r].took
    BY <1>1, <2>1, LeavesFile
  <2>3. Reader(r)'
    BY <1>3, <1>4, <2>2 DEF Reader, AtFile, Consuming, Delivering, OnlyShown
  <2>4. Post!File(r) \in inbox => says[Post!File(r)] = Junk \/ Post!File(r) \in shown
    BY <1>2, <1>3, <1>7 DEF Post!MoveAside, Consuming, Delivering, OnlyShown
  <2>5. QED
    BY <1>3, <1>4, <2>1, <2>2, <2>3, <2>4, ReaderStepKeeps
<1>8. QED
  BY <1>5, <1>6, <1>7

LEMMA CopySteps ==
  ASSUME MailConstants, MailInv, NEW r \in Readers,
         \/ Post!WriteCopy(r) \/ Post!WriteFails(r)
         \/ Post!Unlink(r) \/ Post!UnlinkFails(r) \/ Post!Undo(r)
  PROVE  MailInv'
<1>1. MailTypes /\ Reader(r) /\ reader[r].todo # {}
  BY DEF MailInv, Reader, AtFile, Post!WriteCopy, Post!WriteFails, Post!Unlink,
     Post!UnlinkFails, Post!Undo
<1>2. Post!File(r) \in reader[r].todo /\ Post!File(r) \in Names
  BY <1>1, FileIsLeft
<1>3. /\ reader[r].at \in {"write", "unlink", "undo"}
      /\ \/ reader[r].cmd = "consume" /\ Consuming(r)
         \/ reader[r].cmd = "launch" /\ Delivering(r)
  <2>1. reader[r].at \in {"write", "unlink", "undo"}
    BY DEF Post!WriteCopy, Post!WriteFails, Post!Unlink, Post!UnlinkFails, Post!Undo
  <2>2. reader[r].at # "idle"
    BY <2>1
  <2>3. QED
    BY <1>1, <2>1, <2>2 DEF Reader
<1>4. UNCHANGED <<says, mail, shown, taken>>
  BY DEF Post!WriteCopy, Post!WriteFails, Post!Unlink, Post!UnlinkFails, Post!Undo
<1>5. CASE Post!WriteCopy(r) \/ Post!WriteFails(r) \/ Post!UnlinkFails(r)
  <2>1. UNCHANGED inbox
        /\ \E step \in {"unlink", "show", "aside", "undo"} :
             Post!Goto(r, step) /\ (step \in {"aside", "undo"} => reader[r].cmd # "consume")
                                /\ (step = "show" => reader[r].cmd = "consume")
    BY <1>5 DEF Post!WriteCopy, Post!WriteFails, Post!UnlinkFails, Post!fileVars
  <2>2. PICK step \in {"unlink", "show", "aside", "undo"} :
             Post!Goto(r, step) /\ (step \in {"aside", "undo"} => reader[r].cmd # "consume")
                                /\ (step = "show" => reader[r].cmd = "consume")
    BY <2>1
  <2>3. /\ OnlyMoves(r)
        /\ reader'[r].at = step /\ reader'[r].cmd = reader[r].cmd
        /\ reader'[r].todo = reader[r].todo /\ reader'[r].took = reader[r].took
    BY <1>1, <2>2, GotoMoves
  <2>4. Reader(r)'
    BY <1>1, <1>3, <1>4, <2>2, <2>3
    DEF Reader, AtFile, Consuming, Delivering, OnlyShown
  <2>5. QED
    BY <1>3, <1>4, <2>1, <2>3, <2>4, ReaderStepKeeps
<1>6. CASE Post!Unlink(r)
  <2>1. PICK took \in SUBSET Names :
          Post!NextFile(r, took) /\ (reader[r].cmd = "consume" => took = {Post!File(r)})
    BY <1>2, <1>6 DEF Post!Unlink
  <2>2. /\ OnlyMoves(r) /\ reader'[r].at = "next" /\ reader'[r].cmd = reader[r].cmd
        /\ reader'[r].todo = reader[r].todo \ {Post!File(r)}
        /\ reader'[r].took = reader[r].took \union took
    BY <1>1, <2>1, NextMoves
  <2>3. Reader(r)'
    BY <1>3, <1>4, <2>2 DEF Reader, AtFile, Consuming, Delivering, OnlyShown
  <2>4. inbox' = inbox \ {Post!File(r)}
    BY <1>6 DEF Post!Unlink
  <2>5. reader[r].cmd # "consume" => says[Post!File(r)] = Junk \/ Post!File(r) \in shown
    BY <1>2, <1>3 DEF Delivering, OnlyShown
  <2>6. QED
    BY <1>3, <1>4, <2>1, <2>2, <2>3, <2>4, <2>5, ReaderStepKeeps
<1>7. CASE Post!Undo(r)
  <2>1. Post!NextFile(r, {}) /\ UNCHANGED inbox
    BY <1>7 DEF Post!Undo
  <2>2. /\ OnlyMoves(r) /\ reader'[r].at = "next" /\ reader'[r].cmd = reader[r].cmd
        /\ reader'[r].todo = reader[r].todo \ {Post!File(r)}
        /\ reader'[r].took = reader[r].took
    BY <1>1, <2>1, LeavesFile
  <2>3. Reader(r)'
    BY <1>3, <1>4, <2>2 DEF Reader, AtFile, Consuming, Delivering, OnlyShown
  <2>4. QED
    BY <1>3, <1>4, <2>1, <2>2, <2>3, ReaderStepKeeps
<1>8. QED
  BY <1>5, <1>6, <1>7

LEMMA LaysDown ==
  ASSUME MailInv, NEW r \in Readers, Post!Idle(r), UNCHANGED <<inbox, says, mail>>,
         shown \subseteq shown', taken \subseteq taken',
         reader[r].cmd = "consume" => reader[r].took \subseteq shown' \union taken'
  PROVE  MailInv'
<1>1. OnlyMoves(r) /\ reader'[r] = Post!NoHand /\ reader'[r].at = "idle"
  BY IdleMoves DEF MailInv
<1>2. Reader(r)'
  BY <1>1 DEF Reader, AtFile
<1>3. QED
  BY <1>1, <1>2, ReaderStepKeeps

LEMMA EndSteps ==
  ASSUME MailConstants, MailInv, NEW r \in Readers,
         Post!AllRead(r) \/ Post!Show(r) \/ Post!StartFails(r) \/ Post!Crash(r)
  PROVE  MailInv'
<1>1. MailTypes /\ Reader(r)
  BY DEF MailInv
<1>2. CASE Post!AllRead(r) /\ reader[r].cmd = "consume"
  <2>1. Post!Goto(r, "show") /\ UNCHANGED <<inbox, says, mail, shown, taken>>
    BY <1>2 DEF Post!AllRead, Post!fileVars
  <2>2. /\ OnlyMoves(r)
        /\ reader'[r].at = "show" /\ reader'[r].cmd = reader[r].cmd
        /\ reader'[r].todo = reader[r].todo /\ reader'[r].took = reader[r].took
    BY <1>1, <2>1, GotoMoves
  <2>3. reader[r].at = "next"
    BY <1>2 DEF Post!AllRead
  <2>4. Reader(r)'
    BY <1>1, <1>2, <2>1, <2>2, <2>3 DEF Reader, AtFile, Consuming, Post!NoHand
  <2>5. QED
    BY <2>1, <2>2, <2>4, ReaderStepKeeps
<1>3. CASE Post!AllRead(r) /\ reader[r].cmd # "consume"
  BY <1>3, LaysDown DEF Post!AllRead, Post!fileVars
<1>4. CASE Post!Show(r)
  BY <1>4, LaysDown DEF Post!Show, Post!fileVars
<1>5. CASE Post!StartFails(r)
  <2>1. reader[r].cmd # "consume"
    BY <1>1, <1>5 DEF Post!StartFails, Reader, Consuming, Post!NoHand
  <2>2. QED
    BY <1>5, <2>1, LaysDown DEF Post!StartFails, Post!fileVars
<1>6. CASE Post!Crash(r)
  BY <1>6, LaysDown DEF Post!Crash, Post!fileVars
<1>7. QED
  BY <1>2, <1>3, <1>4, <1>5, <1>6

(* A new hand. *)
LEMMA TakesHand ==
  ASSUME MailTypes, NEW r \in Readers, NEW h \in Hand,
         reader' = [reader EXCEPT ![r] = h]
  PROVE  OnlyMoves(r) /\ reader'[r] = h
  BY DEF MailTypes, Hand, OnlyMoves

LEMMA BeginSteps ==
  ASSUME MailConstants, MailInv, NEW r \in Readers, Post!Consume(r) \/ Post!Pending(r)
  PROVE  MailInv'
<1>1. MailTypes /\ Reader(r) /\ reader[r].at = "idle"
  BY DEF MailInv, Post!Consume, Post!Pending
<1>2. reader[r].took = {} /\ UNCHANGED <<inbox, says, mail, shown, taken>>
  <2>1. reader[r] = Post!NoHand
    BY <1>1 DEF Reader, Consuming, Delivering, AtFile
  <2>2. UNCHANGED <<inbox, says, mail, shown, taken>>
    BY DEF Post!Consume, Post!Pending, Post!fileVars
  <2>3. QED
    BY <2>1, <2>2 DEF Post!NoHand
<1>3. CASE Post!Consume(r)
  <2> DEFINE h == [Post!NoHand EXCEPT !.cmd = "consume", !.at = "next", !.todo = inbox]
  <2>1. /\ h \in Hand /\ h.at = "next" /\ h.cmd = "consume" /\ h.todo = inbox
        /\ h.took = {}
    BY <1>1 DEF Post!NoHand, Hand, MailTypes
  <2>2. reader' = [reader EXCEPT ![r] = h]
    BY <1>3 DEF Post!Consume
  <2> HIDE DEF h
  <2>3. OnlyMoves(r) /\ reader'[r] = h
    BY <1>1, <2>1, <2>2, TakesHand
  <2>4. Reader(r)'
    BY <1>2, <2>1, <2>3 DEF Reader, Consuming, AtFile, MailInv, InboxQueued
  <2>5. QED
    BY <1>2, <2>3, <2>4, ReaderStepKeeps
<1>4. CASE Post!Pending(r)
  <2>1. PICK waiting \in SUBSET Post!Messages :
          reader' = [reader EXCEPT ![r] = [Post!NoHand EXCEPT !.cmd = "launch", !.at = "start",
                                                         !.took = waiting]]
    BY <1>4 DEF Post!Pending
  <2> DEFINE h == [Post!NoHand EXCEPT !.cmd = "launch", !.at = "start", !.took = waiting]
  <2>2. waiting \subseteq Names /\ \A n \in waiting : says[n] # Junk
    BY <1>1, <2>1 DEF Post!Messages, MailTypes
  <2>3. /\ h \in Hand /\ h.at = "start" /\ h.cmd = "launch" /\ h.todo = {}
        /\ h.took = waiting
    BY <2>2 DEF Post!NoHand, Hand
  <2> HIDE DEF h
  <2>4. OnlyMoves(r) /\ reader'[r] = h
    BY <1>1, <2>1, <2>3, TakesHand DEF h
  <2>5. Reader(r)'
    BY <1>2, <2>2, <2>3, <2>4 DEF Reader, Delivering, AtFile, OnlyShown
  <2>6. QED
    BY <1>2, <2>4, <2>5, ReaderStepKeeps
<1>5. QED
  BY <1>3, <1>4

LEMMA LaunchSteps ==
  ASSUME MailConstants, MailInv, NEW r \in Readers, Post!StartSession(r) \/ Post!Match(r)
  PROVE  MailInv'
<1>1. MailTypes /\ Reader(r) /\ reader[r].at \in {"start", "match"}
  BY DEF MailInv, Post!StartSession, Post!Match
<1>2. reader[r].cmd = "launch" /\ Delivering(r)
  BY <1>1 DEF Reader, Consuming, Post!NoHand
<1>3. UNCHANGED <<inbox, says, mail, taken>> /\ shown \subseteq shown'
  BY DEF Post!StartSession, Post!Match, Post!fileVars
<1>4. reader[r].cmd # "consume"
  BY <1>2
<1>5. CASE Post!StartSession(r) /\ Post!Idle(r)
  BY <1>3, <1>4, <1>5, LaysDown
<1>6. CASE Post!StartSession(r) /\ ~Post!Idle(r)
  <2>1. /\ Post!Goto(r, "match") /\ reader[r].took \subseteq shown'
    BY <1>6 DEF Post!StartSession
  <2>2. /\ OnlyMoves(r)
        /\ reader'[r].at = "match" /\ reader'[r].cmd = reader[r].cmd
        /\ reader'[r].todo = reader[r].todo /\ reader'[r].took = reader[r].took
    BY <1>1, <2>1, GotoMoves
  <2>3. reader[r].at = "start" /\ reader[r].took \subseteq Names
    BY <1>1, <1>6 DEF Post!StartSession, MailTypes
  <2>4. \A n \in reader[r].took : says[n] # Junk
    BY <1>2, <2>3 DEF Delivering
  <2>5. reader[r].todo = {}
    BY <1>2, <2>3 DEF Delivering
  <2>6. Reader(r)'
    BY <1>2, <1>3, <2>1, <2>2, <2>4, <2>5 DEF Reader, Delivering, AtFile, OnlyShown
  <2>7. QED
    BY <1>3, <1>4, <2>2, <2>6, ReaderStepKeeps
<1>7. CASE Post!Match(r)
  <2>1. PICK fs \in SUBSET inbox :
          reader' = [reader EXCEPT ![r].at = "next", ![r].took = {},
                       ![r].todo = Post!Chosen(fs, {says[n] : n \in reader[r].took} \intersect Post!Ids)]
    BY <1>7 DEF Post!Match
  <2>2. /\ fs \in SUBSET Names /\ reader[r].took \in SUBSET Names
        /\ reader[r].took \subseteq shown
    BY <1>1, <1>2, <1>7 DEF MailTypes, Delivering, Post!Match
  <2>3. PICK chosen : chosen = Post!Chosen(fs, {says[n] : n \in reader[r].took} \intersect Post!Ids)
    OBVIOUS
  <2>4. chosen \subseteq Names /\ OnlyShown(chosen)
    BY <1>1, <2>2, <2>3, ChosenWereShown DEF MailInv
  <2>5. PICK h : h = [reader[r] EXCEPT !.at = "next", !.took = {}, !.todo = chosen]
    OBVIOUS
  <2>6. /\ h \in Hand /\ h.at = "next" /\ h.cmd = "launch" /\ h.todo = chosen
    BY <1>1, <1>2, <2>4, <2>5 DEF Hand, MailTypes
  <2>7. reader' = [reader EXCEPT ![r] = h]
    BY <1>1, <2>1, <2>3, <2>5 DEF MailTypes
  <2>8. OnlyMoves(r) /\ reader'[r] = h
    BY <1>1, <2>6, <2>7, TakesHand
  <2>9. Reader(r)'
    BY <1>3, <2>4, <2>6, <2>8 DEF Reader, Delivering, AtFile, OnlyShown
  <2>10. QED
    BY <1>3, <1>4, <2>8, <2>9, ReaderStepKeeps
<1>8. QED
  BY <1>5, <1>6, <1>7

-----------------------------------------------------------------------------
LEMMA MailStays ==
  ASSUME MailConstants, MailInv, [Post!Next]_Post!vars
  PROVE  MailInv'
<1>1. ASSUME UNCHANGED <<inbox, says, mail, reader, shown, taken>>
      PROVE  MailInv'
  <2>1. MailTypes' /\ IdsTold' /\ InboxQueued' /\ Post!QueuedIsDelivered'
    BY <1>1 DEF MailInv, MailTypes, IdsTold, InboxQueued, Post!QueuedIsDelivered, Post!InHand
  <2>2. ASSUME NEW r \in Readers
        PROVE  Reader(r)'
    <3>1. Post!File(r)' = Post!File(r) /\ Reader(r)
      BY <1>1 DEF Post!File, MailInv
    <3>2. QED
      BY <1>1, <3>1 DEF Reader, Consuming, Delivering, OnlyShown
  <2>3. QED
    BY <2>1, <2>2 DEF MailInv
<1>2. ASSUME NEW n \in Names, Post!Sending(n)
      PROVE  MailInv'
  BY <1>2, SendingKeeps
<1>3. ASSUME NEW r \in Readers,
             Post!Consume(r) \/ Post!Pending(r) \/ Post!Reading(r) \/ Post!Crash(r)
      PROVE  MailInv'
  BY <1>3, FileSteps, CopySteps, EndSteps, BeginSteps, LaunchSteps DEF Post!Reading
<1>4. CASE Post!AgentExits
  BY <1>1, <1>4 DEF Post!AgentExits, Post!fileVars
<1>5. CASE UNCHANGED Post!vars
  BY <1>1, <1>5 DEF Post!vars
<1>6. QED
  BY <1>2, <1>3, <1>4, <1>5 DEF Post!Next

(* "Queued -- it will be delivered": no reader, overtaken or failing half- *)
(* way, loses a queued message, for any number of messages and readers;    *)
(* only a consumer that is killed with it in hand does.                    *)
THEOREM NoQueuedMessageIsLost ==
  ASSUME MailConstants
  PROVE  Post!Spec => []QueuedIsDelivered
<1>1. Post!Init => MailInv
  BY MailInit
<1>2. MailInv /\ [Post!Next]_Post!vars => MailInv'
  BY MailStays
<1>3. MailInv => QueuedIsDelivered
  BY DEF MailInv, QueuedIsDelivered
<1>4. QED
  BY <1>1, <1>2, <1>3, PTL DEF Post!Spec

-----------------------------------------------------------------------------
(***************************************************************************)
(* The progress breakers, for any limits, swaps and faults: the counts     *)
(* that the loop goes by, in memory or on disk, say no more than what has  *)
(* happened, as long as none on disk is one that should have been lowered. *)
(***************************************************************************)

(* Assumed of the constants: "no answer" is no number and no breaker.      *)
BreakerConstants ==
  /\ MaxNochange \in Nat /\ MaxUnaccounted \in Nat
  /\ None \notin Nat /\ None \notin Breakers!Breakers

Tallied == Nat \union {None}

BreakerTypes ==
  /\ work \in Nat
  /\ sup \in [at : {"off", "between", "watching"} \union Breakers!Verdicts \union Breakers!Breakers,
              nochange : Tallied, unaccounted : Tallied, baseline : 0 .. work \union {None}]
  /\ files \in [{"nochange", "unaccounted"} -> Tallied]
  /\ loopSession \in [up : BOOLEAN, worked : BOOLEAN, measured : BOOLEAN]
  /\ stopped \in Breakers!Breakers \union {None}
  /\ truth \in [idle : 0 .. MaxNochange, killed : 0 .. MaxUnaccounted]
  /\ stale \in BOOLEAN

(* A session is measured if there is a baseline from before all it did.    *)
Measuring ==
  /\ sup.at # "off" =>
       /\ loopSession.up <=> sup.at = "watching"
       /\ loopSession.measured => sup.baseline # None
       /\ loopSession.up /\ sup.baseline # None => loopSession.measured
       /\ loopSession.worked /\ sup.baseline # None => sup.baseline < work
  /\ ~loopSession.up /\ sup.at \notin {"unknown", "between"} => loopSession = Breakers!NoSession

(* A count says no more than the truth it is held against.                 *)
Covered(count, real, limit) == count # None => count <= real \/ real = limit

CoveredBy(counts, real) ==
  /\ Covered(counts.nochange, real.idle, MaxNochange)
  /\ Covered(counts.unaccounted, real.killed, MaxUnaccounted)

(* Whichever counts the loop goes by next: those it holds, or those it     *)
(* leaves on disk.                                                         *)
CountsTrue ==
  /\ sup.at # "off" => CoveredBy(sup, truth)
  /\ sup.at = "off" => CoveredBy(files, IF stopped = None THEN truth ELSE Breakers!NoTruth)

(* The breaker that has tripped had reason to.                             *)
TripsDeserved ==
  /\ sup.at = "no_progress" => truth.idle = MaxNochange
  /\ sup.at = "too_many_unaccounted" => truth.killed = MaxUnaccounted

StoppedIsOver == stopped # None => sup.at = "off" /\ ~loopSession.up

BreakerInv ==
  /\ BreakerTypes /\ Measuring /\ StoppedIsOver
  /\ stale \/ (CountsTrue /\ TripsDeserved /\ Breakers!Deserved)

-----------------------------------------------------------------------------
LEMMA BreakerInit ==
  ASSUME BreakerConstants, Breakers!Init
  PROVE  BreakerInv
<1>1. BreakerTypes
  <2>1. Breakers!Zero \in [{"nochange", "unaccounted"} -> Tallied]
    BY DEF Breakers!Zero, Tallied
  <2>2. Breakers!Off \in [at : {"off", "between", "watching"} \union Breakers!Verdicts \union Breakers!Breakers,
                nochange : Tallied, unaccounted : Tallied, baseline : 0 .. 0 \union {None}]
    BY DEF Breakers!Off, Tallied
  <2>3. Breakers!NoTruth \in [idle : 0 .. MaxNochange, killed : 0 .. MaxUnaccounted]
    BY DEF BreakerConstants, Breakers!NoTruth
  <2>4. Breakers!NoSession \in [up : BOOLEAN, worked : BOOLEAN, measured : BOOLEAN]
    BY DEF Breakers!NoSession
  <2>5. QED
    BY <2>1, <2>2, <2>3, <2>4 DEF Breakers!Init, BreakerTypes
<1>2. Measuring /\ StoppedIsOver
  BY DEF Breakers!Init, Measuring, StoppedIsOver, Breakers!Off, Breakers!NoSession
<1>3. CountsTrue /\ TripsDeserved /\ Breakers!Deserved
  BY DEF BreakerConstants, Breakers!Init, CountsTrue, CoveredBy, Covered, TripsDeserved,
     Breakers!Deserved, Breakers!Off, Breakers!Zero,
     Breakers!NoTruth, Breakers!Breakers
<1>4. QED
  BY <1>1, <1>2, <1>3 DEF BreakerInv

(* What removing the files leaves of them.                                 *)
LEMMA RemovedOrStale ==
  ASSUME BreakerConstants, BreakerTypes, NEW well \in BOOLEAN, Breakers!RemoveFiles(well)
  PROVE  /\ files' \in [{"nochange", "unaccounted"} -> Tallied]
         /\ stale' \in BOOLEAN
         /\ stale => stale'
         /\ ~stale' => CoveredBy(files', Breakers!NoTruth)
<1>1. PICK kept \in SUBSET DOMAIN Breakers!Zero :
        /\ files' = [k \in DOMAIN Breakers!Zero |-> IF k \in kept THEN files[k] ELSE 0]
        /\ stale' = (stale \/ Breakers!Exceeds(files', Breakers!Zero))
  BY DEF Breakers!RemoveFiles
<1>2. DOMAIN Breakers!Zero = {"nochange", "unaccounted"} /\ Breakers!Zero["nochange"] = 0 /\ Breakers!Zero["unaccounted"] = 0
  BY DEF Breakers!Zero
<1>3. files' \in [{"nochange", "unaccounted"} -> Tallied]
  BY <1>1, <1>2 DEF BreakerTypes, Tallied
<1>4. ~Breakers!Exceeds(files', Breakers!Zero) => CoveredBy(files', Breakers!NoTruth)
  BY <1>2, <1>3 DEF Breakers!Exceeds, CoveredBy, Covered, Breakers!NoTruth, BreakerConstants,
     Tallied
<1>5. QED
  BY <1>1, <1>3, <1>4 DEF BreakerTypes

(* The counts that a supervisor leaves behind.                             *)
LEMMA LeftOrStale ==
  ASSUME BreakerConstants, BreakerTypes, CoveredBy(sup, truth), ~Breakers!Exceeds(files, Breakers!Counts(sup))
  PROVE  CoveredBy(files, truth)
  BY DEF Breakers!Exceeds, Breakers!Counts, CoveredBy, Covered, BreakerTypes, BreakerConstants,
     Tallied

(* The loop is started, with fresh counts or those of the run before, or   *)
(* takes over a session that runs.                                         *)
LEMMA StartKeeps ==
  ASSUME BreakerConstants, BreakerInv, Breakers!StartFresh \/ Breakers!Resume \/ Breakers!Adopt
  PROVE  BreakerInv'
<1>1. /\ BreakerTypes /\ Measuring
      /\ stale \/ (CountsTrue /\ TripsDeserved /\ Breakers!Deserved)
  BY DEF BreakerInv
<1>2. sup.at = "off" /\ stopped' = None
  BY DEF Breakers!StartFresh, Breakers!Resume, Breakers!Adopt
<1>3. CASE Breakers!StartFresh
  <2>0. PICK baseline \in {work, None} :
          /\ Breakers!RemoveFiles(baseline = work)
          /\ sup' = [Breakers!Off EXCEPT !.at = "between", !.baseline = baseline]
    BY <1>3 DEF Breakers!StartFresh
  <2>1. /\ work' = work /\ loopSession' = loopSession /\ loopSession = Breakers!NoSession /\ truth' = Breakers!NoTruth
    BY <1>1, <1>2, <1>3 DEF Breakers!StartFresh, Measuring
  <2>2. /\ sup'.at = "between" /\ sup'.nochange = 0 /\ sup'.unaccounted = 0
        /\ sup'.baseline \in {work, None}
        /\ sup' \in [at : {"between"}, nochange : {0}, unaccounted : {0}, baseline : {work, None}]
    BY <2>0 DEF Breakers!Off
  <2>3. /\ files' \in [{"nochange", "unaccounted"} -> Tallied]
        /\ stale' \in BOOLEAN
    BY <1>1, <2>0, RemovedOrStale
  <2>4. BreakerTypes'
    BY <1>1, <1>2, <2>1, <2>2, <2>3 DEF BreakerTypes, BreakerConstants, Tallied, Breakers!NoTruth
  <2>5. Measuring' /\ StoppedIsOver'
    BY <1>1, <1>2, <2>1, <2>2 DEF Measuring, StoppedIsOver, Breakers!NoSession
  <2>6. CountsTrue' /\ TripsDeserved' /\ Breakers!Deserved'
    BY <1>2, <2>1, <2>2 DEF CountsTrue, CoveredBy, Covered, TripsDeserved, Breakers!Deserved,
       Breakers!NoTruth,
       BreakerConstants, Breakers!Breakers
  <2>7. QED
    BY <2>4, <2>5, <2>6 DEF BreakerInv
<1>4. CASE Breakers!Resume \/ Breakers!Adopt
  <2>1. PICK step \in {"between", "watching"}, baseline \in {work, None} :
          /\ sup' = [at |-> step, nochange |-> files.nochange,
                     unaccounted |-> files.unaccounted, baseline |-> baseline]
          /\ \/ step = "between" /\ ~loopSession.up /\ loopSession' = loopSession
                /\ truth' = (IF stopped = None THEN truth ELSE Breakers!NoTruth)
             \/ step = "watching" /\ loopSession.up /\ loopSession' = [loopSession EXCEPT !.measured = FALSE]
                /\ truth' = truth /\ baseline = None
          /\ UNCHANGED <<work, files, stale>>
    BY <1>4 DEF Breakers!Resume, Breakers!Adopt
  <2>2. Breakers!NoTruth \in [idle : 0 .. MaxNochange, killed : 0 .. MaxUnaccounted]
    BY DEF Breakers!NoTruth, BreakerConstants
  <2>3. BreakerTypes'
    <3>1. /\ files.nochange \in Tallied /\ files.unaccounted \in Tallied
          /\ baseline \in 0 .. work \union {None}
      BY <1>1, <2>1 DEF BreakerTypes
    <3>2. /\ sup' \in [at : {"off", "between", "watching"} \union Breakers!Verdicts \union Breakers!Breakers,
                     nochange : Tallied, unaccounted : Tallied, baseline : 0 .. work \union {None}]
          /\ loopSession' \in [up : BOOLEAN, worked : BOOLEAN, measured : BOOLEAN]
          /\ truth' \in [idle : 0 .. MaxNochange, killed : 0 .. MaxUnaccounted]
      BY <1>1, <2>1, <2>2, <3>1 DEF BreakerTypes
    <3>3. QED
      BY <1>1, <1>2, <2>1, <3>2 DEF BreakerTypes
  <2>4. step = "between" => loopSession = Breakers!NoSession
    BY <1>1, <1>2, <2>1 DEF Measuring
  <2>5. Measuring' /\ StoppedIsOver'
    BY <1>1, <1>2, <2>1, <2>4 DEF BreakerTypes, Measuring, StoppedIsOver, Breakers!NoSession
  <2>6. CountsTrue => CountsTrue'
    <3>1. step = "watching" => stopped = None
      BY <2>1 DEF BreakerInv, StoppedIsOver
    <3>2. QED
      BY <1>1, <1>2, <2>1, <3>1 DEF CountsTrue, CoveredBy, Covered, BreakerTypes
  <2>7. TripsDeserved' /\ Breakers!Deserved'
    BY <1>2, <2>1 DEF TripsDeserved, Breakers!Deserved, BreakerConstants, Breakers!Breakers
  <2>8. QED
    BY <1>1, <2>1, <2>3, <2>5, <2>6, <2>7 DEF BreakerInv
<1>5. QED
  BY <1>3, <1>4

LEMMA LaunchKept ==
  ASSUME BreakerConstants, BreakerInv, Breakers!Launch
  PROVE  BreakerInv'
<1>1. /\ BreakerTypes /\ Measuring /\ StoppedIsOver
      /\ stale \/ (CountsTrue /\ TripsDeserved /\ Breakers!Deserved)
  BY DEF BreakerInv
<1>2. /\ sup.at = "between" /\ sup'.at = "watching"
      /\ sup'.nochange = sup.nochange /\ sup'.unaccounted = sup.unaccounted
      /\ sup'.baseline = sup.baseline /\ sup' = [sup EXCEPT !.at = "watching"]
      /\ loopSession'.up /\ loopSession'.worked = loopSession.worked
      /\ loopSession'.measured = (loopSession.measured \/ sup.baseline # None)
      /\ UNCHANGED <<work, files, stopped, truth, stale>>
      /\ stopped = None
  BY <1>1 DEF Breakers!Launch, BreakerTypes, StoppedIsOver
<1>3. BreakerTypes'
  BY <1>1, <1>2 DEF Breakers!Launch, BreakerTypes
<1>4. Measuring' /\ StoppedIsOver'
  BY <1>1, <1>2 DEF Measuring, StoppedIsOver
<1>5. (CountsTrue => CountsTrue') /\ TripsDeserved' /\ Breakers!Deserved'
  BY <1>2 DEF CountsTrue, CoveredBy, TripsDeserved, Breakers!Deserved, BreakerConstants,
     Breakers!Breakers
<1>6. QED
  BY <1>1, <1>2, <1>3, <1>4, <1>5 DEF BreakerInv

(* What a verdict does to the counts the truth covers.                     *)
LEMMA VerdictCovers ==
  ASSUME BreakerConstants, BreakerTypes, CoveredBy(sup, truth),
         NEW verdict \in Breakers!Verdicts, NEW current \in {work, None}, NEW accounted \in BOOLEAN,
         verdict = Breakers!Verdict(sup.baseline, current, accounted),
         loopSession.measured => sup.baseline # None,
         loopSession.worked /\ sup.baseline # None => sup.baseline < work
  PROVE  CoveredBy(Breakers!Evaluated(Breakers!Counts(sup), verdict), Breakers!Tally(current, accounted))
<1> DEFINE counts == Breakers!Evaluated(Breakers!Counts(sup), verdict)
           real   == Breakers!Tally(current, accounted)
<1>1. /\ sup.nochange \in Tallied /\ sup.unaccounted \in Tallied /\ work \in Nat
      /\ truth.idle \in 0 .. MaxNochange /\ truth.killed \in 0 .. MaxUnaccounted
      /\ truth = [idle |-> truth.idle, killed |-> truth.killed]
  BY DEF BreakerTypes
<1>2. CASE verdict = "changed"
  <2>1. counts = Breakers!Zero
    BY <1>2 DEF Breakers!Evaluated
  <2>2. real.idle \in Nat /\ real.killed \in Nat
    BY <1>1 DEF Breakers!Tally, Breakers!NoTruth, BreakerConstants
  <2>3. QED
    BY <2>1, <2>2 DEF CoveredBy, Covered, Breakers!Zero
<1>3. CASE verdict \in {"unchanged", "unaccounted"}
  <2>1. sup.baseline = current /\ current = work
    BY <1>3 DEF Breakers!Verdict
  <2>2. ~loopSession.worked /\ (accounted <=> verdict = "unchanged")
    BY <1>1, <1>3, <2>1 DEF Breakers!Verdict, BreakerConstants
  <2>3. IF accounted
          THEN /\ real.idle = (IF truth.idle < MaxNochange THEN truth.idle + 1 ELSE truth.idle)
               /\ real.killed = truth.killed
          ELSE /\ real.killed = (IF truth.killed < MaxUnaccounted THEN truth.killed + 1
                                 ELSE truth.killed)
               /\ real.idle = truth.idle
    BY <1>1, <2>2 DEF Breakers!Tally
  <2>4. IF accounted
          THEN /\ counts.nochange = Breakers!OneMore(sup.nochange)
               /\ counts.unaccounted = sup.unaccounted
          ELSE /\ counts.unaccounted = Breakers!OneMore(sup.unaccounted)
               /\ counts.nochange = sup.nochange
    BY <1>3, <2>2 DEF Breakers!Evaluated, Breakers!Counts
  <2>5. QED
    BY <1>1, <2>3, <2>4 DEF CoveredBy, Covered, Breakers!OneMore, BreakerConstants, Tallied
<1>4. CASE verdict = "unknown"
  <2>1. counts = Breakers!Counts(sup)
    BY <1>4 DEF Breakers!Evaluated
  <2>2. ~ (loopSession.worked /\ loopSession.measured /\ current # None)
    BY <1>1, <1>4 DEF Breakers!Verdict
  <2>3. /\ real.idle = truth.idle \/ (real.idle = truth.idle + 1 /\ truth.idle < MaxNochange)
        /\ real.killed = truth.killed
             \/ (real.killed = truth.killed + 1 /\ truth.killed < MaxUnaccounted)
    BY <1>1, <2>2 DEF Breakers!Tally
  <2>4. counts.nochange = sup.nochange /\ counts.unaccounted = sup.unaccounted
    BY <2>1 DEF Breakers!Counts
  <2>5. QED
    BY <1>1, <2>3, <2>4 DEF CoveredBy, Covered, BreakerConstants, Tallied
<1>5. QED
  BY <1>2, <1>3, <1>4 DEF Breakers!Verdicts

LEMMA EndKeeps ==
  ASSUME BreakerConstants, BreakerInv, Breakers!SessionEnds
  PROVE  BreakerInv'
<1>1. /\ BreakerTypes /\ Measuring /\ StoppedIsOver
      /\ stale \/ (CountsTrue /\ TripsDeserved /\ Breakers!Deserved)
      /\ sup.at = "watching" /\ loopSession.up /\ stopped = None
  BY DEF BreakerInv, Breakers!SessionEnds, StoppedIsOver
<1>2. PICK accounted \in BOOLEAN, current \in {work, None} :
        LET verdict == Breakers!Verdict(sup.baseline, current, accounted)
            counts  == Breakers!Evaluated(Breakers!Counts(sup), verdict)
        IN /\ sup' = [at |-> verdict, nochange |-> counts.nochange,
                      unaccounted |-> counts.unaccounted, baseline |-> Breakers!Baseline(current)]
           /\ truth' = Breakers!Tally(current, accounted)
           /\ loopSession' = IF current = None /\ loopSession.measured
                         THEN [loopSession EXCEPT !.up = FALSE] ELSE Breakers!NoSession
  BY DEF Breakers!SessionEnds
<1> DEFINE verdict == Breakers!Verdict(sup.baseline, current, accounted)
           counts  == Breakers!Evaluated(Breakers!Counts(sup), verdict)
<1>3. /\ verdict \in Breakers!Verdicts
      /\ verdict # "unknown" => current = work /\ current # None
      /\ verdict # "off" /\ verdict # "watching" /\ verdict # "between" /\ verdict \notin Breakers!Breakers
  BY <1>1 DEF Breakers!Verdict, Breakers!Verdicts, BreakerTypes, BreakerConstants, Breakers!Breakers
<1>4. /\ UNCHANGED <<work, files, stopped, stale>>
      /\ sup'.at = verdict /\ sup'.nochange = counts.nochange
      /\ sup'.unaccounted = counts.unaccounted /\ sup'.baseline = Breakers!Baseline(current)
      /\ truth' = Breakers!Tally(current, accounted)
  BY <1>2 DEF Breakers!SessionEnds
<1>5. counts.nochange \in Tallied /\ counts.unaccounted \in Tallied
  <2>1. sup.nochange \in Tallied /\ sup.unaccounted \in Tallied
    BY <1>1 DEF BreakerTypes
  <2>2. CASE verdict = "changed"
    BY <2>2 DEF Breakers!Evaluated, Breakers!Zero, Tallied
  <2>3. CASE verdict = "unchanged" \/ verdict = "unaccounted"
    BY <2>1, <2>3 DEF Breakers!Evaluated, Breakers!Counts, Breakers!OneMore, Tallied
  <2>4. CASE verdict = "unknown"
    BY <2>1, <2>4 DEF Breakers!Evaluated, Breakers!Counts
  <2>5. QED
    BY <1>3, <2>2, <2>3, <2>4 DEF Breakers!Verdicts
<1>6. Breakers!Baseline(current) \in 0 .. work \union {None}
  BY <1>1 DEF BreakerTypes, Breakers!Baseline
<1>7. Breakers!Tally(current, accounted) \in [idle : 0 .. MaxNochange, killed : 0 .. MaxUnaccounted]
  BY <1>1 DEF BreakerTypes, BreakerConstants, Breakers!Tally, Breakers!NoTruth
<1>8. /\ loopSession' \in [up : BOOLEAN, worked : BOOLEAN, measured : BOOLEAN]
      /\ ~loopSession'.up
      /\ current # None => loopSession' = Breakers!NoSession
      /\ loopSession' = Breakers!NoSession \/ (loopSession.measured /\ current = None /\ loopSession'.worked = loopSession.worked)
  BY <1>1, <1>2 DEF BreakerTypes, Breakers!NoSession
<1> HIDE DEF verdict, counts
<1>9. BreakerTypes'
  <2>1. sup' \in [at : Breakers!Verdicts, nochange : Tallied, unaccounted : Tallied,
                  baseline : 0 .. work \union {None}]
    BY <1>2, <1>3, <1>5, <1>6 DEF verdict, counts
  <2>2. QED
    BY <1>1, <1>4, <1>7, <1>8, <2>1 DEF BreakerTypes
<1>10. Measuring' /\ StoppedIsOver'
  <2>1. loopSession' # Breakers!NoSession => verdict = "unknown"
    BY <1>3, <1>8, <1>1 DEF BreakerTypes, BreakerConstants
  <2>2. loopSession' = Breakers!NoSession => ~loopSession'.measured /\ ~loopSession'.worked
    BY DEF Breakers!NoSession
  <2>3. loopSession' # Breakers!NoSession => sup'.baseline = sup.baseline
    BY <1>4, <1>8 DEF Breakers!Baseline
  <2>4. QED
    BY <1>1, <1>3, <1>4, <1>8, <2>1, <2>2, <2>3 DEF Measuring, StoppedIsOver
<1>11. CountsTrue => CountsTrue'
  <2>1. /\ loopSession.measured => sup.baseline # None
        /\ loopSession.worked /\ sup.baseline # None => sup.baseline < work
    BY <1>1 DEF Measuring
  <2>2. CountsTrue => CoveredBy(counts, Breakers!Tally(current, accounted))
    BY <1>1, <1>3, <2>1, VerdictCovers DEF CountsTrue, verdict, counts
  <2>3. QED
    BY <1>3, <1>4, <2>2 DEF CountsTrue, CoveredBy
<1>12. TripsDeserved' /\ Breakers!Deserved'
  BY <1>1, <1>3, <1>4 DEF TripsDeserved, Breakers!Deserved, BreakerConstants, Breakers!Breakers
<1>13. QED
  BY <1>1, <1>4, <1>9, <1>10, <1>11, <1>12 DEF BreakerInv

LEMMA SaveKeeps ==
  ASSUME BreakerConstants, BreakerInv, Breakers!Save
  PROVE  BreakerInv'
<1>1. /\ BreakerTypes /\ Measuring /\ StoppedIsOver
      /\ stale \/ (CountsTrue /\ TripsDeserved /\ Breakers!Deserved)
      /\ sup.at \in Breakers!Verdicts /\ stopped = None
  BY DEF BreakerInv, Breakers!Save, StoppedIsOver, Breakers!Verdicts
<1> DEFINE trip == Breakers!Tripped(Breakers!Counts(sup), sup.at)
           step == IF trip = None THEN "between" ELSE trip
<1>2. /\ trip \in Breakers!Breakers \union {None}
      /\ trip # None => sup.at \in {"unchanged", "unaccounted"}
      /\ trip = "no_progress" => sup.nochange # None /\ sup.nochange >= MaxNochange
      /\ trip = "too_many_unaccounted" =>
           sup.unaccounted # None /\ sup.unaccounted >= MaxUnaccounted
  BY <1>1 DEF Breakers!Tripped, Breakers!Counts, Breakers!Breakers, BreakerConstants
<1>3. /\ sup' = [sup EXCEPT !.at = step] /\ UNCHANGED <<work, loopSession, stopped, truth>>
      /\ stale' \in BOOLEAN /\ (stale => stale')
  BY <1>1 DEF Breakers!Save, BreakerTypes
<1>4. files' \in [{"nochange", "unaccounted"} -> Tallied]
  <2>1. PICK lost \in SUBSET DOMAIN Breakers!Zero :
          files' = [k \in DOMAIN Breakers!Zero |->
                      IF k \in lost THEN files[k] ELSE Breakers!Saved(Breakers!Counts(sup), sup.at)[k]]
    BY DEF Breakers!Save
  <2>2. DOMAIN Breakers!Zero = {"nochange", "unaccounted"}
    BY DEF Breakers!Zero
  <2>3. sup.nochange \in Tallied /\ sup.unaccounted \in Tallied
    BY <1>1 DEF BreakerTypes
  <2>4. Breakers!Saved(Breakers!Counts(sup), sup.at) \in [{"nochange", "unaccounted"} -> Tallied]
    <3>1. CASE sup.at = "changed"
      BY <3>1 DEF Breakers!Saved, Breakers!Zero, Tallied
    <3>2. CASE sup.at # "changed"
      BY <1>1, <2>3, <3>2 DEF Breakers!Saved, Breakers!Counts, BreakerTypes, Breakers!Verdicts
    <3>3. QED
      BY <3>1, <3>2
  <2>5. QED
    BY <1>1, <2>1, <2>2, <2>4 DEF BreakerTypes
<1> HIDE DEF trip
<1>5. /\ step \in {"between"} \union Breakers!Breakers /\ sup'.at = step
      /\ sup'.nochange = sup.nochange /\ sup'.unaccounted = sup.unaccounted
      /\ sup'.baseline = sup.baseline
  BY <1>1, <1>2, <1>3 DEF BreakerTypes
<1>6. BreakerTypes'
  BY <1>1, <1>3, <1>4, <1>5 DEF BreakerTypes
<1>7. Measuring' /\ StoppedIsOver'
  BY <1>1, <1>2, <1>3, <1>5 DEF Measuring, StoppedIsOver, Breakers!Verdicts, Breakers!Breakers
<1>8. CountsTrue => CountsTrue' /\ TripsDeserved'
  <2>1. CountsTrue => CoveredBy(sup, truth)
    BY <1>1 DEF CountsTrue, Breakers!Verdicts
  <2>2. CountsTrue => CountsTrue'
    BY <1>3, <1>5, <2>1 DEF CountsTrue, CoveredBy, Breakers!Breakers
  <2>3. CountsTrue => TripsDeserved'
    BY <1>1, <1>2, <1>3, <1>5, <2>1 DEF TripsDeserved, CoveredBy, Covered, BreakerTypes, Tallied,
       BreakerConstants
  <2>4. QED
    BY <2>2, <2>3
<1>9. Breakers!Deserved'
  BY <1>1, <1>3 DEF Breakers!Deserved, BreakerConstants, Breakers!Breakers
<1>10. QED
  BY <1>1, <1>3, <1>6, <1>7, <1>8, <1>9 DEF BreakerInv

(* The supervisor is gone, and has left the counts of its files.           *)
LEMMA GoneKeeps ==
  ASSUME BreakerConstants, BreakerInv, sup' = Breakers!Off, UNCHANGED work,
         loopSession' = Breakers!NoSession \/ (loopSession' = loopSession /\ loopSession.up /\ stopped' = None),
         files' \in [{"nochange", "unaccounted"} -> Tallied],
         stale' \in BOOLEAN, stale => stale',
         stopped' \in Breakers!Breakers \union {None},
         truth' = truth \/ truth' = Breakers!NoTruth,
         ~stale' => /\ CoveredBy(files', IF stopped' = None THEN truth' ELSE Breakers!NoTruth)
                    /\ Breakers!Deserved'
  PROVE  BreakerInv'
<1>1. BreakerTypes
  BY DEF BreakerInv
<1>2. /\ sup'.at = "off"
      /\ sup' \in [at : {"off"}, nochange : Tallied, unaccounted : Tallied, baseline : {None}]
      /\ Breakers!NoTruth \in [idle : 0 .. MaxNochange, killed : 0 .. MaxUnaccounted]
      /\ Breakers!NoSession \in [up : BOOLEAN, worked : BOOLEAN, measured : BOOLEAN] /\ ~Breakers!NoSession.up
  BY DEF Breakers!Off, Tallied, Breakers!NoTruth, Breakers!NoSession, BreakerConstants
<1>3. BreakerTypes'
  BY <1>1, <1>2 DEF BreakerTypes
<1>4. Measuring'
  BY <1>2 DEF Measuring
<1>5. QED
  <2>1. StoppedIsOver'
    BY <1>2 DEF StoppedIsOver
  <2>2. ~stale' => CountsTrue' /\ TripsDeserved'
    BY <1>2 DEF CountsTrue, TripsDeserved
  <2>3. QED
    BY <1>3, <1>4, <2>1, <2>2 DEF BreakerInv

LEMMA EndOfLoopKeeps ==
  ASSUME BreakerConstants, BreakerInv, Breakers!Trip \/ Breakers!Leave \/ Breakers!Stop \/ Breakers!SessionVanishes
  PROVE  BreakerInv'
<1>1. /\ BreakerTypes /\ Measuring /\ StoppedIsOver
      /\ stale \/ (CountsTrue /\ TripsDeserved /\ Breakers!Deserved)
  BY DEF BreakerInv
<1>2. CASE Breakers!Trip
  <2>1. /\ sup' = Breakers!Off /\ loopSession' = Breakers!NoSession /\ UNCHANGED <<work, truth>>
        /\ stopped' = sup.at /\ sup.at \in Breakers!Breakers /\ stopped' # None
    BY <1>1, <1>2 DEF Breakers!Trip, Measuring, Breakers!Breakers, BreakerConstants
  <2>2. /\ files' \in [{"nochange", "unaccounted"} -> Tallied] /\ stale' \in BOOLEAN
        /\ stale => stale'
        /\ ~stale' => CoveredBy(files', Breakers!NoTruth)
    BY <1>1, <1>2, RemovedOrStale DEF Breakers!Trip
  <2>3. TripsDeserved => Breakers!Deserved'
    BY <2>1 DEF TripsDeserved, Breakers!Deserved, Breakers!Breakers
  <2>4. ~stale' => CoveredBy(files', IF stopped' = None THEN truth' ELSE Breakers!NoTruth) /\ Breakers!Deserved'
    BY <1>1, <2>1, <2>2, <2>3
  <2>5. QED
    BY <2>1, <2>2, <2>4, GoneKeeps
<1>3. CASE Breakers!Leave
  <2>1. /\ sup' = Breakers!Off /\ UNCHANGED <<work, files, truth, stopped>> /\ stopped = None
        /\ loopSession' = Breakers!NoSession \/ (loopSession' = loopSession /\ loopSession.up)
        /\ stale' = (stale \/ Breakers!Exceeds(files, Breakers!Counts(sup))) /\ sup.at # "off"
    BY <1>1, <1>3 DEF Breakers!Leave, StoppedIsOver
  <2>2. stale' \in BOOLEAN /\ files \in [{"nochange", "unaccounted"} -> Tallied]
    BY <1>1, <2>1 DEF BreakerTypes
  <2>3. ~stale' => CoveredBy(files, truth)
    BY <1>1, <2>1, LeftOrStale DEF CountsTrue
  <2>4. Breakers!Deserved'
    BY <2>1 DEF Breakers!Deserved, BreakerConstants, Breakers!Breakers
  <2>5. CoveredBy(files', truth') <=> CoveredBy(files, truth)
    BY <2>1
  <2>6. ~stale' => CoveredBy(files', IF stopped' = None THEN truth' ELSE Breakers!NoTruth) /\ Breakers!Deserved'
    BY <2>1, <2>3, <2>4, <2>5
  <2>7. QED
    BY <2>1, <2>2, <2>6, GoneKeeps
<1>4. CASE Breakers!Stop
  <2>1. /\ sup' = Breakers!Off /\ loopSession' = Breakers!NoSession /\ UNCHANGED <<work, stopped>> /\ stopped = None
        /\ truth' = Breakers!NoTruth
    BY <1>1, <1>4 DEF Breakers!Stop, StoppedIsOver
  <2>2. /\ files' \in [{"nochange", "unaccounted"} -> Tallied] /\ stale' \in BOOLEAN
        /\ stale => stale'
        /\ ~stale' => CoveredBy(files', Breakers!NoTruth)
    BY <1>1, <1>4, RemovedOrStale DEF Breakers!Stop
  <2>3. Breakers!Deserved'
    BY <2>1 DEF Breakers!Deserved, BreakerConstants, Breakers!Breakers
  <2>4. ~stale' => CoveredBy(files', IF stopped' = None THEN truth' ELSE Breakers!NoTruth) /\ Breakers!Deserved'
    BY <2>1, <2>2, <2>3
  <2>5. QED
    BY <2>1, <2>2, <2>4, GoneKeeps
<1>5. CASE Breakers!SessionVanishes
  <2>1. /\ sup' = sup /\ sup.at = "off" /\ loopSession' = Breakers!NoSession /\ stopped = None
        /\ UNCHANGED <<work, files, stopped, truth, stale>>
    BY <1>1, <1>5 DEF Breakers!SessionVanishes, StoppedIsOver
  <2>2. BreakerTypes'
    BY <1>1, <2>1 DEF BreakerTypes, Breakers!NoSession
  <2>3. Measuring' /\ StoppedIsOver'
    BY <2>1 DEF Measuring, StoppedIsOver, Breakers!NoSession
  <2>4. CountsTrue /\ TripsDeserved /\ Breakers!Deserved => CountsTrue' /\ TripsDeserved' /\ Breakers!Deserved'
    BY <2>1 DEF CountsTrue, CoveredBy, TripsDeserved, Breakers!Deserved
  <2>5. QED
    BY <1>1, <2>1, <2>2, <2>3, <2>4 DEF BreakerInv
<1>6. QED
  BY <1>2, <1>3, <1>4, <1>5

(* The repository changes, or a file is damaged.                           *)
LEMMA AroundKeeps ==
  ASSUME BreakerConstants, BreakerInv, Breakers!AgentWorks \/ Breakers!OthersWork \/ Breakers!FileDamaged
  PROVE  BreakerInv'
<1>1. /\ BreakerTypes /\ Measuring /\ StoppedIsOver
      /\ stale \/ (CountsTrue /\ TripsDeserved /\ Breakers!Deserved)
  BY DEF BreakerInv
<1>2. UNCHANGED <<sup, stopped, truth, stale>>
  BY DEF Breakers!AgentWorks, Breakers!OthersWork, Breakers!FileDamaged
<1>3. CASE Breakers!AgentWorks \/ Breakers!OthersWork
  <2>1. /\ work \in Nat /\ work' = work + 1 /\ files' = files
        /\ \/ loopSession' = loopSession
           \/ loopSession' = [loopSession EXCEPT !.worked = TRUE] /\ loopSession.up
    BY <1>1, <1>3 DEF BreakerTypes, Breakers!AgentWorks, Breakers!OthersWork
  <2>2. BreakerTypes'
    <3>1. 0 .. work \subseteq 0 .. work'
      BY <2>1
    <3>2. loopSession' \in [up : BOOLEAN, worked : BOOLEAN, measured : BOOLEAN]
      BY <1>1, <2>1 DEF BreakerTypes
    <3>3. sup \in [at : {"off", "between", "watching"} \union Breakers!Verdicts \union Breakers!Breakers,
                   nochange : Tallied, unaccounted : Tallied, baseline : 0 .. work' \union {None}]
      BY <1>1, <3>1 DEF BreakerTypes
    <3>4. QED
      BY <1>1, <1>2, <2>1, <3>2, <3>3 DEF BreakerTypes
  <2>3. Measuring' /\ StoppedIsOver'
    <3>1. /\ loopSession'.up = loopSession.up /\ loopSession'.measured = loopSession.measured
          /\ ~loopSession.up => loopSession' = loopSession
      BY <1>1, <2>1 DEF BreakerTypes
    <3>2. sup.baseline # None => sup.baseline < work'
      BY <1>1, <2>1 DEF BreakerTypes
    <3>3. QED
      BY <1>1, <1>2, <2>1, <3>1, <3>2 DEF Measuring, StoppedIsOver
  <2>4. CountsTrue /\ TripsDeserved /\ Breakers!Deserved => CountsTrue' /\ TripsDeserved' /\ Breakers!Deserved'
    BY <1>2, <2>1 DEF CountsTrue, CoveredBy, TripsDeserved, Breakers!Deserved
  <2>5. QED
    BY <1>1, <1>2, <2>2, <2>3, <2>4 DEF BreakerInv
<1>4. CASE Breakers!FileDamaged
  <2>1. PICK k \in {"nochange", "unaccounted"} : files' = [files EXCEPT ![k] = None]
    BY <1>4 DEF Breakers!FileDamaged
  <2>2. work' = work /\ loopSession' = loopSession
    BY <1>4 DEF Breakers!FileDamaged
  <2>3. /\ files' \in [{"nochange", "unaccounted"} -> Tallied]
        /\ files'.nochange = files.nochange \/ files'.nochange = None
        /\ files'.unaccounted = files.unaccounted \/ files'.unaccounted = None
    BY <1>1, <2>1 DEF BreakerTypes, Tallied
  <2>4. BreakerTypes' /\ Measuring' /\ StoppedIsOver'
    BY <1>1, <1>2, <2>2, <2>3 DEF BreakerTypes, Measuring, StoppedIsOver
  <2>5. CountsTrue /\ TripsDeserved /\ Breakers!Deserved => CountsTrue' /\ TripsDeserved' /\ Breakers!Deserved'
    BY <1>2, <2>3 DEF CountsTrue, CoveredBy, Covered, TripsDeserved, Breakers!Deserved
  <2>6. QED
    BY <1>1, <1>2, <2>4, <2>5 DEF BreakerInv
<1>5. QED
  BY <1>3, <1>4

LEMMA BreakersStay ==
  ASSUME BreakerConstants, BreakerInv, [Breakers!Next]_Breakers!vars
  PROVE  BreakerInv'
<1>1. CASE UNCHANGED Breakers!vars
  BY <1>1 DEF Breakers!vars, BreakerInv, BreakerTypes, Measuring, StoppedIsOver, CountsTrue,
     CoveredBy,
     TripsDeserved, Breakers!Deserved
<1>2. CASE Breakers!Next
  BY <1>2, StartKeeps, LaunchKept, EndKeeps, SaveKeeps, EndOfLoopKeeps, AroundKeeps
  DEF Breakers!Next, Breakers!LoopStep
<1>3. QED
  BY <1>1, <1>2

(* "The error it can make is letting the loop run longer, never stopping a *)
(* healthy one": through swaps, adoptions, failed looks and damaged files, *)
(* for any limits, a breaker stops the loop only after as many idle, or    *)
(* killed, sessions as it allows; a lower count that never reached the     *)
(* disk is the exception.                                                  *)
THEOREM NoHealthyLoopIsStopped ==
  ASSUME BreakerConstants
  PROVE  Breakers!Spec => []StopsNoHealthyLoop
<1>1. Breakers!Init => BreakerInv
  BY BreakerInit
<1>2. BreakerInv /\ [Breakers!Next]_Breakers!vars => BreakerInv'
  BY BreakersStay
<1>3. BreakerInv => StopsNoHealthyLoop
  BY DEF BreakerInv, StopsNoHealthyLoop, Breakers!StopsNoHealthyLoop
<1>4. QED
  BY <1>1, <1>2, <1>3, PTL DEF Breakers!Spec
=============================================================================
