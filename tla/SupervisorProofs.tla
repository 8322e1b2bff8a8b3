-------------------------- MODULE SupervisorProofs --------------------------
(***************************************************************************)
(* Proofs about module Supervisor, for any number of supervisors and of    *)
(* invocations that overlap.                                               *)
(***************************************************************************)
EXTENDS Supervisor, FiniteSetTheorems, WellFoundedInduction, TLAPS

-----------------------------------------------------------------------------
(***************************************************************************)
(* Eras. A set of numbers has a least one, hence Settled is what it says.  *)
(***************************************************************************)

LEMMA LeastNumber ==
  ASSUME NEW S \in SUBSET Nat, S # {}
  PROVE  \E n \in S : \A m \in S : n <= m
<1> DEFINE R == {ss \in Nat \X Nat : ss[1] < ss[2]}
<1>1. IsWellFoundedOn(R, Nat)
  BY NatLessThanWellFounded DEF OpToRel
<1>2. ASSUME NEW x \in Nat, NEW y \in Nat, <<y, x>> \notin R
      PROVE  x <= y
  <2>1. <<y, x>> \in Nat \X Nat
    OBVIOUS
  <2>2. ~ (<<y, x>>[1] < <<y, x>>[2])
    BY <1>2, <2>1
  <2>3. QED
    BY <2>2
<1> HIDE DEF R
<1>3. \E x \in S : \A y \in S : <<y, x>> \notin R
  BY <1>1, WFMin
<1>4. QED
  BY <1>2, <1>3

(* What an invocation remembers: a start has an era of its own.            *)
CallEras ==
  /\ era \in Nat
  /\ \A c \in Callers : /\ call[c].era \in 0 .. era
                        /\ call[c].cmd = "start" => call[c].era > 0

LEMMA SettledIsBefore ==
  ASSUME CallEras
  PROVE  /\ Settled \in 0 .. era
         /\ \A c \in UnderWay("start") : Settled < call[c].era
<1> DEFINE Good(e) == /\ \A c \in UnderWay("start") : e < call[c].era
                      /\ e = era \/ \E c \in UnderWay("start") : call[c].era = e + 1
           S == {call[c].era : c \in UnderWay("start")}
<1>1. \A c \in UnderWay("start") : call[c].era \in 0 .. era /\ call[c].era > 0
  BY DEF CallEras, UnderWay
<1>2. era \in Nat
  BY DEF CallEras
<1>3. \E e \in 0 .. era : Good(e)
  <2>1. CASE S = {}
    <3>1. Good(era)
      BY <2>1
    <3>2. QED
      BY <1>2, <3>1
  <2>2. CASE S # {}
    <3>1. S \in SUBSET Nat
      BY <1>1
    <3>2. PICK n \in S : \A m \in S : n <= m
      BY <2>2, <3>1, LeastNumber
    <3>3. PICK d \in UnderWay("start") : n = call[d].era
      BY <3>2
    <3>4. \A c \in UnderWay("start") : n - 1 < call[c].era
      BY <1>1, <3>2, <3>3
    <3>5. n - 1 \in 0 .. era /\ call[d].era = (n - 1) + 1
      BY <1>1, <1>2, <3>3
    <3>6. Good(n - 1)
      BY <3>3, <3>4, <3>5
    <3>7. QED
      BY <3>5, <3>6
  <2>3. QED
    BY <2>1, <2>2
<1> HIDE DEF Good
<1>4. Settled = CHOOSE e \in 0 .. era : Good(e)
  BY DEF Settled, Good
<1>5. Settled \in 0 .. era /\ Good(Settled)
  BY <1>3, <1>4
<1>6. QED
  BY <1>5 DEF Good

-----------------------------------------------------------------------------
(***************************************************************************)
(* Types, and what makes them inductive: a count that has reached its      *)
(* limit ends the loop, and an invocation takes the steps of its command.  *)
(***************************************************************************)

Counts ==
  \A p \in Sups :
    /\ sup[p].exits = MaxFailures => sup[p].at \in {"cleanup", "gone"}
    /\ sup[p].fails = MaxFailures => sup[p].at \in {"leave", "gone"}

StepsOf(cmd) ==
  CASE cmd = "none"         -> {"unborn"}
    [] cmd = "start"        -> {"start", "spawn", "record", "done"}
    [] cmd = "stop"         -> {"stop", "stopLook", "stopWait", "recheck",
                                "withdraw", "kill", "tidy", "done"}
    [] cmd = "stop-loop"    -> {"stop-loop", "detach", "detachWait", "detached",
                                "unlock", "done"}
    [] cmd = "restart-loop" -> {"restart-loop", "restartLook", "detach",
                                "detachWait", "detached", "check", "spawn",
                                "record", "confirm", "unlock", "done"}
    [] cmd = "stop-session" -> {"stop-session", "done"}
    [] cmd = "forget"       -> {"forget", "done"}

OwnSteps == \A c \in Callers : call[c].at \in StepsOf(call[c].cmd)

TypeInv == TypeOK /\ Counts /\ CallEras /\ OwnSteps

(* A supervisor's step, as far as the types go.                            *)
LEMMA GotoKeepsTypes ==
  ASSUME TypeInv, NEW p \in Sups, NEW s \in SupSteps, Goto(p, s),
         s = "gone" \/ sup[p].at \notin {"cleanup", "gone", "leave"}
  PROVE  /\ sup' \in [Sups -> [at : SupSteps, adopt : BOOLEAN, era : Nat,
                              fails : 0 .. MaxFailures, exits : 0 .. MaxFailures]]
         /\ Counts'
  BY DEF TypeInv, TypeOK, Counts, Goto

(* An invocation's step, as far as the types go.                           *)
Steps(c) == {s \in CallSteps : s \in StepsOf(call[c].cmd)}

LEMMA ThenKeepsTypes ==
  ASSUME TypeInv, NEW c \in Callers, NEW s \in Steps(c), Then(c, s), era' = era
  PROVE  /\ call' \in [Callers -> [at : CallSteps, cmd : Commands \union {"none"},
                                 child : Sups \union {None}, era : Nat]]
         /\ CallEras' /\ OwnSteps'
<1>1. call[c] \in [at : CallSteps, cmd : Commands \union {"none"},
                  child : Sups \union {None}, era : Nat]
  BY DEF TypeInv, TypeOK
<1>2. /\ call' = [call EXCEPT ![c] = [@ EXCEPT !.at = s]]
      /\ s \in CallSteps /\ s \in StepsOf(call[c].cmd)
  BY DEF Then, Steps
<1>3. [call[c] EXCEPT !.at = s] \in [at : CallSteps, cmd : Commands \union {"none"},
                                    child : Sups \union {None}, era : Nat]
  BY <1>1, <1>2
<1>4. /\ call' \in [Callers -> [at : CallSteps, cmd : Commands \union {"none"},
                               child : Sups \union {None}, era : Nat]]
      /\ \A d \in Callers : /\ call'[d].cmd = call[d].cmd
                            /\ call'[d].era = call[d].era
                            /\ call'[d].at = IF d = c THEN s ELSE call[d].at
  BY <1>1, <1>2, <1>3 DEF TypeInv, TypeOK
<1>5. CallEras'
  BY <1>4 DEF TypeInv, CallEras
<1>6. OwnSteps'
  BY <1>2, <1>4 DEF TypeInv, OwnSteps
<1>7. QED
  BY <1>4, <1>5, <1>6

SupTypes ==
  sup \in [Sups -> [at : SupSteps, adopt : BOOLEAN, era : Nat,
                    fails : 0 .. MaxFailures, exits : 0 .. MaxFailures]]

FileTypes ==
  files \in [stop : BOOLEAN, detach : BOOLEAN, restart : BOOLEAN,
             managed : BOOLEAN, args : BOOLEAN, state : BOOLEAN,
             pid : Sups \union {None}, startup : Sups \union {None},
             lock : Callers \union {None}]

SessionTypes ==
  /\ session \in [is : {"none", "running", "dead"}, era : Nat]
  /\ launches \in 0 .. MaxLaunches

(* What a step of a supervisor has to show, and what one of an invocation. *)
LEMMA SupStepTyped ==
  ASSUME TypeInv, SupTypes', Counts', FileTypes', SessionTypes',
         UNCHANGED <<call, era, ended>>, swept' \in BOOLEAN
  PROVE  TypeInv'
  BY DEF TypeInv, TypeOK, SupTypes, FileTypes, SessionTypes, CallEras, OwnSteps

LEMMA CallStepTyped ==
  ASSUME TypeInv, NEW c \in Callers, NEW s \in Steps(c), Then(c, s), FileTypes',
         SessionTypes', UNCHANGED <<sup, era>>, ended' \in 0 .. era,
         swept' \in BOOLEAN
  PROVE  TypeInv'
<1>1. TypeOK'
  BY ThenKeepsTypes DEF TypeInv, TypeOK, FileTypes, SessionTypes
<1>2. QED
  BY <1>1, ThenKeepsTypes DEF TypeInv, Counts

(* Nothing but the files changes, or only a reader's view of them.         *)
LEMMA PrunedTyped ==
  ASSUME TypeInv, NEW answer
  PROVE  Pruned(answer) \in [stop : BOOLEAN, detach : BOOLEAN, restart : BOOLEAN,
                             managed : BOOLEAN, args : BOOLEAN, state : BOOLEAN,
                             pid : Sups \union {None}, startup : Sups \union {None},
                             lock : Callers \union {None}]
  BY DEF TypeInv, TypeOK, Pruned, PublishedPid

LEMMA SupTypesKept ==
  ASSUME TypeInv, NEW p \in Sups, SupStep(p) \/ Interrupt(p) \/ Crash(p)
  PROVE  TypeInv'
<1> USE DEF TypeInv
<1>0. /\ TypeOK /\ SupTypes /\ FileTypes /\ SessionTypes
      /\ Counts /\ swept \in BOOLEAN /\ MaxFailures \in Nat \ {0}
  BY SupervisorAssumption DEF TypeOK, SupTypes, FileTypes, SessionTypes
<1> SUFFICES SupTypes' /\ Counts' /\ FileTypes' /\ SessionTypes'
             /\ UNCHANGED <<call, era, ended>> /\ swept' \in BOOLEAN
  BY SupStepTyped
<1>a. ASSUME NEW s \in SupSteps, Goto(p, s),
             s = "gone" \/ sup[p].at \notin {"cleanup", "gone", "leave"}
      PROVE  SupTypes' /\ Counts'
  BY <1>a, GotoKeepsTypes DEF SupTypes
<1>1. CASE RecordStarting(p)
  BY <1>0, <1>1, <1>a DEF RecordStarting, FileTypes, SessionTypes, SupSteps
<1>2. CASE Guard(p)
  <2>1. CASE MayStart(p)
    BY <1>0, <1>2, <2>1 DEF Guard, FileTypes, SessionTypes, SupTypes, SupSteps, Counts
  <2>2. CASE ~ MayStart(p)
    BY <1>0, <1>2, <2>2, <1>a DEF Guard, Refuse, FileTypes, SessionTypes, SupSteps
  <2>3. QED
    BY <2>1, <2>2
<1>3. CASE Publish(p)
  BY <1>0, <1>3, <1>a DEF Publish, FileTypes, SessionTypes, SupSteps
<1>4. CASE TopStop(p)
  BY <1>0, <1>4, <1>a DEF TopStop, FileTypes, SessionTypes, SupSteps
<1>5. CASE TopDetach(p)
  BY <1>0, <1>5, <1>a DEF TopDetach, FileTypes, SessionTypes, SupSteps
<1>6. CASE TopLaunch(p)
  BY <1>0, <1>6, <1>a DEF TopLaunch, FileTypes, SessionTypes, SupSteps
<1>7. CASE Launch(p)
  <2>1. SessionTypes'
    BY <1>0, <1>7, SupervisorAssumption DEF Launch, SessionTypes, SupTypes
  <2>2. QED
    BY <1>0, <1>7, <1>a, <2>1 DEF Launch, FileTypes, SupSteps
<1>8. CASE ClaimSession(p)
  <2>1. /\ sup' = [sup EXCEPT ![p].at = "poll", ![p].fails = 0]
        /\ sup[p].at = "claim" /\ 0 \in 0 .. MaxFailures /\ MaxFailures # 0
    BY <1>0, <1>8 DEF ClaimSession
  <2>2. SupTypes'
    BY <1>0, <2>1 DEF SupTypes, SupSteps
  <2>3. Counts'
    BY <1>0, <2>1 DEF SupTypes, Counts
  <2>4. QED
    BY <1>0, <1>8, <2>2, <2>3 DEF ClaimSession, FileTypes, SessionTypes
<1>9. CASE LaunchFails(p)
  BY <1>0, <1>9 DEF LaunchFails, NoSession, FileTypes, SessionTypes, SupTypes, SupSteps, Counts
<1>10. CASE PollStop(p)
  BY <1>0, <1>10, <1>a DEF PollStop, FileTypes, SessionTypes, SupSteps
<1>11. CASE PollDetach(p)
  BY <1>0, <1>11, <1>a DEF PollDetach, FileTypes, SessionTypes, SupSteps
<1>12. CASE PollNothing(p)
  BY <1>0, <1>12, <1>a DEF PollNothing, FileTypes, SessionTypes, SupSteps
<1>13. CASE LookRestart(p)
  <2>1. /\ sup' = [sup EXCEPT ![p].at = "restart", ![p].exits = 0]
        /\ sup[p].at = "look" /\ 0 \in 0 .. MaxFailures /\ MaxFailures # 0
    BY <1>0, <1>13 DEF LookRestart
  <2>2. SupTypes'
    BY <1>0, <2>1 DEF SupTypes, SupSteps
  <2>3. Counts'
    BY <1>0, <2>1 DEF SupTypes, Counts
  <2>4. QED
    BY <1>0, <1>13, <2>2, <2>3 DEF LookRestart, FileTypes, SessionTypes
<1>14. CASE LookNothing(p)
  BY <1>0, <1>14, <1>a DEF LookNothing, FileTypes, SessionTypes, SupSteps
<1>15. CASE LookExit(p)
  <2>1. PICK n \in 0 .. MaxFailures :
          /\ n < MaxFailures
          /\ sup' = [sup EXCEPT ![p].exits = n + 1,
                                ![p].at = IF n + 1 >= MaxFailures
                                          THEN "cleanup" ELSE "restart"]
    <3>1. PICK n \in {0, sup[p].exits} :
            sup' = [sup EXCEPT ![p].exits = n + 1,
                               ![p].at = IF n + 1 >= MaxFailures
                                         THEN "cleanup" ELSE "restart"]
      BY <1>15 DEF LookExit
    <3>2. sup[p].at = "look"
      BY <1>15 DEF LookExit
    <3>3. sup[p].exits \in 0 .. MaxFailures /\ sup[p].exits # MaxFailures
      BY <1>0, <3>2 DEF SupTypes, Counts
    <3>4. n \in 0 .. MaxFailures /\ n < MaxFailures
      BY <1>0, <3>1, <3>3
    <3>5. QED
      BY <3>1, <3>4, Zenon
  <2>2. /\ n + 1 \in 0 .. MaxFailures
        /\ n + 1 = MaxFailures <=> n + 1 >= MaxFailures
    BY <1>0, <2>1
  <2>3. SupTypes' /\ Counts'
    BY <1>0, <1>15, <2>1, <2>2 DEF LookExit, SupTypes, SupSteps, Counts
  <2>4. QED
    BY <1>0, <1>15, <2>3 DEF LookExit, FileTypes, SessionTypes
<1>16. CASE LookUnreadable(p)
  BY <1>0, <1>16, <1>a DEF LookUnreadable, FileTypes, SessionTypes, SupSteps
<1>17. CASE TakeRestart(p)
  BY <1>0, <1>17, <1>a DEF TakeRestart, FileTypes, SessionTypes, SupSteps
<1>18. CASE Halt(p)
  <2>1. SessionTypes'
    BY <1>0, <1>18 DEF Halt, Halted, NoSession, SessionTypes
  <2>2. QED
    BY <1>0, <1>18, <1>a, <2>1 DEF Halt, FileTypes, SupSteps
<1>19. CASE Interrupt(p)
  BY <1>0, <1>19, <1>a DEF Interrupt, FileTypes, SessionTypes, SupSteps
<1>20. CASE EndSession(p)
  BY <1>0, <1>20, <1>a DEF EndSession, NoSession, FileTypes, SessionTypes, SupSteps
<1>21. CASE CleanUp(p)
  <2>1. FileTypes'
    BY <1>0, <1>21 DEF CleanUp, Cleaned, NoFiles, FileTypes
  <2>2. swept' \in BOOLEAN
    BY <1>21 DEF CleanUp
  <2>3. QED
    BY <1>0, <1>21, <1>a, <2>1, <2>2 DEF CleanUp, SessionTypes, SupSteps
<1>22. CASE Leave(p)
  BY <1>0, <1>22, <1>a DEF Leave, FileTypes, SessionTypes, SupSteps
<1>23. CASE Crash(p)
  BY <1>0, <1>23, <1>a DEF Crash, FileTypes, SessionTypes, SupSteps
<1>24. QED
  BY <1>1, <1>2, <1>3, <1>4, <1>5, <1>6, <1>7, <1>8, <1>9, <1>10, <1>11, <1>12,
     <1>13, <1>14, <1>15, <1>16, <1>17, <1>18, <1>19, <1>20, <1>21, <1>22, <1>23
     DEF SupStep

LEMMA CallTypesKept ==
  ASSUME TypeInv, NEW c \in Callers, CallStep(c)
  PROVE  TypeInv'
<1>0. /\ TypeOK /\ SupTypes /\ FileTypes /\ SessionTypes /\ OwnSteps /\ CallEras
      /\ swept \in BOOLEAN /\ era \in Nat /\ ended \in 0 .. era
      /\ call[c].at \in StepsOf(call[c].cmd)
      /\ call[c].cmd \in {"none", "start", "stop", "stop-loop", "restart-loop",
                          "stop-session", "forget"}
  BY SupervisorAssumption
     DEF TypeInv, TypeOK, SupTypes, FileTypes, SessionTypes, OwnSteps
(* A step that changes at most the files. *)
<1>a. ASSUME NEW s \in Steps(c), FileTypes', Then(c, s),
             UNCHANGED <<sup, session, launches, era, ended, swept>>
      PROVE  TypeInv'
  BY <1>0, <1>a, CallStepTyped DEF SessionTypes
<1>b. ASSUME NEW present \in Steps(c), NEW absent \in Steps(c), Ask(c, present, absent)
      PROVE  TypeInv'
  <2>1. PICK answer \in Present :
          /\ files' = Pruned(answer)
          /\ Then(c, IF answer = None THEN absent ELSE present)
    BY <1>b DEF Ask
  <2>2. FileTypes'
    BY <2>1, PrunedTyped DEF FileTypes
  <2>3. QED
    BY <1>a, <1>b, <2>1, <2>2 DEF Ask
<1>c. ASSUME NEW s \in Steps(c), SeeNobody(c, s)
      PROVE  TypeInv'
  <2>1. FileTypes'
    BY <1>c, PrunedTyped DEF FileTypes, SeeNobody
  <2>2. QED
    BY <1>a, <1>c, <2>1 DEF SeeNobody
<1> USE DEF StepsOf, Steps, CallSteps
<1>1. CASE Start(c)
  BY <1>0, <1>1, <1>b DEF Start
<1>2. CASE Spawn(c)
  <2>1. PICK p \in Sups :
          /\ sup[p].at = "unborn"
          /\ sup' = [sup EXCEPT ![p] =
                       [@ EXCEPT !.at = "spawned", !.era = call[c].era,
                                 !.adopt = call[c].cmd = "restart-loop"]]
          /\ call' = [call EXCEPT ![c].at = "record", ![c].child = p]
    BY <1>2 DEF Spawn
  <2>2. SupTypes' /\ Counts'
    <3>1. call[c].era \in Nat /\ (call[c].cmd = "restart-loop") \in BOOLEAN
      BY <1>0 DEF TypeOK
    <3>2. SupTypes'
      <4>1. sup[p] \in [at : SupSteps, adopt : BOOLEAN, era : Nat,
                        fails : 0 .. MaxFailures, exits : 0 .. MaxFailures]
        BY <1>0 DEF SupTypes
      <4>2. [sup[p] EXCEPT !.at = "spawned", !.era = call[c].era,
                           !.adopt = call[c].cmd = "restart-loop"]
              \in [at : SupSteps, adopt : BOOLEAN, era : Nat,
                   fails : 0 .. MaxFailures, exits : 0 .. MaxFailures]
        BY <3>1, <4>1 DEF SupSteps
      <4>3. QED
        BY <1>0, <2>1, <4>2 DEF SupTypes
    <3>3. \A q \in Sups : /\ sup'[q].exits = sup[q].exits
                         /\ sup'[q].fails = sup[q].fails
                         /\ sup'[q].at = IF q = p THEN "spawned" ELSE sup[q].at
      BY <1>0, <2>1 DEF SupTypes
    <3>4. QED
      BY <2>1, <3>2, <3>3 DEF Counts, TypeInv
  <2>3. call' \in [Callers -> [at : CallSteps, cmd : Commands \union {"none"},
                               child : Sups \union {None}, era : Nat]]
    <3>1. call[c] \in [at : CallSteps, cmd : Commands \union {"none"},
                      child : Sups \union {None}, era : Nat]
      BY <1>0 DEF TypeOK
    <3>2. [call[c] EXCEPT !.at = "record", !.child = p]
            \in [at : CallSteps, cmd : Commands \union {"none"},
                 child : Sups \union {None}, era : Nat]
      BY <3>1
    <3>3. QED
      BY <1>0, <2>1, <3>2 DEF TypeOK
  <2>4. CallEras' /\ OwnSteps'
    <3>1. "record" \in StepsOf(call[c].cmd)
      BY <1>0, <1>2 DEF Spawn
    <3>2. \A d \in Callers : /\ call'[d].cmd = call[d].cmd
                            /\ call'[d].era = call[d].era
                            /\ call'[d].at = IF d = c THEN "record" ELSE call[d].at
      BY <1>0, <2>1 DEF TypeOK
    <3>3. era' = era
      BY <1>2 DEF Spawn
    <3>4. CallEras'
      BY <1>0, <3>2, <3>3 DEF CallEras
    <3>5. OwnSteps'
      BY <1>0, <3>1, <3>2 DEF OwnSteps
    <3>6. QED
      BY <3>4, <3>5
  <2>5. QED
    BY <1>0, <1>2, <2>2, <2>3, <2>4
       DEF Spawn, TypeInv, TypeOK, SupTypes, FileTypes, SessionTypes
<1>3. CASE Record(c)
  BY <1>0, <1>3, <1>a DEF Record, Set, FileTypes, TypeOK
<1>4. CASE StopTouch(c)
  BY <1>0, <1>4, <1>a DEF StopTouch, Set, FileTypes
<1>5. CASE StopLook(c)
  BY <1>0, <1>5, <1>b DEF StopLook
<1>6. CASE StopWait(c)
  BY <1>0, <1>6, <1>c DEF StopWait
<1>7. CASE StopTimesOut(c)
  BY <1>0, <1>7, <1>a DEF StopTimesOut, Set, FileTypes
<1>8. CASE Recheck(c)
  BY <1>0, <1>8, <1>b DEF Recheck
<1>9. CASE Withdraw(c)
  BY <1>0, <1>9, <1>a DEF Withdraw, Set, FileTypes
<1>10. CASE Kill(c)
  <2>1. PICK s \in Steps(c) : Then(c, s)
    BY <1>0, <1>10 DEF Kill
  <2>2. SessionTypes' /\ FileTypes'
    BY <1>0, <1>10 DEF Kill, NoSession, SessionTypes, FileTypes
  <2>3. QED
    BY <1>0, <1>10, <2>1, <2>2, CallStepTyped DEF Kill
<1>11. CASE Tidy(c)
  <2>1. Then(c, "done") /\ "done" \in Steps(c)
    BY <1>0, <1>11 DEF Tidy
  <2>2. FileTypes' /\ SessionTypes'
    BY <1>0, <1>11 DEF Tidy, NoFiles, FileTypes, SessionTypes
  <2>3. ended' \in 0 .. era
    BY <1>0, <1>11 DEF Tidy, CallEras
  <2>4. swept' \in BOOLEAN
    BY <1>11 DEF Tidy
  <2>5. QED
    BY <1>11, <2>1, <2>2, <2>3, <2>4, CallStepTyped DEF Tidy
<1>12. CASE StopLoop(c)
  BY <1>0, <1>12, <1>b DEF StopLoop
<1>13. CASE Lock(c)
  BY <1>0, <1>13, <1>a DEF Lock, Set, FileTypes
<1>14. CASE RestartLook(c)
  BY <1>0, <1>14, <1>b DEF RestartLook
<1>15. CASE Detach(c)
  BY <1>0, <1>15, <1>a DEF Detach, Set, FileTypes
<1>16. CASE DetachWait(c)
  BY <1>0, <1>16, <1>c DEF DetachWait
<1>17. CASE DetachTimesOut(c)
  BY <1>0, <1>17, <1>a DEF DetachTimesOut, Set, FileTypes
<1>18. CASE Detached(c)
  BY <1>0, <1>18, <1>a DEF Detached, Set, FileTypes
<1>19. CASE Check(c)
  BY <1>0, <1>19, <1>a DEF Check, Set, FileTypes
<1>20. CASE Confirm(c)
  BY <1>0, <1>20, <1>a DEF Confirm, Set, FileTypes
<1>21. CASE Unlock(c)
  BY <1>0, <1>21, <1>a DEF Unlock, Set, FileTypes
<1>22. CASE StopSession(c)
  <2>1. Then(c, "done") /\ "done" \in Steps(c)
    BY <1>0, <1>22 DEF StopSession
  <2>2. SessionTypes' /\ FileTypes'
    BY <1>0, <1>22 DEF StopSession, NoSession, SessionTypes, FileTypes
  <2>3. QED
    BY <1>0, <1>22, <2>1, <2>2, CallStepTyped DEF StopSession
<1>23. CASE Forget(c)
  <2>1. Then(c, "done") /\ "done" \in Steps(c)
    BY <1>0, <1>23 DEF Forget
  <2>2. FileTypes' /\ SessionTypes'
    BY <1>0, <1>23 DEF Forget, NoFiles, FileTypes, SessionTypes
  <2>3. swept' \in BOOLEAN
    BY <1>23 DEF Forget
  <2>4. QED
    BY <1>0, <1>23, <2>1, <2>2, <2>3, CallStepTyped DEF Forget
<1>24. QED
  BY <1>1, <1>2, <1>3, <1>4, <1>5, <1>6, <1>7, <1>8, <1>9, <1>10, <1>11, <1>12,
     <1>13, <1>14, <1>15, <1>16, <1>17, <1>18, <1>19, <1>20, <1>21, <1>22, <1>23,
     CallStep(c) DEF CallStep

LEMMA InvokeTypesKept ==
  ASSUME TypeInv, NEW c \in Callers, Invoke(c)
  PROVE  TypeInv'
<1>1. PICK cmd \in Commands :
        /\ era' = IF cmd = "start" THEN era + 1 ELSE era
        /\ call' = [call EXCEPT ![c] = [at |-> cmd, cmd |-> cmd, child |-> None,
                                        era |-> IF cmd = "start" THEN era' ELSE Settled]]
  BY DEF Invoke
<1>2. /\ TypeOK /\ CallEras /\ OwnSteps /\ Counts
      /\ era \in Nat /\ ended \in 0 .. era /\ Settled \in 0 .. era
  BY SettledIsBefore DEF TypeInv, TypeOK
<1>3. cmd \in {"start", "stop", "stop-loop", "restart-loop", "stop-session", "forget"}
  BY SupervisorAssumption
<1>4. era' \in Nat /\ era <= era' /\ (cmd = "start" => era' > 0)
  BY <1>1, <1>2
<1> DEFINE e == IF cmd = "start" THEN era' ELSE Settled
<1>5. e \in 0 .. era' /\ (cmd = "start" => e > 0)
  BY <1>2, <1>4
<1> HIDE DEF e
<1>6. /\ call' = [call EXCEPT ![c] = [at |-> cmd, cmd |-> cmd, child |-> None, era |-> e]]
      /\ cmd \in CallSteps
  BY <1>1, <1>3 DEF e, CallSteps
<1>7. call' \in [Callers -> [at : CallSteps, cmd : Commands \union {"none"},
                             child : Sups \union {None}, era : Nat]]
  <2>1. [at |-> cmd, cmd |-> cmd, child |-> None, era |-> e]
          \in [at : CallSteps, cmd : Commands \union {"none"},
               child : Sups \union {None}, era : Nat]
    BY <1>4, <1>5, <1>6
  <2>2. QED
    BY <1>2, <1>6, <2>1 DEF TypeOK
<1>8. \A d \in Callers :
        call'[d] = IF d = c THEN [at |-> cmd, cmd |-> cmd, child |-> None, era |-> e]
                            ELSE call[d]
  BY <1>2, <1>6 DEF TypeOK
<1>9. CallEras'
  BY <1>2, <1>4, <1>5, <1>8 DEF CallEras
<1>10. OwnSteps'
  <2>1. cmd \in StepsOf(cmd)
    BY <1>3 DEF StepsOf
  <2>2. QED
    BY <1>2, <1>8, <2>1 DEF OwnSteps
<1>11. TypeOK'
  BY <1>2, <1>4, <1>7 DEF TypeOK, Invoke
<1>12. Counts'
  BY <1>2 DEF Invoke, Counts
<1>13. QED
  BY <1>9, <1>10, <1>11, <1>12 DEF TypeInv

LEMMA AgentTypesKept ==
  ASSUME TypeInv, AgentExits \/ AgentAsksRestart
  PROVE  TypeInv'
<1>1. TypeOK'
  BY DEF TypeInv, TypeOK, AgentExits, AgentAsksRestart
<1>2. QED
  BY <1>1 DEF TypeInv, Counts, CallEras, OwnSteps, AgentExits, AgentAsksRestart

LEMMA TypesKept ==
  ASSUME TypeInv, [Next]_vars
  PROVE  TypeInv'
<1>1. CASE UNCHANGED vars
  BY <1>1 DEF vars, TypeInv, TypeOK, Counts, CallEras, OwnSteps
<1>2. CASE Next
  BY <1>2, SupTypesKept, CallTypesKept, InvokeTypesKept, AgentTypesKept DEF Next
<1>3. QED
  BY <1>1, <1>2

LEMMA TypesInit ==
  ASSUME Init
  PROVE  TypeInv
<1>1. 0 \in 0 .. MaxFailures /\ 0 \in 0 .. MaxLaunches /\ MaxFailures # 0
  BY SupervisorAssumption
<1>2. TypeOK
  <2>1. /\ sup \in [Sups -> [at : SupSteps, adopt : BOOLEAN, era : Nat,
                            fails : 0 .. MaxFailures, exits : 0 .. MaxFailures]]
        /\ call \in [Callers -> [at : CallSteps, cmd : Commands \union {"none"},
                                 child : Sups \union {None}, era : Nat]]
    BY <1>1 DEF Init, SupSteps, CallSteps
  <2>2. /\ files \in [stop : BOOLEAN, detach : BOOLEAN, restart : BOOLEAN,
                      managed : BOOLEAN, args : BOOLEAN, state : BOOLEAN,
                      pid : Sups \union {None}, startup : Sups \union {None},
                      lock : Callers \union {None}]
        /\ session \in [is : {"none", "running", "dead"}, era : Nat]
    BY DEF Init, NoFiles, NoSession
  <2>3. launches \in 0 .. MaxLaunches /\ era \in Nat /\ ended \in 0 .. era
    BY <1>1 DEF Init
  <2>4. swept \in BOOLEAN
    BY DEF Init
  <2>5. QED
    BY <2>1, <2>2, <2>3, <2>4 DEF TypeOK
<1>3. Counts /\ CallEras
  BY <1>1 DEF Init, Counts, CallEras
<1>4. OwnSteps
  BY DEF Init, OwnSteps, StepsOf
<1>5. QED
  BY <1>2, <1>3, <1>4 DEF TypeInv

(* The state keeps its shape: the counts their limits, the eras their      *)
(* order, and every invocation the steps of the command it was started as. *)
THEOREM SupervisorTypes == Spec => []TypeInv
<1>1. Init => TypeInv
  BY TypesInit
<1>2. TypeInv /\ [Next]_vars => TypeInv'
  BY TypesKept
<1>3. QED
  BY <1>1, <1>2, PTL DEF Spec

-----------------------------------------------------------------------------
(***************************************************************************)
(* A step at a time: what an invocation's step, and a supervisor's, does   *)
(* to the others, which is nothing.                                        *)
(***************************************************************************)

LEMMA ThenMoves ==
  ASSUME TypeInv, NEW c \in Callers, NEW s, Then(c, s)
  PROVE  /\ \A d \in Callers : /\ call'[d].at = IF d = c THEN s ELSE call[d].at
                               /\ call'[d].cmd = call[d].cmd
                               /\ call'[d].child = call[d].child
                               /\ call'[d].era = call[d].era
  BY DEF TypeInv, TypeOK, Then

LEMMA GotoMoves ==
  ASSUME TypeInv, NEW p \in Sups, NEW s, Goto(p, s)
  PROVE  /\ \A q \in Sups : /\ sup'[q].at = IF q = p THEN s ELSE sup[q].at
                            /\ sup'[q].adopt = sup[q].adopt
                            /\ sup'[q].era = sup[q].era
  BY DEF TypeInv, TypeOK, Goto

-----------------------------------------------------------------------------
(***************************************************************************)
(* A detach marker always has somebody who will remove it: an invocation   *)
(* that waits for it to be taken, or looks whether it was.                 *)
(***************************************************************************)

Detaching == {c \in Callers : call[c].at \in {"detachWait", "detached"}}

DetachHasOwner == files.detach => Detaching # {}

LEMMA DetachOwned ==
  ASSUME TypeInv, DetachHasOwner, [Next]_vars
  PROVE  DetachHasOwner'
<1> SUFFICES ASSUME files'.detach PROVE Detaching' # {}
  BY DEF DetachHasOwner
<1>0. files \in [stop : BOOLEAN, detach : BOOLEAN, restart : BOOLEAN,
                 managed : BOOLEAN, args : BOOLEAN, state : BOOLEAN,
                 pid : Sups \union {None}, startup : Sups \union {None},
                 lock : Callers \union {None}]
  BY DEF TypeInv, TypeOK
<1>a. ASSUME UNCHANGED call, files'.detach => files.detach
      PROVE  Detaching' # {}
  BY <1>a DEF DetachHasOwner, Detaching
<1>b. CASE UNCHANGED vars
  BY <1>a, <1>b DEF vars
<1>c. CASE AgentExits \/ AgentAsksRestart
  BY <1>0, <1>a, <1>c DEF AgentExits, AgentAsksRestart
<1>1. ASSUME NEW p \in Sups, SupStep(p) \/ Interrupt(p) \/ Crash(p)
      PROVE  Detaching' # {}
  <2>1. UNCHANGED call /\ (files'.detach => files.detach)
    BY <1>0, <1>1
       DEF SupStep, RecordStarting, Guard, Refuse, Publish, TopStop, TopDetach,
           TopLaunch, Launch, ClaimSession, LaunchFails, PollStop, PollDetach,
           PollNothing, LookRestart, LookNothing, LookExit, LookUnreadable,
           TakeRestart, Halt, EndSession, CleanUp, Leave, Interrupt, Crash,
           Cleaned, NoFiles
  <2>2. QED
    BY <1>a, <2>1
<1>2. ASSUME NEW c \in Callers, Invoke(c)
      PROVE  Detaching' # {}
  <2>1. \A d \in Callers \ {c} : call'[d] = call[d]
    BY <1>2 DEF Invoke, TypeInv, TypeOK
  <2>2. call[c].at = "unborn" /\ files' = files
    BY <1>2 DEF Invoke
  <2>3. QED
    BY <2>1, <2>2 DEF DetachHasOwner, Detaching
<1>3. ASSUME NEW c \in Callers, CallStep(c)
      PROVE  Detaching' # {}
  <2>1. CASE Detach(c)
    <3>1. Then(c, "detachWait")
      BY <2>1 DEF Detach, Set
    <3>2. call'[c].at = "detachWait"
      BY <3>1, ThenMoves
    <3>3. QED
      BY <3>2 DEF Detaching
  <2>2. CASE DetachWait(c)
    <3>1. Then(c, "detached")
      BY <2>2 DEF DetachWait, SeeNobody
    <3>2. call'[c].at = "detached"
      BY <3>1, ThenMoves
    <3>3. QED
      BY <3>2 DEF Detaching
  <2>3. CASE DetachTimesOut(c) \/ Detached(c)
    BY <1>0, <2>3 DEF DetachTimesOut, Detached, Set
  <2>4. CASE Tidy(c) \/ Forget(c)
    BY <2>4 DEF Tidy, Forget, NoFiles
  <2>5. ASSUME c \notin Detaching, files'.detach => files.detach,
               \A d \in Callers \ {c} : call'[d].at = call[d].at
        PROVE  Detaching' # {}
    BY <2>5 DEF DetachHasOwner, Detaching
  <2>6. CASE Spawn(c)
    <3>1. \A d \in Callers \ {c} : call'[d].at = call[d].at
      BY <2>6 DEF Spawn, TypeInv, TypeOK
    <3>2. QED
      BY <2>5, <2>6, <3>1 DEF Spawn, Detaching
  <2>7. ASSUME NEW s, Then(c, s), c \notin Detaching, files'.detach => files.detach
        PROVE  Detaching' # {}
    BY <2>5, <2>7, ThenMoves
  <2>8. ASSUME NEW answer, files' = Pruned(answer)
        PROVE  files'.detach => files.detach
    BY <1>0, <2>8 DEF Pruned
  <2>9. ASSUME NEW present, NEW absent, Ask(c, present, absent), c \notin Detaching
        PROVE  Detaching' # {}
    BY <2>7, <2>8, <2>9 DEF Ask
  <2>10. ASSUME NEW s, SeeNobody(c, s), c \notin Detaching
         PROVE  Detaching' # {}
    BY <2>7, <2>8, <2>10 DEF SeeNobody
  <2>11. CASE Start(c) \/ StopLook(c) \/ Recheck(c) \/ StopLoop(c) \/ RestartLook(c)
    BY <2>9, <2>11 DEF Start, StopLook, Recheck, StopLoop, RestartLook, Detaching
  <2>12. CASE StopWait(c)
    BY <2>10, <2>12 DEF StopWait, Detaching
  <2>13. CASE Kill(c) \/ StopSession(c)
    BY <2>7, <2>13 DEF Kill, StopSession, Detaching
  <2>14. CASE Record(c) \/ StopTouch(c) \/ StopTimesOut(c) \/ Withdraw(c) \/ Lock(c)
                \/ Check(c) \/ Confirm(c) \/ Unlock(c)
    BY <1>0, <2>7, <2>14
       DEF Record, StopTouch, StopTimesOut, Withdraw, Lock, Check, Confirm, Unlock,
           Set, Detaching
  <2>15. QED
    BY <1>3, <2>1, <2>2, <2>3, <2>4, <2>6, <2>11, <2>12, <2>13, <2>14 DEF CallStep
<1>4. QED
  BY <1>b, <1>c, <1>1, <1>2, <1>3 DEF Next

(* _request_supervisor_stop: a detach marker never outlives the requests   *)
(* and the supervisor they were for, whatever is killed or times out.      *)
THEOREM NoMarkerIsLeft == Spec => []NoStrandedDetach
<1>1. Init => DetachHasOwner
  BY DEF Init, NoFiles, DetachHasOwner
<1>2. TypeInv /\ DetachHasOwner /\ [Next]_vars => DetachHasOwner'
  BY DetachOwned
<1>3. DetachHasOwner => NoStrandedDetach
  BY DEF DetachHasOwner, NoStrandedDetach, Detaching
<1>4. QED
  BY <1>1, <1>2, <1>3, SupervisorTypes, PTL DEF Spec

-----------------------------------------------------------------------------
(***************************************************************************)
(* One supervisor. The commands keep it by looking before they spawn, and  *)
(* what they look at are two files. So the invariant says who is behind    *)
(* the files: a supervisor that runs is the published one, the starting    *)
(* one, or the child of an invocation about to record it; and an           *)
(* invocation that saw nobody there is right until it has spawned.         *)
(*                                                                         *)
(* Two things are needed of the world. Starts do not overlap with each     *)
(* other or with a restart-loop (nothing in the code keeps them apart; a   *)
(* restart-loop has its lock), and no clean-up sweeps a record away.       *)
(***************************************************************************)

StartsAreApart == {"start"} \in Apart /\ {"start", "restart-loop"} \in Apart

Active(c) == call[c].at \notin {"unborn", "done"}

KeptApart ==
  \A c, d \in Callers :
    (c # d /\ Active(c) /\ Active(d)) => {call[c].cmd, call[d].cmd} \notin Apart

InLock(c) == call[c].cmd = "restart-loop" /\ call[c].at \notin {"restart-loop", "done"}

Locked == \A c \in Callers : InLock(c) => files.lock = c

Nobody == \A p \in Sups : ~ Alive(p)

SawNobody(c) ==
  \/ call[c].at = "spawn"
  \/ call[c].cmd = "restart-loop" /\ call[c].at \in {"detached", "check"}

Clear == \A c \in Callers : SawNobody(c) => Nobody

OnlyChild ==
  \A c \in Callers : call[c].at = "record" =>
    \A p \in Sups : Alive(p) => p = call[c].child

ChildOf(p) == {c \in Callers : call[c].at = "record" /\ call[c].child = p}

Recorded ==
  \A p \in Sups : Alive(p) => p \in {files.pid, files.startup} \/ ChildOf(p) # {}

Alone == \A p, q \in Sups : Alive(p) /\ Alive(q) => p = q

(* A supervisor that is about to launch has nothing to lose.               *)
AboutToLaunch(p) ==
  sup[p].at \in {"top", "launch"} \/ (sup[p].at = "publish" /\ ~ sup[p].adopt)

Empty == \A p \in Sups : AboutToLaunch(p) => session.is # "running"

Unswept == Locked /\ Clear /\ OnlyChild /\ Recorded /\ Alone /\ Empty

OneInv == KeptApart /\ (~ swept => Unswept)

(* At most one invocation is in a position to spawn.                       *)
Keeper(c) == InLock(c) \/ (call[c].cmd = "start" /\ Active(c))

LEMMA OneKeeper ==
  ASSUME TypeInv, StartsAreApart, KeptApart, Locked,
         NEW c \in Callers, NEW d \in Callers, Keeper(c), Keeper(d)
  PROVE  c = d
<1>1. /\ {"start", "start"} = {"start"}
      /\ {"restart-loop", "start"} = {"start", "restart-loop"}
  OBVIOUS
<1>2. ASSUME NEW e \in Callers, InLock(e) PROVE Active(e)
  BY <1>2 DEF TypeInv, OwnSteps, StepsOf, InLock, Active
<1>3. QED
  BY <1>1, <1>2 DEF StartsAreApart, KeptApart, Locked, Keeper, InLock

LEMMA OwnCommand ==
  ASSUME TypeInv, NEW c \in Callers
  PROVE  /\ call[c].at \in StepsOf(call[c].cmd)
         /\ call[c].cmd \in {"none", "start", "stop", "stop-loop", "restart-loop",
                             "stop-session", "forget"}
  BY SupervisorAssumption DEF TypeInv, TypeOK, OwnSteps

LEMMA SpawnersKeep ==
  ASSUME TypeInv, NEW c \in Callers, SawNobody(c) \/ call[c].at = "record"
  PROVE  Keeper(c)
  BY OwnCommand DEF StepsOf, SawNobody, Keeper, InLock, Active

-----------------------------------------------------------------------------
(* An invocation's step moves that invocation, within its command.         *)
LEMMA CallMoves ==
  ASSUME TypeInv, NEW c \in Callers, CallStep(c)
  PROVE  /\ Active(c)
         /\ \A d \in Callers : /\ call'[d].cmd = call[d].cmd
                               /\ call'[d].era = call[d].era
                               /\ d # c => call'[d] = call[d]
         /\ swept => swept'
<1>1. ASSUME NEW s, Then(c, s)
      PROVE  \A d \in Callers : /\ call'[d].cmd = call[d].cmd
                                /\ call'[d].era = call[d].era
                                /\ d # c => call'[d] = call[d]
  BY <1>1 DEF TypeInv, TypeOK, Then
<1>2. CASE Spawn(c)
  BY <1>2 DEF Spawn, TypeInv, TypeOK, Active
<1>3. CASE ~ Spawn(c)
  <2>a. ASSUME NEW s, NEW f, Set(c, f, s) PROVE \E t : Then(c, t)
    BY <2>a DEF Set
  <2>b. ASSUME NEW s, NEW t, Ask(c, s, t) PROVE \E u : Then(c, u)
    BY <2>b DEF Ask
  <2>c. ASSUME NEW s, SeeNobody(c, s) PROVE \E t : Then(c, t)
    BY <2>c DEF SeeNobody
  <2>1. \E s : Then(c, s)
    <3>1. CASE Start(c) \/ StopLook(c) \/ Recheck(c) \/ StopLoop(c) \/ RestartLook(c)
      BY <2>b, <3>1 DEF Start, StopLook, Recheck, StopLoop, RestartLook
    <3>2. CASE StopWait(c) \/ DetachWait(c)
      BY <2>c, <3>2 DEF StopWait, DetachWait
    <3>3. CASE Record(c) \/ StopTouch(c) \/ StopTimesOut(c) \/ Withdraw(c)
      BY <2>a, <3>3 DEF Record, StopTouch, StopTimesOut, Withdraw
    <3>4. CASE Lock(c) \/ Detach(c) \/ DetachTimesOut(c) \/ Detached(c)
      BY <2>a, <3>4 DEF Lock, Detach, DetachTimesOut, Detached
    <3>5. CASE Check(c) \/ Confirm(c) \/ Unlock(c)
      BY <2>a, <3>5 DEF Check, Confirm, Unlock
    <3>6. CASE Kill(c) \/ Tidy(c) \/ StopSession(c) \/ Forget(c)
      BY <3>6 DEF Kill, Tidy, StopSession, Forget
    <3>7. QED
      BY <1>3, <3>1, <3>2, <3>3, <3>4, <3>5, <3>6 DEF CallStep
  <2>2. Active(c)
    BY DEF CallStep, Start, Record, StopTouch, StopLook, StopWait, StopTimesOut, Recheck,
           Withdraw, Kill, Tidy, StopLoop, Lock, RestartLook, Detach, DetachWait,
           DetachTimesOut, Detached, Check, Confirm, Unlock, StopSession, Forget,
           Spawn, Active
  <2>d. swept => swept'
    <3>1. CASE Tidy(c) \/ Forget(c)
      BY <3>1 DEF Tidy, Forget
    <3>2. CASE ~ (Tidy(c) \/ Forget(c))
      BY <3>2
         DEF CallStep, Start, Record, StopTouch, StopLook, StopWait, StopTimesOut, Recheck,
             Withdraw, Kill, StopLoop, Lock, RestartLook, Detach, DetachWait,
             DetachTimesOut, Detached, Check, Confirm, Unlock, StopSession, Spawn,
             Ask, SeeNobody, Set
    <3>3. QED
      BY <3>1, <3>2
  <2>3. QED
    BY <1>1, <2>1, <2>2, <2>d
<1>4. QED
  BY <1>2, <1>3

LEMMA StaysApart ==
  ASSUME TypeInv, KeptApart, NEW c \in Callers, CallStep(c)
  PROVE  KeptApart'
<1>1. \A d \in Callers : /\ call'[d].cmd = call[d].cmd
                         /\ Active(d)' => Active(d)
  BY CallMoves DEF Active
<1>2. QED
  BY <1>1 DEF KeptApart

LEMMA InvokeStaysApart ==
  ASSUME TypeInv, KeptApart, NEW c \in Callers, Invoke(c)
  PROVE  KeptApart'
<1>1. PICK cmd \in Commands :
        /\ BarredBy(cmd) = {}
        /\ \E e : call' = [call EXCEPT ![c] = [at |-> cmd, cmd |-> cmd, child |-> None,
                                               era |-> e]]
  BY DEF Invoke
<1>2. /\ call'[c].cmd = cmd
      /\ \A d \in Callers \ {c} : call'[d] = call[d]
  BY <1>1 DEF TypeInv, TypeOK
<1>3. \A d \in Callers : Active(d) => {cmd, call[d].cmd} \notin Apart
  BY <1>1 DEF BarredBy, Active
<1>4. \A x, y : {x, y} = {y, x}
  OBVIOUS
<1>5. SUFFICES ASSUME NEW d \in Callers, NEW e \in Callers, d # e, Active(d)', Active(e)'
               PROVE  {call'[d].cmd, call'[e].cmd} \notin Apart
  BY DEF KeptApart
<1>6. CASE d = c
  BY <1>2, <1>3, <1>5, <1>6 DEF Active
<1>7. CASE e = c
  BY <1>2, <1>3, <1>4, <1>5, <1>7 DEF Active
<1>8. CASE d # c /\ e # c
  BY <1>2, <1>5, <1>8 DEF Active, KeptApart
<1>9. QED
  BY <1>6, <1>7, <1>8

-----------------------------------------------------------------------------
(* A supervisor's step: the others are left where they are, ...            *)
LEMMA SupMoves ==
  ASSUME TypeInv, NEW p \in Sups, SupStep(p) \/ Interrupt(p) \/ Crash(p)
  PROVE  /\ Alive(p)
         /\ \A q \in Sups \ {p} : sup'[q] = sup[q]
         /\ sup'[p].adopt = sup[p].adopt
         /\ UNCHANGED <<call, era, ended>>
         /\ swept => swept'
<1>1. Alive(p)
  BY DEF SupStep, RecordStarting, Guard, Publish, TopStop, TopDetach, TopLaunch,
         Launch, ClaimSession, LaunchFails, PollStop, PollDetach, PollNothing,
         LookRestart, LookNothing, LookExit, LookUnreadable, TakeRestart, Halt,
         EndSession, CleanUp, Leave, Interrupt, Crash, Alive
<1>2. UNCHANGED <<call, era, ended>> /\ (swept => swept')
  <2>1. CASE CleanUp(p)
    BY <2>1 DEF CleanUp
  <2>2. CASE ~ CleanUp(p)
    BY <2>2
       DEF SupStep, RecordStarting, Guard, Publish, TopStop, TopDetach, TopLaunch,
           Launch, ClaimSession, LaunchFails, PollStop, PollDetach, PollNothing,
           LookRestart, LookNothing, LookExit, LookUnreadable, TakeRestart, Halt,
           EndSession, Leave, Interrupt, Crash
  <2>3. QED
    BY <2>1, <2>2
<1>3. (\A q \in Sups \ {p} : sup'[q] = sup[q]) /\ sup'[p].adopt = sup[p].adopt
  <2>1. ASSUME NEW s, Goto(p, s)
        PROVE  (\A q \in Sups \ {p} : sup'[q] = sup[q]) /\ sup'[p].adopt = sup[p].adopt
    BY <2>1 DEF Goto, TypeInv, TypeOK
  <2>2. CASE Guard(p)
    BY <2>1, <2>2 DEF Guard, Refuse, TypeInv, TypeOK
  <2>3. CASE ClaimSession(p) \/ LaunchFails(p) \/ LookRestart(p) \/ LookExit(p)
    BY <2>3 DEF ClaimSession, LaunchFails, LookRestart, LookExit, TypeInv, TypeOK
  <2>4. CASE RecordStarting(p) \/ Publish(p) \/ TopStop(p) \/ TopDetach(p) \/ TopLaunch(p)
               \/ Launch(p) \/ PollStop(p) \/ PollDetach(p) \/ PollNothing(p)
               \/ LookNothing(p) \/ LookUnreadable(p) \/ TakeRestart(p) \/ Halt(p)
               \/ EndSession(p) \/ CleanUp(p) \/ Leave(p) \/ Interrupt(p) \/ Crash(p)
    BY <2>1, <2>4
       DEF RecordStarting, Publish, TopStop, TopDetach, TopLaunch, Launch, PollStop,
           PollDetach, PollNothing, LookNothing, LookUnreadable, TakeRestart, Halt,
           EndSession, CleanUp, Leave, Interrupt, Crash
  <2>5. QED
    BY <2>2, <2>3, <2>4 DEF SupStep
<1>4. QED
  BY <1>1, <1>2, <1>3

(* ... a record is removed only by the supervisor that goes, and a lock by *)
(* none, unless the clean-up swept it away.                                *)
LEMMA SupRecords ==
  ASSUME TypeInv, NEW p \in Sups, SupStep(p) \/ Interrupt(p) \/ Crash(p)
  PROVE  /\ ~ swept' => files'.lock = files.lock
         /\ Alive(p)' => \/ files'.pid = files.pid /\ files'.startup = files.startup
                         \/ p \in {files'.pid, files'.startup}
<1>1. files \in [stop : BOOLEAN, detach : BOOLEAN, restart : BOOLEAN,
                 managed : BOOLEAN, args : BOOLEAN, state : BOOLEAN,
                 pid : Sups \union {None}, startup : Sups \union {None},
                 lock : Callers \union {None}]
  BY DEF TypeInv, TypeOK
<1>2. ASSUME Goto(p, "gone") PROVE ~ Alive(p)'
  BY <1>2, GotoMoves DEF Alive
<1>3. CASE CleanUp(p) \/ Leave(p)
  BY <1>1, <1>2, <1>3 DEF CleanUp, Leave, Cleaned, NoFiles, InUse
<1>4. CASE Guard(p)
  BY <1>1, <1>2, <1>4 DEF Guard, Refuse
<1>5. CASE RecordStarting(p) \/ Publish(p)
  BY <1>1, <1>5 DEF RecordStarting, Publish
<1>6. CASE ~ (CleanUp(p) \/ Leave(p) \/ Guard(p) \/ RecordStarting(p) \/ Publish(p))
  BY <1>1, <1>6
     DEF SupStep, TopStop, TopDetach, TopLaunch, Launch, ClaimSession, LaunchFails,
         PollStop, PollDetach, PollNothing, LookRestart, LookNothing, LookExit,
         LookUnreadable, TakeRestart, Halt, EndSession, Interrupt, Crash
<1>7. QED
  BY <1>3, <1>4, <1>5, <1>6

(* It is about to launch only where it has seen to it that nothing runs.   *)
LEMMA SupLaunchesEmpty ==
  ASSUME TypeInv, NEW p \in Sups, SupStep(p) \/ Interrupt(p) \/ Crash(p),
         AboutToLaunch(p) => session.is # "running", AboutToLaunch(p)'
  PROVE  session'.is # "running"
<1>1. sup' \in [Sups -> [at : SupSteps, adopt : BOOLEAN, era : Nat,
                        fails : 0 .. MaxFailures, exits : 0 .. MaxFailures]]
  BY SupTypesKept DEF TypeInv, TypeOK
<1>2. ASSUME NEW s, Goto(p, s)
      PROVE  sup'[p].at = s /\ sup'[p].adopt = sup[p].adopt
  BY <1>2, GotoMoves
<1>3. CASE Guard(p)
  <2>1. CASE MayStart(p)
    <3>1. sup'[p].at = "publish" /\ sup'[p].adopt = sup[p].adopt /\ session' = session
      BY <1>3, <2>1 DEF Guard, TypeInv, TypeOK
    <3>2. QED
      BY <2>1, <3>1 DEF AboutToLaunch, MayStart
  <2>2. CASE ~ MayStart(p)
    BY <1>2, <1>3, <2>2 DEF Guard, Refuse, AboutToLaunch
  <2>3. QED
    BY <2>1, <2>2
<1>4. CASE Publish(p)
  BY <1>2, <1>4 DEF Publish, AboutToLaunch
<1>5. CASE TopLaunch(p)
  BY <1>5 DEF TopLaunch, AboutToLaunch
<1>6. CASE LaunchFails(p)
  BY <1>6 DEF LaunchFails, NoSession
<1>7. CASE Halt(p)
  BY <1>7 DEF Halt, Halted, NoSession, TypeInv, TypeOK
<1>8. ASSUME sup'[p].at \notin {"publish", "top", "launch"}
      PROVE  FALSE
  BY <1>8 DEF AboutToLaunch
<1>9. CASE ClaimSession(p)
  BY <1>8, <1>9 DEF ClaimSession, TypeInv, TypeOK
<1>10. CASE LookRestart(p)
  BY <1>8, <1>10 DEF LookRestart, TypeInv, TypeOK
<1>11. CASE LookExit(p)
  BY <1>8, <1>11 DEF LookExit, TypeInv, TypeOK
<1>12. CASE RecordStarting(p) \/ TopStop(p) \/ TopDetach(p) \/ Launch(p) \/ PollStop(p)
              \/ PollDetach(p) \/ PollNothing(p) \/ LookNothing(p) \/ LookUnreadable(p)
              \/ TakeRestart(p) \/ EndSession(p) \/ CleanUp(p) \/ Leave(p)
              \/ Interrupt(p) \/ Crash(p)
  BY <1>2, <1>8, <1>12
     DEF RecordStarting, TopStop, TopDetach, Launch, PollStop, PollDetach, PollNothing,
         LookNothing, LookUnreadable, TakeRestart, EndSession, CleanUp, Leave,
         Interrupt, Crash
<1>13. QED
  BY <1>3, <1>4, <1>5, <1>6, <1>7, <1>9, <1>10, <1>11, <1>12 DEF SupStep

LEMMA SupStaysOne ==
  ASSUME TypeInv, OneInv, NEW p \in Sups, SupStep(p) \/ Interrupt(p) \/ Crash(p)
  PROVE  OneInv'
<1>1. /\ Alive(p) /\ UNCHANGED call /\ (swept => swept')
      /\ \A q \in Sups \ {p} : sup'[q] = sup[q]
  BY SupMoves
<1>2. KeptApart'
  BY <1>1 DEF OneInv, KeptApart, Active
<1>3. SUFFICES ASSUME ~ swept' PROVE Unswept'
  BY <1>2 DEF OneInv
<1>4. Unswept
  BY <1>1, <1>3 DEF OneInv
<1>5. \A q \in Sups : q # p => ~ Alive(q) /\ ~ Alive(q)' /\ ~ AboutToLaunch(q)'
  <2>1. \A q \in Sups : q # p => ~ Alive(q)
    BY <1>1, <1>4 DEF Unswept, Alone
  <2>2. QED
    BY <1>1, <2>1 DEF Alive, AboutToLaunch
<1>6. Locked'
  BY <1>1, <1>3, <1>4, SupRecords DEF Unswept, Locked, InLock
<1>7. Clear' /\ OnlyChild' /\ Alone'
  <2>1. \A q \in Sups : Alive(q)' => Alive(q)
    BY <1>1, <1>5
  <2>2. \A c \in Callers : SawNobody(c)' <=> SawNobody(c)
    BY <1>1 DEF SawNobody
  <2>3. QED
    BY <1>1, <1>4, <2>1, <2>2 DEF Unswept, Clear, OnlyChild, Alone, Nobody
<1>8. Recorded'
  <2>1. SUFFICES ASSUME Alive(p)'
                 PROVE  p \in {files'.pid, files'.startup} \/ ChildOf(p)' # {}
    BY <1>5 DEF Recorded
  <2>2. p \in {files.pid, files.startup} \/ ChildOf(p) # {}
    BY <1>1, <1>4 DEF Unswept, Recorded
  <2>3. ChildOf(p)' = ChildOf(p)
    BY <1>1 DEF ChildOf
  <2>4. QED
    BY <2>1, <2>2, <2>3, SupRecords
<1>9. Empty'
  BY <1>4, <1>5, SupLaunchesEmpty DEF Unswept, Empty
<1>10. QED
  BY <1>6, <1>7, <1>8, <1>9 DEF Unswept

-----------------------------------------------------------------------------
(* Who is there. A reader's pruning drops no record of a supervisor that   *)
(* runs, and the answer "nobody" is right unless a child is unrecorded.    *)
LEMMA PruningKeepsRecords ==
  ASSUME TypeInv, NEW answer \in Present, files' = Pruned(answer)
  PROVE  /\ files'.lock = files.lock
         /\ \A p \in Sups : (Alive(p) /\ p \in {files.pid, files.startup})
                              => p \in {files'.pid, files'.startup}
<1>1. /\ files'.lock = files.lock /\ files'.pid = PublishedPid
      /\ files'.startup = IF answer = None THEN None ELSE files.startup
  BY DEF TypeInv, TypeOK, Pruned
<1>2. ASSUME NEW p \in Sups, Alive(p), p = files.pid
      PROVE  p = files'.pid
  BY <1>1, <1>2, SupervisorAssumption DEF PublishedPid
<1>3. ASSUME NEW p \in Sups, Alive(p), p = files.startup
      PROVE  p \in {files'.pid, files'.startup}
  <2>1. CASE PublishedPid = None
    BY <1>1, <1>3, <2>1, SupervisorAssumption DEF Present
  <2>2. CASE PublishedPid # None
    BY <1>1, <1>3, <2>2, SupervisorAssumption DEF Present
  <2>3. QED
    BY <2>1, <2>2
<1>4. QED
  BY <1>1, <1>2, <1>3

LEMMA NobodyIsThere ==
  ASSUME TypeInv, None \in Present, Recorded, \A c \in Callers : call[c].at # "record"
  PROVE  Nobody
<1>1. SUFFICES ASSUME NEW p \in Sups, Alive(p) PROVE FALSE
  BY DEF Nobody
<1>2. p \in {files.pid, files.startup}
  BY <1>1 DEF Recorded, ChildOf
<1>3. p # files.pid
  BY <1>1, SupervisorAssumption DEF Present, PublishedPid, TypeInv, TypeOK
<1>4. p # files.startup
  BY <1>1, SupervisorAssumption DEF Present, PublishedPid, TypeInv, TypeOK
<1>5. QED
  BY <1>2, <1>3, <1>4

(* A keeper that sees nobody is right: no other invocation has a child     *)
(* that is not on record.                                                  *)
LEMMA KeeperSeesRight ==
  ASSUME TypeInv, StartsAreApart, KeptApart, Unswept, NEW c \in Callers, Keeper(c),
         call[c].at # "record", None \in Present
  PROVE  Nobody
<1>1. \A d \in Callers : call[d].at # "record"
  BY SpawnersKeep, OneKeeper DEF Unswept
<1>2. QED
  BY <1>1, NobodyIsThere DEF Unswept

(* A step that spawns nobody, drops no record of a supervisor that runs    *)
(* and takes no lock.                                                      *)
LEMMA CalmStep ==
  ASSUME TypeInv, Unswept, NEW c \in Callers, NEW s, Then(c, s), sup' = sup,
         session'.is = "running" => session.is = "running",
         files'.lock = files.lock,
         \A p \in Sups : (Alive(p) /\ p \in {files.pid, files.startup})
                           => p \in {files'.pid, files'.startup},
         call[c].at # "record", s # "record",
         InLock(c)' => InLock(c), SawNobody(c)' => Nobody
  PROVE  Unswept'
<1>1. \A d \in Callers : /\ call'[d].at = IF d = c THEN s ELSE call[d].at
                         /\ call'[d].cmd = call[d].cmd
                         /\ call'[d].child = call[d].child
  BY ThenMoves
<1>2. \A p \in Sups : /\ Alive(p)' <=> Alive(p)
                      /\ AboutToLaunch(p)' <=> AboutToLaunch(p)
                      /\ ChildOf(p)' = ChildOf(p)
  BY <1>1 DEF Alive, AboutToLaunch, ChildOf
<1>3. \A d \in Callers : d # c => /\ InLock(d)' <=> InLock(d)
                                  /\ SawNobody(d)' <=> SawNobody(d)
  BY <1>1 DEF InLock, SawNobody
<1>4. Locked'
  BY <1>3 DEF Unswept, Locked
<1>5. Clear'
  <2>1. Nobody' <=> Nobody
    BY <1>2 DEF Nobody
  <2>2. QED
    BY <1>3, <2>1 DEF Unswept, Clear
<1>6. OnlyChild'
  BY <1>1, <1>2 DEF Unswept, OnlyChild
<1>7. Recorded'
  BY <1>2 DEF Unswept, Recorded
<1>8. Alone' /\ Empty'
  BY <1>2 DEF Unswept, Alone, Empty
<1>9. QED
  BY <1>4, <1>5, <1>6, <1>7, <1>8 DEF Unswept

LEMMA SpawnStaysOne ==
  ASSUME TypeInv, StartsAreApart, KeptApart, Unswept, NEW c \in Callers, Spawn(c)
  PROVE  Unswept'
<1>1. PICK p \in Sups :
        /\ sup[p].at = "unborn"
        /\ sup' = [sup EXCEPT ![p] =
                     [@ EXCEPT !.at = "spawned", !.era = call[c].era,
                               !.adopt = call[c].cmd = "restart-loop"]]
        /\ call' = [call EXCEPT ![c].at = "record", ![c].child = p]
  BY DEF Spawn
<1>2. call[c].at = "spawn" /\ files' = files /\ session' = session
  BY DEF Spawn
<1>3. Nobody
  BY <1>2 DEF Unswept, Clear, SawNobody
<1>4. /\ sup'[p].at = "spawned" /\ \A q \in Sups \ {p} : sup'[q] = sup[q]
      /\ call'[c].at = "record" /\ call'[c].child = p /\ call'[c].cmd = call[c].cmd
      /\ \A d \in Callers \ {c} : call'[d] = call[d]
  BY <1>1 DEF TypeInv, TypeOK
<1>5. \A q \in Sups : Alive(q)' <=> q = p
  BY <1>3, <1>4 DEF Alive, Nobody
<1>6. \A d \in Callers : Keeper(d) => d = c
  BY <1>2, SpawnersKeep, OneKeeper DEF Unswept, SawNobody
<1>7. Locked'
  BY <1>2, <1>4 DEF Unswept, Locked, InLock
<1>8. Clear'
  <2>1. \A d \in Callers : ~ SawNobody(d)'
    BY <1>4, <1>6, SpawnersKeep DEF SawNobody
  <2>2. QED
    BY <2>1 DEF Clear
<1>9. OnlyChild'
  <2>1. \A d \in Callers : call'[d].at = "record" => d = c
    BY <1>4, <1>6, SpawnersKeep
  <2>2. QED
    BY <1>4, <1>5, <2>1 DEF OnlyChild
<1>10. Recorded' /\ Alone'
  BY <1>4, <1>5 DEF Recorded, ChildOf, Alone
<1>11. Empty'
  BY <1>2, <1>4 DEF Unswept, Empty, AboutToLaunch
<1>12. QED
  BY <1>7, <1>8, <1>9, <1>10, <1>11 DEF Unswept

LEMMA RecordStaysOne ==
  ASSUME TypeInv, StartsAreApart, KeptApart, Unswept, NEW c \in Callers, Record(c)
  PROVE  Unswept'
<1>1. /\ call[c].at = "record" /\ sup' = sup /\ session' = session
      /\ files' = [files EXCEPT !.startup = call[c].child]
      /\ Then(c, IF call[c].cmd = "start" THEN "done" ELSE "confirm")
  BY DEF Record, Set
<1>2. \A d \in Callers :
        /\ call'[d].at = IF d = c THEN IF call[c].cmd = "start" THEN "done" ELSE "confirm"
                                  ELSE call[d].at
        /\ call'[d].cmd = call[d].cmd /\ call'[d].child = call[d].child
  BY <1>1, ThenMoves
<1>3. \A p \in Sups : /\ Alive(p)' <=> Alive(p)
                      /\ Alive(p) => p = call[c].child
                      /\ AboutToLaunch(p)' <=> AboutToLaunch(p)
  BY <1>1 DEF Alive, AboutToLaunch, Unswept, OnlyChild
<1>4. files'.startup = call[c].child /\ files'.lock = files.lock
  BY <1>1 DEF TypeInv, TypeOK
<1>5. \A d \in Callers : (SawNobody(d)' \/ call'[d].at = "record") => d = c /\ FALSE
  <2>1. \A d \in Callers : (SawNobody(d) \/ call[d].at = "record") => d = c
    BY <1>1, SpawnersKeep, OneKeeper DEF Unswept
  <2>2. QED
    BY <1>2, <2>1 DEF SawNobody
<1>6. Locked'
  BY <1>1, <1>2, <1>4 DEF Unswept, Locked, InLock
<1>7. Clear' /\ OnlyChild'
  BY <1>5 DEF Clear, OnlyChild
<1>8. Recorded'
  BY <1>3, <1>4 DEF Recorded
<1>9. Alone' /\ Empty'
  BY <1>1, <1>3 DEF Unswept, Alone, Empty
<1>10. QED
  BY <1>6, <1>7, <1>8, <1>9 DEF Unswept

LEMMA LockStaysOne ==
  ASSUME TypeInv, Unswept, NEW c \in Callers, Lock(c)
  PROVE  Unswept'
<1>1. /\ call[c].at = "restart-loop" /\ sup' = sup /\ session' = session
      /\ files.lock \in Callers \union {None} /\ c # None
  BY SupervisorAssumption DEF Lock, Set, TypeInv, TypeOK
<1>2. CASE files.lock # None
  <2>1. Then(c, "done") /\ files' = files
    BY <1>2 DEF Lock, Set
  <2>2. call'[c].at = "done"
    BY <2>1, ThenMoves
  <2>3. QED
    BY <1>1, <2>1, <2>2, CalmStep DEF InLock, SawNobody
<1>3. CASE files.lock = None
  <2>1. /\ Then(c, "restartLook")
        /\ files'.lock = c /\ files'.pid = files.pid /\ files'.startup = files.startup
    BY <1>1, <1>3 DEF Lock, Set, TypeInv, TypeOK
  <2>2. \A d \in Callers : /\ call'[d].at = IF d = c THEN "restartLook" ELSE call[d].at
                           /\ call'[d].cmd = call[d].cmd
                           /\ call'[d].child = call[d].child
    BY <2>1, ThenMoves
  <2>3. \A p \in Sups : /\ Alive(p)' <=> Alive(p)
                        /\ AboutToLaunch(p)' <=> AboutToLaunch(p)
                        /\ ChildOf(p)' = ChildOf(p)
    BY <1>1, <2>2 DEF Alive, AboutToLaunch, ChildOf
  <2>4. Locked'
    <3>1. \A d \in Callers : ~ InLock(d)
      BY <1>3, SupervisorAssumption DEF Unswept, Locked
    <3>2. QED
      BY <2>1, <2>2, <3>1 DEF Locked, InLock
  <2>5. Clear' /\ OnlyChild'
    BY <2>2, <2>3 DEF Unswept, Clear, OnlyChild, SawNobody, Nobody
  <2>6. Recorded' /\ Alone' /\ Empty'
    BY <1>1, <2>1, <2>3 DEF Unswept, Recorded, Alone, Empty
  <2>7. QED
    BY <2>4, <2>5, <2>6 DEF Unswept
<1>4. QED
  BY <1>2, <1>3

LEMMA UnlockStaysOne ==
  ASSUME TypeInv, Unswept, NEW c \in Callers, Unlock(c)
  PROVE  Unswept'
<1>1. /\ call[c].at = "unlock" /\ Then(c, "done") /\ sup' = sup /\ session' = session
      /\ files'.pid = files.pid /\ files'.startup = files.startup
      /\ call[c].cmd # "restart-loop" => files'.lock = files.lock
  BY DEF Unlock, Set, TypeInv, TypeOK
<1>2. \A d \in Callers : /\ call'[d].at = IF d = c THEN "done" ELSE call[d].at
                         /\ call'[d].cmd = call[d].cmd
                         /\ call'[d].child = call[d].child
  BY <1>1, ThenMoves
<1>3. \A p \in Sups : /\ Alive(p)' <=> Alive(p)
                      /\ AboutToLaunch(p)' <=> AboutToLaunch(p)
                      /\ ChildOf(p)' = ChildOf(p)
  BY <1>1, <1>2 DEF Alive, AboutToLaunch, ChildOf
<1>4. Locked'
  <2>1. SUFFICES ASSUME NEW d \in Callers, InLock(d)' PROVE files'.lock = d
    BY DEF Locked
  <2>2. d # c /\ InLock(d)
    BY <1>2, <2>1 DEF InLock
  <2>3. call[c].cmd = "restart-loop" => InLock(c)
    BY <1>1 DEF InLock
  <2>4. QED
    BY <1>1, <2>2, <2>3 DEF Unswept, Locked
<1>5. Clear' /\ OnlyChild'
  BY <1>2, <1>3 DEF Unswept, Clear, OnlyChild, SawNobody, Nobody
<1>6. Recorded' /\ Alone' /\ Empty'
  BY <1>1, <1>3 DEF Unswept, Recorded, Alone, Empty
<1>7. QED
  BY <1>4, <1>5, <1>6 DEF Unswept

(* `operator stop` and `operator forget` remove every record: none that    *)
(* anybody relied on, as long as nothing is swept.                         *)
LEMMA TidyStaysOne ==
  ASSUME TypeInv, Unswept, ~ swept', NEW c \in Callers, Tidy(c) \/ Forget(c)
  PROVE  Unswept'
<1>1. /\ Then(c, "done") /\ sup' = sup /\ session' = session /\ files'.lock = None
      /\ call[c].at \in {"tidy", "forget"}
  BY DEF Tidy, Forget, NoFiles
<1>2. files.lock = None /\ \A p \in Sups : Alive(p) => p \notin {files.pid, files.startup}
  BY DEF Tidy, Forget, InUse
<1>3. call'[c].at = "done"
  BY <1>1, ThenMoves
<1>4. QED
  BY <1>1, <1>2, <1>3, CalmStep DEF InLock, SawNobody

LEMMA CallStaysOne ==
  ASSUME TypeInv, StartsAreApart, OneInv, NEW c \in Callers, CallStep(c)
  PROVE  OneInv'
<1>1. KeptApart' /\ (swept => swept')
  BY StaysApart, CallMoves DEF OneInv
<1>2. SUFFICES ASSUME ~ swept' PROVE Unswept'
  BY <1>1 DEF OneInv
<1>3. KeptApart /\ Unswept
  BY <1>1, <1>2 DEF OneInv
<1>4. ASSUME Nobody PROVE \A d \in Callers : SawNobody(d)' => Nobody
  BY <1>4
(* A step to s, where no file that counts is changed. *)
<1>5. ASSUME NEW s, Then(c, s), sup' = sup, session'.is = "running" => session.is = "running",
             files'.lock = files.lock,
             files'.pid = files.pid /\ files'.startup = files.startup,
             call[c].at # "record", s # "record",
             call[c].cmd = "restart-loop" /\ s # "done" => call[c].at # "restart-loop",
             s = "spawn" => Nobody,
             call[c].cmd = "restart-loop" /\ s \in {"detached", "check"} => Nobody
      PROVE  Unswept'
  <2>1. call'[c].at = s /\ call'[c].cmd = call[c].cmd
    BY <1>5, ThenMoves
  <2>2. InLock(c)' => InLock(c)
    BY <1>5, <2>1, CallMoves DEF InLock, Active
  <2>3. SawNobody(c)' => Nobody
    BY <1>5, <2>1 DEF SawNobody
  <2>4. QED
    BY <1>3, <1>5, <2>2, <2>3, CalmStep
(* A look, which may prune. *)
<1>6. ASSUME NEW answer \in Present, NEW s, files' = Pruned(answer), Then(c, s),
             UNCHANGED <<sup, session>>, call[c].at # "record", s # "record",
             call[c].at # "restart-loop",
             s \in {"spawn", "detached", "check"} => answer = None,
             s = "spawn" \/ (call[c].cmd = "restart-loop" /\ s \in {"detached", "check"})
               => Keeper(c)
      PROVE  Unswept'
  <2>1. call'[c].at = s /\ call'[c].cmd = call[c].cmd
    BY <1>6, ThenMoves
  <2>2. InLock(c)' => InLock(c)
    BY <1>6, <2>1, CallMoves DEF InLock, Active
  <2>3. SawNobody(c)' => Nobody
    BY <1>3, <1>6, <2>1, KeeperSeesRight DEF SawNobody
  <2>4. QED
    BY <1>3, <1>6, <2>2, <2>3, PruningKeepsRecords, CalmStep
<1>7. ASSUME NEW s, NEW t, Ask(c, s, t), call[c].at \notin {"record", "restart-loop"},
             s \notin {"record", "spawn", "detached", "check"}, t # "record",
             t = "spawn" \/ (call[c].cmd = "restart-loop" /\ t \in {"detached", "check"})
               => Keeper(c)
      PROVE  Unswept'
  <2>1. PICK answer \in Present :
          files' = Pruned(answer) /\ Then(c, IF answer = None THEN t ELSE s)
    BY <1>7 DEF Ask
  <2>2. UNCHANGED <<sup, session>>
    BY <1>7 DEF Ask
  <2>3. QED
    BY <1>6, <1>7, <2>1, <2>2
<1>8. ASSUME NEW s, SeeNobody(c, s), call[c].at \notin {"record", "restart-loop"},
             s \notin {"record", "spawn"},
             call[c].cmd = "restart-loop" => Keeper(c)
      PROVE  Unswept'
  <2>1. /\ None \in Present /\ files' = Pruned(None) /\ Then(c, s)
        /\ UNCHANGED <<sup, session>>
    BY <1>8 DEF SeeNobody
  <2>2. QED
    BY <1>6, <1>8, <2>1
<1>9. CASE Start(c)
  <2>1. Keeper(c)
    <3>1. call[c].at = "start"
      BY <1>9 DEF Start
    <3>2. QED
      BY <3>1, OwnCommand DEF StepsOf, Keeper, Active
  <2>2. QED
    BY <1>7, <1>9, <2>1 DEF Start
<1>10. CASE Spawn(c)
  BY <1>3, <1>10, SpawnStaysOne
<1>11. CASE Record(c)
  BY <1>3, <1>11, RecordStaysOne
<1>12. CASE StopLook(c) \/ Recheck(c) \/ StopLoop(c)
  BY <1>7, <1>12 DEF StopLook, Recheck, StopLoop
<1>13. CASE RestartLook(c)
  <2>1. call[c].cmd = "restart-loop" => Keeper(c)
    BY <1>13 DEF RestartLook, Keeper, InLock
  <2>2. QED
    BY <1>7, <1>13, <2>1 DEF RestartLook
<1>14. CASE StopWait(c) \/ DetachWait(c)
  <2>1. call[c].cmd = "restart-loop" => Keeper(c)
    BY <1>14 DEF StopWait, DetachWait, Keeper, InLock
  <2>2. QED
    BY <1>8, <1>14, <2>1 DEF StopWait, DetachWait
<1>15. CASE Lock(c)
  BY <1>3, <1>15, LockStaysOne
<1>16. CASE Unlock(c)
  BY <1>3, <1>16, UnlockStaysOne
<1>17. CASE Tidy(c) \/ Forget(c)
  BY <1>2, <1>3, <1>17, TidyStaysOne
<1>18. CASE StopTouch(c) \/ StopTimesOut(c) \/ Withdraw(c) \/ Detach(c) \/ DetachTimesOut(c)
  BY <1>5, <1>18
     DEF StopTouch, StopTimesOut, Withdraw, Detach, DetachTimesOut, Set, TypeInv, TypeOK
<1>19. CASE Detached(c) \/ Check(c)
  <2>1. call[c].cmd = "restart-loop" => Nobody
    BY <1>3, <1>19 DEF Detached, Check, Unswept, Clear, SawNobody
  <2>2. call[c].at = "check" => call[c].cmd = "restart-loop"
    BY OwnCommand DEF StepsOf
  <2>3. QED
    BY <1>5, <1>19, <2>1, <2>2 DEF Detached, Check, Set, TypeInv, TypeOK
<1>20. CASE Confirm(c)
  BY <1>5, <1>20 DEF Confirm, Set
<1>21. CASE Kill(c) \/ StopSession(c)
  BY <1>5, <1>21 DEF Kill, StopSession, NoSession
<1>22. QED
  BY <1>9, <1>10, <1>11, <1>12, <1>13, <1>14, <1>15, <1>16, <1>17, <1>18, <1>19,
     <1>20, <1>21 DEF CallStep

LEMMA InvokeStaysOne ==
  ASSUME TypeInv, OneInv, NEW c \in Callers, Invoke(c)
  PROVE  OneInv'
<1>1. KeptApart'
  BY InvokeStaysApart DEF OneInv
<1>2. /\ UNCHANGED <<sup, files, session, swept>>
      /\ call[c].at = "unborn"
      /\ \A d \in Callers \ {c} : call'[d] = call[d]
      /\ call'[c].cmd = call'[c].at
      /\ call'[c].at \in {"start", "stop", "stop-loop", "restart-loop",
                          "stop-session", "forget"}
  BY SupervisorAssumption DEF Invoke, TypeInv, TypeOK
<1>3. SUFFICES ASSUME Unswept PROVE Unswept'
  BY <1>1, <1>2 DEF OneInv
<1>4. \A p \in Sups : /\ Alive(p)' <=> Alive(p)
                      /\ AboutToLaunch(p)' <=> AboutToLaunch(p)
                      /\ ChildOf(p)' = ChildOf(p)
  BY <1>2 DEF Alive, AboutToLaunch, ChildOf
<1>5. Locked' /\ Clear' /\ OnlyChild'
  BY <1>2, <1>3, <1>4
     DEF Unswept, Locked, InLock, Clear, SawNobody, OnlyChild, Nobody
<1>6. Recorded' /\ Alone' /\ Empty'
  BY <1>2, <1>3, <1>4 DEF Unswept, Recorded, Alone, Empty
<1>7. QED
  BY <1>5, <1>6 DEF Unswept

LEMMA StaysOne ==
  ASSUME TypeInv, StartsAreApart, OneInv, [Next]_vars
  PROVE  OneInv'
<1>1. ASSUME UNCHANGED <<sup, call, swept>>, files'.lock = files.lock,
             files'.pid = files.pid, files'.startup = files.startup,
             session'.is = "running" => session.is = "running"
      PROVE  OneInv'
  <2>1. \A p \in Sups : /\ Alive(p)' <=> Alive(p)
                        /\ AboutToLaunch(p)' <=> AboutToLaunch(p)
                        /\ ChildOf(p)' = ChildOf(p)
    BY <1>1 DEF Alive, AboutToLaunch, ChildOf
  <2>2. Unswept => Locked' /\ Clear' /\ OnlyChild'
    BY <1>1, <2>1 DEF Unswept, Locked, InLock, Clear, SawNobody, OnlyChild, Nobody
  <2>3. Unswept => Recorded' /\ Alone' /\ Empty'
    BY <1>1, <2>1 DEF Unswept, Recorded, Alone, Empty
  <2>4. KeptApart'
    BY <1>1 DEF OneInv, KeptApart, Active
  <2>5. QED
    BY <1>1, <2>2, <2>3, <2>4 DEF OneInv, Unswept
<1>2. CASE UNCHANGED vars
  BY <1>1, <1>2 DEF vars
<1>3. CASE AgentExits \/ AgentAsksRestart
  BY <1>1, <1>3 DEF AgentExits, AgentAsksRestart, TypeInv, TypeOK
<1>4. CASE Next /\ ~ (AgentExits \/ AgentAsksRestart)
  BY <1>4, SupStaysOne, CallStaysOne, InvokeStaysOne DEF Next
<1>5. QED
  BY <1>2, <1>3, <1>4

LEMMA OneInit ==
  ASSUME Init
  PROVE  OneInv
<1>1. /\ \A c \in Callers : call[c].at = "unborn" /\ call[c].cmd = "none"
      /\ \A p \in Sups : sup[p].at = "unborn"
  BY DEF Init
<1>2. KeptApart
  BY <1>1 DEF KeptApart, Active
<1>3. Unswept
  BY <1>1 DEF Unswept, Locked, InLock, Clear, SawNobody, OnlyChild, Recorded, Alone,
              Empty, AboutToLaunch, Alive
<1>4. QED
  BY <1>2, <1>3 DEF OneInv

LEMMA OneInvHolds ==
  ASSUME StartsAreApart
  PROVE  Spec => [](TypeInv /\ OneInv)
<1>1. Init => OneInv
  BY OneInit
<1>2. TypeInv /\ OneInv /\ [Next]_vars => OneInv'
  BY StaysOne
<1>3. QED
  BY <1>1, <1>2, SupervisorTypes, PTL DEF Spec

(* Never two supervisors on one session, "each relaunching what the other  *)
(* killed": for any number of commands that overlap and supervisors that   *)
(* are killed, however waits run out, unless a record is swept away.       *)
THEOREM OneWatches ==
  ASSUME StartsAreApart
  PROVE  Spec => []OneSupervisor
<1>1. OneInv => OneSupervisor
  <2>1. SUFFICES ASSUME Alone PROVE Cardinality(Watching) <= 1
    BY DEF OneInv, Unswept, OneSupervisor
  <2>2. \A p, q \in Watching : p = q
    BY <2>1 DEF Alone, Watching, Alive
  <2>3. CASE Watching = {}
    BY <2>3, FS_EmptySet
  <2>4. CASE Watching # {}
    <3>1. PICK p : Watching = {p}
      BY <2>2, <2>4
    <3>2. Cardinality({p}) = 1
      BY FS_Singleton
    <3>3. QED
      BY <3>1, <3>2
  <2>5. QED
    BY <2>3, <2>4
<1>2. QED
  BY <1>1, OneInvHolds, PTL

(* start_session kills a session of that name: never an agent that runs.   *)
THEOREM NoLaunchKillsAnAgent ==
  ASSUME StartsAreApart
  PROVE  Spec => LaunchKillsNoAgent
<1>1. TypeInv /\ OneInv /\ [Next]_vars
        => [(launches' > launches /\ ~ swept) => session.is # "running"]_vars
  <2>1. SUFFICES ASSUME TypeInv, OneInv, Next, launches' > launches, ~ swept
                 PROVE  session.is # "running"
    OBVIOUS
  <2>2. launches' # launches
    BY <2>1 DEF TypeInv, TypeOK
  <2>3. PICK p \in Sups : Launch(p)
    <3>1. ASSUME NEW c \in Callers, CallStep(c) PROVE UNCHANGED launches
      BY <3>1
         DEF CallStep, Start, Spawn, Record, StopTouch, StopLook, StopWait, StopTimesOut,
             Recheck, Withdraw, Kill, Tidy, StopLoop, Lock, RestartLook, Detach,
             DetachWait, DetachTimesOut, Detached, Check, Confirm, Unlock, StopSession,
             Forget, Ask, SeeNobody, Set
    <3>2. ASSUME NEW p \in Sups, SupStep(p) \/ Interrupt(p) \/ Crash(p), ~ Launch(p)
          PROVE  UNCHANGED launches
      BY <3>2
         DEF SupStep, RecordStarting, Guard, Publish, TopStop, TopDetach, TopLaunch,
             ClaimSession, LaunchFails, PollStop, PollDetach, PollNothing,
             LookRestart, LookNothing, LookExit, LookUnreadable, TakeRestart, Halt,
             EndSession, CleanUp, Leave, Interrupt, Crash
    <3>3. QED
      BY <2>1, <2>2, <3>1, <3>2 DEF Next, Invoke, AgentExits, AgentAsksRestart
  <2>4. AboutToLaunch(p)
    BY <2>3 DEF Launch, AboutToLaunch
  <2>5. QED
    BY <2>1, <2>4 DEF OneInv, Unswept, Empty
<1>2. QED
  BY <1>1, OneInvHolds, PTL DEF Spec, LaunchKillsNoAgent

-----------------------------------------------------------------------------
(***************************************************************************)
(* A stop is final. Every start has an era, a stop covers the eras before  *)
(* those of the starts under way, and what a stop that saw nobody there    *)
(* can be surprised by are later starts. So from that look on, every       *)
(* supervisor that runs is of a later era than the stop covers, and so is  *)
(* every session after the kill; an adopter has the era of its session.    *)
(*                                                                         *)
(* For this the world must also keep a stop and a restart-loop apart, and  *)
(* answer before a wait runs out: with a wait that runs out a stop is not  *)
(* final, which the run stop_timeout shows.                                *)
(***************************************************************************)

StopsAreApart == {"stop", "restart-loop"} \in Apart

Stopping(c) == call[c].cmd = "stop" /\ Active(c)
Starting(c) == call[c].cmd = "start" /\ Active(c)

StopsBefore ==
  \A c, d \in Callers : Stopping(c) /\ Starting(d) => call[c].era < call[d].era

StartsLater == \A d \in Callers : Starting(d) => ended < call[d].era

(* An adopter that has not yet taken the era of the session it adopts: the *)
(* restart-loop that spawned it still waits for it.                        *)
Pending(p) == sup[p].adopt /\ sup[p].at \in {"spawned", "guard"}

Waiting(c, p) ==
  /\ call[c].cmd = "restart-loop"
  /\ call[c].at \in {"record", "confirm"}
  /\ call[c].child = p

PendingHasParent ==
  \A p \in Sups : Pending(p) => \E c \in Callers : Waiting(c, p)

ChildEra ==
  \A d \in Callers : (call[d].at = "record" /\ call[d].cmd = "start") =>
    /\ call[d].child \in Sups
    /\ ~ sup[call[d].child].adopt
    /\ sup[call[d].child].era = call[d].era

Early(p) == sup[p].at \in {"unborn", "spawned", "guard", "publish"}

Published == \A p \in Sups : files.pid = p => ~ Early(p)

SupsLater == \A p \in Sups : Alive(p) /\ ~ Pending(p) => ended < sup[p].era

SessionLater == session.is # "none" => ended < session.era

SupsAfter(c) == \A p \in Sups : Alive(p) => call[c].era < sup[p].era

Covers ==
  \A c \in Callers :
    /\ call[c].at \in {"recheck", "withdraw", "kill", "tidy"} => SupsAfter(c)
    /\ call[c].at = "tidy" /\ session.is # "none" => call[c].era < session.era

Settles ==
  /\ PendingHasParent /\ ChildEra /\ Published
  /\ SupsLater /\ SessionLater /\ Covers

EraInv == StopsBefore /\ StartsLater /\ (~ swept => Settles)

(* While a stop is under way no adopter is on its way.                     *)
LEMMA NoneIsPending ==
  ASSUME TypeInv, StopsAreApart, KeptApart, PendingHasParent,
         NEW c \in Callers, Stopping(c), NEW p \in Sups
  PROVE  ~ Pending(p) /\ \A d \in Callers : Active(d) => call[d].cmd # "restart-loop"
<1>1. \A d \in Callers : Active(d) => call[d].cmd # "restart-loop"
  BY DEF StopsAreApart, KeptApart, Stopping
<1>2. \A d \in Callers : Waiting(d, p) => Active(d)
  BY DEF Waiting, Active
<1>3. QED
  BY <1>1, <1>2 DEF PendingHasParent, Waiting

(* What a supervisor's step does to eras.                                  *)
LEMMA SupEras ==
  ASSUME TypeInv, NEW p \in Sups, SupStep(p) \/ Interrupt(p) \/ Crash(p)
  PROVE  /\ ~ sup[p].adopt => sup'[p].era = sup[p].era
         /\ Pending(p)' => Pending(p)
         /\ Pending(p) /\ ~ Pending(p)' /\ Alive(p)'
              => session.is # "none" /\ sup'[p].era = session.era
         /\ ~ Pending(p) => sup'[p].era = sup[p].era
         /\ Early(p)' => Early(p)
         /\ files'.pid \in {files.pid, None} \/ ~ Early(p)'
         /\ files'.pid \in {files.pid, None, p}
<1>1. ASSUME NEW s, Goto(p, s)
      PROVE  /\ sup'[p].at = s /\ sup'[p].adopt = sup[p].adopt
             /\ sup'[p].era = sup[p].era
  BY <1>1, GotoMoves
<1>2. files \in [stop : BOOLEAN, detach : BOOLEAN, restart : BOOLEAN,
                 managed : BOOLEAN, args : BOOLEAN, state : BOOLEAN,
                 pid : Sups \union {None}, startup : Sups \union {None},
                 lock : Callers \union {None}]
  BY DEF TypeInv, TypeOK
<1>3. CASE RecordStarting(p)
  BY <1>1, <1>2, <1>3 DEF RecordStarting, Pending, Early
<1>4. CASE Guard(p)
  <2>1. CASE MayStart(p)
    <3>1. /\ sup'[p].at = "publish" /\ sup'[p].adopt = sup[p].adopt
          /\ sup'[p].era = IF sup[p].adopt THEN session.era ELSE sup[p].era
          /\ sup[p].at = "guard" /\ files' = files
      BY <1>4, <2>1 DEF Guard, TypeInv, TypeOK
    <3>2. sup[p].adopt => session.is # "none"
      BY <2>1 DEF MayStart, Owned
    <3>3. QED
      BY <3>1, <3>2 DEF Pending, Early
  <2>2. CASE ~ MayStart(p)
    <3>1. /\ sup'[p].at = "gone" /\ sup'[p].era = sup[p].era
          /\ files'.pid = files.pid
      BY <1>1, <1>2, <1>4, <2>2 DEF Guard, Refuse
    <3>2. QED
      BY <3>1 DEF Pending, Early, Alive
  <2>3. QED
    BY <2>1, <2>2
<1>5. CASE Publish(p)
  BY <1>1, <1>2, <1>5 DEF Publish, Pending, Early
<1>6. CASE CleanUp(p) \/ Leave(p)
  <2>1. files'.pid = None
    BY <1>2, <1>6 DEF CleanUp, Leave, Cleaned, NoFiles
  <2>2. /\ sup'[p].at = "gone" /\ sup'[p].era = sup[p].era
        /\ sup[p].at \in {"cleanup", "leave"}
    BY <1>1, <1>6 DEF CleanUp, Leave
  <2>3. QED
    BY <2>1, <2>2 DEF Pending, Early
<1>7. CASE Crash(p)
  BY <1>1, <1>2, <1>7 DEF Crash, Pending, Early, Alive
(* The rest is past the start, and stays there. *)
<1>8. CASE ~ (RecordStarting(p) \/ Guard(p) \/ Publish(p) \/ CleanUp(p) \/ Leave(p)
              \/ Crash(p))
  <2>1. ~ Early(p) /\ files'.pid = files.pid
    BY <1>2, <1>8
       DEF SupStep, TopStop, TopDetach, TopLaunch, Launch, ClaimSession, LaunchFails,
           PollStop, PollDetach, PollNothing, LookRestart, LookNothing, LookExit,
           LookUnreadable, TakeRestart, Halt, EndSession, Interrupt, Early
  <2>2. ~ Early(p)' /\ sup'[p].era = sup[p].era
    <3>1. CASE ClaimSession(p) \/ LaunchFails(p) \/ LookRestart(p) \/ LookExit(p)
      BY <3>1
         DEF ClaimSession, LaunchFails, LookRestart, LookExit, Early, TypeInv, TypeOK
    <3>2. CASE ~ (ClaimSession(p) \/ LaunchFails(p) \/ LookRestart(p) \/ LookExit(p))
      BY <1>1, <1>8, <3>2
         DEF SupStep, TopStop, TopDetach, TopLaunch, Launch, PollStop, PollDetach,
             PollNothing, LookNothing, LookUnreadable, TakeRestart, Halt, EndSession,
             Interrupt, Early
    <3>3. QED
      BY <3>1, <3>2
  <2>3. QED
    BY <2>1, <2>2 DEF Early, Pending
<1>9. QED
  BY <1>3, <1>4, <1>5, <1>6, <1>7, <1>8

(* A session is of the era of the supervisor that launched it.             *)
LEMMA SupSessions ==
  ASSUME TypeInv, NEW p \in Sups, SupStep(p) \/ Interrupt(p) \/ Crash(p),
         session'.is # "none"
  PROVE  \/ session.is # "none" /\ session'.era = session.era
         \/ sup[p].at = "launch" /\ session'.era = sup[p].era
<1>1. CASE Launch(p)
  BY <1>1 DEF Launch
<1>2. CASE LaunchFails(p) \/ EndSession(p)
  BY <1>2 DEF LaunchFails, EndSession, NoSession
<1>3. CASE Halt(p)
  BY <1>3 DEF Halt, Halted, NoSession, TypeInv, TypeOK
<1>4. CASE ~ (Launch(p) \/ LaunchFails(p) \/ EndSession(p) \/ Halt(p))
  BY <1>4
     DEF SupStep, RecordStarting, Guard, Publish, TopStop, TopDetach, TopLaunch,
         ClaimSession, PollStop, PollDetach, PollNothing, LookRestart, LookNothing,
         LookExit, LookUnreadable, TakeRestart, CleanUp, Leave, Interrupt, Crash
<1>5. QED
  BY <1>1, <1>2, <1>3, <1>4

LEMMA SupKeepsEras ==
  ASSUME TypeInv, StopsAreApart, OneInv, EraInv,
         NEW p \in Sups, SupStep(p) \/ Interrupt(p) \/ Crash(p)
  PROVE  EraInv'
<1>1. /\ Alive(p) /\ UNCHANGED <<call, era, ended>> /\ (swept => swept')
      /\ \A q \in Sups \ {p} : sup'[q] = sup[q]
      /\ sup'[p].adopt = sup[p].adopt
  BY SupMoves
<1>2. StopsBefore' /\ StartsLater'
  BY <1>1 DEF EraInv, StopsBefore, StartsLater, Stopping, Starting, Active
<1>3. SUFFICES ASSUME ~ swept' PROVE Settles'
  BY <1>2 DEF EraInv
<1>4. KeptApart /\ Alone /\ Settles
  BY <1>1, <1>3 DEF OneInv, Unswept, EraInv
<1>5. \A q \in Sups : q # p => ~ Alive(q) /\ ~ Alive(q)'
  BY <1>1, <1>4 DEF Alone, Alive
<1>6. PendingHasParent'
  <2>1. \A q \in Sups : Pending(q)' => Pending(q)
    BY <1>1, SupEras DEF Pending
  <2>2. QED
    BY <1>1, <1>4, <2>1 DEF Settles, PendingHasParent, Waiting
<1>7. ChildEra'
  <2>1. \A q \in Sups : ~ sup[q].adopt => ~ sup'[q].adopt /\ sup'[q].era = sup[q].era
    BY <1>1, SupEras
  <2>2. QED
    BY <1>1, <1>4, <2>1 DEF Settles, ChildEra
<1>8. Published'
  <2>1. SUFFICES ASSUME NEW q \in Sups, files'.pid = q PROVE ~ Early(q)'
    BY DEF Published
  <2>2. CASE q = p
    BY <1>4, <2>1, <2>2, SupEras, SupervisorAssumption DEF Settles, Published
  <2>3. CASE q # p
    <3>1. files.pid = q
      BY <2>1, <2>3, SupEras, SupervisorAssumption
    <3>2. QED
      BY <1>1, <1>4, <2>3, <3>1 DEF Settles, Published, Early
  <2>4. QED
    BY <2>2, <2>3
<1>9. SupsLater'
  <2>1. SUFFICES ASSUME Alive(p)', ~ Pending(p)' PROVE ended < sup'[p].era
    BY <1>1, <1>5 DEF SupsLater
  <2>2. CASE Pending(p)
    BY <1>4, <2>1, <2>2, SupEras DEF Settles, SessionLater
  <2>3. CASE ~ Pending(p)
    BY <1>1, <1>4, <2>3, SupEras DEF Settles, SupsLater
  <2>4. QED
    BY <2>2, <2>3
<1>10. sup[p].at = "launch" => ~ Pending(p)
  BY DEF Pending
<1>11. SessionLater'
  BY <1>1, <1>4, <1>10, SupSessions DEF Settles, SessionLater, SupsLater
<1>12. Covers'
  <2>1. SUFFICES ASSUME NEW c \in Callers,
                        call[c].at \in {"recheck", "withdraw", "kill", "tidy"}
                 PROVE  /\ SupsAfter(c)'
                        /\ (call[c].at = "tidy" /\ session'.is # "none")
                             => call[c].era < session'.era
    BY <1>1 DEF Covers
  <2>2. Stopping(c)
    BY <2>1, OwnCommand DEF StepsOf, Stopping, Active
  <2>3. ~ Pending(p)
    BY <1>4, <2>2, NoneIsPending DEF Settles
  <2>4. SupsAfter(c)
    BY <1>4, <2>1 DEF Settles, Covers
  <2>5. SupsAfter(c)'
    BY <1>1, <1>5, <2>3, <2>4, SupEras DEF SupsAfter
  <2>6. QED
    BY <1>1, <1>4, <2>4, <2>5, SupSessions DEF Settles, Covers, SupsAfter
<1>13. QED
  BY <1>6, <1>7, <1>8, <1>9, <1>11, <1>12 DEF Settles

(* What an invocation's step does to records, sessions and what has ended. *)
LEMMA CallRecords ==
  ASSUME TypeInv, NEW c \in Callers, CallStep(c)
  PROVE  /\ files'.pid \in {files.pid, None}
         /\ ~ Spawn(c) => sup' = sup
         /\ session' = session \/ session'.is = "none"
         /\ ~ Tidy(c) => ended' = ended
         /\ era' = era
<1>1. files \in [stop : BOOLEAN, detach : BOOLEAN, restart : BOOLEAN,
                 managed : BOOLEAN, args : BOOLEAN, state : BOOLEAN,
                 pid : Sups \union {None}, startup : Sups \union {None},
                 lock : Callers \union {None}]
  BY DEF TypeInv, TypeOK
<1>2. \A answer : Pruned(answer).pid \in {files.pid, None}
  BY <1>1 DEF Pruned, PublishedPid
<1>3. CASE Start(c) \/ StopLook(c) \/ Recheck(c) \/ StopLoop(c) \/ RestartLook(c)
          \/ StopWait(c) \/ DetachWait(c)
  BY <1>2, <1>3
     DEF Start, StopLook, Recheck, StopLoop, RestartLook, StopWait, DetachWait, Ask,
         SeeNobody, Spawn
<1>4. CASE Record(c) \/ StopTouch(c) \/ StopTimesOut(c) \/ Withdraw(c) \/ Lock(c)
          \/ Detach(c) \/ DetachTimesOut(c) \/ Detached(c)
  BY <1>1, <1>4
     DEF Record, StopTouch, StopTimesOut, Withdraw, Lock, Detach, DetachTimesOut,
         Detached, Set, Spawn
<1>5. CASE Check(c) \/ Confirm(c) \/ Unlock(c) \/ Spawn(c)
  BY <1>1, <1>5 DEF Check, Confirm, Unlock, Set, Spawn
<1>6. CASE Kill(c) \/ StopSession(c)
  <2>1. UNCHANGED <<files, sup, era, ended>>
    BY <1>6 DEF Kill, StopSession
  <2>2. session' = session \/ session'.is = "none"
    BY <1>6 DEF Kill, StopSession, NoSession
  <2>3. QED
    BY <2>1, <2>2
<1>7. CASE Tidy(c) \/ Forget(c)
  <2>1. files'.pid = None /\ UNCHANGED <<sup, session, era>>
    BY <1>7 DEF Tidy, Forget, NoFiles
  <2>2. ~ Tidy(c) => ended' = ended
    BY <1>7 DEF Forget
  <2>3. QED
    BY <2>1, <2>2
<1>8. QED
  BY <1>3, <1>4, <1>5, <1>6, <1>7 DEF CallStep

(* A stop that sees nobody: what it does not see is the child of a start   *)
(* that its era does not cover.                                            *)
LEMMA StopSeesRight ==
  ASSUME TypeInv, StopsAreApart, KeptApart, Unswept, StopsBefore, Settles,
         NEW c \in Callers, Stopping(c), None \in Present
  PROVE  SupsAfter(c)
<1>1. SUFFICES ASSUME NEW p \in Sups, Alive(p) PROVE call[c].era < sup[p].era
  BY DEF SupsAfter
<1>2. p \notin {files.pid, files.startup}
  BY <1>1, SupervisorAssumption DEF Present, PublishedPid, TypeInv, TypeOK
<1>3. PICK d \in Callers : call[d].at = "record" /\ call[d].child = p
  BY <1>1, <1>2 DEF Unswept, Recorded, ChildOf
<1>4. Active(d) /\ call[d].cmd \in {"start", "restart-loop"}
  BY <1>3, OwnCommand DEF StepsOf, Active
<1>5. call[d].cmd = "start"
  BY <1>4, NoneIsPending DEF Settles
<1>6. QED
  BY <1>3, <1>4, <1>5 DEF StopsBefore, Starting, Settles, ChildEra

(* The invocation that moves is the only one whose standing changes.       *)
LEMMA SpawnKeepsEras ==
  ASSUME TypeInv, StartsAreApart, StopsAreApart, KeptApart, Unswept, StopsBefore,
         StartsLater, Settles, NEW c \in Callers, Spawn(c)
  PROVE  Settles'
<1>1. PICK p \in Sups :
        /\ sup[p].at = "unborn"
        /\ sup' = [sup EXCEPT ![p] =
                     [@ EXCEPT !.at = "spawned", !.era = call[c].era,
                               !.adopt = call[c].cmd = "restart-loop"]]
        /\ call' = [call EXCEPT ![c].at = "record", ![c].child = p]
  BY DEF Spawn
<1>2. /\ call[c].at = "spawn" /\ UNCHANGED <<files, session, ended>>
      /\ call[c].cmd \in {"start", "restart-loop"} /\ Active(c)
  BY OwnCommand DEF Spawn, StepsOf, Active
<1>3. /\ sup'[p].at = "spawned" /\ sup'[p].era = call[c].era
      /\ sup'[p].adopt = (call[c].cmd = "restart-loop")
      /\ \A q \in Sups \ {p} : sup'[q] = sup[q]
      /\ call'[c].at = "record" /\ call'[c].child = p /\ call'[c].cmd = call[c].cmd
      /\ call'[c].era = call[c].era
      /\ \A d \in Callers \ {c} : call'[d] = call[d]
  BY <1>1 DEF TypeInv, TypeOK
<1>4. Nobody
  BY <1>2 DEF Unswept, Clear, SawNobody
<1>5. \A q \in Sups : q # p => ~ Alive(q)' /\ ~ Pending(q)'
  BY <1>3, <1>4 DEF Nobody, Alive, Pending
<1>6. PendingHasParent'
  BY <1>3, <1>5 DEF PendingHasParent, Pending, Waiting
<1>7. ChildEra'
  <2>1. \A d \in Callers : call[d].at = "record" => d = c
    BY <1>2, SpawnersKeep, OneKeeper DEF Unswept, SawNobody
  <2>2. QED
    <3>1. SUFFICES ASSUME NEW d \in Callers,
                          call'[d].at = "record", call'[d].cmd = "start"
                   PROVE  /\ call'[d].child \in Sups /\ ~ sup'[call'[d].child].adopt
                          /\ sup'[call'[d].child].era = call'[d].era
      BY DEF ChildEra
    <3>2. d = c
      BY <1>2, <1>3, <2>1, <3>1
    <3>3. ~ sup'[p].adopt
      BY <1>3, <3>1, <3>2
    <3>4. QED
      BY <1>3, <3>2, <3>3
<1>8. Published'
  BY <1>1, <1>2, <1>3 DEF Settles, Published, Early
<1>9. SupsLater'
  BY <1>2, <1>3, <1>5 DEF SupsLater, Pending, StartsLater, Starting
<1>10. SessionLater'
  BY <1>2 DEF Settles, SessionLater
<1>11. Covers'
  <2>1. SUFFICES ASSUME NEW d \in Callers,
                        call'[d].at \in {"recheck", "withdraw", "kill", "tidy"}
                 PROVE  /\ SupsAfter(d)'
                        /\ (call'[d].at = "tidy" /\ session'.is # "none")
                             => call'[d].era < session'.era
    BY DEF Covers
  <2>2. d # c /\ call'[d] = call[d]
    BY <1>3, <2>1
  <2>3. Stopping(d)
    BY <2>1, <2>2, OwnCommand DEF StepsOf, Stopping, Active
  <2>4. call[c].cmd = "start"
    BY <1>2, <2>3, NoneIsPending DEF Settles
  <2>5. SupsAfter(d)'
    BY <1>2, <1>3, <1>5, <2>2, <2>3, <2>4 DEF SupsAfter, StopsBefore, Starting
  <2>6. QED
    BY <1>2, <2>1, <2>2, <2>5 DEF Settles, Covers
<1>12. QED
  BY <1>6, <1>7, <1>8, <1>9, <1>10, <1>11 DEF Settles

(* Any other step of an invocation: no supervisor is added.                *)
LEMMA CallSettles ==
  ASSUME TypeInv, StartsAreApart, StopsAreApart, ~ MayTimeOut, KeptApart, Unswept,
         StopsBefore, Settles, NEW c \in Callers, CallStep(c), ~ Spawn(c)
  PROVE  Settles'
<1>1. /\ sup' = sup /\ files'.pid \in {files.pid, None}
      /\ session' = session \/ session'.is = "none"
      /\ ~ Tidy(c) => ended' = ended
  BY CallRecords
<1>2. /\ Active(c)
      /\ \A d \in Callers : /\ call'[d].cmd = call[d].cmd
                            /\ call'[d].era = call[d].era
                            /\ d # c => call'[d] = call[d]
  BY CallMoves
<1>3. \A p \in Sups : /\ Alive(p)' <=> Alive(p)
                      /\ Pending(p)' <=> Pending(p)
                      /\ Early(p)' <=> Early(p)
  BY <1>1 DEF Alive, Pending, Early
<1>4. ASSUME NEW s, Then(c, s)
      PROVE  call'[c].at = s /\ call'[c].child = call[c].child
  BY <1>4, ThenMoves
<1>5. PendingHasParent'
  <2>1. SUFFICES ASSUME NEW p \in Sups, Pending(p)
                 PROVE  \E d \in Callers : Waiting(d, p)'
    BY <1>3 DEF PendingHasParent
  <2>2. PICK d \in Callers : Waiting(d, p)
    BY <2>1 DEF Settles, PendingHasParent
  <2>3. CASE d # c
    BY <1>2, <2>2, <2>3 DEF Waiting
  <2>4. CASE d = c /\ Record(c)
    BY <1>2, <1>4, <2>2, <2>4 DEF Record, Set, Waiting
  <2>5. CASE d = c /\ Confirm(c)
    <3>1. Alive(p) /\ call[c].child = p
      BY <2>1, <2>2, <2>5 DEF Pending, Alive, Waiting
    <3>2. files.pid # None /\ files.pid \in Sups /\ Alive(files.pid)
      BY <2>5, <3>1 DEF Confirm, PublishedPid, TypeInv, TypeOK
    <3>3. files.pid = p
      BY <3>1, <3>2 DEF Unswept, Alone
    <3>4. QED
      BY <2>1, <3>3 DEF Settles, Published, Early, Pending
  <2>6. CASE d = c /\ ~ Record(c) /\ ~ Confirm(c)
    <3>1. call[c].at \in {"record", "confirm"}
      BY <2>2, <2>6 DEF Waiting
    <3>2. QED
      BY <2>6, <3>1
         DEF CallStep, Start, StopTouch, StopLook, StopWait, StopTimesOut, Recheck,
             Withdraw, Kill, Tidy, StopLoop, Lock, RestartLook, Detach, DetachWait,
             DetachTimesOut, Detached, Check, Unlock, StopSession, Forget
  <2>7. QED
    BY <2>3, <2>4, <2>5, <2>6
<1>6. ChildEra'
  <2>1. call'[c].at = "record" => FALSE
    BY <1>4
       DEF CallStep, Start, Record, StopTouch, StopLook, StopWait, StopTimesOut, Recheck,
           Withdraw, Kill, Tidy, StopLoop, Lock, RestartLook, Detach, DetachWait,
           DetachTimesOut, Detached, Check, Confirm, Unlock, StopSession, Forget,
           Ask, SeeNobody, Set
  <2>2. QED
    BY <1>1, <1>2, <2>1 DEF Settles, ChildEra
<1>7. Published'
  BY <1>1, <1>3, SupervisorAssumption DEF Settles, Published
<1>8. SupsLater' /\ SessionLater'
  <2>1. CASE Tidy(c)
    <3>1. /\ call[c].at = "tidy" /\ session' = session
          /\ ended' = IF call[c].era > ended THEN call[c].era ELSE ended
      BY <2>1 DEF Tidy
    <3>2. QED
      BY <1>1, <1>3, <3>1 DEF Settles, SupsLater, SessionLater, Covers, SupsAfter
  <2>2. CASE ~ Tidy(c)
    BY <1>1, <1>3, <2>2 DEF Settles, SupsLater, SessionLater
  <2>3. QED
    BY <2>1, <2>2
<1>9. Covers'
  <2>1. ASSUME NEW d \in Callers, SupsAfter(d) PROVE SupsAfter(d)'
    BY <1>1, <1>2, <1>3, <2>1 DEF SupsAfter
  <2>2. ASSUME NEW d \in Callers, d # c
        PROVE  /\ call'[d].at \in {"recheck", "withdraw", "kill", "tidy"} => SupsAfter(d)'
               /\ call'[d].at = "tidy" /\ session'.is # "none" => call'[d].era < session'.era
    BY <1>1, <1>2, <2>1, <2>2 DEF Settles, Covers
  <2>3. ASSUME call'[c].at \in {"recheck", "withdraw", "kill", "tidy"}
        PROVE  SupsAfter(c)
    <3>1. Stopping(c)
      <4>1. call[c].at \in StepsOf(call[c].cmd) /\ call'[c].at \in StepsOf(call[c].cmd)
        BY <1>2, CallTypesKept, OwnCommand DEF TypeInv, OwnSteps
      <4>2. QED
        BY <1>2, <2>3, <4>1, OwnCommand DEF StepsOf, Stopping
    <3>2. CASE StopLook(c) \/ StopWait(c)
      <4>1. None \in Present
        BY <1>4, <2>3, <3>2 DEF StopLook, StopWait, Ask, SeeNobody
      <4>2. QED
        BY <3>1, <4>1, StopSeesRight
    <3>3. CASE call[c].at \in {"recheck", "withdraw", "kill", "tidy"}
      BY <3>3 DEF Settles, Covers
    <3>4. CASE ~ (StopLook(c) \/ StopWait(c))
               /\ call[c].at \notin {"recheck", "withdraw", "kill", "tidy"}
      BY <1>4, <2>3, <3>4
         DEF CallStep, Start, Record, StopTouch, StopTimesOut, Recheck, Withdraw, Kill,
             Tidy, StopLoop, Lock, RestartLook, Detach, DetachWait, DetachTimesOut,
             Detached, Check, Confirm, Unlock, StopSession, Forget, Ask, SeeNobody, Set
    <3>5. QED
      BY <3>2, <3>3, <3>4
  <2>4. call'[c].at = "tidy" => session'.is = "none"
    BY <1>4
       DEF CallStep, Start, Record, StopTouch, StopLook, StopWait, StopTimesOut, Recheck,
           Withdraw, Kill, Tidy, StopLoop, Lock, RestartLook, Detach, DetachWait,
           DetachTimesOut, Detached, Check, Confirm, Unlock, StopSession, Forget,
           Ask, SeeNobody, Set, NoSession
  <2>5. QED
    BY <2>1, <2>2, <2>3, <2>4 DEF Covers
<1>10. QED
  BY <1>5, <1>6, <1>7, <1>8, <1>9 DEF Settles

LEMMA CallKeepsEras ==
  ASSUME TypeInv, StartsAreApart, StopsAreApart, ~ MayTimeOut, OneInv, EraInv,
         NEW c \in Callers, CallStep(c)
  PROVE  EraInv'
<1>1. /\ Active(c) /\ (swept => swept')
      /\ \A d \in Callers : /\ call'[d].cmd = call[d].cmd
                            /\ call'[d].era = call[d].era
                            /\ d # c => call'[d] = call[d]
  BY CallMoves
<1>2. \A d \in Callers : /\ Starting(d)' => Starting(d)
                         /\ Stopping(d)' => Stopping(d)
  BY <1>1 DEF Starting, Stopping, Active
<1>3. StopsBefore'
  BY <1>1, <1>2 DEF EraInv, StopsBefore
<1>4. StartsLater'
  <2>1. CASE Tidy(c)
    <3>1. /\ call[c].at = "tidy"
          /\ ended' = IF call[c].era > ended THEN call[c].era ELSE ended
      BY <2>1 DEF Tidy
    <3>2. Stopping(c)
      BY <1>1, <3>1, OwnCommand DEF StepsOf, Stopping
    <3>3. QED
      BY <1>1, <1>2, <3>1, <3>2 DEF EraInv, StopsBefore, StartsLater
  <2>2. CASE ~ Tidy(c)
    BY <1>1, <1>2, <2>2, CallRecords DEF EraInv, StartsLater
  <2>3. QED
    BY <2>1, <2>2
<1>5. ~ swept' => Settles'
  BY <1>1, SpawnKeepsEras, CallSettles DEF EraInv, OneInv
<1>6. QED
  BY <1>3, <1>4, <1>5 DEF EraInv

LEMMA InvokeKeepsEras ==
  ASSUME TypeInv, EraInv, NEW c \in Callers, Invoke(c)
  PROVE  EraInv'
<1>1. PICK cmd \in Commands :
        /\ era' = IF cmd = "start" THEN era + 1 ELSE era
        /\ call' = [call EXCEPT ![c] = [at |-> cmd, cmd |-> cmd, child |-> None,
                                        era |-> IF cmd = "start" THEN era' ELSE Settled]]
  BY DEF Invoke
<1>2. /\ call[c].at = "unborn" /\ call[c].cmd = "none"
      /\ UNCHANGED <<sup, files, session, ended, swept>>
      /\ \A d \in Callers \ {c} : call'[d] = call[d]
      /\ call'[c].cmd = cmd /\ call'[c].at = cmd
      /\ call'[c].era = IF cmd = "start" THEN era + 1 ELSE Settled
      /\ cmd \in {"start", "stop", "stop-loop", "restart-loop", "stop-session", "forget"}
  BY <1>1, OwnCommand, SupervisorAssumption DEF Invoke, TypeInv, TypeOK, StepsOf
<1>3. /\ era \in Nat /\ ended \in 0 .. era /\ Settled \in 0 .. era
      /\ \A d \in Callers : call[d].era \in 0 .. era
      /\ \A d \in Callers : Starting(d) => Settled < call[d].era
  BY SettledIsBefore DEF TypeInv, TypeOK, CallEras, UnderWay, Starting, Active
<1>4. StopsBefore'
  <2>1. SUFFICES ASSUME NEW x \in Callers, NEW y \in Callers, Stopping(x)', Starting(y)'
                 PROVE  call'[x].era < call'[y].era
    BY DEF StopsBefore
  <2>2. CASE x # c /\ y # c
    BY <1>2, <2>1, <2>2 DEF EraInv, StopsBefore, Stopping, Starting, Active
  <2>3. CASE x = c
    <3>1. cmd = "stop" /\ y # c
      BY <1>2, <2>1, <2>3 DEF Stopping, Starting
    <3>2. call'[x].era = Settled /\ Starting(y) /\ call'[y] = call[y]
      BY <1>2, <2>1, <2>3, <3>1 DEF Starting, Active
    <3>3. QED
      BY <1>3, <3>2
  <2>4. CASE y = c /\ x # c
    <3>1. cmd = "start" /\ call'[x] = call[x]
      BY <1>2, <2>1, <2>4 DEF Starting
    <3>2. QED
      BY <1>2, <1>3, <2>4, <3>1
  <2>5. QED
    BY <2>2, <2>3, <2>4
<1>5. StartsLater'
  BY <1>2, <1>3 DEF EraInv, StartsLater, Starting, Active
<1>6. Settles => Settles'
  <2>1. SUFFICES ASSUME Settles PROVE Settles'
    OBVIOUS
  <2>2. PendingHasParent'
    BY <1>2, <2>1 DEF Settles, PendingHasParent, Waiting, Pending
  <2>3. ChildEra' /\ Published' /\ SupsLater' /\ SessionLater'
    BY <1>2, <2>1 DEF Settles, ChildEra, Published, Early, SupsLater, Pending, Alive, SessionLater
  <2>4. Covers'
    BY <1>2, <2>1 DEF Settles, Covers, SupsAfter, Alive
  <2>5. QED
    BY <2>2, <2>3, <2>4 DEF Settles
<1>7. QED
  BY <1>2, <1>4, <1>5, <1>6 DEF EraInv

LEMMA KeepsEras ==
  ASSUME TypeInv, StartsAreApart, StopsAreApart, ~ MayTimeOut, OneInv, EraInv,
         [Next]_vars
  PROVE  EraInv'
<1>1. ASSUME UNCHANGED <<sup, call, ended, swept>>, files'.pid = files.pid,
             session'.is # "none" => session.is # "none" /\ session'.era = session.era
      PROVE  EraInv'
  <2>1. StopsBefore' /\ StartsLater'
    BY <1>1 DEF EraInv, StopsBefore, StartsLater, Stopping, Starting, Active
  <2>2. Settles => PendingHasParent' /\ ChildEra' /\ Published'
    BY <1>1 DEF Settles, PendingHasParent, Waiting, Pending, ChildEra, Published, Early
  <2>3. Settles => SupsLater' /\ SessionLater' /\ Covers'
    BY <1>1 DEF Settles, SupsLater, Pending, Alive, SessionLater, Covers, SupsAfter
  <2>4. QED
    BY <1>1, <2>1, <2>2, <2>3 DEF EraInv, Settles
<1>2. CASE UNCHANGED vars
  BY <1>1, <1>2 DEF vars
<1>3. CASE AgentExits \/ AgentAsksRestart
  BY <1>1, <1>3 DEF AgentExits, AgentAsksRestart, TypeInv, TypeOK
<1>4. CASE Next /\ ~ (AgentExits \/ AgentAsksRestart)
  BY <1>4, SupKeepsEras, CallKeepsEras, InvokeKeepsEras DEF Next
<1>5. QED
  BY <1>2, <1>3, <1>4

LEMMA ErasInit ==
  ASSUME Init
  PROVE  EraInv
<1>1. /\ \A c \in Callers : call[c].at = "unborn" /\ call[c].cmd = "none"
      /\ \A p \in Sups : sup[p].at = "unborn"
      /\ files.pid = None /\ session.is = "none"
  BY DEF Init, NoFiles, NoSession
<1>2. StopsBefore /\ StartsLater
  BY <1>1 DEF StopsBefore, StartsLater, Stopping, Starting, Active
<1>3. Settles
  BY <1>1, SupervisorAssumption
     DEF Settles, PendingHasParent, Pending, ChildEra, Published, SupsLater, Alive,
         SessionLater, Covers
<1>4. QED
  BY <1>2, <1>3 DEF EraInv

(* "A brand-new agent session gets launched under someone who asked for    *)
(* everything to stop" does not happen after a stop that was answered in   *)
(* time and removed no record of a supervisor that runs, whatever other    *)
(* starts, stops and crashes it overlaps with.                             *)
THEOREM AnsweredStopIsFinal ==
  ASSUME StartsAreApart, StopsAreApart, ~ MayTimeOut
  PROVE  Spec => CleanStopIsFinal
<1>1. Init => EraInv
  BY ErasInit
<1>2. TypeInv /\ OneInv /\ EraInv /\ [Next]_vars => EraInv'
  BY KeepsEras
<1>3. TypeInv /\ OneInv /\ EraInv /\ [Next]_vars
        => [\A p \in Sups : (Launches(p) /\ ~ swept) => sup[p].era > ended]_vars
  <2>1. SUFFICES ASSUME TypeInv, EraInv, NEW p \in Sups, Launches(p), ~ swept
                 PROVE  sup[p].era > ended
    OBVIOUS
  <2>2. Alive(p) /\ ~ Pending(p)
    BY <2>1 DEF Launches, Alive, Pending
  <2>3. ended < sup[p].era
    BY <2>1, <2>2 DEF EraInv, Settles, SupsLater
  <2>4. QED
    BY <2>1, <2>3 DEF TypeInv, TypeOK
<1>4. QED
  BY <1>1, <1>2, <1>3, OneInvHolds, PTL DEF Spec, CleanStopIsFinal

=============================================================================
