----------------------------- MODULE OwnerWorld -----------------------------
(***************************************************************************)
(* One claim, its owner and the machine both live on: what the cascade of  *)
(* module Liveness may conclude while processes exit, pids are reused, mux *)
(* sessions close, the clock is corrected and the machine reboots.         *)
(*                                                                         *)
(* The machine is the environment of operator_liveness.py. Its facts are   *)
(* those the probes rely on: a boot has a uuid of its own (Linux) or an    *)
(* instant that time correction moves (Windows, macOS); a start token      *)
(* counts ticks since boot on Linux and is an absolute instant elsewhere;  *)
(* closing a mux session ends the agent that runs inside it.               *)
(***************************************************************************)
EXTENDS Liveness

CONSTANTS
  Pids,      \* the pids the machine hands out
  MaxTime,   \* bound: the last second of the wall clock
  MaxBoots,  \* bound: how often the machine boots
  MaxNudge   \* how far time correction moves a recorded boot instant

ASSUME WorldAssumption ==
  /\ MaxTime \in Nat /\ MaxBoots \in Nat /\ MaxNudge \in Nat
  /\ MaxNudge <= Tolerance
  /\ None \notin Pids

(* "Nothing" and "does not parse" are no values a probe could read.        *)
ASSUME ValuesAssumption ==
  /\ None \notin Int /\ Damaged \notin Int
  /\ None \notin [kind : {"uuid", "instant"} \union StartTokenKinds, value : Int]

Platforms == {"linux", "win", "bsd"}

VARIABLES
  platform,   \* which probes this machine has
  clock,      \* wall clock
  boot,       \* [count, at, nudge]: this boot, its instant, its correction
  procs,      \* for every pid, when the process that has it started, or None
  session,    \* is there a mux session of the owner's name?
  owner,      \* the owner's process: [pid, born, boot, inside]
  alive,      \* is it running?
  claim       \* the recorded identity and heartbeat, or None

vars == <<platform, clock, boot, procs, session, owner, alive, claim>>

-----------------------------------------------------------------------------
(* What the probes answer when they can look.                              *)

BootIdentity ==
  IF platform = "linux"
  THEN [kind |-> "uuid", value |-> boot.count]
  ELSE [kind |-> "instant", value |-> boot.at + boot.nudge]

StartToken(born) ==
  CASE platform = "linux" -> [kind |-> "linux", value |-> born - boot.at]
    [] platform = "win"   -> [kind |-> "win",   value |-> born]
    [] platform = "bsd"   -> [kind |-> "psc",   value |-> born]

Answer(fact) == IF fact THEN Yes ELSE No

Truth(pid) ==
  [boot    |-> BootIdentity,
   running |-> IF pid = None THEN Unknown ELSE Answer(procs[pid] # None),
   token   |-> IF pid = None THEN None
               ELSE IF procs[pid] = None THEN None ELSE StartToken(procs[pid]),
   session |-> Answer(session)]

(* Any of the probes may be unable to look: access denied, a timeout, a    *)
(* missing binary. Then it answers None, never a guess.                    *)
Readings(pid) ==
  {[boot |-> b, running |-> r, token |-> t, session |-> s] :
     b \in {Truth(pid).boot, None}, r \in {Truth(pid).running, Unknown},
     t \in {Truth(pid).token, None}, s \in {Truth(pid).session, Unknown}}

Age == clock - claim.heartbeat_at

-----------------------------------------------------------------------------
Init ==
  /\ platform \in Platforms
  /\ clock = 0
  /\ boot = [count |-> 1, at |-> 0, nudge |-> 0]
  /\ \E pid \in Pids, inside \in BOOLEAN :
       /\ owner = [pid |-> pid, born |-> 0, boot |-> 1, inside |-> inside]
       /\ procs = [q \in Pids |-> IF q = pid THEN 0 ELSE None]
       /\ session = inside
  /\ alive = TRUE
  /\ claim = None

(* `work request`: the owner's own pid and session name are offered, and   *)
(* what the probes confirm is recorded. A token recorded by the version    *)
(* before the locale was pinned has the kind "ps".                         *)
Request ==
  /\ alive
  /\ \E rd \in Readings(owner.pid), old \in BOOLEAN :
       LET id == AgentIdentity("session", owner.pid, rd)
       IN  /\ old => platform = "bsd" /\ id.pid_start # None
           /\ claim' = [boot_id      |-> id.boot_id,
                        mux_session  |-> id.mux_session,
                        pid          |-> id.pid,
                        pid_start    |-> IF old THEN [id.pid_start EXCEPT !.kind = "ps"]
                                                ELSE id.pid_start,
                        heartbeat_at |-> clock]
  /\ UNCHANGED <<platform, clock, boot, procs, session, owner, alive>>

(* Mutant of Heartbeat: a stamp from a clock that runs ahead. *)
HeartbeatAhead ==
  /\ alive
  /\ claim # None
  /\ claim' = [claim EXCEPT !.heartbeat_at = clock + 1]
  /\ UNCHANGED <<platform, clock, boot, procs, session, owner, alive>>

Heartbeat ==
  /\ alive
  /\ claim # None
  /\ claim' = [claim EXCEPT !.heartbeat_at = clock]
  /\ UNCHANGED <<platform, clock, boot, procs, session, owner, alive>>

(* The machine. *)
OwnerExits ==
  /\ alive
  /\ alive' = FALSE
  /\ procs' = [procs EXCEPT ![owner.pid] = None]
  /\ session' \in {session, FALSE}
  /\ UNCHANGED <<platform, clock, boot, owner, claim>>

(* A later process gets a free pid, the owner's old one included. Pids are *)
(* not handed out again within one tick of the start-time clock.           *)
Spawn ==
  /\ \E q \in Pids :
       /\ procs[q] = None
       /\ q = owner.pid => clock > owner.born
       /\ procs' = [procs EXCEPT ![q] = clock]
  /\ UNCHANGED <<platform, clock, boot, session, owner, alive, claim>>

Exit ==
  /\ \E q \in Pids :
       /\ procs[q] # None
       /\ alive => q # owner.pid
       /\ procs' = [procs EXCEPT ![q] = None]
  /\ UNCHANGED <<platform, clock, boot, session, owner, alive, claim>>

CloseSession ==
  /\ session
  /\ session' = FALSE
  /\ alive' = (alive /\ ~owner.inside)
  /\ procs' = IF alive /\ owner.inside
              THEN [procs EXCEPT ![owner.pid] = None] ELSE procs
  /\ UNCHANGED <<platform, clock, boot, owner, claim>>

(* A session of the same name: a later session of the same instance. While *)
(* an agent runs outside mux, nothing opens a session under its name.      *)
OpenSession ==
  /\ ~session
  /\ ~alive
  /\ session' = TRUE
  /\ UNCHANGED <<platform, clock, boot, procs, owner, alive, claim>>

Tick ==
  /\ clock < MaxTime
  /\ clock' = clock + 1
  /\ UNCHANGED <<platform, boot, procs, session, owner, alive, claim>>

CorrectClock ==
  /\ \E n \in 0 .. MaxNudge : boot' = [boot EXCEPT !.nudge = n]
  /\ UNCHANGED <<platform, clock, procs, session, owner, alive, claim>>

Reboot ==
  /\ boot.count < MaxBoots
  /\ clock < MaxTime
  /\ clock' = clock + 1
  /\ boot' = [count |-> boot.count + 1, at |-> clock + 1, nudge |-> 0]
  /\ procs' = [q \in Pids |-> None]
  /\ session' = FALSE
  /\ alive' = FALSE
  /\ UNCHANGED <<platform, owner, claim>>

Next ==
  \/ Request \/ Heartbeat
  \/ OwnerExits \/ Spawn \/ Exit
  \/ CloseSession \/ OpenSession
  \/ Tick \/ CorrectClock \/ Reboot

Spec == Init /\ [][Next]_vars

-----------------------------------------------------------------------------
(* Properties.                                                             *)

TypeOK ==
  /\ platform \in Platforms
  /\ clock \in 0 .. MaxTime
  /\ boot \in [count : 1 .. MaxBoots, at : 0 .. MaxTime, nudge : 0 .. MaxNudge]
  /\ procs \in [Pids -> (0 .. MaxTime) \union {None}]
  /\ session \in BOOLEAN
  /\ alive \in BOOLEAN
  /\ claim # None => claim.heartbeat_at \in 0 .. clock

(* The module's whole concern: no combination of answered and unanswered   *)
(* probes, corrected clocks and re-rendered tokens calls a running owner   *)
(* dead ("it hands a live agent's tree to somebody else while the first is *)
(* still writing to it").                                                  *)
DeadOnlyIfGone ==
  claim # None =>
    \A rd \in Readings(claim.pid), age \in {Age, None} :
      Assess(claim, rd, age) = DEAD => ~alive

(* The other direction: if the claim recorded its owner's pid with a       *)
(* comparable start token and every probe can look, an owner that is gone  *)
(* is called dead whoever has the pid now, in this boot or a later one.    *)
GoneIsFound ==
  (/\ claim # None
   /\ ~alive
   /\ claim.boot_id # None
   /\ claim.pid # None
   /\ IsStartToken(claim.pid_start)
   /\ claim.pid_start.kind # "ps") =>
     Assess(claim, Truth(claim.pid), Age) = DEAD

(* A verdict of DEAD that rests on the process table is final: an owner    *)
(* judged dead by everything the probes can see is never LIVE later, so    *)
(* the time a reclaim takes cannot turn its verdict around.                *)
DeathIsFinal ==
  [][(/\ claim # None /\ claim' = claim
      /\ claim.boot_id # None
      /\ claim.pid # None
      /\ IsStartToken(claim.pid_start)
      /\ claim.pid_start.kind # "ps"
      /\ Assess(claim, Truth(claim.pid), Age) = DEAD) =>
        Assess(claim, Truth(claim.pid), Age)' = DEAD]_vars
=============================================================================
