------------------------------ MODULE Liveness ------------------------------
(***************************************************************************)
(* The liveness cascade (operator_liveness.py): is the agent that holds a  *)
(* claim still there? Pure operators; nothing here changes anything.       *)
(*                                                                         *)
(* Every probe is tri-state. A boot identity is a record of its kind and   *)
(* its value ("uuid:<token>", "instant:<seconds>"), a start token likewise *)
(* ("linux:<ticks>", "win:<filetime>", "ps:<date>", "psc:<date>"); Damaged *)
(* stands for a value that does not parse, None for no string at all.      *)
(***************************************************************************)
EXTENDS Integers

CONSTANTS
  None,        \* a probe that answered nothing, a column that is NULL
  Damaged,     \* a value part that is empty or is not a number
  Tolerance,   \* BOOT_INSTANT_TOLERANCE
  StaleAfter   \* DEFAULT_STALE_AFTER

ASSUME LivenessAssumption == Tolerance \in Nat /\ StaleAfter \in Nat

Yes     == "yes"
No      == "no"
Unknown == "unknown"

LIVE  == "live"
DEAD  == "dead"
STALE == "stale"

Same(left, right) == IF left = right THEN Yes ELSE No

(* Mutant of SameBoot: boot instants are compared exactly. *)
SameBootExact(recorded, current) ==
  IF \/ recorded = None \/ current = None
     \/ recorded.kind # current.kind
     \/ recorded.value = Damaged \/ current.value = Damaged
  THEN Unknown
  ELSE Same(recorded.value, current.value)

(* same_boot(): different kinds are unknowable, not different.             *)
SameBoot(recorded, current) ==
  IF \/ recorded = None \/ current = None
     \/ recorded.kind # current.kind
     \/ recorded.value = Damaged \/ current.value = Damaged
     \/ recorded.kind \notin {"uuid", "instant"}
  THEN Unknown
  ELSE IF recorded.kind = "uuid"
       THEN Same(recorded.value, current.value)
       ELSE IF /\ recorded.value - current.value <= Tolerance
               /\ current.value - recorded.value <= Tolerance
            THEN Yes ELSE No

StartTokenKinds == {"win", "linux", "ps", "psc"}

(* is_start_token(): a token this code writes, rendered whole.             *)
IsStartToken(token) ==
  /\ token # None
  /\ token.kind \in StartTokenKinds
  /\ token.value # Damaged

(* same_start_token(): tokens of different kinds cannot be compared.       *)
SameStartToken(recorded, live) ==
  IF \/ ~IsStartToken(recorded) \/ ~IsStartToken(live)
     \/ recorded.kind # live.kind
  THEN Unknown
  ELSE Same(recorded, live)

(* assess(): three conclusive signals, any of which says DEAD, and the     *)
(* heartbeat, which can only say STALE. `claim` has the recorded identity  *)
(* (boot_id, pid, pid_start, mux_session, each possibly None); `probes`    *)
(* has what the probes answered: boot (an identity or None), running and   *)
(* session (tri-state), token (a start token or None). `age` is None when  *)
(* the heartbeat cannot be read.                                           *)
BootDiffers(claim, probes) == SameBoot(claim.boot_id, probes.boot) = No

PidGone(claim, probes) ==
  /\ claim.pid # None
  /\ \/ probes.running = No
     \/ /\ probes.running = Yes
        /\ SameStartToken(claim.pid_start, probes.token) = No

MuxGone(claim, probes) ==
  claim.mux_session # None /\ probes.session = No

(* Mutant of Assess: the start token is not compared. *)
AssessByPid(claim, probes, age) ==
  IF \/ BootDiffers(claim, probes)
     \/ claim.pid # None /\ probes.running = No
     \/ MuxGone(claim, probes)
  THEN DEAD
  ELSE IF age = None THEN STALE ELSE IF age > StaleAfter THEN STALE ELSE LIVE

Assess(claim, probes, age) ==
  IF BootDiffers(claim, probes) \/ PidGone(claim, probes) \/ MuxGone(claim, probes)
  THEN DEAD
  ELSE IF age = None THEN STALE ELSE IF age > StaleAfter THEN STALE ELSE LIVE

-----------------------------------------------------------------------------
(* agent_identity() (operator_work.py): a claim records only the signals   *)
(* that are true at the moment it is written; the others stay NULL.        *)
AgentIdentity(mux_session, pid, probes) ==
  [boot_id     |-> probes.boot,
   mux_session |-> IF probes.session = Yes THEN mux_session ELSE None,
   pid         |-> IF probes.running = Yes THEN pid ELSE None,
   pid_start   |-> IF probes.running = Yes THEN probes.token ELSE None]
=============================================================================
