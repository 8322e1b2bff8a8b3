-------------------------- MODULE OwnerWorldProofs --------------------------
(***************************************************************************)
(* The liveness verdict against every machine: any number of pids and      *)
(* boots, any clock, any tolerance that covers the corrections of the boot *)
(* instant, any probe that cannot look.                                    *)
(*                                                                         *)
(* What makes the verdict right is not in its inputs but in how they come  *)
(* about: a claim was written by its owner, so what it records was true of *)
(* the owner's process then (ClaimFits), and a process that got the        *)
(* owner's pid after it started later (PidIsOwners, PidIsLaters).          *)
(***************************************************************************)
EXTENDS OwnerWorld, TLAPS

InOwnersBoot == boot.count = owner.boot

World ==
  /\ platform \in Platforms
  /\ clock \in Nat
  /\ boot \in [count : Nat, at : Nat, nudge : 0 .. MaxNudge]
  /\ procs \in [Pids -> Nat \union {None}]
  /\ session \in BOOLEAN /\ alive \in BOOLEAN
  /\ owner \in [pid : Pids, born : Nat, boot : Nat, inside : BOOLEAN]
  /\ owner.boot <= boot.count
  /\ owner.born <= clock

(* A running owner is in its own boot, has its pid, and a mux session of   *)
(* its name is the one it runs in.                                         *)
PidIsOwners ==
  alive => /\ InOwnersBoot
           /\ procs[owner.pid] = owner.born
           /\ session => owner.inside

PidIsLaters ==
  (~alive /\ procs[owner.pid] # None) => procs[owner.pid] > owner.born

BootFits ==
  claim.boot_id # None =>
    /\ platform = "linux" => claim.boot_id = [kind |-> "uuid", value |-> owner.boot]
    /\ (platform # "linux" /\ InOwnersBoot) =>
         \E n \in 0 .. MaxNudge : claim.boot_id = [kind |-> "instant", value |-> boot.at + n]

OwnersToken == StartToken(owner.born)

TokenFits ==
  (claim.pid_start # None /\ (platform = "linux" => InOwnersBoot)) =>
    \/ claim.pid_start = OwnersToken
    \/ platform = "bsd" /\ claim.pid_start = [OwnersToken EXCEPT !.kind = "ps"]

BootIds == [kind : {"uuid", "instant"}, value : Int]
Tokens  == [kind : StartTokenKinds, value : Int]
Claims  ==
  [boot_id : BootIds \union {None}, mux_session : {"session", None},
   pid : Pids \union {None}, pid_start : Tokens \union {None}, heartbeat_at : Nat]

ClaimFits ==
  claim # None =>
    /\ claim \in Claims
    /\ claim.pid \in {None, owner.pid}
    /\ BootFits
    /\ TokenFits
    /\ (claim.mux_session # None /\ alive) => session

WInv == World /\ PidIsOwners /\ PidIsLaters /\ ClaimFits
-----------------------------------------------------------------------------
(* The types of what the probes answer. *)
LEMMA ProbeTypes ==
  ASSUME World
  PROVE  /\ BootIdentity \in BootIds
         /\ \A born \in Nat : StartToken(born) \in Tokens
         /\ \A born \in Nat : StartToken(born).kind # "ps"
<1>1. BootIdentity \in BootIds
  BY WorldAssumption DEF World, BootIdentity, BootIds
<1>2. ASSUME NEW born \in Nat
      PROVE  StartToken(born) \in Tokens /\ StartToken(born).kind # "ps"
  BY DEF World, StartToken, Tokens, StartTokenKinds, Platforms
<1>3. QED
  BY <1>1, <1>2

(* None and Damaged are no identity, no token and no value of one. *)
LEMMA NothingIsNoValue ==
  /\ \A id \in BootIds : id # None /\ id.value # Damaged
  /\ \A token \in Tokens : token # None /\ IsStartToken(token)
<1>1. None \notin BootIds /\ None \notin Tokens
  BY ValuesAssumption DEF BootIds, Tokens
<1>2. QED
  BY <1>1, ValuesAssumption DEF BootIds, Tokens, IsStartToken

(* What a running owner's probes can answer. *)
LEMMA OwnersReadings ==
  ASSUME WInv, alive, NEW rd \in Readings(owner.pid)
  PROVE  /\ rd.boot \in {BootIdentity, None}
         /\ rd.running \in {Yes, Unknown}
         /\ rd.token \in {OwnersToken, None}
         /\ rd.session \in {Answer(session), Unknown}
<1>1. owner.pid \in Pids /\ owner.pid # None /\ owner.born \in Nat
  BY WorldAssumption DEF WInv, World
<1>2. procs[owner.pid] = owner.born /\ procs[owner.pid] # None
  BY <1>1, ValuesAssumption DEF WInv, PidIsOwners
<1>3. /\ Truth(owner.pid).boot = BootIdentity
      /\ Truth(owner.pid).running = Yes
      /\ Truth(owner.pid).token = OwnersToken
      /\ Truth(owner.pid).session = Answer(session)
  BY <1>1, <1>2 DEF Truth, OwnersToken, Answer
<1>4. QED
  BY <1>3 DEF Readings

-----------------------------------------------------------------------------
(* The verdict, in a state of the invariant. *)

LEMMA RunningIsNotDead ==
  ASSUME WInv, alive, claim # None,
         NEW rd \in Readings(claim.pid), NEW age
  PROVE  Assess(claim, rd, age) # DEAD
<1>1. ~BootDiffers(claim, rd)
  <2>1. rd.boot \in {BootIdentity, None}
    BY DEF Readings, Truth
  <2>2. CASE rd.boot = None \/ claim.boot_id = None
    BY <2>2 DEF BootDiffers, SameBoot, Unknown, No
  <2>3. CASE rd.boot = BootIdentity /\ claim.boot_id # None
    <3>1. CASE platform = "linux"
      BY <2>3, <3>1 DEF BootDiffers, SameBoot, Same, Yes, No, Unknown, BootIdentity,
         WInv, ClaimFits, BootFits, PidIsOwners, InOwnersBoot
    <3>2. CASE platform # "linux"
      <4>1. PICK n \in 0 .. MaxNudge :
              claim.boot_id = [kind |-> "instant", value |-> boot.at + n]
        BY <2>3, <3>2 DEF WInv, ClaimFits, BootFits, PidIsOwners
      <4>2. /\ BootIdentity = [kind |-> "instant", value |-> boot.at + boot.nudge]
            /\ boot.at \in Nat /\ boot.nudge \in 0 .. MaxNudge
        BY <3>2 DEF BootIdentity, WInv, World
      <4>3. /\ (boot.at + n) - (boot.at + boot.nudge) <= Tolerance
            /\ (boot.at + boot.nudge) - (boot.at + n) <= Tolerance
        BY <4>2, WorldAssumption, LivenessAssumption
      <4>4. QED
        BY <2>3, <4>1, <4>2, <4>3
        DEF BootDiffers, SameBoot, Same, Yes, No, Unknown
    <3>3. QED
      BY <3>1, <3>2
  <2>4. QED
    BY <2>1, <2>2, <2>3
<1>2. ~PidGone(claim, rd)
  <2>1. CASE claim.pid = None
    BY <2>1 DEF PidGone
  <2>2. CASE claim.pid = owner.pid
    <3>1. rd.running \in {Yes, Unknown} /\ rd.token \in {OwnersToken, None}
      BY <2>2, OwnersReadings
    <3>2. SameStartToken(claim.pid_start, rd.token) # No
      <4>1. CASE rd.token = None \/ claim.pid_start = None
        BY <4>1 DEF SameStartToken, IsStartToken, Unknown, No
      <4>2. CASE rd.token = OwnersToken /\ claim.pid_start # None
        <5>1. \/ claim.pid_start = OwnersToken
              \/ claim.pid_start = [OwnersToken EXCEPT !.kind = "ps"]
          BY <4>2 DEF WInv, ClaimFits, TokenFits, PidIsOwners
        <5>2. OwnersToken \in Tokens /\ OwnersToken.kind # "ps"
          BY ProbeTypes DEF WInv, World, OwnersToken
        <5>3. QED
          BY <4>2, <5>1, <5>2 DEF SameStartToken, Same, Tokens, Yes, No, Unknown
      <4>3. QED
        BY <3>1, <4>1, <4>2
    <3>3. QED
      BY <3>1, <3>2 DEF PidGone, Yes, No, Unknown
  <2>3. QED
    BY <2>1, <2>2 DEF WInv, ClaimFits
<1>3. ~MuxGone(claim, rd)
  <2>1. rd.session \in {Answer(session), Unknown}
    BY DEF Readings, Truth
  <2>2. QED
    BY <2>1 DEF MuxGone, Answer, Yes, No, Unknown, WInv, ClaimFits
<1>4. QED
  BY <1>1, <1>2, <1>3 DEF Assess, DEAD, STALE, LIVE

LEMMA GoneIsDead == WInv => GoneIsFound
<1> SUFFICES ASSUME WInv, claim # None, ~alive, claim.boot_id # None,
                    claim.pid # None, IsStartToken(claim.pid_start),
                    claim.pid_start.kind # "ps"
             PROVE  BootDiffers(claim, Truth(claim.pid)) \/ PidGone(claim, Truth(claim.pid))
  BY DEF GoneIsFound, Assess
<1>1. claim.pid = owner.pid /\ owner.pid \in Pids /\ owner.pid # None
  BY WorldAssumption DEF WInv, World, ClaimFits
<1>2. CASE procs[owner.pid] = None
  BY <1>1, <1>2 DEF PidGone, Truth, Answer, Yes, No
<1>3. CASE procs[owner.pid] # None
  <2>1. /\ procs[owner.pid] \in Nat /\ owner.born \in Nat
        /\ procs[owner.pid] > owner.born
    BY <1>1, <1>3 DEF WInv, World, PidIsLaters
  <2>2. /\ Truth(claim.pid).running = Yes
        /\ Truth(claim.pid).token = StartToken(procs[owner.pid])
        /\ Truth(claim.pid).boot = BootIdentity
    BY <1>1, <1>3 DEF Truth, Answer
  <2>3. CASE platform = "linux" /\ ~InOwnersBoot
    <3>1. /\ claim.boot_id = [kind |-> "uuid", value |-> owner.boot]
          /\ BootIdentity = [kind |-> "uuid", value |-> boot.count]
      BY <2>3 DEF WInv, ClaimFits, BootFits, BootIdentity
    <3>2. /\ claim.boot_id \in BootIds /\ BootIdentity \in BootIds
      BY <3>1, ProbeTypes DEF WInv, World, BootIds
    <3>3. QED
      BY <2>2, <2>3, <3>1, <3>2, NothingIsNoValue
      DEF BootDiffers, SameBoot, Same, Yes, No, Unknown, InOwnersBoot
  <2>4. CASE platform = "linux" => InOwnersBoot
    <3>1. claim.pid_start = OwnersToken
      <4>1. claim.pid_start # None
        BY DEF IsStartToken
      <4>2. OwnersToken \in Tokens
        BY <2>1, ProbeTypes DEF WInv, OwnersToken
      <4>3. QED
        BY <2>4, <4>1, <4>2 DEF WInv, ClaimFits, TokenFits, Tokens
    <3>2. /\ OwnersToken \in Tokens /\ StartToken(procs[owner.pid]) \in Tokens
          /\ OwnersToken.kind = StartToken(procs[owner.pid]).kind
          /\ OwnersToken.value # StartToken(procs[owner.pid]).value
      BY <2>1, ProbeTypes DEF WInv, World, OwnersToken, StartToken, Platforms
    <3>3. QED
      BY <1>1, <2>2, <3>1, <3>2, NothingIsNoValue
      DEF PidGone, SameStartToken, Same, Yes, No, Unknown
  <2>5. QED
    BY <2>3, <2>4
<1>4. QED
  BY <1>2, <1>3
-----------------------------------------------------------------------------
(* The invariant is inductive. *)

LEMMA InitWInv == Init => WInv
<1> SUFFICES ASSUME Init PROVE WInv
  OBVIOUS
<1>1. PICK pid \in Pids, inside \in BOOLEAN :
        /\ owner = [pid |-> pid, born |-> 0, boot |-> 1, inside |-> inside]
        /\ procs = [q \in Pids |-> IF q = pid THEN 0 ELSE None]
        /\ session = inside
  BY DEF Init
<1>2. World
  BY <1>1, WorldAssumption DEF Init, World
<1>3. PidIsOwners /\ PidIsLaters /\ ClaimFits
  BY <1>1 DEF Init, PidIsOwners, PidIsLaters, ClaimFits, InOwnersBoot
<1>4. QED
  BY <1>2, <1>3 DEF WInv

(* What a claim says stays true of its owner while the boot, the owner and *)
(* the claim stay the same and no session opens or closes under a running  *)
(* owner.                                                                  *)
LEMMA SameClaimFits ==
  ASSUME WInv, UNCHANGED <<platform, boot, owner, claim>>,
         alive' => (alive /\ session' = session)
  PROVE  ClaimFits'
<1>1. InOwnersBoot' = InOwnersBoot /\ OwnersToken' = OwnersToken
  BY DEF InOwnersBoot, OwnersToken, StartToken
<1>2. BootFits' /\ TokenFits' <=> BootFits /\ TokenFits
  BY <1>1 DEF BootFits, TokenFits
<1>3. QED
  BY <1>2 DEF WInv, ClaimFits

LEMMA RequestStep == WInv /\ Request => WInv'
<1> SUFFICES ASSUME WInv, Request PROVE WInv'
  OBVIOUS
<1>1. PICK rd \in Readings(owner.pid), old \in BOOLEAN :
        LET id == AgentIdentity("session", owner.pid, rd)
        IN  /\ old => platform = "bsd" /\ id.pid_start # None
            /\ claim' = [boot_id      |-> id.boot_id,
                         mux_session  |-> id.mux_session,
                         pid          |-> id.pid,
                         pid_start    |-> IF old THEN [id.pid_start EXCEPT !.kind = "ps"]
                                                 ELSE id.pid_start,
                         heartbeat_at |-> clock]
  BY DEF Request
<1>2. alive /\ UNCHANGED <<platform, clock, boot, procs, session, owner, alive>>
  BY DEF Request
<1>3. /\ rd.boot \in {BootIdentity, None}
      /\ rd.running \in {Yes, Unknown}
      /\ rd.token \in {OwnersToken, None}
      /\ rd.session \in {Answer(session), Unknown}
  BY <1>2, OwnersReadings
<1>4. BootIdentity \in BootIds /\ OwnersToken \in Tokens
  BY ProbeTypes DEF WInv, World, OwnersToken
<1>5. /\ claim'.boot_id = rd.boot
      /\ claim'.mux_session = IF rd.session = Yes THEN "session" ELSE None
      /\ claim'.pid \in {owner.pid, None}
      /\ claim'.heartbeat_at = clock
  BY <1>1 DEF AgentIdentity
<1>6. \/ claim'.pid_start \in {OwnersToken, None}
      \/ platform = "bsd" /\ claim'.pid_start = [OwnersToken EXCEPT !.kind = "ps"]
  BY <1>1, <1>3 DEF AgentIdentity
<1>7. claim' \in Claims
  <2>1. /\ clock \in Nat /\ owner.pid \in Pids
    BY DEF WInv, World
  <2>2. [OwnersToken EXCEPT !.kind = "ps"] \in Tokens
    BY <1>4 DEF Tokens, StartTokenKinds
  <2>3. claim'.pid_start \in Tokens \union {None}
    BY <1>4, <1>6, <2>2
  <2>4. QED
    BY <1>1, <1>3, <1>4, <1>5, <2>1, <2>3 DEF Claims
<1>8. BootFits'
  <2>1. CASE rd.boot = None
    BY <1>5, <2>1 DEF BootFits
  <2>2. CASE rd.boot = BootIdentity
    <3>1. boot.nudge \in 0 .. MaxNudge /\ boot.count = owner.boot
      BY <1>2 DEF WInv, World, PidIsOwners, InOwnersBoot
    <3>2. QED
      BY <1>2, <1>5, <2>2, <3>1 DEF BootFits, BootIdentity
  <2>3. QED
    BY <1>3, <2>1, <2>2
<1>9. TokenFits'
  <2>1. OwnersToken' = OwnersToken
    BY <1>2 DEF OwnersToken, StartToken
  <2>2. QED
    BY <1>2, <1>6, <2>1 DEF TokenFits
<1>10. (claim'.mux_session # None /\ alive') => session'
  BY <1>2, <1>3, <1>5 DEF Answer, Yes, No, Unknown
<1>11. ClaimFits'
  BY <1>2, <1>5, <1>7, <1>8, <1>9, <1>10 DEF ClaimFits
<1>12. World' /\ PidIsOwners' /\ PidIsLaters'
  BY <1>2 DEF WInv, World, PidIsOwners, PidIsLaters, InOwnersBoot
<1>13. QED
  BY <1>11, <1>12 DEF WInv

LEMMA HeartbeatStep == WInv /\ Heartbeat => WInv'
<1> SUFFICES ASSUME WInv, Heartbeat PROVE WInv'
  OBVIOUS
<1>1. /\ UNCHANGED <<platform, clock, boot, procs, session, owner, alive>>
      /\ claim # None /\ clock \in Nat
      /\ claim' = [claim EXCEPT !.heartbeat_at = clock]
  BY DEF Heartbeat, WInv, World
<1>2. /\ claim' \in Claims
      /\ claim'.boot_id = claim.boot_id /\ claim'.pid = claim.pid
      /\ claim'.pid_start = claim.pid_start /\ claim'.mux_session = claim.mux_session
  BY <1>1 DEF WInv, ClaimFits, Claims
<1>3. OwnersToken' = OwnersToken /\ InOwnersBoot' = InOwnersBoot
  BY <1>1 DEF OwnersToken, StartToken, InOwnersBoot
<1>4. BootFits' /\ TokenFits'
  BY <1>1, <1>2, <1>3 DEF WInv, ClaimFits, BootFits, TokenFits
<1>5. ClaimFits'
  BY <1>1, <1>2, <1>4 DEF WInv, ClaimFits
<1>6. World' /\ PidIsOwners' /\ PidIsLaters'
  BY <1>1 DEF WInv, World, PidIsOwners, PidIsLaters, InOwnersBoot
<1>7. QED
  BY <1>5, <1>6 DEF WInv

(* The steps of the machine that leave the boot alone. *)
LEMMA ProcessStep ==
  WInv /\ (OwnerExits \/ Spawn \/ Exit \/ CloseSession \/ OpenSession \/ Tick) => WInv'
<1>1. ASSUME WInv, OwnerExits PROVE WInv'
  <2>1. ClaimFits'
    BY <1>1, SameClaimFits DEF OwnerExits
  <2>2. World' /\ PidIsOwners' /\ PidIsLaters'
    BY <1>1 DEF OwnerExits, WInv, World, PidIsOwners, PidIsLaters, InOwnersBoot
  <2>3. QED
    BY <2>1, <2>2 DEF WInv
<1>2. ASSUME WInv, Spawn PROVE WInv'
  <2>1. PICK q \in Pids :
          /\ procs[q] = None
          /\ q = owner.pid => clock > owner.born
          /\ procs' = [procs EXCEPT ![q] = clock]
    BY <1>2 DEF Spawn
  <2>2. ClaimFits'
    BY <1>2, SameClaimFits DEF Spawn
  <2>3. World'
    BY <1>2, <2>1 DEF Spawn, WInv, World
  <2>4. alive => q # owner.pid
    BY <1>2, <2>1, ValuesAssumption DEF WInv, World, PidIsOwners
  <2>5. PidIsOwners' /\ PidIsLaters'
    BY <1>2, <2>1, <2>4 DEF Spawn, WInv, World, PidIsOwners, PidIsLaters, InOwnersBoot
  <2>6. QED
    BY <2>2, <2>3, <2>5 DEF WInv
<1>3. ASSUME WInv, Exit PROVE WInv'
  <2>1. ClaimFits'
    BY <1>3, SameClaimFits DEF Exit
  <2>2. World' /\ PidIsOwners' /\ PidIsLaters'
    BY <1>3 DEF Exit, WInv, World, PidIsOwners, PidIsLaters, InOwnersBoot
  <2>3. QED
    BY <2>1, <2>2 DEF WInv
<1>4. ASSUME WInv, CloseSession PROVE WInv'
  <2>1. ~alive' /\ (alive => procs' = [procs EXCEPT ![owner.pid] = None])
        /\ (~alive => procs' = procs)
    BY <1>4 DEF CloseSession, WInv, PidIsOwners
  <2>2. ClaimFits'
    BY <1>4, <2>1, SameClaimFits DEF CloseSession
  <2>3. World' /\ PidIsOwners' /\ PidIsLaters'
    BY <1>4, <2>1 DEF CloseSession, WInv, World, PidIsOwners, PidIsLaters
  <2>4. QED
    BY <2>2, <2>3 DEF WInv
<1>5. ASSUME WInv, OpenSession PROVE WInv'
  <2>1. ClaimFits'
    BY <1>5, SameClaimFits DEF OpenSession
  <2>2. World' /\ PidIsOwners' /\ PidIsLaters'
    BY <1>5 DEF OpenSession, WInv, World, PidIsOwners, PidIsLaters
  <2>3. QED
    BY <2>1, <2>2 DEF WInv
<1>6. ASSUME WInv, Tick PROVE WInv'
  <2>1. ClaimFits'
    BY <1>6, SameClaimFits DEF Tick
  <2>2. World' /\ PidIsOwners' /\ PidIsLaters'
    BY <1>6 DEF Tick, WInv, World, PidIsOwners, PidIsLaters, InOwnersBoot
  <2>3. QED
    BY <2>1, <2>2 DEF WInv
<1>7. QED
  BY <1>1, <1>2, <1>3, <1>4, <1>5, <1>6

(* A correction moves the instant that is read, not the boot. *)
LEMMA CorrectClockStep == WInv /\ CorrectClock => WInv'
<1> SUFFICES ASSUME WInv, CorrectClock PROVE WInv'
  OBVIOUS
<1>1. PICK n \in 0 .. MaxNudge : boot' = [boot EXCEPT !.nudge = n]
  BY DEF CorrectClock
<1>2. /\ boot'.at = boot.at /\ boot'.count = boot.count
      /\ boot' \in [count : Nat, at : Nat, nudge : 0 .. MaxNudge]
  BY <1>1 DEF WInv, World
<1>3. UNCHANGED <<platform, clock, procs, session, owner, alive, claim>>
  BY DEF CorrectClock
<1>4. OwnersToken' = OwnersToken /\ InOwnersBoot' = InOwnersBoot
  BY <1>2, <1>3 DEF OwnersToken, StartToken, InOwnersBoot
<1>5. BootFits' /\ TokenFits' <=> BootFits /\ TokenFits
  BY <1>2, <1>3, <1>4 DEF BootFits, TokenFits
<1>6. ClaimFits'
  BY <1>3, <1>5 DEF WInv, ClaimFits
<1>7. World' /\ PidIsOwners' /\ PidIsLaters'
  BY <1>2, <1>3 DEF WInv, World, PidIsOwners, PidIsLaters, InOwnersBoot
<1>8. QED
  BY <1>6, <1>7 DEF WInv

(* After a reboot the owner is gone, and its boot with it. *)
LEMMA RebootStep == WInv /\ Reboot => WInv'
<1> SUFFICES ASSUME WInv, Reboot PROVE WInv'
  OBVIOUS
<1>1. /\ clock' = clock + 1 /\ alive' = FALSE /\ session' = FALSE
      /\ boot' = [count |-> boot.count + 1, at |-> clock + 1, nudge |-> 0]
      /\ procs' = [q \in Pids |-> None]
      /\ UNCHANGED <<platform, owner, claim>>
  BY DEF Reboot
<1>2. World'
  <2>1. clock \in Nat /\ boot.count \in Nat /\ 0 \in 0 .. MaxNudge
    BY WorldAssumption DEF WInv, World
  <2>2. boot' \in [count : Nat, at : Nat, nudge : 0 .. MaxNudge]
    <3>1. boot.count + 1 \in Nat /\ clock + 1 \in Nat
      BY <2>1
    <3>2. QED
      BY <1>1, <2>1, <3>1
  <2>3. procs' \in [Pids -> Nat \union {None}]
    BY <1>1
  <2>4. owner.boot <= boot'.count /\ owner.born <= clock'
    <3>1. boot'.count = boot.count + 1 /\ clock' = clock + 1
      BY <1>1
    <3>2. QED
      BY <2>1, <3>1 DEF WInv, World
  <2>5. QED
    BY <1>1, <2>1, <2>2, <2>3, <2>4 DEF WInv, World
<1>3. ~InOwnersBoot'
  BY <1>1 DEF WInv, World, InOwnersBoot
<1>4. PidIsOwners' /\ PidIsLaters'
  BY <1>1 DEF WInv, World, PidIsOwners, PidIsLaters
<1>5. claim # None => BootFits' /\ TokenFits'
  <2>1. CASE platform = "linux"
    BY <1>1, <1>3, <2>1 DEF WInv, ClaimFits, BootFits, TokenFits
  <2>2. CASE platform # "linux"
    <3>1. OwnersToken' = OwnersToken
      BY <1>1, <2>2 DEF OwnersToken, StartToken, WInv, World, Platforms
    <3>2. QED
      BY <1>1, <1>3, <2>2, <3>1 DEF WInv, ClaimFits, BootFits, TokenFits
  <2>3. QED
    BY <2>1, <2>2
<1>6. ClaimFits'
  BY <1>1, <1>5 DEF WInv, ClaimFits
<1>7. QED
  BY <1>2, <1>4, <1>6 DEF WInv

LEMMA NextWInv == WInv /\ [Next]_vars => WInv'
<1> SUFFICES ASSUME WInv, [Next]_vars PROVE WInv'
  OBVIOUS
<1>1. CASE UNCHANGED vars
  <2>1. UNCHANGED <<platform, clock, boot, procs, session, owner, alive, claim>>
    BY <1>1 DEF vars
  <2>2. ClaimFits'
    BY <2>1, SameClaimFits
  <2>3. World' /\ PidIsOwners' /\ PidIsLaters'
    BY <2>1 DEF WInv, World, PidIsOwners, PidIsLaters, InOwnersBoot
  <2>4. QED
    BY <2>2, <2>3 DEF WInv
<1>2. QED
  BY <1>1, RequestStep, HeartbeatStep, ProcessStep, CorrectClockStep, RebootStep
  DEF Next

LEMMA AlwaysWInv == Spec => []WInv
  BY InitWInv, NextWInv, PTL DEF Spec

-----------------------------------------------------------------------------
(* No combination of answered and unanswered probes, corrected clocks and  *)
(* re-rendered tokens ever calls a running owner dead.                     *)
THEOREM NeverDeadWhileRunning == Spec => []DeadOnlyIfGone
<1>1. WInv => DeadOnlyIfGone
  BY RunningIsNotDead DEF DeadOnlyIfGone
<1>2. QED
  BY <1>1, AlwaysWInv, PTL

(* An owner whose pid and start token were recorded is called dead once it *)
(* is gone, whoever has its pid now.                                       *)
THEOREM GoneIsAlwaysFound == Spec => []GoneIsFound
  BY GoneIsDead, AlwaysWInv, PTL

(* The verdict DEAD is never taken back: what it says is true              *)
(* (RunningIsNotDead), an owner does not come back, and one that is gone   *)
(* is found (GoneIsDead).                                                  *)
THEOREM DeadForGood == Spec => DeathIsFinal
<1>1. ASSUME WInv, WInv', [Next]_vars,
             claim # None, claim' = claim, claim.boot_id # None, claim.pid # None,
             IsStartToken(claim.pid_start), claim.pid_start.kind # "ps",
             Assess(claim, Truth(claim.pid), Age) = DEAD
      PROVE  Assess(claim, Truth(claim.pid), Age)' = DEAD
  <2>1. Truth(claim.pid) \in Readings(claim.pid)
    BY DEF Readings, Truth
  <2>2. ~alive
    BY <1>1, <2>1, RunningIsNotDead
  <2>3. ~alive'
    BY <1>1, <2>2 DEF Next, vars, Request, Heartbeat, OwnerExits, Spawn, Exit,
       CloseSession, OpenSession, Tick, CorrectClock, Reboot, WInv, World
  <2>4. GoneIsFound'
    BY <1>1, GoneIsDead, PTL
  <2>5. QED
    BY <1>1, <2>3, <2>4 DEF GoneIsFound, IsStartToken
<1>2. QED
  BY <1>1, AlwaysWInv, PTL DEF Spec, DeathIsFinal
=============================================================================
