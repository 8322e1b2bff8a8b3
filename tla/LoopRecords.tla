---------------------------- MODULE LoopRecords ----------------------------
(***************************************************************************)
(* The records a supervisor leaves of itself (copilot_operator.py): the    *)
(* code it runs and, last, its pid file; and what a reader such as         *)
(* `operator list` concludes from them. There is no lock. Supervisors end, *)
(* crash and are replaced, pids are reused, the machine reboots, a write   *)
(* fails and a probe may not answer.                                       *)
(*                                                                         *)
(* A supervisor is numbered by its start; 0 is any other process. A second *)
(* passes with every process that starts, so that a pid is not used twice  *)
(* in one. A code record stands for the sources its writer imported.       *)
(***************************************************************************)
EXTENDS Liveness

CONSTANTS
  Pids,
  MaxStarts,   \* bound: processes that start
  MaxBoots,    \* bound: boots of the machine
  MaxNudge     \* how far time correction moves a boot instant

VARIABLES
  platform, clock, boot, \* the machine, as in module OwnerWorld
  procs,       \* of each pid, the process that has it
  unsaved,     \* the supervisor, if it could not write its code record
  supervisor,  \* the one there is: its number, pid and step; or None
  loopCode,    \* the code record
  loopPid,     \* the pid file
  reader       \* a reader: its step, and what it has read

vars == <<platform, clock, boot, procs, unsaved, supervisor, loopCode, loopPid, reader>>

machine == <<platform, clock, boot, procs>>

Idle == [at |-> "idle"]

NoProcess == [up |-> FALSE, born |-> 0, run |-> 0]

-----------------------------------------------------------------------------
(* The machine's answers.                                                  *)

BootIdentity(nudge) ==
  IF platform = "linux"
  THEN [kind |-> "uuid", value |-> boot.count]
  ELSE [kind |-> "instant", value |-> boot.at + nudge]

StartToken(pid) ==
  [kind  |-> platform,
   value |-> procs[pid].born - (IF platform = "linux" THEN boot.at ELSE 0)]

(* What a probe answers a reader, later.                                   *)
Tokens(pid) == {None} \union (IF procs[pid].up THEN {StartToken(pid)} ELSE {})
Boots       == {None} \union {BootIdentity(nudge) : nudge \in 0 .. MaxNudge}

-----------------------------------------------------------------------------
(* A supervisor.                                                           *)

(* _loop_pid_stamp(), and the same three in the code record. Each of the   *)
(* two probes answers, or does not. Who writes it, `by`, is not in a file. *)
Stamps(pid) ==
  {[pid |-> pid, pid_start |-> token, boot |-> id, by |-> procs[pid].run] :
     token \in {StartToken(pid), None}, id \in {BootIdentity(0), None}}

Says(stamps) == <<stamps.pid, stamps.pid_start, stamps.boot>>

Starts(pid, run) ==
  /\ ~procs[pid].up /\ clock < MaxStarts /\ clock' = clock + 1
  /\ procs' = [procs EXCEPT ![pid] = [up |-> TRUE, born |-> clock', run |-> run]]

Start(pid) ==
  /\ supervisor = None /\ Starts(pid, clock')
  /\ supervisor' = [run |-> clock', pid |-> pid, at |-> "code"]
  /\ UNCHANGED <<platform, boot, unsaved, loopCode, loopPid, reader>>

(* _save_loop_code(): all of it, or a warning.                             *)
SaveLoopCode ==
  /\ supervisor # None /\ supervisor.at = "code"
  /\ \/ loopCode' \in Stamps(supervisor.pid) /\ UNCHANGED unsaved
     \/ unsaved' = unsaved \union {supervisor.run} /\ UNCHANGED loopCode
  /\ supervisor' = [supervisor EXCEPT !.at = "pid"]
  /\ UNCHANGED <<machine, loopPid, reader>>

(* _write_loop_pid_file().                                                 *)
WriteLoopPid ==
  /\ supervisor # None /\ supervisor.at = "pid"
  /\ loopPid' \in Stamps(supervisor.pid)
  /\ supervisor' = [supervisor EXCEPT !.at = "run"]
  /\ UNCHANGED <<machine, unsaved, loopCode, reader>>

(* It ends, and removes its pid file unless it was killed.                 *)
Leave ==
  /\ supervisor # None /\ supervisor' = None
  /\ procs' = [procs EXCEPT ![supervisor.pid] = NoProcess] /\ unsaved' = {}
  /\ loopPid' \in {loopPid, None}
  /\ UNCHANGED <<platform, clock, boot, loopCode, reader>>

-----------------------------------------------------------------------------
(* A reader.                                                               *)

(* _read_loop_pid_stamp().                                                 *)
ReadPid ==
  /\ reader = Idle /\ loopPid # None
  /\ reader' = [at |-> "probe", seen |-> loopPid]
  /\ UNCHANGED <<machine, unsaved, supervisor, loopCode, loopPid>>

BootRelative(token) == token # None /\ token.kind = "linux"

(* Mutant of Reused: what cannot be compared is another process. *)
ReusedUnlessSame(stamps, live, now) == SameStartToken(stamps.pid_start, live) # Yes

(* _loop_pid_reused().                                                     *)
Reused(stamps, live, now) ==
  \/ SameStartToken(stamps.pid_start, live) = No
  \/ /\ SameStartToken(stamps.pid_start, live) = Yes
     /\ BootRelative(stamps.pid_start)
     /\ SameBoot(stamps.boot, now) = No

(* _running_loop_identity(): one probe, of a stamped file only.            *)
Probe ==
  LET pid == reader.seen.pid
      prune == [at |-> "reread", seen |-> reader.seen]
  IN
  /\ reader.at = "probe"
  /\ \/ ~procs[pid].up /\ reader' = prune
     \/ /\ procs[pid].up
        /\ \E live \in Tokens(pid), now \in Boots :
             reader' = IF reader.seen.pid_start # None /\ Reused(reader.seen, live, now)
                       THEN prune
                       ELSE [at |-> "record", seen |-> reader.seen,
                             probed |-> reader.seen.pid_start # None,
                             live   |-> IF reader.seen.pid_start # None THEN live ELSE None]
  /\ UNCHANGED <<machine, unsaved, supervisor, loopCode, loopPid>>

(* _prune_loop_pid_file(): the file is read again, and removed if it says  *)
(* what it said.                                                           *)
ReRead ==
  /\ reader.at = "reread"
  /\ reader' = IF loopPid # None /\ Says(loopPid) = Says(reader.seen)
               THEN [at |-> "unlink", seen |-> reader.seen, again |-> loopPid.by]
               ELSE Idle
  /\ UNCHANGED <<machine, unsaved, supervisor, loopCode, loopPid>>

Unlink ==
  /\ reader.at = "unlink" /\ reader' = Idle
  /\ loopPid' = None
  /\ UNCHANGED <<machine, unsaved, supervisor, loopCode>>

(* Mutant of Describes: a pid is taken for an identity. *)
DescribesByPid(record, pid, live, now) == record.pid = pid

(* _record_describes(): each stamp only adds a refusal.                    *)
Describes(record, pid, live, now) ==
  /\ record.pid = pid
  /\ SameBoot(record.boot, now) # No
  /\ SameStartToken(record.pid_start, live) # No

(* loop_record_facts(): the record is its own, or there is none that is.   *)
Described(live, now) ==
  loopCode # None /\ Describes(loopCode, reader.seen.pid, live, now)

(* A token nobody has asked for is asked for here.                         *)
LiveTokens == IF reader.probed THEN {reader.live} ELSE Tokens(reader.seen.pid)

ReadRecord ==
  /\ reader.at = "record" /\ reader' = Idle
  /\ UNCHANGED <<machine, unsaved, supervisor, loopCode, loopPid>>

-----------------------------------------------------------------------------
(* Everything else on the machine.                                         *)

OtherStarts(pid) ==
  /\ Starts(pid, 0)
  /\ UNCHANGED <<platform, boot, unsaved, supervisor, loopCode, loopPid, reader>>

(* A reader dies with the machine.                                         *)
Reboot ==
  /\ boot.count < MaxBoots
  /\ boot' = [count |-> boot.count + 1, at |-> clock]
  /\ procs' = [pid \in Pids |-> NoProcess]
  /\ supervisor' = None /\ unsaved' = {} /\ reader' = Idle
  /\ UNCHANGED <<platform, clock, loopCode, loopPid>>

-----------------------------------------------------------------------------
Init ==
  /\ platform \in {"linux", "win"} /\ clock = 0
  /\ boot = [count |-> 1, at |-> 0]
  /\ procs = [pid \in Pids |-> NoProcess]
  /\ unsaved = {} /\ supervisor = None
  /\ loopCode = None /\ loopPid = None /\ reader = Idle

Next ==
  \/ SaveLoopCode \/ WriteLoopPid \/ Leave
  \/ ReadPid \/ Probe \/ ReRead \/ Unlink \/ ReadRecord
  \/ \E pid \in Pids : Start(pid) \/ OtherStarts(pid)
  \/ Reboot

Spec == Init /\ [][Next]_vars

-----------------------------------------------------------------------------
(* Properties.                                                             *)

(* The stamps name one process: the token alone, or with its boot.         *)
TellsApart(stamps) ==
  stamps.pid_start # None /\ (BootRelative(stamps.pid_start) => stamps.boot # None)

Ended(run) == ~(supervisor # None /\ supervisor.run = run)

(* _loop_pid_reused(): "answering \"yes, reused\" for a supervisor that is  *)
(* in fact running is not a missing notice, it is a destructive one". A    *)
(* reader is about to remove a pid file only after the supervisor it has   *)
(* judged has ended, and the one whose file it then read again: a file     *)
(* with the pid of the first may be another's only if it lacks the stamps. *)
PrunedHasEnded ==
  reader.at = "unlink" =>
    Ended(reader.seen.by) /\ (TellsApart(reader.seen) => Ended(reader.again))

(* loop_code_state(): "verdicts about the wrong process". Of a supervisor  *)
(* that runs, a reader is told that it has recorded nothing, or that the   *)
(* record is another's, only if its write failed; and of the state of its  *)
(* own code, where the record has its stamps and the probes answer.        *)
VerdictIsItsOwn ==
  (/\ reader.at = "record"
   /\ supervisor # None /\ supervisor.run = reader.seen.by) =>
    \A live \in LiveTokens, now \in Boots :
      /\ supervisor.run \notin unsaved => Described(live, now)
      /\ (/\ Described(live, now) /\ live # None /\ TellsApart(loopCode)
          /\ BootRelative(loopCode.pid_start) => now # None) =>
           loopCode.by = supervisor.run
=============================================================================
