---------------------------- MODULE MCOwnerWorld ----------------------------
(* TLC instance of the owner's world and, apart from it, of what else is   *)
(* concluded from records that others write: the initial state picks a     *)
(* part, the others stand still. Pids, checkouts and projects are          *)
(* interchangeable.                                                        *)
EXTENDS OwnerWorld, TLC

CONSTANTS
  MaxStarts,
  Checkouts, MaxCommits,
  Projects, MaxTexts, MaxOwn, MaxFaults,
  Tabs, Commands,
  Users, Slugs, MaxId, MaxFiles

VARIABLES
  part,
  recordPlatform, recordClock, recordBoot, recordProcs,         \* LoopRecords
  unsaved, supervisor, loopCode, loopPid, reader,
  history, merges, head, mark, scrum, covered,                  \* CheckIn
  catalog, global, texts, archive, agents, git, retiring,       \* Retire
  reached, late, faults,
  registry, temp, saves, crossed, pending, wanted, unkept,      \* Tabs
  items, command, approved                                      \* Backlog

Records == INSTANCE LoopRecords WITH
  platform <- recordPlatform, clock <- recordClock, boot <- recordBoot, procs <- recordProcs
CheckIns   == INSTANCE CheckIn
Retirement == INSTANCE Retire
Restore    == INSTANCE Tabs
Tickets    == INSTANCE Backlog

recordsVars  == <<recordPlatform, recordClock, recordBoot, recordProcs,
                  unsaved, supervisor, loopCode, loopPid, reader>>
checkInVars  == <<history, merges, head, mark, scrum, covered>>
retireVars   == <<catalog, global, texts, archive, agents, git, retiring,
                  reached, late, faults>>
restoreVars  == <<registry, temp, saves, crossed, pending, wanted, unkept>>
ticketsVars  == <<items, command, approved>>

partsVars ==
  <<part, vars, recordsVars, checkInVars, retireVars, restoreVars, ticketsVars>>

Symmetry == Permutations(Pids) \union Permutations(Checkouts) \union Permutations(Projects)

-----------------------------------------------------------------------------
PartsInit ==
  /\ part \in {"owner", "records", "check-ins", "retirement", "restore", "tickets"}
  /\ Init /\ Records!Init /\ CheckIns!Init /\ Retirement!Init /\ Restore!Init
  /\ Tickets!Init
  /\ part # "owner" => platform = "linux" /\ owner.inside
  /\ part # "records" => recordPlatform = "linux"

PartsNext ==
  /\ UNCHANGED part
  /\ IF part = "owner"      THEN Next            ELSE UNCHANGED vars
  /\ IF part = "records"    THEN Records!Next    ELSE UNCHANGED recordsVars
  /\ IF part = "check-ins"  THEN CheckIns!Next   ELSE UNCHANGED checkInVars
  /\ IF part = "retirement" THEN Retirement!Next ELSE UNCHANGED retireVars
  /\ IF part = "restore"    THEN Restore!Next    ELSE UNCHANGED restoreVars
  /\ IF part = "tickets"    THEN Tickets!Next    ELSE UNCHANGED ticketsVars

PartsSpec == PartsInit /\ [][PartsNext]_partsVars

-----------------------------------------------------------------------------
(* The properties of the other parts, each under its own name.             *)

(* A running supervisor's pid file is not pruned: see module LoopRecords.  *)
PrunedHasEnded == Records!PrunedHasEnded

(* A verdict is about the supervisor it names: see module LoopRecords.     *)
VerdictIsItsOwn == Records!VerdictIsItsOwn

(* No commit falls between two check-ins: see module CheckIn.              *)
WatermarkIsCovered == CheckIns!WatermarkIsCovered

(* The conventions are never in no place: see module Retire.               *)
NeverInNone == Retirement!NeverInNone

(* A tab's entry is lost only to saves that overlap: see module Tabs.      *)
TabsSurvive == Restore!TabsSurvive

(* A closed item was the owner's to close: see module Backlog.             *)
ClosedWasWorkable == Tickets!ClosedWasWorkable
=============================================================================
