--------------------------- MODULE MCOperatorWork ---------------------------
(* TLC instances of the work protocol: two instances of the operator and   *)
(* one item. Run `work` explores two settings, chosen in the initial state:*)
(* claims and reclaims with reboots and a clock, and worktrees and ends of *)
(* sessions with neither. All the commands together are out of reach.      *)
EXTENDS OperatorWork, TLC

CONSTANTS a, b

VARIABLE setting

(* Every identity agent_identity() can record here. *)
RecordedIdentities ==
  [boot_id     : {BootId(n) : n \in 0 .. MaxBoot} \union {None},
   mux_session : {a, b, None},
   pid         : Processes \union {None},
   pid_start   : {Token(p) : p \in Processes} \union {None}]

(* Everything confirmed, or a machine that only answers for its sessions. *)
FullOrSession == {{"boot", "pid", "mux"}, {"mux"}}
Full          == {{"boot", "pid", "mux"}}

Symmetry == Permutations({a, b})

InWorktrees == INSTANCE OperatorWork WITH
  Commands <- {"new", "finish", "reclaim", "recover", "edit", "end"},
  Confirmed <- Full, MaxTime <- 0, MaxRevision <- 1, MaxBoot <- 0

SettingsInit == setting \in {"claims", "worktrees"} /\ Init

SettingsNext ==
  /\ IF setting = "claims" THEN Next ELSE InWorktrees!Next
  /\ UNCHANGED setting

SettingsSpec == SettingsInit /\ [][SettingsNext]_<<vars, setting>>

ClaimsSpec == Init /\ setting = "claims" /\ [][Next /\ UNCHANGED setting]_<<vars, setting>>
=============================================================================
