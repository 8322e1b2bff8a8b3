------------------------------- MODULE Retire -------------------------------
(***************************************************************************)
(* `operator projects retire` (copilot_operator.py,                        *)
(* project_instructions.py): the conventions of the user-scope file go     *)
(* into the AGENTS.md of every registered project, and then that file is   *)
(* archived and removed. Meanwhile agents register projects, the user      *)
(* edits either file, calls fail and the command is killed.                *)
(*                                                                         *)
(* A text of the user-scope file is a number, 1 the one that was shipped.  *)
(***************************************************************************)
EXTENDS Naturals

CONSTANTS
  None,
  Projects,
  MaxTexts,   \* bound: texts of the user-scope file
  MaxOwn,     \* bound: edits of each AGENTS.md
  MaxFaults   \* bound: calls that fail, and kills

VARIABLES
  catalog,   \* registered projects
  global,    \* text of the user-scope file, 0 where there is none
  texts,     \* the last text it had
  archive,   \* of each text, its copy: None, "whole" or "torn"
  agents,    \* AGENTS.md of each project: the author's text, the managed block
  git,       \* what git has of it
  retiring,  \* the command
  reached,   \* projects that had been written to when the file was removed
  late,      \* texts that came after the copy and before the removal
  faults

vars == <<catalog, global, texts, archive, agents, git, retiring, reached, late, faults>>

Texts == 1 .. MaxTexts

NoFile == [own |-> 0, block |-> 0]

Idle == [at |-> "idle", listed |-> {}, todo |-> {}, source |-> 0, snapshot |-> {},
         current |-> {}, blocked |-> FALSE, project |-> None, seen |-> NoFile]

At(step) == retiring.at = step
Go(step) == retiring' = [retiring EXCEPT !.at = step]

Fault   == faults < MaxFaults /\ faults' = faults + 1
NoFault == UNCHANGED faults

-----------------------------------------------------------------------------
(* resolve_source(): the deployed file where it has edits and can be read, *)
(* else the template.                                                      *)
ResolveSource(readable) == IF readable /\ global # 0 THEN global ELSE 1

(* catalog_projects(), and then the prompt.                                *)
List ==
  /\ At("idle") /\ catalog # {}
  /\ \E readable \in BOOLEAN :
       /\ IF readable THEN NoFault ELSE global > 1 /\ Fault
       /\ retiring' = [Idle EXCEPT !.at = "snapshot", !.listed = catalog,
                                   !.source = ResolveSource(readable)]
  /\ UNCHANGED <<catalog, global, texts, archive, agents, git, reached, late>>

(* _catalog_fingerprint(), or a no.                                        *)
Snapshot ==
  /\ At("snapshot")
  /\ \/ retiring' = [retiring EXCEPT !.at = "project", !.todo = retiring.listed,
                                     !.snapshot = catalog]
     \/ retiring' = Idle
  /\ UNCHANGED <<catalog, global, texts, archive, agents, git, reached, late, faults>>

-----------------------------------------------------------------------------
(* _place_one().                                                           *)

(* A project that is missing, has not chosen its features, cannot be       *)
(* examined, or whose author declines, blocks the removal.                 *)
Blocked(p) ==
  retiring' = [retiring EXCEPT !.at = "project", !.todo = @ \ {p}, !.blocked = TRUE]

(* compose(): the block and nothing else is swapped.                       *)
Compose(existing, source) == [existing EXCEPT !.block = source]

LookAt(p) ==
  /\ At("project") /\ p \in retiring.todo
  /\ \/ agents[p].block = retiring.source /\ NoFault
        /\ retiring' = [retiring EXCEPT !.todo = @ \ {p}]
     \/ agents[p].block # retiring.source /\ NoFault
        /\ retiring' = [retiring EXCEPT !.at = "write", !.project = p, !.seen = agents[p]]
     \/ agents[p].own # 0 /\ agents[p].block = 0 /\ Blocked(p) /\ NoFault
     \/ Blocked(p) /\ Fault
  /\ UNCHANGED <<catalog, global, texts, archive, agents, git, reached, late>>

(* write_text_atomic(): what was composed from the text read, or nothing.  *)
WriteText(p) == agents' = [agents EXCEPT ![p] = Compose(retiring.seen, retiring.source)]

(* CLAUDE.md and the subprojects come after it, and may fail as well.      *)
WriteAgents ==
  LET p == retiring.project IN
  /\ At("write")
  /\ \/ /\ WriteText(p) /\ NoFault
        /\ retiring' = [retiring EXCEPT !.at = "project", !.todo = @ \ {p}]
     \/ (WriteText(p) \/ UNCHANGED agents) /\ Blocked(p) /\ Fault
  /\ UNCHANGED <<catalog, global, texts, archive, git, reached, late>>

-----------------------------------------------------------------------------
(* retire(), once every project had its turn.                              *)

(* Mutant of Placed: a project that was given nothing blocks no more. *)
PlacedInPart == retiring.listed # {}

Placed == ~retiring.blocked

(* recheck(), and there may be nothing to remove.                          *)
Recheck ==
  /\ At("project") /\ retiring.todo = {}
  /\ retiring' = [retiring EXCEPT
       !.current = catalog,
       !.at = IF Placed /\ catalog = retiring.snapshot /\ global # 0
              THEN "preserve" ELSE "stage"]
  /\ UNCHANGED <<catalog, global, texts, archive, agents, git, reached, late, faults>>

(* preserve(): a copy that is there must be whole, a new one is read back. *)
Preserve ==
  /\ At("preserve")
  /\ \/ global = 0 /\ Go("stage") /\ NoFault /\ UNCHANGED archive
     \/ /\ global # 0 /\ archive[global] = None
        /\ archive' = [archive EXCEPT ![global] = "whole"] /\ Go("unlink") /\ NoFault
     \/ /\ global # 0 /\ archive[global] = None
        /\ archive' \in {archive, [archive EXCEPT ![global] = "torn"]}
        /\ Go("stage") /\ Fault
     \/ /\ global # 0 /\ archive[global] # None
        /\ Go(IF archive[global] = "whole" THEN "unlink" ELSE "stage")
        /\ NoFault /\ UNCHANGED archive
  /\ UNCHANGED <<catalog, global, texts, agents, git, reached, late>>

Unlink ==
  /\ At("unlink") /\ Go("stage")
  /\ \/ global' = 0 /\ reached' = reached \union retiring.listed /\ NoFault
     \/ UNCHANGED <<global, reached>> /\ Fault
  /\ UNCHANGED <<catalog, texts, archive, agents, git, late>>

(* stage_agents_files() and commit_agents_files(): the files that hold the *)
(* block. A project may be no repository, git may refuse, and the user may *)
(* not want the commit.                                                    *)
Stage ==
  LET managed == {p \in retiring.listed : agents[p].block # 0} IN
  /\ At("stage") /\ retiring' = Idle
  /\ \E staged \in SUBSET managed : \E committed \in SUBSET staged :
       git' = [p \in Projects |-> IF p \in committed THEN "committed"
                                 ELSE IF p \in staged THEN "staged" ELSE git[p]]
  /\ UNCHANGED <<catalog, global, texts, archive, agents, reached, late, faults>>

-----------------------------------------------------------------------------
(* Everybody else.                                                         *)

Killed ==
  /\ ~At("idle") /\ retiring' = Idle /\ Fault
  /\ UNCHANGED <<catalog, global, texts, archive, agents, git, reached, late>>

Register(p) ==
  /\ catalog' = catalog \union {p} /\ catalog' # catalog
  /\ UNCHANGED <<global, texts, archive, agents, git, retiring, reached, late, faults>>

(* A user edits, or writes anew, the user-scope file.                      *)
EditGlobal ==
  /\ texts < MaxTexts /\ texts' = texts + 1 /\ global' = texts'
  /\ late' = late \union (IF At("unlink") THEN {texts'} ELSE {})
  /\ UNCHANGED <<catalog, archive, agents, git, retiring, reached, faults>>

EditAgents(p) ==
  /\ agents[p].own < MaxOwn /\ agents' = [agents EXCEPT ![p].own = @ + 1]
  /\ UNCHANGED <<catalog, global, texts, archive, git, retiring, reached, late, faults>>

-----------------------------------------------------------------------------
Init ==
  /\ catalog = {} /\ global = 1 /\ texts = 1
  /\ archive = [t \in Texts |-> None]
  /\ agents = [p \in Projects |-> NoFile] /\ git = [p \in Projects |-> "untracked"]
  /\ retiring = Idle /\ reached = {} /\ late = {} /\ faults = 0

Next ==
  \/ List \/ Snapshot \/ WriteAgents \/ Recheck \/ Preserve \/ Unlink \/ Stage \/ Killed
  \/ \E p \in Projects : LookAt(p) \/ Register(p) \/ EditAgents(p)
  \/ EditGlobal

Spec == Init /\ [][Next]_vars

-----------------------------------------------------------------------------
(* Properties.                                                             *)

(* project_instructions.py: "The failure mode is a machine with the        *)
(* conventions in two places, never one with them in none." Where the      *)
(* user-scope file is gone, its last text is archived whole, unless it     *)
(* came after the copy, and the projects the command had listed hold the   *)
(* managed block, through kills, torn copies and calls that fail.          *)
NeverInNone ==
  global = 0 =>
    /\ archive[texts] = "whole" \/ texts \in late
    /\ \A p \in reached : agents[p].block # 0

(* retire(): "a row added after the snapshot would never be written to,    *)
(* and removing the global file anyway is the gap this whole function      *)
(* exists to prevent". What the recheck finds registered has been written  *)
(* to before the file is removed.                                          *)
ListIsCurrent == At("preserve") \/ At("unlink") => retiring.current \subseteq retiring.listed
=============================================================================
