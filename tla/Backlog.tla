------------------------------- MODULE Backlog -------------------------------
(***************************************************************************)
(* The backlog of a repository (backlog_tool.py): one file per item, named *)
(* by an id and a slug, read and rewritten by agents and by the product    *)
(* owner with no lock between them. An agent may work an item the owner    *)
(* has approved, or one that it filed against an approved one.             *)
(***************************************************************************)
EXTENDS Naturals, FiniteSetsExt

CONSTANTS
  None,
  Users,      \* those who run `backlog`, each a process
  MaxId,      \* bound: ids
  MaxFiles,   \* bound: files
  Slugs       \* slugs titles come to, as numbers in the order of their names

VARIABLES
  items,      \* the files: per name, the status and the item it blocks
  command,    \* what each user is doing
  approved    \* the names the owner has approved, here or before a merge

vars == <<items, command, approved>>

Ids      == 1 .. MaxId
Names    == Ids \X Slugs
Active   == {"proposed", "open"}
Terminal == {"closed", "rejected"}

Item == [status : Active \union Terminal, blocks : 0 .. MaxId]

Idle == [at |-> "idle"]
Do(u, c) == command' = [command EXCEPT ![u] = c]

-----------------------------------------------------------------------------
(* Reading.                                                                *)

(* item_paths().                                                           *)
Files == {n \in Names : items[n] # None}

(* _item_path(), by_filename_id(): the first file of an id, in name order. *)
First(id) ==
  LET named == {n \in Files : n[1] = id}
  IN IF named = {} THEN None ELSE CHOOSE n \in named : \A m \in named : n[2] <= m[2]

(* next_id().                                                              *)
NextId == Max({n[1] : n \in Files} \union {0}) + 1

(* Mutant of Workable: what an item blocks need only be alive. *)
WorkableIfAlive(item) ==
  \/ item.status = "open"
  \/ /\ item.status = "proposed" /\ item.blocks # 0
     /\ First(item.blocks) # None
     /\ items[First(item.blocks)].status \in Active

(* why_not_workable() is None.                                             *)
Workable(item) ==
  \/ item.status = "open"
  \/ /\ item.status = "proposed" /\ item.blocks # 0
     /\ First(item.blocks) # None
     /\ items[First(item.blocks)].status = "open"

-----------------------------------------------------------------------------
(* `backlog new`: the id is read, then the file is created. An id nobody   *)
(* has is left out of what a new item may block: it grants nothing.        *)

AllocateId(u) ==
  /\ command[u] = Idle /\ NextId \in Ids /\ Cardinality(Files) < MaxFiles
  /\ \E slug \in Slugs, blocks \in {0} \union {n[1] : n \in Files} :
       Do(u, [at |-> "write new", name |-> <<NextId, slug>>, blocks |-> blocks])
  /\ UNCHANGED <<items, approved>>

NewItem(blocks) == [status |-> "proposed", blocks |-> blocks]

(* _write_new(): a name that is taken is an error.                         *)
WriteNew(u) ==
  /\ command[u].at = "write new"
  /\ items' = IF command[u].name \in Files THEN items
              ELSE [items EXCEPT ![command[u].name] = NewItem(command[u].blocks)]
  /\ Do(u, Idle)
  /\ UNCHANGED approved

-----------------------------------------------------------------------------
(* `backlog approve` and `backlog close`: the item is judged, and then its *)
(* front matter is rewritten. What else is in the file stays as it is; the *)
(* date and the commit of a close are left out.                            *)

Rewrite(u, n, status) == Do(u, [at |-> "rewrite", name |-> n, status |-> status])

(* approve_item().                                                         *)
Approve(u, id) ==
  /\ command[u] = Idle /\ First(id) # None
  /\ items[First(id)].status = "proposed"
  /\ Rewrite(u, First(id), "open")
  /\ UNCHANGED <<items, approved>>

(* close_item(), with a commit that resolves.                              *)
Close(u, id) ==
  /\ command[u] = Idle /\ First(id) # None
  /\ items[First(id)].status \in Active
  /\ Workable(items[First(id)])
  /\ Rewrite(u, First(id), "closed")
  /\ UNCHANGED <<items, approved>>

(* close_item() with --reject.                                             *)
Reject(u, id) ==
  /\ command[u] = Idle /\ First(id) # None
  /\ items[First(id)].status \in Active
  /\ Rewrite(u, First(id), "rejected")
  /\ UNCHANGED <<items, approved>>

(* _set_front_matter().                                                    *)
SetFrontMatter(u) ==
  /\ command[u].at = "rewrite"
  /\ items' = [items EXCEPT ![command[u].name].status = command[u].status]
  /\ approved' = approved \union
                   (IF command[u].status = "open" THEN {command[u].name} ELSE {})
  /\ Do(u, Idle)

-----------------------------------------------------------------------------
(* git: another worktree's item arrives, under an id that may be taken.    *)
Merge ==
  Cardinality(Files) < MaxFiles /\ \E n \in Names \ Files, status \in Active :
    /\ items' = [items EXCEPT ![n] =
                   [status |-> status, blocks |-> 0]]
    /\ approved' = approved \union (IF status = "open" THEN {n} ELSE {})
    /\ UNCHANGED command

Init ==
  /\ items = [n \in Names |-> None]
  /\ command = [u \in Users |-> Idle]
  /\ approved = {}

Next ==
  \/ \E u \in Users : AllocateId(u) \/ WriteNew(u) \/ SetFrontMatter(u)
  \/ \E u \in Users, id \in Ids : Approve(u, id) \/ Close(u, id) \/ Reject(u, id)
  \/ Merge

Spec == Init /\ [][Next]_vars

-----------------------------------------------------------------------------
(* Properties.                                                             *)

TypeOK ==
  /\ items \in [Names -> Item \union {None}]
  /\ approved \subseteq Names

(* close_item(): "an agent could file its own item and close it as         *)
(* shipped". Whatever commands and merges overlap, a closed item was       *)
(* approved by the owner, or names an id that was.                         *)
ClosedWasWorkable ==
  \A n \in Files : items[n].status = "closed" =>
    n \in approved \/ \E m \in approved : m[1] = items[n].blocks
=============================================================================
