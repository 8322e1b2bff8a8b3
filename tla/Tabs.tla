-------------------------------- MODULE Tabs --------------------------------
(***************************************************************************)
(* The registry of terminal tabs (copilot_operator.py): tabs.json names    *)
(* every instance that was started in a tab, so that `operator restore`    *)
(* can open them again after a reboot. Every start, stop and `operator     *)
(* tabs` reads the whole file, changes one entry and saves the whole file  *)
(* through one temporary file, with no lock. `operator restore` starts     *)
(* many instances at once.                                                 *)
(*                                                                         *)
(* An entry is abstracted to its presence. A save is three steps: the      *)
(* temporary file is truncated, written, and moved over the registry. Both *)
(* systems are allowed: where the temporary file of another command is     *)
(* open, the move takes it along (POSIX) or fails (Windows).               *)
(***************************************************************************)
CONSTANTS
  Tabs,     \* the instances started in tabs
  Commands  \* the `operator` commands under way at once

VARIABLES
  registry, \* tabs.json: the instances it names
  temp,     \* tabs.json.tmp
  saves,    \* what each command is about to save, and how far it is
  crossed,  \* the commands that ran beside another one
  pending,  \* instances whose start command is to run
  wanted,   \* instances started in a tab, and neither stopped nor removed
  unkept    \* those of them whose entry was refused, or lost to an overlap

vars == <<registry, temp, saves, crossed, pending, wanted, unkept>>

(* A file there is not, one that was truncated, one that two commands      *)
(* wrote over one another, and a text with its entries.                    *)
NoFile     == [is |-> "none", names |-> {}]
Truncated  == [is |-> "truncated", names |-> {}]
Mixed      == [is |-> "mixed", names |-> {}]
Text(tabs) == [is |-> "text", names |-> tabs]

File == {NoFile, Truncated, Mixed} \union {Text(tabs) : tabs \in SUBSET Tabs}

Save == [at : {"idle", "open", "write", "swap"}, file : {"closed", "temp", "registry", "gone"},
         entries : SUBSET Tabs, starts : SUBSET Tabs, drops : SUBSET Tabs]

Idle == [at |-> "idle", entries |-> {}, starts |-> {}, drops |-> {}, file |-> "closed"]

Busy == {c \in Commands : saves[c] # Idle}

-----------------------------------------------------------------------------
(* Reading.                                                                *)

(* read_tabs(): the file may be held by somebody else, or not parse.       *)
ReadTabs(readable) == readable /\ registry.is = "text"

(* load_tabs(): as far as it can be read.                                  *)
LoadTabs(readable) == IF ReadTabs(readable) THEN registry.names ELSE {}

(* Mutant of MayExtend: what cannot be read is taken to be empty. *)
MayExtendAnyway(readable) == TRUE

(* A start writes back only what it has read.                              *)
MayExtend(readable) == ReadTabs(readable)

-----------------------------------------------------------------------------
(* The commands.                                                           *)

Begin(c, starts, entries, drops) ==
  /\ saves' = [saves EXCEPT ![c] =
                 [at |-> "open", entries |-> entries, starts |-> starts,
                  drops |-> drops, file |-> "closed"]]
  /\ crossed' = IF Busy = {} THEN crossed ELSE crossed \union Busy \union {c}
  /\ UNCHANGED <<registry, temp>>

(* The user starts an instance in a tab.                                   *)
StartTab(i) ==
  /\ i \notin wanted \union pending
  /\ pending' = pending \union {i}
  /\ UNCHANGED <<registry, temp, saves, crossed, wanted, unkept>>

(* restore_tabs(): a tab for each of the chosen entries, all at once.      *)
RestoreTabs(readable, chosen) ==
  /\ chosen # {} /\ chosen \subseteq LoadTabs(readable) /\ pending = {}
  /\ pending' = chosen
  /\ UNCHANGED <<registry, temp, saves, crossed, wanted, unkept>>

(* register_tab(): an instance whose entry is refused runs all the same.   *)
RegisterTab(c, i, readable) ==
  /\ saves[c] = Idle /\ i \in pending
  /\ pending' = pending \ {i}
  /\ \/ /\ MayExtend(readable)
        /\ Begin(c, {i}, LoadTabs(readable) \union {i}, {})
        /\ UNCHANGED <<wanted, unkept>>
     \/ /\ ~MayExtend(readable)
        /\ wanted' = wanted \union {i}
        /\ unkept' = unkept \union ({i} \ registry.names)
        /\ UNCHANGED <<registry, temp, saves, crossed>>

(* remove_tab(), `operator tabs remove`: by stop and forget, or by hand.   *)
RemoveTab(c, i, readable) ==
  /\ saves[c] = Idle /\ i \in LoadTabs(readable)
  /\ Begin(c, {}, LoadTabs(readable) \ {i}, {i})
  /\ UNCHANGED <<pending, wanted, unkept>>

(* `operator tabs clear`.                                                  *)
ClearTabs(c) ==
  /\ saves[c] = Idle
  /\ Begin(c, {}, {}, Tabs)
  /\ UNCHANGED <<pending, wanted, unkept>>

-----------------------------------------------------------------------------
(* save_tabs().                                                            *)

(* The command is over; its instance runs when all went well.              *)
Ends(c, well) ==
  /\ crossed' = crossed \ {c}
  /\ wanted' = IF well THEN (wanted \union saves[c].starts) \ saves[c].drops ELSE wanted

(* What the file now names is kept; what a save that ran beside another    *)
(* one left out is lost to the overlap.                                    *)
Account(c) ==
  unkept' = IF c \in crossed THEN wanted' \ registry'.names
                             ELSE (unkept \intersect wanted') \ registry'.names

OpenTemp(c) ==
  /\ saves[c].at = "open"
  /\ temp' = Truncated
  /\ saves' = [saves EXCEPT ![c].at = "write", ![c].file = "temp"]
  /\ UNCHANGED <<registry, crossed, pending, wanted, unkept>>

(* Text written over another text may leave a tail of it.                  *)
Written(file, entries) ==
  {Text(entries)} \union (IF file = Truncated THEN {} ELSE {Mixed})

WriteTemp(c) ==
  /\ saves[c].at = "write"
  /\ UNCHANGED <<crossed, pending, wanted>>
  /\ \/ /\ saves[c].file = "temp"
        /\ temp' \in Written(temp, saves[c].entries)
        /\ UNCHANGED <<registry, unkept>>
     \/ /\ saves[c].file = "registry"
        /\ registry' \in Written(registry, saves[c].entries)
        /\ Account(c)
        /\ UNCHANGED temp
     \/ /\ saves[c].file = "gone"
        /\ UNCHANGED <<registry, temp, unkept>>
  /\ saves' = [saves EXCEPT ![c].at = "swap", ![c].file = "closed"]

(* A command that has the file open goes on writing where it now lies.     *)
Moved(file) ==
  CASE file = "temp" -> "registry" [] file = "registry" -> "gone" [] OTHER -> file

Swap(c) ==
  /\ saves[c].at = "swap" /\ temp # NoFile
  /\ registry' = temp /\ temp' = NoFile
  /\ saves' = [d \in Commands |->
                 IF d = c THEN Idle ELSE [saves[d] EXCEPT !.file = Moved(@)]]
  /\ Ends(c, TRUE) /\ Account(c)
  /\ UNCHANGED pending

(* The temporary file is gone, or held open: the command dies of it, and   *)
(* so it does when it is killed or the machine goes down.                  *)
Dies(c) ==
  /\ saves[c] # Idle
  /\ saves' = [saves EXCEPT ![c] = Idle]
  /\ Ends(c, FALSE)
  /\ UNCHANGED <<registry, temp, pending, unkept>>

-----------------------------------------------------------------------------
Init ==
  /\ registry = Text({}) /\ temp = NoFile
  /\ saves = [c \in Commands |-> Idle] /\ crossed = {}
  /\ pending = {} /\ wanted = {} /\ unkept = {}

Next ==
  \/ \E i \in Tabs : StartTab(i)
  \/ \E readable \in BOOLEAN :
       \/ \E chosen \in SUBSET Tabs : RestoreTabs(readable, chosen)
       \/ \E c \in Commands, i \in Tabs :
            RegisterTab(c, i, readable) \/ RemoveTab(c, i, readable)
  \/ \E c \in Commands :
       ClearTabs(c) \/ OpenTemp(c) \/ WriteTemp(c) \/ Swap(c) \/ Dies(c)

Spec == Init /\ [][Next]_vars

-----------------------------------------------------------------------------
(* Properties.                                                             *)

TypeOK ==
  /\ {registry, temp} \subseteq File
  /\ saves \in [Commands -> Save]
  /\ crossed \subseteq Commands /\ pending \subseteq Tabs
  /\ unkept \subseteq wanted /\ wanted \subseteq Tabs

(* read_tabs(): "the registry is rewritten whole". An instance that was    *)
(* started in a tab and not stopped since is in the registry, and restore  *)
(* finds it, whatever could not be read and whoever died while saving;     *)
(* only its own refused entry or saves that overlap can lose it.           *)
TabsSurvive == wanted \ unkept \subseteq registry.names
=============================================================================
