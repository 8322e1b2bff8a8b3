------------------------------ MODULE Handoff ------------------------------
(***************************************************************************)
(* The handoff files of one project (handoff_tool.py). Each instance has a *)
(* box, the file its next session reads and deletes, and one slot for the  *)
(* handoff that was still unread when the next one was written. Before it  *)
(* writes, every `handoff` moves what the version before left: the one     *)
(* next-session.md of the project and its archive superseded/.             *)
(*                                                                         *)
(* Nothing locks. A step is one look at a file, one rename or one write;   *)
(* the sessions and commands of other instances step in between. An agent  *)
(* runs one command at a time and takes it along when it dies. No agent    *)
(* of the version before, which writes next-session.md, is running.        *)
(***************************************************************************)
EXTENDS Integers, FiniteSets

CONSTANTS
  Instances,
  None,
  Archived,      \* the entries of superseded/, numbered
  MaxParked,     \* bound: files of one name in legacy/
  MaxWritten,    \* bound: handoffs of one instance
  MayFail        \* may a migration fail on a file that is there?

ASSUME HandoffAssumption ==
  /\ None \notin Instances
  /\ Archived \subseteq Nat \ {0}
  /\ MaxParked \in Nat /\ MaxWritten \in Nat
  /\ MayFail \in BOOLEAN

(* Paths in the project's directory. In legacy/ the k-th name that _park() *)
(* tries for a file is no name of another: no entry of superseded/ is      *)
(* called like another with a number added.                                *)
Box(i)       == <<"box", i>>
Prev(i)      == <<"prev", i>>
Old          == <<"next-session">>
Entry(e)     == <<"superseded", e>>
Parked(f, k) == <<"legacy", f, k>>

Boxes   == {Box(i) : i \in Instances}
Sources == {Old} \union {Entry(e) : e \in Archived}
Paths   == Boxes \union {Prev(i) : i \in Instances} \union Sources
             \union {Parked(f, k) : f \in Sources, k \in 0 .. MaxParked}

VARIABLES
  disk,     \* disk[path]: the document there
  written,  \* written[i]: how many handoffs instance i has written
  at,       \* at[i]: the next step of instance i's session or command
  mem       \* mem[i]: what that command or that session remembers

vars == <<disk, written, at, mem>>

(* A document is named by the instance in its authorship stamp, if it has  *)
(* one, and its number; what Init finds on the disk has 0 and below.       *)
Doc(by, n) == [by |-> by, n |-> n]
Documents  == [by : Instances \union {None}, n : Int]

There(path) == disk[path] # None

(* A migration's look at a file, where one that fails finds nothing.       *)
Seen(path) == IF MayFail THEN {There(path), FALSE} ELSE {There(path)}

(* os.replace(src, dest) where src is there.                               *)
Replace(src, dest) == disk' = [disk EXCEPT ![dest] = disk[src], ![src] = None]

Nothing == [author |-> None, src |-> Old, dest |-> Old, todo |-> {}, read |-> None]

Goto(i, step)    == at' = [at EXCEPT ![i] = step]
Keep(i, m)       == mem' = [mem EXCEPT ![i] = m]
Then(i, step)    == Goto(i, step) /\ UNCHANGED <<disk, written, mem>>
Recall(i, m, to) == Keep(i, m) /\ Goto(i, to) /\ UNCHANGED <<disk, written>>

(* What a checkout that is new to this layout, or has been through a       *)
(* migration before, can hold.                                             *)
Init ==
  /\ \E by \in Instances \union {None}, old, entries, parked, waiting \in BOOLEAN :
       disk = [path \in Paths |->
         CASE old /\ path = Old -> Doc(by, 0)
           [] waiting /\ by # None /\ path = Box(by) -> Doc(by, -1)
           [] parked /\ path = Parked(Old, 0) -> Doc(None, -2)
           [] entries /\ path \in {Entry(e) : e \in Archived} -> Doc(None, -2 - path[2])
           [] OTHER -> None]
  /\ written = [i \in Instances |-> 0]
  /\ at = [i \in Instances |-> "fresh"]
  /\ mem = [i \in Instances |-> Nothing]

-----------------------------------------------------------------------------
(* Sessions. The agent reads its box first and then deletes it, or fails   *)
(* to do either. When it ends or dies the next session is a fresh one.     *)

ReadBox(i) ==
  /\ at[i] = "fresh" /\ There(Box(i))
  /\ Recall(i, [Nothing EXCEPT !.read = disk[Box(i)]], "read")

DeleteBox(i) ==
  /\ at[i] = "read"
  /\ disk' = [disk EXCEPT ![Box(i)] = None]
  /\ Keep(i, Nothing) /\ Goto(i, "working")
  /\ UNCHANGED written

End(i) == at[i] # "fresh" /\ Recall(i, Nothing, "fresh")

-----------------------------------------------------------------------------
(* main(): everything that can refuse for a reason of its own does so      *)
(* before anything is written.                                             *)

Handoff(i) ==
  /\ at[i] \in {"fresh", "working"} /\ written[i] < MaxWritten
  /\ Recall(i, Nothing, "old")

(* migrate_project_handoff(), next-session.md. A file that cannot be read, *)
(* or is gone by now, names no author.                                     *)
LookOld(i) ==
  /\ at[i] = "old"
  /\ \E seen \in Seen(Old) : Then(i, IF seen THEN "stamp" ELSE "list")

(* Mutant of ReadStamp: without a stamp it is taken for one's own. *)
ReadStampGuess(i) ==
  /\ at[i] = "stamp"
  /\ \E author \in {i, IF There(Old) THEN disk[Old].by ELSE i} \ {None} :
       Recall(i, [Nothing EXCEPT !.author = author], "target")

ReadStamp(i) ==
  /\ at[i] = "stamp"
  /\ \E author \in {None, IF There(Old) THEN disk[Old].by ELSE None} :
       Recall(i, [Nothing EXCEPT !.author = author],
              IF author = None THEN "park" ELSE "target")

(* Mutant of LookTarget: delivered whatever waits there. *)
LookTargetNever(i) == at[i] = "target" /\ Then(i, "deliver")

LookTarget(i) ==
  /\ at[i] = "target"
  /\ \/ ~There(Box(mem[i].author)) /\ Then(i, "deliver")
     \/ (There(Box(mem[i].author)) \/ MayFail) /\ Then(i, "park")

Deliver(i) ==
  /\ at[i] = "deliver" /\ There(Old)
  /\ Replace(Old, Box(mem[i].author))
  /\ Keep(i, Nothing) /\ Goto(i, "list")
  /\ UNCHANGED written

DeliverFails(i) ==
  at[i] = "deliver" /\ (There(Old) => MayFail) /\ Then(i, "park")

(* Mutant of ParkName: no suffix is tried. *)
ParkNameFirst(i) ==
  /\ at[i] = "park"
  /\ Recall(i, [mem[i] EXCEPT !.dest = Parked(mem[i].src, 0)], "move")

(* _park(): the first name that is free, then the move.                    *)
ParkName(i) ==
  /\ at[i] = "park"
  /\ \E k \in 0 .. MaxParked :
       /\ ~There(Parked(mem[i].src, k))
       /\ \A j \in 0 .. MaxParked : j < k => There(Parked(mem[i].src, j))
       /\ Recall(i, [mem[i] EXCEPT !.dest = Parked(mem[i].src, k)], "move")

(* What follows a move, made or not: the archive, or its next entry.       *)
AfterMove(i) ==
  /\ Keep(i, [Nothing EXCEPT !.todo = mem[i].todo])
  /\ Goto(i, IF mem[i].src = Old THEN "list" ELSE "entry")
  /\ UNCHANGED written

Park(i) ==
  /\ at[i] = "move" /\ There(mem[i].src)
  /\ Replace(mem[i].src, mem[i].dest)
  /\ AfterMove(i)

ParkFails(i) ==
  /\ at[i] = "move" /\ (There(mem[i].src) => MayFail)
  /\ AfterMove(i) /\ UNCHANGED disk

(* superseded/: the entries listed once, then each that is still a file.   *)
ListArchive(i) ==
  /\ at[i] = "list"
  /\ \/ Recall(i, [Nothing EXCEPT !.todo = {e \in Archived : There(Entry(e))}], "entry")
     \/ MayFail /\ Recall(i, Nothing, "entry")

TakeEntry(i) ==
  /\ at[i] = "entry"
  /\ \E e \in mem[i].todo : \E seen \in Seen(Entry(e)) :
       Recall(i, [mem[i] EXCEPT !.todo = @ \ {e}, !.src = Entry(e)],
              IF seen THEN "park" ELSE "entry")

ArchiveDone(i) == at[i] = "entry" /\ mem[i].todo = {} /\ Then(i, "look")

(* Mutant of LookBox: what waits is not banked. *)
LookBoxNever(i) == at[i] = "look" /\ Then(i, "write")

(* bank_prior_handoff(): an unread handoff goes to the slot. Where it      *)
(* cannot, nothing is written. A look that fails may mean that one waits.  *)
LookBox(i) ==
  /\ at[i] = "look"
  /\ Then(i, "bank") \/ (~There(Box(i)) /\ Then(i, "write"))

Bank(i) ==
  /\ at[i] = "bank"
  /\ IF There(Box(i)) THEN Replace(Box(i), Prev(i)) ELSE UNCHANGED disk
  /\ Goto(i, "write")
  /\ UNCHANGED <<written, mem>>

BankFails(i) == at[i] = "bank" /\ There(Box(i)) /\ Then(i, "working")

(* write_atomic(), then the restart marker, which fails or not after the   *)
(* handoff is there.                                                       *)
Write(i) ==
  /\ at[i] = "write"
  /\ disk' = [disk EXCEPT ![Box(i)] = Doc(i, written[i] + 1)]
  /\ written' = [written EXCEPT ![i] = @ + 1]
  /\ Goto(i, "working")
  /\ UNCHANGED mem

WriteFails(i) == at[i] = "write" /\ Then(i, "working")

Step(i) ==
  \/ ReadBox(i) \/ DeleteBox(i) \/ End(i)
  \/ Handoff(i) \/ LookOld(i) \/ ReadStamp(i) \/ LookTarget(i)
  \/ Deliver(i) \/ DeliverFails(i) \/ ParkName(i) \/ Park(i) \/ ParkFails(i)
  \/ ListArchive(i) \/ TakeEntry(i) \/ ArchiveDone(i)
  \/ LookBox(i) \/ Bank(i) \/ BankFails(i) \/ Write(i) \/ WriteFails(i)

Next == \E i \in Instances : Step(i)

Spec == Init /\ [][Next]_vars

-----------------------------------------------------------------------------
(* Properties.                                                             *)

Steps == {"fresh", "read", "working", "old", "stamp", "target",
          "deliver", "park", "move", "list", "entry", "look", "bank", "write"}

TypeOK ==
  /\ disk \in [Paths -> Documents \union {None}]
  /\ written \in [Instances -> Nat]
  /\ at \in [Instances -> Steps]
  /\ mem \in [Instances -> [author : Instances \union {None},
                            src : Sources, dest : Paths,
                            todo : SUBSET Archived,
                            read : Documents \union {None}]]

(* The document at `path` is nowhere after this step.                      *)
Vanishes(path) == There(path) /\ \A dest \in Paths : disk'[dest] # disk[path]

ReadThenDeleted(path) == \E i \in Instances : path = Box(i) /\ disk[path] = mem[i].read
PushedOut(path) ==
  \E i \in Instances : path = Prev(i) /\ There(Box(i)) /\ disk'[path] = disk[Box(i)]

(* "Nothing is deleted and nothing is overwritten": with every instance    *)
(* migrating, delivering, reading and writing at once, a document leaves   *)
(* the disk only when its reader deletes what it has read, or when a later *)
(* handoff that was not read either takes its place in the slot.           *)
NothingVanishes ==
  [][\A path \in Paths :
       Vanishes(path) => ReadThenDeleted(path) \/ PushedOut(path)]_vars

(* What a session finds in its box is its own instance's, and from the     *)
(* first handoff on its latest: no migration puts an older document, or    *)
(* another instance's, in front of it, however late it gets to its move.   *)
NewestInBox ==
  \A i \in Instances :
    There(Box(i)) => /\ disk[Box(i)].by = i
                     /\ written[i] > 0 => disk[Box(i)].n = written[i]
=============================================================================
