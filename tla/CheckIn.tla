------------------------------ MODULE CheckIn ------------------------------
(***************************************************************************)
(* `backlog scrum` (backlog_tool.py): what was committed since the last    *)
(* check-in. The commit that check-in recorded, the watermark, is shared   *)
(* by all the checkouts of a project, each on its own branch. Branches     *)
(* are reset and merged, a commit is pruned, and git or the disk fail,     *)
(* while check-ins overlap.                                                *)
(***************************************************************************)
EXTENDS Naturals

CONSTANTS
  None,
  Checkouts,
  MaxCommits   \* bound: commits

VARIABLES
  history,   \* of each commit, the commits it reaches
  merges,    \* commits with two parents, which `git log --no-merges` leaves out
  head,      \* HEAD of each checkout
  mark,      \* the watermark
  scrum,     \* in each checkout, its check-in
  covered    \* commits a check-in listed, or said that it could not list, or
             \* that were there before the first

vars == <<history, merges, head, mark, scrum, covered>>

NoCommit == 0
Commits  == {NoCommit} \union 1 .. MaxCommits
Made     == {k \in Commits : k # NoCommit /\ history[k] # {}}

Idle == [at |-> "idle"]
Do(c, s) == scrum' = [scrum EXCEPT ![c] = s]

-----------------------------------------------------------------------------
(* One check-in.                                                           *)

(* read_watermark(): None before the first check-in, NoCommit where that   *)
(* could not read its HEAD.                                                *)
ReadWatermark(c) ==
  /\ scrum[c] = Idle
  /\ Do(c, [at |-> "report", since |-> mark])
  /\ UNCHANGED <<history, merges, head, mark, covered>>

(* What `git log` is asked for. The watermark does not resolve where there *)
(* is none in it, where it has been pruned, and when git fails.            *)
Span(since, h) == {history[h]} \union
                  (IF since = NoCommit THEN {} ELSE {history[h] \ history[since]})

(* scrum_report() and format_scrum(): HEAD is read once, a first check-in  *)
(* lists no commits, merges are left out of the others, and a git that     *)
(* lists nothing, or has no HEAD, is reported as such. --peek ends here.   *)
Report(c) ==
  LET since == scrum[c].since IN
  /\ scrum[c].at = "report"
  /\ \E h \in {head[c], NoCommit} :
       /\ \E span \in IF since = None THEN {history[h]} ELSE Span(since, h) :
            covered' = covered \union (span \ merges)
       /\ Do(c, [at |-> "write", head |-> h]) \/ Do(c, Idle)
  /\ UNCHANGED <<history, merges, head, mark>>

(* Mutant of WriteWatermark: HEAD is read again. *)
WriteWatermarkFresh(c) ==
  /\ scrum[c].at = "write" /\ Do(c, Idle)
  /\ mark' = head[c]
  /\ UNCHANGED <<history, merges, head, covered>>

(* write_watermark(), by a rename: all of it or nothing.                   *)
WriteWatermark(c) ==
  /\ scrum[c].at = "write" /\ Do(c, Idle)
  /\ mark' \in {scrum[c].head, mark}
  /\ UNCHANGED <<history, merges, head, covered>>

-----------------------------------------------------------------------------
(* git.                                                                    *)

Add(c, reached, merge) ==
  \E k \in Commits \ (Made \union {NoCommit}) :
  /\ \A j \in Commits \ (Made \union {NoCommit}) : k <= j
  /\ history' = [history EXCEPT ![k] = reached \union {k}]
  /\ merges' = merges \union (IF merge THEN {k} ELSE {})
  /\ head' = [head EXCEPT ![c] = k]
  /\ UNCHANGED <<mark, scrum, covered>>

Commit(c) == Add(c, history[head[c]], FALSE)

Merge(c, d) ==
  /\ head[d] \notin history[head[c]] /\ head[c] \notin history[head[d]]
  /\ Add(c, history[head[c]] \union history[head[d]], TRUE)

Reset(c) ==
  /\ \E k \in Made : head' = [head EXCEPT ![c] = k]
  /\ UNCHANGED <<history, merges, mark, scrum, covered>>

-----------------------------------------------------------------------------
Init ==
  /\ history = [k \in Commits |-> {}] /\ merges = {}
  /\ head = [c \in Checkouts |-> NoCommit]
  /\ mark = None
  /\ scrum = [c \in Checkouts |-> Idle]
  /\ covered = {}

Next ==
  \/ \E c \in Checkouts : \/ ReadWatermark(c) \/ Report(c) \/ WriteWatermark(c)
                          \/ Commit(c) \/ Reset(c)
  \/ \E c, d \in Checkouts : Merge(c, d)

Spec == Init /\ [][Next]_vars

-----------------------------------------------------------------------------
(* Properties.                                                             *)

(* What the next check-in leaves out, because the watermark reaches it, an *)
(* earlier one has listed, or it said that it could not list it, or it was *)
(* there before the first: no commit falls between two check-ins, in       *)
(* whichever checkouts they ran and however they overlapped.               *)
WatermarkIsCovered ==
  mark \notin {None, NoCommit} => history[mark] \ merges \subseteq covered
=============================================================================
