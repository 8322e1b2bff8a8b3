------------------------------- MODULE Install -------------------------------
(***************************************************************************)
(* What setup does to one thing it deploys (setup_tools.py) and what it    *)
(* remembers of it (install_manifest.py). A skill is staged and swapped in *)
(* by renames, an extension is linked, a template is copied. The user, or  *)
(* Copilot, edits, links, removes and recreates the same path meanwhile,   *)
(* setup may be killed at any step, and renames, removals and copies may   *)
(* fail half-way.                                                          *)
(*                                                                         *)
(* A tree or a file is its digest, and `own` numbers what only the user    *)
(* has: an edit, or a link to a place of theirs.                           *)
(***************************************************************************)
EXTENDS Naturals

CONSTANTS
  MaxVersion,  \* bound: versions of the repository
  MaxEdits,    \* bound: edits and links the user makes
  MaxFaults    \* bound: kills, and steps that fail

VARIABLES
  kind,      \* "skill", "extension" or "template"; "none" before the first run
  source,    \* version in the repository
  dest,      \* what is deployed
  previous,  \* the copy a swap moved aside
  staged,    \* the copy a swap moves in
  manifest,  \* the entry on disk
  setup,     \* the run: its step, what it found, its entry, what it does next
  edits,
  free,      \* edits the user agreed to lose, undid, or made under setup's hands
  taken,     \* links of the user's replaced as setup's own: they led to its bytes
  owned,     \* something whole was deployed and the user has not removed it
  faults

vars == <<kind, source, dest, previous, staged, manifest, setup, edits, free, taken, owned, faults>>

Versions == 1 .. MaxVersion
Edits    == 1 .. MaxEdits
Torn     == MaxVersion + 1                      \* digest of half a copy

Content(own, digest, link) == [own |-> own, digest |-> digest, link |-> link]
Nothing    == Content(0, 0, FALSE)
Partial    == Content(0, Torn, FALSE)
Shipped(v) == Content(0, v, FALSE)
RepoLink   == Content(0, 0, TRUE)
Edited(k)  == Content(k, Torn + k, FALSE)

NoEntry == [digest |-> 0, linked |-> FALSE]
Idle    == [at |-> "idle", state |-> "absent", entry |-> NoEntry, moved |-> FALSE]

At(step) == setup.at = step
Go(step) == setup' = [setup EXCEPT !.at = step]

MayFail == faults < MaxFaults
Fault   == MayFail /\ faults' = faults + 1
NoFault == UNCHANGED faults

-----------------------------------------------------------------------------
(* The manifest.                                                           *)

(* digest_for(), which looks through a link.                               *)
Digest(c) == IF c = RepoLink THEN source ELSE c.digest

(* Mutant of Classify: what differs and has an entry is setup's own copy. *)
ClassifyByEntry(entry, c) ==
  IF c = Nothing THEN "absent"
  ELSE IF entry.linked \/ Digest(c) = source THEN "current"
  ELSE IF entry = NoEntry THEN "untracked" ELSE "stale"

(* classify().                                                             *)
Classify(entry, c) ==
  IF c = Nothing THEN "absent"
  ELSE IF entry.linked \/ Digest(c) = source THEN "current"
  ELSE IF entry = NoEntry THEN "untracked"
  ELSE IF Digest(c) = entry.digest THEN "stale" ELSE "modified"

(* install_skills(): a link setup did not make is the user's.              *)
Found(c) ==
  IF kind = "skill" /\ c.link /\ ~setup.entry.linked THEN "untracked"
  ELSE Classify(setup.entry, c)

(* record() in the run's manifest, then the next step.                     *)
Entry(digest, linked) == [digest |-> digest, linked |-> linked]

Recorded(entry) == setup' = [setup EXCEPT !.at = "save", !.entry = entry]

(* ask(): a yes, or --yes, gives c up.                                     *)
Agree(c) == free' = free \union ({c.own} \ {0}) /\ UNCHANGED taken
Keep     == UNCHANGED <<free, taken>>

(* A stale copy needs no answer, nor does a link to what is one.           *)
Take(c) == /\ taken' = taken \union (IF c.link THEN {c.own} \ {0} ELSE {})
           /\ UNCHANGED free

-----------------------------------------------------------------------------
(* One run.                                                                *)

Start ==
  /\ At("idle")
  /\ kind' \in (IF kind = "none" THEN {"skill", "extension", "template"} ELSE {kind})
  /\ setup' = [Idle EXCEPT !.at = IF kind' = "skill" THEN "tidy" ELSE "look",
                           !.entry = manifest]
  /\ UNCHANGED <<source, dest, previous, staged, manifest, edits, free, owned, faults, taken>>

(* _discard(): a removal that fails half-way is not reported.              *)
Discard(c, c2) ==
  \/ c2 = Nothing /\ NoFault
  \/ c # Nothing /\ c2 = Partial /\ Fault

(* _reconcile_scratch(), before a skill and after a failed one.            *)
Tidy ==
  /\ At("tidy") \/ At("retidy")
  /\ \/ /\ previous = Nothing
        /\ Discard(staged, staged')
        /\ UNCHANGED <<dest, previous, owned>>
     \/ /\ previous # Nothing /\ dest = Nothing
        /\ dest' = previous /\ previous' = Nothing
        /\ Discard(staged, staged')
        /\ owned' = (owned \/ previous # Partial)
     \/ /\ previous # Nothing /\ dest # Nothing /\ staged # Nothing
        /\ NoFault /\ UNCHANGED <<dest, previous, staged, owned>>
     \/ /\ previous # Nothing /\ dest # Nothing /\ staged = Nothing
        /\ Discard(previous, previous')
        /\ UNCHANGED <<dest, staged, owned>>
     \/ /\ previous # Nothing /\ Fault           \* not examinable, not renamable
        /\ UNCHANGED <<dest, previous, staged, owned>>
  /\ Go(IF At("tidy") THEN "look" ELSE "save")
  /\ UNCHANGED <<kind, source, manifest, edits, free, taken>>

(* classify(), and _resolve_overwrite() unless it is an extension.         *)
Look ==
  LET state == Found(dest)
      to(step) == setup' = [setup EXCEPT !.at = step, !.state = state]
  IN
  /\ At("look")
  /\ \/ /\ kind = "extension" /\ to("link") /\ NoFault /\ Keep
     \/ /\ kind # "extension" /\ state = "current"
        /\ Recorded(Entry(source, FALSE)) /\ NoFault /\ Keep
     \/ /\ kind # "extension" /\ state \in {"absent", "stale"}
        /\ to(IF kind = "skill" THEN "stage" ELSE "copy") /\ NoFault /\ Take(dest)
     \/ /\ kind # "extension" /\ state \in {"modified", "untracked"}
        /\ \/ to(IF kind = "skill" THEN "stage" ELSE "copy") /\ Agree(dest)
           \/ to("save") /\ Keep
        /\ NoFault
     \/ /\ to("save") /\ Fault /\ Keep \* unreadable
  /\ UNCHANGED <<kind, source, dest, previous, staged, manifest, edits, owned>>

(* install_skills(): the copy beside the destination.                      *)
Stage ==
  /\ At("stage")
  /\ \/ staged' = Shipped(source) /\ Go("swap") /\ NoFault
     \/ staged' = Partial /\ Go("retidy") /\ Fault
  /\ UNCHANGED <<kind, source, dest, previous, manifest, edits, free, owned, taken>>

(* _replace_tree(): make room, move aside, move in, drop.                  *)
Swap ==
  /\ At("swap")
  /\ Discard(previous, previous') /\ Go("aside")
  /\ UNCHANGED <<kind, source, dest, staged, manifest, edits, free, owned, taken>>

(* Mutant of Aside: the old copy is removed, as an extension's is. *)
AsideRemoved ==
  /\ At("aside")
  /\ dest' = Nothing /\ Go("place")
  /\ UNCHANGED <<kind, source, previous, staged, manifest, edits, free, owned, faults, taken>>

Aside ==
  /\ At("aside")
  /\ \/ /\ dest = Nothing /\ Go("place")
        /\ NoFault /\ UNCHANGED <<dest, previous>>
     \/ /\ dest # Nothing /\ setup.state # "absent" /\ previous = Nothing
        /\ previous' = dest /\ dest' = Nothing
        /\ setup' = [setup EXCEPT !.at = "place", !.moved = TRUE] /\ NoFault
     \/ /\ dest # Nothing /\ (setup.state = "absent" \/ previous # Nothing)
        /\ Go("retidy") /\ NoFault /\ UNCHANGED <<dest, previous>>
     \/ /\ dest # Nothing /\ Go("retidy") /\ Fault /\ UNCHANGED <<dest, previous>>
  /\ UNCHANGED <<kind, source, staged, manifest, edits, free, owned, taken>>

Place ==
  /\ At("place")
  /\ \/ /\ dest = Nothing
        /\ dest' = staged /\ staged' = Nothing /\ owned' = TRUE
        /\ Go("drop") /\ NoFault /\ UNCHANGED previous
     \/ /\ dest = Nothing /\ Go("unplace") /\ Fault
        /\ UNCHANGED <<dest, previous, staged, owned>>
     \/ /\ dest # Nothing /\ Go("unplace") /\ NoFault
        /\ UNCHANGED <<dest, previous, staged, owned>>
  /\ UNCHANGED <<kind, source, manifest, edits, free, taken>>

(* The rename back, where something was moved.                             *)
Unplace ==
  /\ At("unplace") /\ Go("retidy")
  /\ \/ /\ setup.moved /\ dest = Nothing
        /\ dest' = previous /\ previous' = Nothing /\ NoFault
     \/ ~(setup.moved /\ dest = Nothing) /\ NoFault /\ UNCHANGED <<dest, previous>>
     \/ setup.moved /\ Fault /\ UNCHANGED <<dest, previous>>
  /\ UNCHANGED <<kind, source, staged, manifest, edits, free, owned, taken>>

Drop ==
  /\ At("drop")
  /\ Discard(previous, previous') /\ Go("record")
  /\ UNCHANGED <<kind, source, dest, staged, manifest, edits, free, owned, taken>>

(* The digest of what is deployed by now; a template's, of its source.     *)
Record ==
  /\ At("record")
  /\ Recorded(Entry(IF kind = "template" THEN source ELSE Digest(dest), FALSE))
  /\ UNCHANGED <<kind, source, dest, previous, staged, manifest, edits, free, owned, faults, taken>>

-----------------------------------------------------------------------------
(* _link_directory(), for an extension.                                    *)

Link ==
  LET may == setup.state = "stale" IN
  /\ At("link")
  /\ \/ dest = RepoLink /\ Recorded(Entry(0, TRUE)) /\ Keep
     \/ ~dest.link /\ dest # Nothing /\ Digest(dest) = source
        /\ Recorded(Entry(source, FALSE)) /\ Keep
     \/ dest = Nothing /\ Go("make") /\ Keep
     \/ /\ dest \notin {Nothing, RepoLink} /\ (dest.link \/ Digest(dest) # source)
        /\ \/ may /\ Go("clear") /\ Take(dest)
           \/ ~may /\ Go("clear") /\ Agree(dest)
           \/ ~may /\ Go("save") /\ Keep
  /\ UNCHANGED <<kind, source, dest, previous, staged, manifest, edits, owned, faults>>

(* _remove_dest(): a link is replaced by a link, a directory by a copy.    *)
Clear ==
  /\ At("clear") /\ owned' = FALSE
  /\ \/ dest' = Nothing /\ Go(IF dest.link THEN "make" ELSE "copy") /\ NoFault
     \/ ~dest.link /\ dest' = Partial /\ Go("save") /\ Fault
  /\ UNCHANGED <<kind, source, previous, staged, manifest, edits, free, taken>>

(* A link, or on Windows perhaps a copy that is recorded as one.           *)
Make ==
  /\ At("make")
  /\ \/ /\ dest = Nothing /\ owned' = TRUE
        /\ dest' \in {RepoLink, Shipped(source)}
        /\ Recorded(Entry(0, TRUE))
     \/ dest # Nothing /\ Go("save") /\ UNCHANGED <<dest, owned>>
  /\ UNCHANGED <<kind, source, previous, staged, manifest, edits, free, faults, taken>>

(* A copy in place; copytree() wants nothing there, copyfile() does not    *)
(* ask, and a template that cannot be copied ends the run.                 *)
Copy ==
  /\ At("copy")
  /\ \/ /\ kind = "template" \/ dest = Nothing
        /\ dest' = Shipped(source) /\ owned' = TRUE /\ Go("record") /\ NoFault
     \/ /\ kind = "template" \/ dest = Nothing
        /\ dest' = Partial /\ UNCHANGED owned
        /\ Go(IF kind = "template" THEN "idle" ELSE "save") /\ Fault
     \/ kind # "template" /\ dest # Nothing
        /\ Go("save") /\ NoFault /\ UNCHANGED <<dest, owned>>
  /\ UNCHANGED <<kind, source, previous, staged, manifest, edits, free, taken>>

(* save(), at the end of the run.                                          *)
Save ==
  /\ At("save") /\ setup' = Idle
  /\ \/ manifest' = setup.entry /\ NoFault
     \/ UNCHANGED manifest /\ Fault
  /\ UNCHANGED <<kind, source, dest, previous, staged, edits, free, owned, taken>>

(* A kill; a step that copies or removes may have done half.               *)
Killed ==
  /\ ~At("idle") /\ setup' = Idle /\ Fault
  /\ staged' \in {staged} \union (IF At("stage") THEN {Partial} ELSE {})
  /\ dest'   \in {dest} \union
       (IF (At("copy") /\ kind = "template") \/ (At("clear") /\ ~dest.link)
        THEN {Partial} ELSE {})
  /\ UNCHANGED <<kind, source, previous, manifest, edits, free, owned, taken>>

-----------------------------------------------------------------------------
(* The user, Copilot, and the repository.                                  *)

(* Setup looked before this edit and acts on what it saw (where it found   *)
(* nothing and renames, it refuses what has appeared), or it takes the     *)
(* digest of this edit for its own.                                        *)
UnderSetup ==
  \/ At("drop") \/ At("record")
  \/ /\ setup.at \notin {"idle", "tidy", "look", "retidy", "save"}
     /\ ~(kind = "skill" /\ setup.state = "absent")

Edit ==
  /\ edits < MaxEdits /\ edits' = edits + 1
  /\ \E c \in {Edited(edits'), Content(edits', Torn + edits', TRUE)} \union
              (IF dest = Nothing THEN {} ELSE {Content(edits', Digest(dest), TRUE)}) :
       dest' = c
  /\ free' = free \union ({dest.own} \ {0}) \union (IF UnderSetup THEN {edits'} ELSE {})
  /\ owned' = TRUE
  /\ UNCHANGED <<kind, source, previous, staged, manifest, setup, faults, taken>>

Remove ==
  /\ dest # Nothing /\ dest' = Nothing
  /\ Agree(dest) /\ owned' = FALSE
  /\ UNCHANGED <<kind, source, previous, staged, manifest, setup, edits, faults>>

Pull ==
  /\ At("idle") /\ source < MaxVersion
  /\ source' = source + 1
  /\ UNCHANGED <<kind, dest, previous, staged, manifest, setup, edits, free, owned, faults, taken>>

-----------------------------------------------------------------------------
Init ==
  /\ kind = "none" /\ source = 1
  /\ dest = Nothing /\ previous = Nothing /\ staged = Nothing
  /\ manifest = NoEntry /\ setup = Idle
  /\ edits = 0 /\ free = {} /\ taken = {} /\ owned = FALSE /\ faults = 0

Next ==
  \/ Start \/ Tidy \/ Look \/ Stage \/ Swap \/ Aside \/ Place \/ Unplace \/ Drop
  \/ Record \/ Link \/ Clear \/ Make \/ Copy \/ Save \/ Killed
  \/ Edit \/ Remove \/ Pull

Spec == Init /\ [][Next]_vars

-----------------------------------------------------------------------------
(* Properties.                                                             *)

(* may_overwrite(): "the one state that proves the bytes on disk are the   *)
(* bytes setup itself wrote". What only the user has is deployed, or set   *)
(* aside, until the user agrees to lose it, through kills, half removals   *)
(* and new versions; an edit made under setup's hands is the exception, and *)
(* a link that leads to those bytes.                                       *)
EditsNeedAnAnswer ==
  \A k \in 1 .. edits : k \in free \union taken \/ \E c \in {dest, previous} : c.own = k

(* install_skills(): STALE "would otherwise license deleting a link setup  *)
(* never created". No link of the user's is taken for setup's own. It does  *)
(* not hold, and no run has it: README, section 5.                         *)
LinksNeedAnAnswer == kind # "extension" => taken = {}

(* install_skills(): "nothing that goes wrong part-way through can leave   *)
(* the user with no skill at all". The old one or the new one is there,    *)
(* under the name from which the next run restores it, or about to be      *)
(* moved in. Three faults break it: a run killed between the renames, one  *)
(* that cannot restore the old copy and drops it, and a last one before    *)
(* the new copy is in.                                                     *)
NeverNeither ==
  kind = "skill" /\ owned =>
    \E c \in {dest, previous} \union (IF At("aside") \/ At("place") THEN {staged} ELSE {}) :
      c \notin {Nothing, Partial}
=============================================================================
