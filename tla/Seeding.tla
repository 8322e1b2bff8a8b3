------------------------------ MODULE Seeding ------------------------------
(***************************************************************************)
(* The conversation store's other sources (conversation_log.py): operator  *)
(* mail and the handoffs agents write. Both are files that other programs  *)
(* move while a run reads them: a message goes from its inbox to the       *)
(* archive, a handoff from the live file to its banked copies, and the     *)
(* names are used again. A run lists the files, reads them one by one, and *)
(* commits what it read at the end.                                        *)
(*                                                                         *)
(* All letters have one text, the shape of a broadcast: they differ in     *)
(* their recipient and in whether they carry an id. Mail and handoffs have *)
(* nothing to do with one another: a behaviour has files of one of them.   *)
(***************************************************************************)
CONSTANTS
  None,
  Recipients,
  Numbered,   \* the recipients who also get a letter with an id
  Reports     \* the texts of handoffs

VARIABLES
  files,   \* the source whose files there are
  shelves, \* what lies where: letters by place, handoffs by file
  written, \* the letters and handoffs there have been
  stored,   \* the rows of these two sources, by key
  pass,    \* the run that reads: on, files left, what it read, the rows to commit
  read     \* what a run that committed has read

vars == <<files, shelves, written, stored, pass, read>>

Letters ==
  [id : {None}, to : Recipients] \union {[id |-> to, to |-> to] : to \in Numbered}

MailPlaces    == {"inbox", "archive"}
HandoffPlaces == {"live", "prev", "superseded"}
Files         == (MailPlaces \X Letters) \union (HandoffPlaces \X {None})
Sources       == {"mail", "handoffs"}

NoPass == [on |-> FALSE, left |-> {}, read |-> {}, rows |-> <<>>]

Present(f) == shelves[f] # None

-----------------------------------------------------------------------------
(* The seeders.                                                            *)

(* Mutant of Identity: without an id, a letter is its text. *)
IdentityByText(letter) == IF letter.id # None THEN <<"id", letter.id>> ELSE <<"text", None>>

(* A letter's own id, else its content, the recipient included.            *)
Identity(letter) == IF letter.id # None THEN <<"id", letter.id>> ELSE <<"text", letter.to>>

(* Key of the row for what lies in a file: content, never the path.        *)
Key(f) ==
  IF f[1] \in MailPlaces THEN <<"mail", Identity(shelves[f])>>
                         ELSE <<"handoffs", <<"text", shelves[f]>>>>

(* The listing, before the first file is read.                 *)
Glob == {f \in Files : Present(f)}

BeginPass ==
  /\ pass = NoPass
  /\ pass' = [on |-> TRUE, left |-> Glob, read |-> {}, rows |-> stored]
  /\ UNCHANGED <<files, shelves, written, stored, read>>

(* The next file. One that has moved away since is an error in the report, *)
(* and the run goes on; a row that is there already is left as it is.      *)
ReadFile(f) ==
  /\ f \in pass.left
  /\ pass' =
       IF ~Present(f) THEN [pass EXCEPT !.left = @ \ {f}]
       ELSE [pass EXCEPT !.left = @ \ {f},
                         !.read = @ \union {shelves[f]},
                         !.rows = IF Key(f) \in DOMAIN @ THEN @
                                  ELSE [k \in DOMAIN @ \union {Key(f)} |->
                                          IF k = Key(f) THEN shelves[f] ELSE @[k]]]
  /\ UNCHANGED <<files, shelves, written, stored, read>>

SeedOperatorMail == files = "mail"     /\ \E f \in pass.left : ReadFile(f)
SeedHandoffs     == files = "handoffs" /\ \E f \in pass.left : ReadFile(f)

Commit ==
  /\ pass # NoPass /\ pass.left = {}
  /\ stored' = pass.rows
  /\ read' = read \union pass.read
  /\ pass' = NoPass
  /\ UNCHANGED <<files, shelves, written>>

(* Killed before the commit: nothing was stored.                           *)
Killed ==
  /\ pass # NoPass
  /\ pass' = NoPass
  /\ UNCHANGED <<files, shelves, written, stored, read>>

-----------------------------------------------------------------------------
(* The programs that write and move the files.                             *)

(* Queued in the inbox, or handed over live and recorded as read.          *)
Deliver(l, place) ==
  /\ files = "mail" /\ l \notin written
  /\ written' = written \union {l}
  /\ shelves' = [shelves EXCEPT ![<<place, l>>] = l]
  /\ UNCHANGED <<files, stored, pass, read>>

(* The copy in the archive is made before the inbox file goes.             *)
CopyToArchive(l) ==
  /\ Present(<<"inbox", l>>) /\ ~Present(<<"archive", l>>)
  /\ shelves' = [shelves EXCEPT ![<<"archive", l>>] = l]
  /\ UNCHANGED <<files, written, stored, pass, read>>

LeaveInbox(l) ==
  /\ Present(<<"inbox", l>>) /\ Present(<<"archive", l>>)
  /\ shelves' = [shelves EXCEPT ![<<"inbox", l>>] = None]
  /\ UNCHANGED <<files, written, stored, pass, read>>

(* A new report; what was unread is banked first.                          *)
WriteReport(r) ==
  /\ files = "handoffs" /\ r \notin written
  /\ written' = written \union {r}
  /\ shelves' = [shelves EXCEPT ![<<"live", None>>] = r,
                                ![<<"prev", None>>] = shelves[<<"live", None>>]]
  /\ UNCHANGED <<files, stored, pass, read>>

(* An older version's file is reused, and its copy set aside.              *)
MoveReport(from, to) ==
  /\ Present(<<from, None>>)
  /\ \E kept \in {None, shelves[<<from, None>>]} :
       shelves' = [shelves EXCEPT ![<<to, None>>] = shelves[<<from, None>>],
                                  ![<<from, None>>] = kept]
  /\ UNCHANGED <<files, written, stored, pass, read>>

-----------------------------------------------------------------------------
Init ==
  /\ files \in Sources
  /\ shelves = [f \in Files |-> None] /\ written = {}
  /\ stored = <<>> /\ pass = NoPass /\ read = {}

Next ==
  \/ BeginPass \/ SeedOperatorMail \/ SeedHandoffs \/ Commit \/ Killed
  \/ \E l \in Letters :
       (\E place \in MailPlaces : Deliver(l, place)) \/ CopyToArchive(l) \/ LeaveInbox(l)
  \/ \E r \in Reports : WriteReport(r)
  \/ \E from, to \in HandoffPlaces : from # to /\ MoveReport(from, to)

Spec == Init /\ [][Next]_vars

-----------------------------------------------------------------------------
(* Properties.                                                             *)

TypeOK ==
  /\ shelves \in [Files -> Letters \union Reports \union {None}]
  /\ files \in Sources /\ written \subseteq Letters \union Reports
  /\  pass.left \subseteq Files
  /\ read \subseteq written

(* record(): "what makes seeding re-runnable". Whatever a run that         *)
(* committed has read has one row of its own, wherever it lay and however  *)
(* often it was read: it is neither filed twice nor taken for another.     *)
OneRowEach ==
  \A x \in read : \E k \in DOMAIN stored :
    /\ stored[k] = x
    /\ \A other \in DOMAIN stored : stored[other] = x => other = k
=============================================================================
