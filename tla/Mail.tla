-------------------------------- MODULE Mail --------------------------------
(***************************************************************************)
(* The mailbox of one operator instance (operator_mail.py and its callers  *)
(* in copilot_operator.py): one file per message, in an inbox and, once    *)
(* read, in an archive. `operator send` types a message into the session   *)
(* that runs or queues it; a launch puts what is pending in the preamble   *)
(* and archives it when the session is up; `operator inbox` and `session   *)
(* start` consume. They are processes of their own and take no lock: each  *)
(* read, write, unlink and move of a file is a step.                       *)
(*                                                                         *)
(* A message is named by the file it is stored under. What a file says its *)
(* id is may differ, in a mailbox edited by hand or by an older version.   *)
(***************************************************************************)
EXTENDS Naturals

CONSTANTS
  Names,      \* message files: numbers, in the order of their names
  Readers,    \* processes that read the mailbox
  Loops,      \* those of them that may launch a session
  None,
  NoId,       \* what a file says that is a message without an id
  BadId,      \* what a file says whose id is there and is not a string
  Junk,       \* what a file says that is not a message
  Foreign,    \* an id no file is named for
  MaxFaults   \* bound: calls of the file system that fail, and crashes

VARIABLES
  inbox,     \* the files of the inbox
  archived,  \* the files of the archive
  says,      \* says[n]: the id the file n claims, NoId, BadId or Junk
  mail,      \* mail[n]: what has become of the sending of n
  reader,    \* reader[r]: the next step of reader r and what it has in hand
  session,   \* the mux session: "none", "up" or "dead" (its pane is kept)
  shown,     \* the messages an agent has been shown
  taken,     \* those a consumer that was killed had archived and not shown
  stuck,     \* a launch was ended by the mail it delivered
  faults     \* failures so far

fileVars == <<inbox, archived>>
vars == <<inbox, archived, says, mail, reader, session, shown, taken, stuck, faults>>

Ids == Names \union {Foreign}

NoHand == [at |-> "idle", cmd |-> None, todo |-> {}, took |-> {}]

Goto(r, step) == reader' = [reader EXCEPT ![r].at = step]
Idle(r)       == reader' = [reader EXCEPT ![r] = NoHand]

(* The file a reader is at: the first of those it has left.                *)
File(r)   == CHOOSE n \in reader[r].todo : \A k \in reader[r].todo : n <= k
NextFile(r, took) ==
  reader' = [reader EXCEPT ![r].todo = @ \ {File(r)}, ![r].at = "next",
                           ![r].took = @ \union took]

Fault == faults < MaxFaults /\ faults' = faults + 1

-----------------------------------------------------------------------------
(* `operator send`.                                                        *)

(* The session is there, its pane lives and the agent runs in it; then the *)
(* message is typed. In between the agent may exit.                        *)
CanReceiveLive(n) ==
  /\ mail[n] = "new"
  /\ session = "up"
  /\ mail' = [mail EXCEPT ![n] = "typing"]
  /\ UNCHANGED <<fileVars, says, reader, session, shown, taken, stuck, faults>>

Type(n) ==
  /\ mail[n] = "typing"
  /\ session # "none"
  /\ mail' = [mail EXCEPT ![n] = "typed"]
  /\ shown' = IF session = "up" THEN shown \union {n} ELSE shown
  /\ UNCHANGED <<fileVars, says, reader, session, taken, stuck, faults>>

(* MuxError: queued instead. *)
TypeFails(n) ==
  /\ mail[n] = "typing"
  /\ (session = "none" /\ UNCHANGED faults) \/ Fault
  /\ mail' = [mail EXCEPT ![n] = "unreachable"]
  /\ UNCHANGED <<fileVars, says, reader, session, shown, taken, stuck>>

RecordDelivered(n) ==
  /\ mail[n] = "typed"
  /\ mail' = [mail EXCEPT ![n] = "live"]
  /\ archived' = archived \union {n}
  /\ UNCHANGED <<inbox, says, reader, session, shown, taken, stuck, faults>>

(* "Delivered, but not recorded in history". *)
RecordFails(n) ==
  /\ mail[n] = "typed"
  /\ Fault
  /\ mail' = [mail EXCEPT ![n] = "live"]
  /\ UNCHANGED <<fileVars, says, reader, session, shown, taken, stuck>>

Queue(n) ==
  /\ mail[n] \in {"new", "unreachable"}
  /\ mail' = [mail EXCEPT ![n] = "queued"]
  /\ inbox' = inbox \union {n}
  /\ UNCHANGED <<archived, says, reader, session, shown, taken, stuck, faults>>

QueueFails(n) ==
  /\ mail[n] \in {"new", "unreachable"}
  /\ Fault
  /\ mail' = [mail EXCEPT ![n] = "refused"]
  /\ UNCHANGED <<fileVars, says, reader, session, shown, taken, stuck>>

-----------------------------------------------------------------------------
(* consume(), for `operator inbox` and `session start`.                    *)

Consume(r) ==
  /\ reader[r].at = "idle"
  /\ inbox # {}
  /\ reader' = [reader EXCEPT ![r] = [NoHand EXCEPT !.cmd = "consume", !.at = "next",
                                                    !.todo = inbox]]
  /\ UNCHANGED <<fileVars, says, mail, session, shown, taken, stuck, faults>>

(* _read_message(), in either command: a message is to be archived; what   *)
(* is not one, a file that has vanished included, is moved aside.          *)
ReadFile(r) ==
  /\ reader[r].at = "next" /\ reader[r].todo # {}
  /\ Goto(r, IF File(r) \in inbox /\ says[File(r)] # Junk THEN "write" ELSE "aside")
  /\ UNCHANGED <<fileVars, says, mail, session, shown, taken, stuck, faults>>

(* UNREADABLE: the file stays where it is, to be offered again.            *)
ReadFails(r) ==
  /\ reader[r].at = "next" /\ reader[r].todo # {}
  /\ File(r) \in inbox
  /\ Fault
  /\ NextFile(r, {})
  /\ UNCHANGED <<fileVars, says, mail, session, shown, taken, stuck>>

(* Mutant of WriteFails: the error does not carry what was consumed. *)
WriteFailsForgetful(r) ==
  /\ reader[r].at = "write"
  /\ Fault
  /\ IF reader[r].cmd = "consume" THEN Idle(r) ELSE Goto(r, "aside")
  /\ UNCHANGED <<fileVars, says, mail, session, shown, taken, stuck>>

(* The copy in the archive, stamped as read.                               *)
WriteCopy(r) ==
  /\ reader[r].at = "write"
  /\ archived' = archived \union {File(r)}
  /\ Goto(r, "unlink")
  /\ UNCHANGED <<inbox, says, mail, session, shown, taken, stuck, faults>>

(* consume() gives up, with what it has consumed so far; _archive_one()    *)
(* moves the file as it is.                                                *)
WriteFails(r) ==
  /\ reader[r].at = "write"
  /\ Fault
  /\ Goto(r, IF reader[r].cmd = "consume" THEN "show" ELSE "aside")
  /\ UNCHANGED <<fileVars, says, mail, session, shown, taken, stuck>>

(* A file another reader has removed counts as removed.                    *)
Unlink(r) ==
  /\ reader[r].at = "unlink"
  /\ inbox' = inbox \ {File(r)}
  /\ NextFile(r, IF reader[r].cmd = "consume" THEN {File(r)} ELSE {})
  /\ UNCHANGED <<archived, says, mail, session, shown, taken, stuck, faults>>

(* consume() gives up; _archive_one() undoes its copy.                     *)
UnlinkFails(r) ==
  /\ reader[r].at = "unlink" /\ File(r) \in inbox
  /\ Fault
  /\ Goto(r, IF reader[r].cmd = "consume" THEN "show" ELSE "undo")
  /\ UNCHANGED <<fileVars, says, mail, session, shown, taken, stuck>>

Undo(r) ==
  /\ reader[r].at = "undo"
  /\ archived' = archived \ {File(r)}
  /\ NextFile(r, {})
  /\ UNCHANGED <<inbox, says, mail, session, shown, taken, stuck, faults>>

(* os.replace(), of a file that may be gone.                               *)
MoveAside(r) ==
  /\ reader[r].at = "aside"
  /\ IF File(r) \in inbox
     THEN inbox' = inbox \ {File(r)} /\ archived' = archived \union {File(r)}
     ELSE UNCHANGED fileVars
  /\ NextFile(r, {})
  /\ UNCHANGED <<says, mail, session, shown, taken, stuck, faults>>

MoveFails(r) ==
  /\ reader[r].at \in {"aside", "undo"}
  /\ Fault
  /\ NextFile(r, {})
  /\ UNCHANGED <<fileVars, says, mail, session, shown, taken, stuck>>

AllRead(r) ==
  /\ reader[r].at = "next" /\ reader[r].todo = {}
  /\ IF reader[r].cmd = "consume" THEN Goto(r, "show") ELSE Idle(r)
  /\ UNCHANGED <<fileVars, says, mail, session, shown, taken, stuck, faults>>

(* What was consumed is printed, after an error too.                       *)
Show(r) ==
  /\ reader[r].at = "show"
  /\ shown' = shown \union reader[r].took
  /\ Idle(r)
  /\ UNCHANGED <<fileVars, says, mail, session, taken, stuck, faults>>

-----------------------------------------------------------------------------
(* The launch of a session by the supervisor (there is one, see module     *)
(* Supervisor): pending(), start_session(), archive().                     *)

Launching == \E r \in Readers : reader[r].cmd = "launch"

Messages == {n \in inbox : says[n] # Junk}

(* A file that cannot be read now is left out.                             *)
Pending(r) ==
  /\ r \in Loops /\ reader[r].at = "idle" /\ ~Launching /\ session # "up"
  /\ \E waiting \in SUBSET Messages :
       /\ (waiting = Messages /\ UNCHANGED faults) \/ Fault
       /\ reader' = [reader EXCEPT ![r] = [NoHand EXCEPT !.cmd = "launch", !.at = "start",
                                                         !.took = waiting]]
  /\ UNCHANGED <<fileVars, says, mail, session, shown, taken, stuck>>

(* The preamble is the session's; then the ids of the messages in it are   *)
(* taken, and a message that has none ends the supervisor (KeyError). An   *)
(* id that is no string is taken like any other.                           *)
StartSession(r) ==
  /\ reader[r].at = "start"
  /\ session' = "up"
  /\ shown' = shown \union reader[r].took
  /\ IF \E n \in reader[r].took : says[n] = NoId
     THEN stuck' = TRUE /\ Idle(r)
     ELSE UNCHANGED stuck /\
          IF reader[r].took = {} THEN Idle(r) ELSE Goto(r, "match")
  /\ UNCHANGED <<fileVars, says, mail, taken, faults>>

(* A launch that fails leaves the mail in the inbox.                       *)
StartFails(r) ==
  /\ reader[r].at = "start"
  /\ session' = "none"
  /\ Fault
  /\ Idle(r)
  /\ UNCHANGED <<fileVars, says, mail, shown, taken, stuck>>

(* archive(): the ids that are strings, by name, where the file agrees or  *)
(* claims nothing; if that does not account for every id, by what the      *)
(* files say.                                                              *)
ByName(files, wanted) ==
  {n \in files \intersect wanted : says[n] \in {n, NoId, BadId, Junk}}

BySaying(files, wanted) ==
  {n \in files : says[n] \in wanted \/ (says[n] \in {NoId, BadId, Junk} /\ n \in wanted)}

(* Mutant of Chosen: an id is resolved into a file name. *)
ChosenIds(files, wanted) == wanted

(* Mutant of Chosen: the names are believed. *)
ChosenByName(files, wanted) == files \intersect wanted

Chosen(files, wanted) ==
  IF ByName(files, wanted) = wanted THEN wanted ELSE BySaying(files, wanted)

Match(r) ==
  /\ reader[r].at = "match"
  /\ \E files \in SUBSET inbox :
       /\ (files = inbox /\ UNCHANGED faults) \/ Fault
       /\ reader' = [reader EXCEPT ![r].at = "next", ![r].took = {},
                       ![r].todo = Chosen(files, {says[n] : n \in reader[r].took} \intersect Ids)]
  /\ UNCHANGED <<fileVars, says, mail, session, shown, taken, stuck>>

-----------------------------------------------------------------------------
AgentExits ==
  /\ session = "up"
  /\ session' \in {"dead", "none"}
  /\ UNCHANGED <<fileVars, says, mail, reader, shown, taken, stuck, faults>>

Crash(r) ==
  /\ reader[r].at # "idle"
  /\ Fault
  /\ taken' = IF reader[r].cmd = "consume" THEN taken \union reader[r].took ELSE taken
  /\ Idle(r)
  /\ UNCHANGED <<fileVars, says, mail, session, shown, stuck>>

-----------------------------------------------------------------------------
(* The mailboxes to begin with: every file under its own id, one of them   *)
(* edited, or two that have each other's. No two files claim one id.       *)
OwnId == [n \in Names |-> n]
Edited(files) ==
  {OwnId}
  \union {[OwnId EXCEPT ![n] = what] : n \in files, what \in {NoId, BadId, Junk, Foreign}}
  \union {[OwnId EXCEPT ![n] = k, ![k] = n] : n, k \in files}

Init ==
  /\ inbox \in SUBSET Names /\ archived = {}
  /\ says \in Edited(inbox)
  /\ mail = [n \in Names |-> IF n \in inbox THEN "queued" ELSE "new"]
  /\ reader = [r \in Readers |-> NoHand]
  /\ session = "none"
  /\ shown = {} /\ taken = {} /\ stuck = FALSE /\ faults = 0

Sending(n) ==
  \/ CanReceiveLive(n) \/ Type(n) \/ TypeFails(n)
  \/ RecordDelivered(n) \/ RecordFails(n) \/ Queue(n) \/ QueueFails(n)

Reading(r) ==
  \/ ReadFile(r) \/ ReadFails(r) \/ WriteCopy(r) \/ WriteFails(r)
  \/ Unlink(r) \/ UnlinkFails(r) \/ Undo(r) \/ MoveAside(r) \/ MoveFails(r)
  \/ AllRead(r) \/ Show(r)
  \/ StartSession(r) \/ StartFails(r) \/ Match(r)

Next ==
  \/ \E n \in Names : Sending(n)
  \/ \E r \in Readers : Consume(r) \/ Pending(r) \/ Reading(r) \/ Crash(r)
  \/ AgentExits

Spec == Init /\ [][Next]_vars

(* A process that reads runs on; sessions end, and the loop launches the   *)
(* next one. Nobody is obliged to consume.                                 *)
FairSpec ==
  /\ Spec
  /\ \A r \in Readers : WF_vars(Reading(r))
  /\ WF_vars(AgentExits)
  /\ WF_vars(\E r \in Readers : Pending(r))

-----------------------------------------------------------------------------
(* Properties.                                                             *)

TypeOK ==
  /\ inbox \subseteq Names /\ archived \subseteq Names
  /\ says \in [Names -> Ids \union {NoId, BadId, Junk}]
  /\ mail \in [Names -> {"new", "typing", "typed", "unreachable", "live", "queued",
                         "refused"}]
  /\ reader \in [Readers -> [at : {"idle", "next", "write", "unlink", "undo", "aside",
                                   "show", "start", "match"},
                             cmd : {None, "consume", "launch"},
                             todo : SUBSET Names, took : SUBSET Names]]
  /\ session \in {"none", "up", "dead"}
  /\ shown \subseteq Names /\ taken \subseteq Names
  /\ stuck \in BOOLEAN /\ faults \in 0 .. MaxFaults

InHand == UNION {reader[r].took : r \in {q \in Readers : reader[q].cmd = "consume"}}

(* "Queued -- it will be delivered": a queued message is in the inbox, or  *)
(* has been shown to an agent, or is in the hands of the consumer that     *)
(* will show it, through readers that overlap, calls that fail half-way    *)
(* and files that lie about their id. Only a consumer that is killed with  *)
(* it in hand can lose it.                                                 *)
QueuedIsDelivered ==
  \A n \in Names :
    (mail[n] = "queued" /\ says[n] # Junk) =>
      n \in inbox \union shown \union InHand \union taken

(* archive(): a message "re-delivered for ever" is what the matching of    *)
(* ids and names must not lead to. A message that has a usable id, its     *)
(* own or another's, leaves the inbox once a launch has shown it and calls *)
(* stop failing; unless one that came with it has no id and ended the      *)
(* loop. A message whose id is no string is left out: archive() drops it   *)
(* and every launch shows it again.                                        *)
ShownIsArchived ==
  \A n \in Names :
    (n \in shown /\ n \in inbox /\ says[n] \in Ids) ~> (n \notin inbox \/ stuck)

(* run_loop_mode: "An unreadable mailbox must not kill an unattended       *)
(* loop".                                                                  *)
MailNeverEndsTheLoop == ~stuck
=============================================================================
