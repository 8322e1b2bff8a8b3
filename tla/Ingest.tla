------------------------------- MODULE Ingest -------------------------------
(***************************************************************************)
(* The metrics store (operator_ingest.py, and its callers in               *)
(* copilot_operator.py and operator_runner.py): what Copilot wrote to its  *)
(* process logs is recorded in one row per log, by the runner of a session *)
(* and by `operator ingest`, which may run at the same time; `operator     *)
(* logs --prune` deletes old logs that have a row.                         *)
(*                                                                         *)
(* The logs of the model have one basename and lie in different            *)
(* directories, which is the case the keys of the table are about. Earlier *)
(* versions keyed a row by the basename alone. A text is the set of the    *)
(* facts in it: the responses that were billed and the shutdown event. A   *)
(* fact that is logged again, and a line that says neither, change only    *)
(* the time of the file.                                                   *)
(***************************************************************************)
EXTENDS Naturals

CONSTANTS
  Logs,       \* full paths of process logs
  Basename,   \* the name they share
  Facts,      \* the responses that are billed, and the shutdown event
  Unstamped,  \* the logs whose first line has no time
  Clock,      \* a start that was read from the wall clock, not from the log
  None,       \* no row, no log yet
  Pruned,     \* a log that was deleted
  PruneAge,   \* `--days`
  MaxSecond   \* bound: the clock

VARIABLES logs, rows, jobs, pruner, second

vars == <<logs, rows, jobs, pruner, second>>

Keys      == Logs \union {Basename}
Ingestors == {"cli", "runner"}
Seconds   == 0 .. MaxSecond

(* before: what the log said when the second of its mtime began.           *)
Log  == [text : SUBSET Facts, before : SUBSET Facts, mtime : Seconds]
Row  == [of : Logs, mtime : Seconds, started : Logs \union {Clock},
         noOp : BOOLEAN, usage : SUBSET Facts]
Idle == [at |-> "idle"]

Present(p) == logs[p] \notin {None, Pruned}

-----------------------------------------------------------------------------
(* Reading a log.                                                          *)

(* extract_ai_credit_usage(), extract_shutdown_event(): a text is its      *)
(* facts, and a response counts once, however often a retry logs it.       *)
Extracted(p) == logs[p].text

(* The first line's time identifies the session: two logs disagree on it.  *)
StartedAt(p) == IF p \in Unstamped THEN Clock ELSE p

-----------------------------------------------------------------------------
(* Writing the row.                                                        *)

(* Mutant of MayAdopt: a name is evidence enough. *)
MayAdoptByName(table, key, started) ==
  /\ table[Basename] # None
  /\ table[key] = None

(* Two wall clocks do not agree.                                           *)
MayAdopt(table, key, started) ==
  /\ table[Basename] # None
  /\ table[Basename].started = started /\ started # Clock
  /\ table[key] = None

AdoptLegacyRow(table, key, started) ==
  IF MayAdopt(table, key, started)
  THEN [table EXCEPT ![key] = table[Basename], ![Basename] = None]
  ELSE table

(* Mutant of StoredMtime: the time of the file when the row is written. *)
StoredMtimeLate(job) == IF Present(job.log) THEN logs[job.log].mtime ELSE job.mtime

StoredMtime(job) == job.mtime

(* A log without usage keeps the numbers its row has.                      *)
Upsert(table, job) ==
  LET key  == job.log
      old  == table[key]
      noOp == job.text = {}
      row  == [of |-> key, mtime |-> StoredMtime(job), started |-> job.started,
               noOp |-> noOp, usage |-> IF noOp /\ old # None THEN old.usage ELSE job.text]
  IN [table EXCEPT ![key] = row]

-----------------------------------------------------------------------------
(* ingest_file(), in the runner and in `operator ingest [--force]`.        *)

AlreadyProcessed(p) == rows[p] # None /\ rows[p].mtime = logs[p].mtime

(* The time of the file is taken before its text.                          *)
Examine(j) ==
  /\ jobs[j] = Idle
  /\ \E p \in Logs, force \in BOOLEAN :
       /\ Present(p)
       /\ force => j = "cli"
       /\ force \/ ~AlreadyProcessed(p)
       /\ jobs' = [jobs EXCEPT ![j] = [at |-> "read", log |-> p, mtime |-> logs[p].mtime]]
  /\ UNCHANGED <<logs, rows, pruner, second>>

(* A log that is gone, or cannot be read, is reported and left.            *)
ReadText(j) ==
  /\ jobs[j].at = "read"
  /\ LET p == jobs[j].log
     IN jobs' = [jobs EXCEPT ![j] =
          IF ~Present(p) THEN Idle
          ELSE [at |-> "store", log |-> p, mtime |-> @.mtime,
                text |-> Extracted(p), started |-> StartedAt(p)]]
  /\ UNCHANGED <<logs, rows, pruner, second>>

(* One transaction.                                                        *)
StoreRow(j) ==
  /\ jobs[j].at = "store"
  /\ LET job == jobs[j]
     IN rows' = Upsert(AdoptLegacyRow(rows, job.log, job.started), job)
  /\ jobs' = [jobs EXCEPT ![j] = Idle]
  /\ UNCHANGED <<logs, pruner, second>>

(* The database refuses, or the process is killed: rolled back.            *)
Fail(j) ==
  /\ jobs[j] # Idle
  /\ jobs' = [jobs EXCEPT ![j] = Idle]
  /\ UNCHANGED <<logs, rows, pruner, second>>

-----------------------------------------------------------------------------
(* manage_logs() with --prune.                                             *)

(* The files that are old, and the keys that have a row, are looked up     *)
(* once.                                                                   *)
PruneLook ==
  /\ pruner = {}
  /\ pruner' = {p \in Logs : /\ Present(p)
                             /\ logs[p].mtime + PruneAge <= second
                             /\ rows[p] # None}
  /\ UNCHANGED <<logs, rows, jobs, second>>

(* Each is removed; one that cannot be, or is not any more, stays.         *)
PruneFile ==
  /\ \E p \in pruner :
       /\ pruner' = pruner \ {p}
       /\ logs' \in {logs, [logs EXCEPT ![p] = Pruned]}
  /\ UNCHANGED <<rows, jobs, second>>

(* Before the upgrade: a row under the name of the log, which may be gone. *)
EarlierVersion ==
  /\ \A k \in Keys : rows[k] = None
  /\ jobs = [j \in Ingestors |-> Idle]
  /\ \E p \in Logs :
       /\ Present(p)
       /\ rows' = [rows EXCEPT ![Basename] =
            [of |-> p, mtime |-> logs[p].mtime, started |-> StartedAt(p),
             noOp |-> Extracted(p) = {}, usage |-> Extracted(p)]]
       /\ logs' \in {logs, [logs EXCEPT ![p] = Pruned]}
  /\ UNCHANGED <<jobs, pruner, second>>

-----------------------------------------------------------------------------
(* Copilot writes its logs.                                                *)

LogAppears ==
  /\ \E p \in Logs :
       /\ logs[p] = None
       /\ logs' = [logs EXCEPT ![p] = [text |-> {}, before |-> {}, mtime |-> second]]
  /\ UNCHANGED <<rows, jobs, pruner, second>>

LogGrows ==
  /\ \E p \in Logs, fact \in Facts :
       /\ Present(p)
       /\ logs' = [logs EXCEPT ![p] =
            [text |-> @.text \union {fact}, mtime |-> second,
             before |-> IF @.mtime = second THEN @.before ELSE @.text]]
  /\ UNCHANGED <<rows, jobs, pruner, second>>

Tick ==
  /\ second < MaxSecond
  /\ second' = second + 1
  /\ UNCHANGED <<logs, rows, jobs, pruner>>

-----------------------------------------------------------------------------
Init ==
  /\ logs = [p \in Logs |-> None]
  /\ rows = [k \in Keys |-> None]
  /\ jobs = [j \in Ingestors |-> Idle]
  /\ pruner = {}
  /\ second = 0

Ingest(j) == Examine(j) \/ ReadText(j) \/ StoreRow(j) \/ Fail(j)

Next ==
  \/ \E j \in Ingestors : Ingest(j)
  \/ PruneLook \/ PruneFile
  \/ EarlierVersion \/ LogAppears \/ LogGrows \/ Tick

Spec == Init /\ [][Next]_vars

-----------------------------------------------------------------------------
(* Properties.                                                             *)

TypeOK ==
  /\ logs \in [Logs -> Log \union {None, Pruned}]
  /\ rows \in [Keys -> Row \union {None}]
  /\ \A j \in Ingestors : jobs[j].at \in {"idle", "read", "store"}
  /\ pruner \subseteq Logs

(* _adopt_legacy_row(): "it destroys history rather than merely mixing     *)
(* it". A session that has a row keeps one: no log of the same name takes  *)
(* its row over, and the numbers of a row are its own log's.               *)
HistoryKept ==
  [][\A k \in Keys : rows[k] # None =>
       \E l \in Keys : rows'[l] # None /\ rows'[l].of = rows[k].of]_vars

(* ingest_file() skips a log whose row has the time of the file: whatever  *)
(* was logged before that second is in the row, although other ingests,    *)
(* and Copilot, went on in between. Only the second itself can be lost.    *)
SkipLosesOneSecond ==
  \A p \in Logs :
    (Present(p) /\ rows[p] # None /\ rows[p].mtime = logs[p].mtime) =>
      logs[p].before \subseteq (IF rows[p].noOp THEN {} ELSE rows[p].usage)

(* manage_logs(): "Only prune what has already been recorded, so usage is  *)
(* never lost." The code asks only whether the log has a row, not whether  *)
(* the row is up to date; what the last second lost is not counted here.   *)
PrunedIsRecorded ==
  [][\A p \in Logs : (Present(p) /\ logs'[p] = Pruned) =>
       \E k \in Keys : /\ rows'[k] # None /\ rows'[k].of = p
                      /\ logs[p].before \subseteq rows'[k].usage]_vars
=============================================================================
