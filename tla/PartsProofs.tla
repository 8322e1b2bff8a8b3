---------------------------- MODULE PartsProofs -----------------------------
(***************************************************************************)
(* Proofs about the parts of MCParts other than the claim store, each      *)
(* about the specification of its own module, for all values of its        *)
(* constants.                                                              *)
(***************************************************************************)
EXTENDS MCParts, Sequences, WellFoundedInduction, TLAPS

-----------------------------------------------------------------------------
(***************************************************************************)
(* The rows of the metrics store for any number of logs and facts, and a   *)
(* clock that runs on to any second: a session that has a row keeps one,   *)
(* and a log that is skipped has lost at most its last second.             *)
(*                                                                         *)
(* What carries the second over all that goes on between the look at a     *)
(* file and its row: times only go up, a text only grows, and what the row *)
(* gets was read after the time that it gets.                              *)
(***************************************************************************)

(* Assumed of the constants: the shared name is no full path, "no row" is  *)
(* no row.                                                                 *)
NamesAreApart ==
  /\ MaxSecond \in Nat
  /\ Basename \notin Logs
  /\ None \notin Metrics!Row

Jobs ==
  {Metrics!Idle} \union [at : {"read"}, log : Logs, mtime : Metrics!Seconds]
         \union [at : {"store"}, log : Logs, mtime : Metrics!Seconds, text : SUBSET Facts,
                 started : Logs \union {Clock}]

IngestTypeOK ==
  /\ logs \in [Logs -> Metrics!Log \union {None, Pruned}]
  /\ rows \in [Metrics!Keys -> Metrics!Row \union {None}]
  /\ jobs \in [Metrics!Ingestors -> Jobs]
  /\ pruner \in SUBSET Logs
  /\ second \in Metrics!Seconds

(* A row under a path is that log's; a start read from a log names it.     *)
RowsAreOwn ==
  /\ \A p \in Logs : rows[p] # None => rows[p].of = p
  /\ rows[Basename] # None => rows[Basename].started \in {rows[Basename].of, Clock}

LogsGrow ==
  \A p \in Logs : Metrics!Present(p) => /\ logs[p].mtime <= second
                                        /\ logs[p].before \subseteq logs[p].text

(* Facts with the time of log p at which they were read, or before.        *)
Covers(p, mtime, facts) ==
  Metrics!Present(p) => /\ mtime <= logs[p].mtime
                        /\ mtime = logs[p].mtime => logs[p].before \subseteq facts

RowFacts(row) == IF row.noOp THEN {} ELSE row.usage

RowsCover ==
  \A p \in Logs : rows[p] # None =>
    rows[p].mtime <= second /\ Covers(p, rows[p].mtime, RowFacts(rows[p]))

JobCovers(j) ==
  /\ jobs[j].at = "read" =>
       /\ jobs[j].mtime <= second
       /\ Metrics!Present(jobs[j].log) => jobs[j].mtime <= logs[jobs[j].log].mtime
  /\ jobs[j].at = "store" =>
       /\ jobs[j].mtime <= second
       /\ Covers(jobs[j].log, jobs[j].mtime, jobs[j].text)
       /\ jobs[j].started = Metrics!StartedAt(jobs[j].log)

IngestInv ==
  /\ IngestTypeOK /\ RowsAreOwn /\ LogsGrow /\ RowsCover
  /\ \A j \in Metrics!Ingestors : JobCovers(j)

-----------------------------------------------------------------------------
(* What a job remembers.                                                   *)
LEMMA JobKinds ==
  ASSUME NEW job \in Jobs
  PROVE  /\ job.at = "read" => job.log \in Logs /\ job.mtime \in Metrics!Seconds
         /\ job.at = "store" => /\ job.log \in Logs /\ job.mtime \in Metrics!Seconds
                                /\ job.text \in SUBSET Facts
                                /\ job.started \in Logs \union {Clock}
<1>1. CASE job = Metrics!Idle
  BY <1>1 DEF Metrics!Idle
<1>2. CASE job \in [at : {"read"}, log : Logs, mtime : Metrics!Seconds]
  BY <1>2
<1>3. CASE job \in [at : {"store"}, log : Logs, mtime : Metrics!Seconds, text : SUBSET Facts,
                    started : Logs \union {Clock}]
  BY <1>3
<1>4. QED
  BY <1>1, <1>2, <1>3 DEF Jobs

LEMMA PresentIsLog ==
  ASSUME IngestTypeOK, NEW p \in Logs, Metrics!Present(p)
  PROVE  /\ logs[p] \in Metrics!Log /\ logs[p].mtime \in Nat /\ logs[p].mtime \in Metrics!Seconds
         /\ logs[p].text \in SUBSET Facts
  BY DEF IngestTypeOK, Metrics!Present, Metrics!Log, Metrics!Seconds

LEMMA RowIsRow ==
  ASSUME IngestTypeOK, NEW k \in Metrics!Keys, rows[k] # None
  PROVE  rows[k] \in Metrics!Row /\ rows[k].mtime \in Nat
  BY DEF IngestTypeOK, Metrics!Row, Metrics!Seconds

(* The logs and the clock move as they do while time passes and Copilot    *)
(* writes: a log that is there was there, or is new, and either has not    *)
(* changed or has changed in this second.                                  *)
LogsMove ==
  /\ second' \in Metrics!Seconds /\ second <= second'
  /\ \A p \in Logs : Metrics!Present(p)' =>
       \/ Metrics!Present(p) /\ logs'[p] = logs[p]
       \/ Metrics!Present(p) /\ logs'[p].mtime = second
          /\ logs'[p].before = (IF logs[p].mtime = second THEN logs[p].before ELSE logs[p].text)
          /\ logs'[p].text \in SUBSET Facts /\ logs[p].text \subseteq logs'[p].text
       \/ ~Metrics!Present(p) /\ logs'[p].mtime = second /\ logs'[p].before = {}

(* What covered a log goes on to: a log that changed is newer, or is still *)
(* in its second.                                                          *)
LEMMA CoverLasts ==
  ASSUME IngestTypeOK, LogsGrow, LogsMove, NEW p \in Logs, NEW mtime \in Nat, NEW facts,
         mtime <= second, Covers(p, mtime, facts)
  PROVE  Metrics!Present(p)' => /\ mtime <= logs'[p].mtime
                                /\ mtime = logs'[p].mtime => logs'[p].before \subseteq facts
<1> SUFFICES ASSUME Metrics!Present(p)'
             PROVE  /\ mtime <= logs'[p].mtime
                    /\ mtime = logs'[p].mtime => logs'[p].before \subseteq facts
  OBVIOUS
<1>1. second \in Nat
  BY DEF IngestTypeOK, Metrics!Seconds
<1>2. CASE Metrics!Present(p) /\ logs'[p] = logs[p]
  BY <1>2 DEF Covers
<1>3. CASE /\ Metrics!Present(p) /\ logs'[p].mtime = second
           /\ logs'[p].before = IF logs[p].mtime = second THEN logs[p].before ELSE logs[p].text
  <2>1. logs[p].mtime \in Nat /\ logs[p].mtime <= second /\ mtime <= logs[p].mtime
    BY <1>3, PresentIsLog DEF LogsGrow, Covers
  <2>2. mtime = second => logs[p].mtime = second
    BY <1>1, <2>1
  <2>3. QED
    BY <1>3, <2>2 DEF Covers
<1>4. CASE ~Metrics!Present(p) /\ logs'[p].mtime = second /\ logs'[p].before = {}
  BY <1>4
<1>5. QED
  BY <1>2, <1>3, <1>4 DEF LogsMove

(* A step of the logs, or of nothing, keeps the invariant.                 *)
LEMMA MoveKeeps ==
  ASSUME IngestInv, LogsMove, UNCHANGED <<rows, jobs>>,
         logs' \in [Logs -> Metrics!Log \union {None, Pruned}], pruner' \in SUBSET Logs
  PROVE  IngestInv'
<1>1. IngestTypeOK /\ RowsAreOwn /\ LogsGrow /\ RowsCover
      /\ \A j \in Metrics!Ingestors : JobCovers(j) /\ jobs[j] \in Jobs
  BY DEF IngestInv, IngestTypeOK
<1>2. second \in Nat /\ second' \in Nat /\ second <= second'
  BY <1>1 DEF IngestTypeOK, Metrics!Seconds, LogsMove
<1>3. IngestTypeOK' /\ RowsAreOwn'
  BY <1>1 DEF IngestTypeOK, RowsAreOwn, LogsMove
<1>4. LogsGrow'
  <2> SUFFICES ASSUME NEW p \in Logs, Metrics!Present(p)'
               PROVE  logs'[p].mtime <= second' /\ logs'[p].before \subseteq logs'[p].text
    BY DEF LogsGrow
  <2>1. CASE Metrics!Present(p) /\ logs'[p] = logs[p]
    <3>1. logs[p].mtime \in Nat
      BY <1>1, <2>1, PresentIsLog
    <3>2. QED
      BY <1>1, <1>2, <2>1, <3>1 DEF LogsGrow
  <2>2. CASE /\ Metrics!Present(p) /\ logs'[p].mtime = second
             /\ logs'[p].before = (IF logs[p].mtime = second THEN logs[p].before ELSE logs[p].text)
             /\ logs[p].text \subseteq logs'[p].text
    BY <1>1, <1>2, <2>2 DEF LogsGrow
  <2>3. CASE ~Metrics!Present(p) /\ logs'[p].mtime = second /\ logs'[p].before = {}
    BY <1>2, <2>3
  <2>4. QED
    BY <2>1, <2>2, <2>3 DEF LogsMove
<1>5. RowsCover'
  <2> SUFFICES ASSUME NEW p \in Logs, rows[p] # None
               PROVE  (rows[p].mtime <= second /\ Covers(p, rows[p].mtime, RowFacts(rows[p])))'
    BY DEF RowsCover
  <2>1. rows' = rows /\ rows[p].mtime \in Nat /\ rows[p].mtime <= second
        /\ Covers(p, rows[p].mtime, RowFacts(rows[p]))
    BY <1>1, RowIsRow DEF RowsCover, Metrics!Keys
  <2>2. Metrics!Present(p)' => /\ rows[p].mtime <= logs'[p].mtime
                               /\ rows[p].mtime = logs'[p].mtime =>
                                    logs'[p].before \subseteq RowFacts(rows[p])
    BY <1>1, <2>1, CoverLasts
  <2>3. rows[p].mtime <= second'
    BY <1>2, <2>1
  <2>4. QED
    BY <2>1, <2>2, <2>3 DEF Covers, RowFacts, Metrics!Present
<1>6. ASSUME NEW j \in Metrics!Ingestors
      PROVE  JobCovers(j)'
  <2> DEFINE job == jobs[j]
  <2>1. jobs'[j] = job /\ job \in Jobs /\ JobCovers(j)
    BY <1>1
  <2>2. ASSUME job.at = "read"
        PROVE  /\ job.mtime <= second'
               /\ Metrics!Present(job.log)' => job.mtime <= logs'[job.log].mtime
    <3>1. job.log \in Logs /\ job.mtime \in Nat /\ job.mtime <= second
      BY <2>1, <2>2, JobKinds DEF JobCovers, Metrics!Seconds
    <3>2. Metrics!Present(job.log) => job.mtime <= logs[job.log].mtime
      BY <2>1, <2>2 DEF JobCovers
    <3> HIDE DEF job
    <3>3. Covers(job.log, job.mtime, Facts)
      <4>1. Metrics!Present(job.log) => logs[job.log].before \subseteq Facts
        BY <1>1, <3>1, PresentIsLog DEF Metrics!Log
      <4>2. QED
        BY <3>2, <4>1 DEF Covers
    <3>4. PICK p \in Logs, m \in Nat : p = job.log /\ m = job.mtime
      BY <3>1
    <3>5. Metrics!Present(p)' => m <= logs'[p].mtime
      BY <1>1, <3>1, <3>3, <3>4, CoverLasts
    <3>6. job.mtime <= second'
      BY <1>2, <3>1
    <3>7. Metrics!Present(job.log)' => job.mtime <= logs'[job.log].mtime
      <4>1. job' = job
        BY DEF job
      <4>2. QED
        BY <3>4, <3>5, <4>1 DEF Metrics!Present
    <3>8. QED
      BY <3>6, <3>7
  <2>3. ASSUME job.at = "store"
        PROVE  /\ job.mtime <= second'
               /\ Covers(job.log, job.mtime, job.text)'
    <3>1. job.log \in Logs /\ job.mtime \in Nat /\ job.mtime <= second
          /\ Covers(job.log, job.mtime, job.text) /\ job' = job
      BY <2>1, <2>3, JobKinds DEF JobCovers, Metrics!Seconds
    <3> HIDE DEF job
    <3>2. PICK p \in Logs, m \in Nat : p = job.log /\ m = job.mtime
      BY <3>1
    <3>3. PICK facts : facts = job.text
      OBVIOUS
    <3>4. Covers(p, m, facts) /\ m <= second
      BY <3>1, <3>2, <3>3
    <3>5. Metrics!Present(p)' => /\ m <= logs'[p].mtime
                                 /\ m = logs'[p].mtime => logs'[p].before \subseteq facts
      BY <1>1, <3>4, CoverLasts
    <3>6. QED
      BY <1>2, <3>1, <3>2, <3>3, <3>5 DEF Covers, Metrics!Present
  <2>4. QED
    BY <2>1, <2>2, <2>3 DEF JobCovers, Metrics!StartedAt, Covers, Metrics!Present
<1>7. QED
  BY <1>3, <1>4, <1>5, <1>6 DEF IngestInv

(* A step of one ingest that leaves the logs and the rows alone.           *)
LEMMA JobKeeps ==
  ASSUME IngestInv, NEW j \in Metrics!Ingestors, NEW job \in Jobs,
         jobs' = [jobs EXCEPT ![j] = job], UNCHANGED <<logs, rows, pruner, second>>,
         job.at = "read" =>
           /\ job.mtime <= second
           /\ Metrics!Present(job.log) => job.mtime <= logs[job.log].mtime,
         job.at = "store" =>
           /\ job.mtime <= second
           /\ Covers(job.log, job.mtime, job.text)
           /\ job.started = Metrics!StartedAt(job.log)
  PROVE  IngestInv'
<1>1. IngestTypeOK' /\ jobs'[j] = job
      /\ \A i \in Metrics!Ingestors \ {j} : jobs'[i] = jobs[i]
  BY DEF IngestInv, IngestTypeOK
<1>2. RowsAreOwn' /\ LogsGrow' /\ RowsCover'
  BY DEF IngestInv, RowsAreOwn, LogsGrow, RowsCover, Covers, Metrics!Present
<1>3. JobCovers(j)'
  BY <1>1 DEF JobCovers, Covers, Metrics!Present, Metrics!StartedAt
<1>4. \A i \in Metrics!Ingestors \ {j} : JobCovers(i)'
  BY <1>1 DEF IngestInv, JobCovers, Covers, Metrics!Present, Metrics!StartedAt
<1>5. QED
  BY <1>1, <1>2, <1>3, <1>4 DEF IngestInv

LEMMA ExamineKeeps ==
  ASSUME IngestInv, NEW j \in Metrics!Ingestors, Metrics!Examine(j)
  PROVE  IngestInv'
<1>1. PICK p \in Logs :
        /\ Metrics!Present(p)
        /\ jobs' = [jobs EXCEPT ![j] = [at |-> "read", log |-> p, mtime |-> logs[p].mtime]]
  BY DEF Metrics!Examine
<1> DEFINE job == [at |-> "read", log |-> p, mtime |-> logs[p].mtime]
<1>2. logs[p].mtime \in Metrics!Seconds /\ logs[p].mtime \in Nat /\ logs[p].mtime <= second
  BY <1>1, PresentIsLog DEF IngestInv, LogsGrow
<1>3. job \in Jobs /\ job.at = "read" /\ job.log = p /\ job.mtime = logs[p].mtime
  BY <1>2 DEF Jobs
<1>4. jobs' = [jobs EXCEPT ![j] = job] /\ UNCHANGED <<logs, rows, pruner, second>>
  BY <1>1 DEF Metrics!Examine
<1>5. job.at # "store" /\ job.mtime <= second /\ job.mtime <= logs[job.log].mtime
  BY <1>2
<1> HIDE DEF job
<1>6. QED
  BY <1>3, <1>4, <1>5, JobKeeps

LEMMA ReadKeeps ==
  ASSUME IngestInv, NEW j \in Metrics!Ingestors, Metrics!ReadText(j)
  PROVE  IngestInv'
<1> DEFINE p == jobs[j].log
           job == [at |-> "store", log |-> p, mtime |-> jobs[j].mtime,
                   text |-> Metrics!Extracted(p), started |-> Metrics!StartedAt(p)]
<1>1. /\ jobs[j].at = "read" /\ jobs[j] \in Jobs /\ IngestTypeOK /\ LogsGrow
      /\ jobs' = [jobs EXCEPT ![j] = IF ~Metrics!Present(p) THEN Metrics!Idle ELSE job]
      /\ UNCHANGED <<logs, rows, pruner, second>>
  BY DEF Metrics!ReadText, IngestInv, IngestTypeOK
<1>2. /\ p \in Logs /\ jobs[j].mtime \in Metrics!Seconds /\ jobs[j].mtime <= second
      /\ Metrics!Present(p) => jobs[j].mtime <= logs[p].mtime
  BY <1>1, JobKinds DEF IngestInv, JobCovers
<1>3. CASE ~Metrics!Present(p)
  <2>1. Metrics!Idle \in Jobs /\ Metrics!Idle.at # "read" /\ Metrics!Idle.at # "store"
    BY DEF Jobs, Metrics!Idle
  <2>2. QED
    BY <1>1, <1>3, <2>1, JobKeeps
<1>4. CASE Metrics!Present(p)
  <2>1. Metrics!Extracted(p) \in SUBSET Facts /\ logs[p].before \subseteq Metrics!Extracted(p)
    BY <1>1, <1>2, <1>4, PresentIsLog DEF Metrics!Extracted, LogsGrow
  <2>2. Metrics!StartedAt(p) \in Logs \union {Clock}
    BY <1>2 DEF Metrics!StartedAt
  <2>3. job \in Jobs
    BY <1>2, <2>1, <2>2 DEF Jobs
  <2>4. Covers(p, jobs[j].mtime, Metrics!Extracted(p))
    BY <1>2, <2>1 DEF Covers
  <2>5. /\ job.at = "store" /\ job.log = p /\ job.mtime = jobs[j].mtime
        /\ job.text = Metrics!Extracted(p) /\ job.started = Metrics!StartedAt(p)
    OBVIOUS
  <2>6. jobs' = [jobs EXCEPT ![j] = job]
    BY <1>1, <1>4
  <2> HIDE DEF job, p
  <2>7. QED
    BY <1>1, <1>2, <2>3, <2>4, <2>5, <2>6, JobKeeps
<1>5. QED
  BY <1>3, <1>4

(* The row of job's log is the job's, and of the others at most the row    *)
(* under the shared name is gone, which was this session's own.            *)
LEMMA StoredRow ==
  ASSUME NamesAreApart, IngestInv, NEW j \in Metrics!Ingestors, Metrics!StoreRow(j)
  PROVE  LET job == jobs[j] IN
         /\ job.log \in Logs /\ job.mtime \in Metrics!Seconds /\ job.text \in SUBSET Facts
         /\ job.started \in Logs \union {Clock}
         /\ rows' \in [Metrics!Keys -> Metrics!Row \union {None}]
         /\ rows'[job.log] # None /\ rows'[job.log] \in Metrics!Row
         /\ rows'[job.log].of = job.log /\ rows'[job.log].mtime = job.mtime
         /\ RowFacts(rows'[job.log]) = job.text
         /\ \A k \in Metrics!Keys \ {job.log} :
              \/ rows'[k] = rows[k]
              \/ k = Basename /\ rows'[k] = None /\ rows[k].of = job.log
<1> DEFINE job == jobs[j]
           kept == Metrics!AdoptLegacyRow(rows, job.log, job.started)
           old   == kept[job.log]
           noOp  == job.text = {}
           row   == [of |-> job.log, mtime |-> job.mtime, started |-> job.started,
                     noOp |-> noOp, usage |-> IF noOp /\ old # None THEN old.usage ELSE job.text]
<1>1. /\ job.at = "store" /\ job \in Jobs /\ rows \in [Metrics!Keys -> Metrics!Row \union {None}]
      /\ rows' = [kept EXCEPT ![job.log] = row]
  BY DEF Metrics!StoreRow, IngestInv, IngestTypeOK, Metrics!Upsert, Metrics!StoredMtime
<1>2. /\ job.log \in Logs /\ job.mtime \in Metrics!Seconds /\ job.text \in SUBSET Facts
      /\ job.started \in Logs \union {Clock} /\ job.started = Metrics!StartedAt(job.log)
  BY <1>1, JobKinds DEF IngestInv, JobCovers
<1>3. job.log \in Metrics!Keys /\ Basename \in Metrics!Keys /\ job.log # Basename
  BY <1>2 DEF Metrics!Keys, NamesAreApart
<1>4. /\ kept \in [Metrics!Keys -> Metrics!Row \union {None}]
      /\ \A k \in Metrics!Keys \ {job.log} :
           \/ kept[k] = rows[k]
           \/ k = Basename /\ kept[k] = None /\ rows[k].of = job.log
  <2>1. CASE Metrics!MayAdopt(rows, job.log, job.started)
    <3>1. kept = [rows EXCEPT ![job.log] = rows[Basename], ![Basename] = None]
      BY <2>1 DEF Metrics!AdoptLegacyRow
    <3>2. rows[Basename] # None /\ rows[Basename].started = job.started /\ job.started # Clock
      BY <2>1 DEF Metrics!MayAdopt
    <3>3. rows[Basename].of = job.log
      BY <1>2, <3>2 DEF IngestInv, RowsAreOwn, Metrics!StartedAt
    <3> HIDE DEF kept, job
    <3>4. QED
      BY <1>1, <1>3, <3>1, <3>3
  <2>2. CASE ~Metrics!MayAdopt(rows, job.log, job.started)
    BY <1>1, <2>2 DEF Metrics!AdoptLegacyRow
  <2>3. QED
    BY <2>1, <2>2
<1>5. old \in Metrics!Row \union {None}
  BY <1>3, <1>4
<1> HIDE DEF kept, job
<1>6. row \in Metrics!Row
  <2>1. old # None => old.usage \in SUBSET Facts
    BY <1>5 DEF Metrics!Row
  <2>2. QED
    BY <1>2, <2>1 DEF Metrics!Row
<1>7. /\ row.of = job.log /\ row.mtime = job.mtime /\ row.noOp = noOp
      /\ ~noOp => row.usage = job.text
  OBVIOUS
<1>8. RowFacts(row) = job.text /\ row # None
  BY <1>6, <1>7 DEF RowFacts, NamesAreApart
<1> HIDE DEF row
<1>9. rows' \in [Metrics!Keys -> Metrics!Row \union {None}] /\ rows'[job.log] = row
      /\ \A k \in Metrics!Keys \ {job.log} : rows'[k] = kept[k]
  BY <1>1, <1>3, <1>4, <1>6
<1>10. QED
  BY <1>2, <1>4, <1>6, <1>7, <1>8, <1>9 DEF job

LEMMA StoreKeeps ==
  ASSUME NamesAreApart, IngestInv, NEW j \in Metrics!Ingestors, Metrics!StoreRow(j)
  PROVE  IngestInv'
<1> DEFINE job == jobs[j]
<1>1. /\ job.at = "store" /\ jobs' = [jobs EXCEPT ![j] = Metrics!Idle]
      /\ UNCHANGED <<logs, pruner, second>>
      /\ IngestTypeOK /\ RowsAreOwn /\ LogsGrow /\ RowsCover
  BY DEF Metrics!StoreRow, IngestInv
<1>2. job.mtime <= second /\ Covers(job.log, job.mtime, job.text)
  BY <1>1 DEF IngestInv, JobCovers
<1>3. PICK p \in Logs : p = job.log
  BY StoredRow
<1>4. /\ rows' \in [Metrics!Keys -> Metrics!Row \union {None}]
      /\ rows'[p].of = p /\ rows'[p].mtime = job.mtime /\ RowFacts(rows'[p]) = job.text
      /\ \A k \in Metrics!Keys \ {p} : rows'[k] = rows[k] \/ (k = Basename /\ rows'[k] = None)
  BY <1>3, StoredRow
<1>5. p # Basename /\ Basename \in Metrics!Keys /\ Logs \subseteq Metrics!Keys
  BY DEF NamesAreApart, Metrics!Keys
<1> HIDE DEF job
<1>6. IngestTypeOK'
  BY <1>1, <1>4 DEF IngestTypeOK, Jobs
<1>7. \A q \in Logs \ {p} : rows'[q] = rows[q]
  BY <1>4, <1>5 DEF NamesAreApart
<1>8. RowsAreOwn'
  BY <1>1, <1>4, <1>5, <1>7 DEF RowsAreOwn
<1>9. LogsGrow'
  BY <1>1 DEF LogsGrow, Metrics!Present
<1>10. RowsCover'
  <2>1. rows'[p].mtime <= second /\ Covers(p, rows'[p].mtime, RowFacts(rows'[p]))
    BY <1>2, <1>3, <1>4
  <2>2. ASSUME NEW q \in Logs, rows'[q] # None
        PROVE  rows'[q].mtime <= second /\ Covers(q, rows'[q].mtime, RowFacts(rows'[q]))
    BY <1>1, <1>7, <2>1, <2>2 DEF RowsCover
  <2>3. QED
    BY <1>1, <2>2 DEF RowsCover, Covers, Metrics!Present, RowFacts
<1>11. ASSUME NEW i \in Metrics!Ingestors
       PROVE  JobCovers(i)'
  <2>1. CASE i = j
    <3>1. jobs'[i] = Metrics!Idle
      BY <1>1, <2>1 DEF IngestTypeOK
    <3>2. QED
      BY <3>1 DEF JobCovers, Metrics!Idle
  <2>2. CASE i # j
    <3>1. jobs'[i] = jobs[i] /\ JobCovers(i)
      BY <1>1, <2>2 DEF IngestTypeOK, IngestInv
    <3>2. QED
      BY <1>1, <3>1 DEF JobCovers, Covers, Metrics!Present, Metrics!StartedAt
  <2>3. QED
    BY <2>1, <2>2
<1>12. QED
  BY <1>6, <1>8, <1>9, <1>10, <1>11 DEF IngestInv

(* Before the upgrade there was one row of the name, and no job.           *)
LEMMA EarlierKeeps ==
  ASSUME NamesAreApart, IngestInv, Metrics!EarlierVersion
  PROVE  IngestInv' /\ \A k \in Metrics!Keys : rows[k] = None
<1>1. /\ \A k \in Metrics!Keys : rows[k] = None
      /\ jobs = [j \in Metrics!Ingestors |-> Metrics!Idle] /\ UNCHANGED <<jobs, pruner, second>>
      /\ IngestTypeOK /\ LogsGrow
  BY DEF Metrics!EarlierVersion, IngestInv
<1>2. PICK p \in Logs :
        /\ Metrics!Present(p)
        /\ rows' = [rows EXCEPT ![Basename] =
             [of |-> p, mtime |-> logs[p].mtime, started |-> Metrics!StartedAt(p),
              noOp |-> Metrics!Extracted(p) = {}, usage |-> Metrics!Extracted(p)]]
        /\ logs' \in {logs, [logs EXCEPT ![p] = Pruned]}
  BY DEF Metrics!EarlierVersion
<1> DEFINE row == [of |-> p, mtime |-> logs[p].mtime, started |-> Metrics!StartedAt(p),
                   noOp |-> Metrics!Extracted(p) = {}, usage |-> Metrics!Extracted(p)]
<1>3. row \in Metrics!Row /\ row.of = p /\ row.started = Metrics!StartedAt(p)
  BY <1>1, <1>2, PresentIsLog DEF Metrics!Row, Metrics!Extracted, Metrics!StartedAt
<1>4. rows' = [rows EXCEPT ![Basename] = row]
  BY <1>2
<1> HIDE DEF row
<1>5. rows' \in [Metrics!Keys -> Metrics!Row \union {None}] /\ rows'[Basename] = row
      /\ \A q \in Logs : rows'[q] = None
  BY <1>1, <1>3, <1>4 DEF IngestTypeOK, Metrics!Keys, NamesAreApart
<1>6. RowsAreOwn' /\ RowsCover'
  BY <1>3, <1>5 DEF RowsAreOwn, RowsCover, Metrics!StartedAt
<1>7. IngestTypeOK' /\ LogsGrow'
  <2>1. logs' \in [Logs -> Metrics!Log \union {None, Pruned}]
    BY <1>1, <1>2 DEF IngestTypeOK
  <2>2. \A q \in Logs : Metrics!Present(q)' => Metrics!Present(q) /\ logs'[q] = logs[q]
    BY <1>1, <1>2 DEF IngestTypeOK, Metrics!Present
  <2>3. QED
    BY <1>1, <1>5, <2>1, <2>2 DEF IngestTypeOK, LogsGrow
<1>8. \A j \in Metrics!Ingestors : JobCovers(j)'
  BY <1>1 DEF JobCovers, Metrics!Idle
<1>9. QED
  BY <1>1, <1>6, <1>7, <1>8 DEF IngestInv

-----------------------------------------------------------------------------
LEMMA IngestInit ==
  ASSUME NamesAreApart, Metrics!Init
  PROVE  IngestInv
<1>1. IngestTypeOK
  BY DEF NamesAreApart, Metrics!Init, IngestTypeOK, Jobs, Metrics!Seconds
<1>2. RowsAreOwn /\ RowsCover
  BY DEF NamesAreApart, Metrics!Init, RowsAreOwn, RowsCover, Metrics!Keys
<1>3. LogsGrow
  BY DEF Metrics!Init, LogsGrow, Metrics!Present
<1>4. \A j \in Metrics!Ingestors : JobCovers(j)
  BY DEF Metrics!Init, JobCovers, Metrics!Idle
<1>5. QED
  BY <1>1, <1>2, <1>3, <1>4 DEF IngestInv

LEMMA IngestStep ==
  ASSUME NamesAreApart, IngestInv, [Metrics!Next]_Metrics!vars
  PROVE  IngestInv'
<1>1. IngestTypeOK /\ LogsGrow /\ second \in Metrics!Seconds /\ second \in Nat
  BY DEF IngestInv, IngestTypeOK, Metrics!Seconds
<1>2. ASSUME NEW j \in Metrics!Ingestors, Metrics!Ingest(j)
      PROVE  IngestInv'
  <2>1. CASE Metrics!Fail(j)
    <3>1. Metrics!Idle \in Jobs /\ Metrics!Idle.at # "read" /\ Metrics!Idle.at # "store"
      BY DEF Jobs, Metrics!Idle
    <3>2. QED
      BY <2>1, <3>1, JobKeeps DEF Metrics!Fail
  <2>2. QED
    BY <1>2, <2>1, ExamineKeeps, ReadKeeps, StoreKeeps DEF Metrics!Ingest
<1>3. ASSUME second' = second,
             \A p \in Logs : Metrics!Present(p)' => Metrics!Present(p) /\ logs'[p] = logs[p]
      PROVE  LogsMove
  BY <1>1, <1>3 DEF LogsMove
<1>4. CASE Metrics!PruneLook
  <2>1. UNCHANGED <<logs, rows, jobs, second>> /\ pruner' \in SUBSET Logs
    BY <1>4 DEF Metrics!PruneLook
  <2>2. LogsMove
    BY <1>3, <2>1 DEF Metrics!Present
  <2>3. QED
    BY <1>1, <2>1, <2>2, MoveKeeps DEF IngestTypeOK
<1>5. CASE Metrics!PruneFile
  <2>1. PICK p \in pruner : /\ pruner' = pruner \ {p}
                            /\ logs' \in {logs, [logs EXCEPT ![p] = Pruned]}
    BY <1>5 DEF Metrics!PruneFile
  <2>2. UNCHANGED <<rows, jobs, second>> /\ pruner' \in SUBSET Logs
        /\ logs' \in [Logs -> Metrics!Log \union {None, Pruned}]
    BY <1>1, <1>5, <2>1 DEF Metrics!PruneFile, IngestTypeOK
  <2>3. LogsMove
    BY <1>1, <1>3, <2>1, <2>2 DEF Metrics!Present, IngestTypeOK
  <2>4. QED
    BY <2>2, <2>3, MoveKeeps
<1>6. CASE Metrics!LogAppears
  <2>1. PICK p \in Logs :
          /\ logs[p] = None
          /\ logs' = [logs EXCEPT ![p] = [text |-> {}, before |-> {}, mtime |-> second]]
    BY <1>6 DEF Metrics!LogAppears
  <2>2. UNCHANGED <<rows, jobs, second, pruner>>
    BY <1>6 DEF Metrics!LogAppears
  <2>3. [text |-> {}, before |-> {}, mtime |-> second] \in Metrics!Log
    BY <1>1 DEF Metrics!Log
  <2>4. logs' \in [Logs -> Metrics!Log \union {None, Pruned}]
    BY <1>1, <2>1, <2>3 DEF IngestTypeOK
  <2>5. LogsMove
    BY <1>1, <2>1, <2>2 DEF LogsMove, Metrics!Present, IngestTypeOK
  <2>6. QED
    BY <1>1, <2>2, <2>4, <2>5, MoveKeeps DEF IngestTypeOK
<1>7. CASE Metrics!LogGrows
  <2>1. PICK p \in Logs, fact \in Facts :
          /\ Metrics!Present(p)
          /\ logs' = [logs EXCEPT ![p] =
               [text |-> @.text \union {fact}, mtime |-> second,
                before |-> IF @.mtime = second THEN @.before ELSE @.text]]
    BY <1>7 DEF Metrics!LogGrows
  <2> DEFINE log == [text |-> logs[p].text \union {fact}, mtime |-> second,
                     before |-> IF logs[p].mtime = second THEN logs[p].before ELSE logs[p].text]
  <2>2. UNCHANGED <<rows, jobs, second, pruner>>
    BY <1>7 DEF Metrics!LogGrows
  <2>3. logs[p] \in Metrics!Log
    BY <1>1, <2>1, PresentIsLog
  <2>4. log \in Metrics!Log
    BY <1>1, <2>3 DEF Metrics!Log
  <2>5. logs' \in [Logs -> Metrics!Log \union {None, Pruned}] /\ logs'[p] = log
        /\ \A q \in Logs \ {p} : logs'[q] = logs[q]
    BY <1>1, <2>1, <2>4 DEF IngestTypeOK
  <2>6. /\ log.mtime = second /\ log.text \in SUBSET Facts /\ logs[p].text \subseteq log.text
        /\ log.before = (IF logs[p].mtime = second THEN logs[p].before ELSE logs[p].text)
    BY <2>3 DEF Metrics!Log
  <2> HIDE DEF log
  <2>7. LogsMove
    BY <1>1, <2>1, <2>2, <2>5, <2>6 DEF LogsMove, Metrics!Present
  <2>8. QED
    BY <1>1, <2>2, <2>5, <2>7, MoveKeeps DEF IngestTypeOK
<1>8. CASE Metrics!Tick
  <2>1. second' = second + 1 /\ second < MaxSecond /\ UNCHANGED <<logs, rows, jobs, pruner>>
    BY <1>8 DEF Metrics!Tick
  <2>2. second' \in Metrics!Seconds /\ second <= second'
    BY <1>1, <2>1 DEF Metrics!Seconds, NamesAreApart
  <2>3. LogsMove
    BY <2>1, <2>2 DEF LogsMove, Metrics!Present
  <2>4. QED
    BY <1>1, <2>1, <2>3, MoveKeeps DEF IngestTypeOK
<1>9. CASE UNCHANGED Metrics!vars
  <2>1. UNCHANGED <<logs, rows, jobs, pruner, second>>
    BY <1>9 DEF Metrics!vars
  <2>2. LogsMove
    BY <1>3, <2>1 DEF Metrics!Present
  <2>3. QED
    BY <1>1, <2>1, <2>2, MoveKeeps DEF IngestTypeOK
<1>10. QED
  BY <1>2, <1>4, <1>5, <1>6, <1>7, <1>8, <1>9, EarlierKeeps DEF Metrics!Next

LEMMA RowStep ==
  ASSUME NamesAreApart, IngestInv, [Metrics!Next]_Metrics!vars, NEW k \in Metrics!Keys, rows[k] # None
  PROVE  \E l \in Metrics!Keys : rows'[l] # None /\ rows'[l].of = rows[k].of
<1>1. CASE rows' = rows
  BY <1>1
<1>2. CASE Metrics!EarlierVersion
  BY <1>2, EarlierKeeps
<1>3. ASSUME NEW j \in Metrics!Ingestors, Metrics!StoreRow(j)
      PROVE  \E l \in Metrics!Keys : rows'[l] # None /\ rows'[l].of = rows[k].of
  <2>1. PICK p \in Logs : p = jobs[j].log
    BY <1>3, StoredRow
  <2>2. /\ rows'[p] # None /\ rows'[p].of = p
        /\ \A m \in Metrics!Keys \ {p} : rows'[m] = rows[m] \/ rows[m].of = p
    BY <1>3, <2>1, StoredRow
  <2>3. p \in Metrics!Keys
    BY DEF Metrics!Keys
  <2>4. CASE k = p
    BY <2>2, <2>3, <2>4 DEF IngestInv, RowsAreOwn
  <2>5. CASE k # p
    BY <2>2, <2>3, <2>5
  <2>6. QED
    BY <2>4, <2>5
<1>4. QED
  BY <1>1, <1>2, <1>3 DEF Metrics!Next, Metrics!Ingest, Metrics!Examine, Metrics!ReadText,
     Metrics!Fail, Metrics!PruneLook, Metrics!PruneFile,
     Metrics!LogAppears, Metrics!LogGrows, Metrics!Tick, Metrics!vars

-----------------------------------------------------------------------------
(* ingest_file(): a log that is skipped, its row having the time of the    *)
(* file, has everything in the row that was logged before that second.     *)
THEOREM SkippedIsRecorded ==
  ASSUME NamesAreApart
  PROVE  Metrics!Spec => []SkipLosesOneSecond
<1>1. Metrics!Init => IngestInv
  BY IngestInit
<1>2. IngestInv /\ [Metrics!Next]_Metrics!vars => IngestInv'
  BY IngestStep
<1>3. IngestInv => SkipLosesOneSecond
  BY DEF IngestInv, RowsCover, Covers, RowFacts, SkipLosesOneSecond, Metrics!SkipLosesOneSecond
<1>4. QED
  BY <1>1, <1>2, <1>3, PTL DEF Metrics!Spec

(* _adopt_legacy_row(): a session that has a row keeps one, under its path *)
(* or under the name.                                                      *)
THEOREM RowsAreKept ==
  ASSUME NamesAreApart
  PROVE  Metrics!Spec => HistoryKept
<1>1. Metrics!Init => IngestInv
  BY IngestInit
<1>2. IngestInv /\ [Metrics!Next]_Metrics!vars => IngestInv'
  BY IngestStep
<1>3. IngestInv /\ [Metrics!Next]_Metrics!vars =>
        [\A k \in Metrics!Keys : rows[k] # None =>
           \E l \in Metrics!Keys : rows'[l] # None /\ rows'[l].of = rows[k].of]_Metrics!vars
  BY RowStep
<1>4. QED
  BY <1>1, <1>2, <1>3, PTL DEF Metrics!Spec, HistoryKept, Metrics!HistoryKept

-----------------------------------------------------------------------------
(***************************************************************************)
(* What setup deploys, for any number of versions, edits and failures: what *)
(* only the user has is not lost unasked; and, with at most two failures,   *)
(* there is always a skill.                                                 *)
(*                                                                         *)
(* What carries the first: bytes of the user's that an entry of the         *)
(* manifest names have been given up, so that what looks like setup's own   *)
(* is theirs no more, and an edit made under setup's hands is one the user  *)
(* gives up. The second counts the failures it takes to get to each step    *)
(* with nothing whole under the skill's name.                               *)
(***************************************************************************)

(* Assumed of the bounds.                                                  *)
InstallConstants == MaxVersion \in Nat \ {0} /\ MaxEdits \in Nat /\ MaxMishaps \in Nat

Contents == [own : Nat, digest : Nat, link : BOOLEAN]
Copies   == {Deploy!Nothing, Deploy!Partial} \union {Deploy!Shipped(v) : v \in Deploy!Versions}
Entries  == [digest : Nat, linked : BOOLEAN]
Steps    == {"idle", "tidy", "retidy", "look", "stage", "swap", "aside", "place",
             "unplace", "drop", "record", "link", "clear", "make", "copy", "save"}
States   == {"absent", "current", "stale", "modified", "untracked"}
Setups   == [at : Steps, state : States, entry : Entries, moved : BOOLEAN]

InstallTypes ==
  /\ kind \in {"none", "skill", "extension", "template"}
  /\ source \in Deploy!Versions
  /\ dest \in Contents /\ previous \in Contents
  /\ staged \in Copies
  /\ manifest \in Entries
  /\ setup \in Setups
  /\ edits \in Nat /\ mishaps \in Nat /\ mishaps <= MaxMishaps
  /\ owned \in BOOLEAN

Given == free \union replaced

(* Nothing of the user's, or what the user has given up.                   *)
Yielded(c) == c.own # 0 => c.own \in Given

(* What is no link and only the user has is digested as that; bytes of the *)
(* user's are theirs or given up.                                          *)
Genuine(c) ==
  /\ ~c.link /\ c.own # 0 => c.digest = Deploy!Torn + c.own
  /\ \A k \in Nat \ {0} : c.digest = Deploy!Torn + k => k \in free \/ c.own = k

ContentsGenuine == Genuine(dest) /\ Genuine(previous)

(* What setup takes for its own bytes the user gave up.                    *)
EntryGiven(entry, given) == \A k \in Nat \ {0} : entry.digest = Deploy!Torn + k => k \in given

EntriesGiven == EntryGiven(manifest, free) /\ EntryGiven(setup.entry, free)

(* What the run is about to replace.                                       *)
AboutToReplace ==
  /\ setup.at \in {"stage", "swap", "aside"} /\ setup.state # "absent" => Yielded(dest)
  /\ setup.at \in {"clear", "copy"} => Yielded(dest)
  /\ Deploy!At("link") /\ setup.state = "stale" => Yielded(dest) \/ dest.link
  /\ setup.at \in {"drop", "record"} /\ dest.own # 0 => dest.own \in free

EachItsSteps == setup.at \in {"link", "clear", "make", "copy"} => kind # "skill"

AnswerInv ==
  /\ InstallTypes
  /\ ContentsGenuine
  /\ EntriesGiven
  /\ AboutToReplace
  /\ EachItsSteps
  /\ Yielded(previous)
  /\ Deploy!EditsNeedAnAnswer

(* Something whole.                                                        *)
Whole(c) == c \notin {Deploy!Nothing, Deploy!Partial}

StagedIsWhole == setup.at \in {"swap", "aside", "place"} => Whole(staged)

NoneIsIdle == kind = "none" => Deploy!At("idle")

(* Where the skill is while nothing whole has its name, and the failures   *)
(* it took.                                                                *)
Bare == kind \in {"none", "skill"} /\ owned /\ ~Whole(dest)

BareIsMoved ==
  Bare =>
    /\ dest = Deploy!Nothing /\ kind = "skill"
    /\ \/ Deploy!At("place") /\ setup.moved /\ Whole(previous)
       \/ Deploy!At("unplace") /\ setup.moved /\ Whole(previous) /\ mishaps >= 1
       \/ setup.at \in {"idle", "tidy"} /\ Whole(previous) /\ mishaps >= 1
       \/ setup.at \in {"retidy", "look", "stage", "swap"} /\ Whole(previous) /\ mishaps >= 2
       \/ setup.at \in {"aside", "place"} /\ mishaps >= 2

SkillInv == InstallTypes /\ EachItsSteps /\ NoneIsIdle /\ StagedIsWhole /\ BareIsMoved

(* The kinds of content, and the digest of one.                            *)
LEMMA ContentKinds ==
  ASSUME InstallConstants, InstallTypes
  PROVE  /\ Deploy!Nothing \in Contents /\ Deploy!Partial \in Contents /\ Deploy!RepoLink \in Contents
         /\ Deploy!Nothing \in Copies /\ Deploy!Partial \in Copies /\ Deploy!Shipped(source) \in Copies
         /\ Copies \subseteq Contents
         /\ \A c \in Contents : Deploy!Digest(c) \in Nat
         /\ Deploy!Digest(dest) \in Nat /\ source \in Nat
         /\ \A k \in Nat : Deploy!Edited(k) \in Contents
         /\ \A k, d \in Nat : Deploy!Content(k, d, TRUE) \in Contents
         /\ Deploy!Torn \in Nat
<1> USE DEF InstallConstants
<1>1. Deploy!Torn \in Nat /\ source \in Nat /\ source \in Deploy!Versions
  BY DEF InstallTypes, Deploy!Torn, Deploy!Versions
<1>2. \A k, d \in Nat, l \in BOOLEAN : Deploy!Content(k, d, l) \in Contents
  BY DEF Deploy!Content, Contents
<1>3. Deploy!Nothing \in Contents /\ Deploy!Partial \in Contents /\ Deploy!RepoLink \in Contents
  BY <1>1, <1>2 DEF Deploy!Nothing, Deploy!Partial, Deploy!RepoLink
<1>4. \A v \in Deploy!Versions : Deploy!Shipped(v) \in Contents
  BY <1>1 DEF Deploy!Shipped, Deploy!Versions, Deploy!Content, Contents
<1>5. \A c \in Contents : Deploy!Digest(c) \in Nat
  BY <1>1 DEF Deploy!Digest, Contents
<1>6. \A k \in Nat : Deploy!Edited(k) \in Contents
  <2> TAKE k \in Nat
  <2>1. Deploy!Torn + k \in Nat
    BY <1>1
  <2> QED
    BY <1>2, <2>1 DEF Deploy!Edited
<1> QED
  BY <1>1, <1>2, <1>3, <1>4, <1>5, <1>6 DEF Copies, InstallTypes

(* The run's own record, after each way a step ends.                       *)
LEMMA StepKinds ==
  ASSUME InstallTypes
  PROVE  /\ setup \in Setups
         /\ \A r \in Setups, s \in Steps : [r EXCEPT !.at = s] \in Setups
         /\ \A r \in Setups, s \in Steps, t \in States :
              [r EXCEPT !.at = s, !.state = t] \in Setups
         /\ \A r \in Setups, s \in Steps : [r EXCEPT !.at = s, !.moved = TRUE] \in Setups
  BY DEF InstallTypes, Setups

LEMMA EntryKinds ==
  ASSUME InstallConstants, InstallTypes
  PROVE  /\ setup \in Setups /\ setup.entry \in Entries
         /\ Deploy!Idle \in Setups
         /\ \A r \in Setups, s \in Steps, e \in Entries :
              [r EXCEPT !.at = s, !.entry = e] \in Setups
         /\ \A d \in Nat : Deploy!Entry(d, FALSE) \in Entries /\ Deploy!Entry(d, TRUE) \in Entries
         /\ Deploy!Entry(source, FALSE) \in Entries /\ Deploy!Entry(0, TRUE) \in Entries
<1>1. setup \in Setups /\ setup.entry \in Entries
  BY DEF InstallTypes, Setups
<1>2. \A d \in Nat : Deploy!Entry(d, FALSE) \in Entries /\ Deploy!Entry(d, TRUE) \in Entries
  BY DEF Deploy!Entry, Entries
<1>3. Deploy!NoEntry \in Entries
  BY DEF Deploy!NoEntry, Entries
<1>4. Deploy!Idle \in Setups
  BY <1>3 DEF Deploy!Idle, Setups, Steps, States
<1>5. source \in Nat
  BY ContentKinds
<1> QED
  BY <1>1, <1>2, <1>4, <1>5 DEF Setups

LEMMA GoKinds ==
  ASSUME InstallTypes, NEW s \in Steps, Deploy!Go(s)
  PROVE  setup' \in Setups
  BY StepKinds DEF Deploy!Go

LEMMA RecordedKinds ==
  ASSUME InstallConstants, InstallTypes, NEW e \in Entries, Deploy!Recorded(e)
  PROVE  setup' \in Setups
<1>1. "save" \in Steps
  BY DEF Steps
<1> QED
  BY <1>1, EntryKinds DEF Deploy!Recorded

(* A failure is one of those allowed for.                                  *)
LEMMA FaultsKeep ==
  ASSUME InstallConstants, InstallTypes
  PROVE  Deploy!Fault \/ Deploy!NoFault => mishaps' \in Nat /\ mishaps' <= MaxMishaps
  BY DEF InstallConstants, InstallTypes, Deploy!Fault, Deploy!NoFault, Deploy!MayFail

LEMMA TypesKeep ==
  ASSUME InstallConstants, InstallTypes, [Deploy!Next]_Deploy!vars
  PROVE  InstallTypes'
<1>1. InstallTypes /\ InstallConstants
  OBVIOUS
<1>2. CASE Deploy!Start
  <2>1. setup' \in Setups
    <3>1. setup' \in {[Deploy!Idle EXCEPT !.at = "tidy", !.entry = manifest],
                     [Deploy!Idle EXCEPT !.at = "look", !.entry = manifest]}
      BY <1>2 DEF Deploy!Start
    <3>2. "tidy" \in Steps /\ "look" \in Steps /\ manifest \in Entries
      BY <1>1 DEF Steps, InstallTypes
    <3>3. \A r \in Setups, s \in Steps, e \in Entries :
            [r EXCEPT !.at = s, !.entry = e] \in Setups
      BY <1>1, EntryKinds
    <3>4. Deploy!Idle \in Setups
      BY <1>1, EntryKinds
    <3>5. /\ [Deploy!Idle EXCEPT !.at = "tidy", !.entry = manifest] \in Setups
          /\ [Deploy!Idle EXCEPT !.at = "look", !.entry = manifest] \in Setups
      BY <3>2, <3>3, <3>4
    <3> QED
      BY <3>1, <3>5
  <2>2. dest' \in Contents /\ previous' \in Contents /\ staged' \in Copies
    BY <1>1, <1>2, ContentKinds DEF Deploy!Start, InstallTypes
  <2>3. mishaps' \in Nat /\ mishaps' <= MaxMishaps
    BY <1>1, <1>2, FaultsKeep DEF Deploy!Start, Deploy!NoFault
  <2>4. kind' \in {"none", "skill", "extension", "template"} /\ source' \in Deploy!Versions
        /\ manifest' \in Entries /\ edits' \in Nat /\ owned' \in BOOLEAN
    BY <1>1, <1>2 DEF Deploy!Start, InstallTypes, Deploy!Versions, Deploy!Edits, InstallConstants
  <2> QED
    BY <2>1, <2>2, <2>3, <2>4 DEF InstallTypes
<1>3. CASE Deploy!Tidy
  <2>1. setup' \in Setups
    <3>1. PICK s \in Steps : Deploy!Go(s)
      BY <1>3 DEF Deploy!Tidy, Steps
    <3> QED
      BY <1>1, <3>1, GoKinds
  <2>2. dest' \in Contents /\ previous' \in Contents /\ staged' \in Copies
    BY <1>1, <1>3, ContentKinds DEF Deploy!Tidy, Deploy!Discard, InstallTypes
  <2>3. mishaps' \in Nat /\ mishaps' <= MaxMishaps
    BY <1>1, <1>3, FaultsKeep DEF Deploy!Tidy, Deploy!Discard, Deploy!NoFault
  <2>4. kind' \in {"none", "skill", "extension", "template"} /\ source' \in Deploy!Versions
        /\ manifest' \in Entries /\ edits' \in Nat /\ owned' \in BOOLEAN
    BY <1>1, <1>3 DEF Deploy!Tidy, InstallTypes, Deploy!Versions, Deploy!Edits, InstallConstants
  <2> QED
    BY <2>1, <2>2, <2>3, <2>4 DEF InstallTypes
<1>4. CASE Deploy!Look
  <2>1. setup' \in Setups
    <3>1. Deploy!Found(dest) \in States
      BY DEF Deploy!Found, Deploy!Classify, States
    <3>2. \/ Deploy!Recorded(Deploy!Entry(source, FALSE))
          \/ \E s \in Steps : setup' = [setup EXCEPT !.at = s, !.state = Deploy!Found(dest)]
      BY <1>4 DEF Deploy!Look, Steps
    <3>3. Deploy!Entry(source, FALSE) \in Entries
      BY <1>1, EntryKinds
    <3> QED
      <4>1. CASE Deploy!Recorded(Deploy!Entry(source, FALSE))
        BY <1>1, <3>3, <4>1, RecordedKinds
      <4>2. ASSUME NEW s \in Steps, setup' = [setup EXCEPT !.at = s, !.state = Deploy!Found(dest)]
            PROVE  setup' \in Setups
        BY <1>1, <3>1, <4>2, StepKinds
      <4> QED
        BY <3>2, <4>1, <4>2
  <2>2. dest' \in Contents /\ previous' \in Contents /\ staged' \in Copies
    BY <1>1, <1>4, ContentKinds DEF Deploy!Look, InstallTypes
  <2>3. mishaps' \in Nat /\ mishaps' <= MaxMishaps
    BY <1>1, <1>4, FaultsKeep DEF Deploy!Look, Deploy!NoFault
  <2>4. kind' \in {"none", "skill", "extension", "template"} /\ source' \in Deploy!Versions
        /\ manifest' \in Entries /\ edits' \in Nat /\ owned' \in BOOLEAN
    BY <1>1, <1>4 DEF Deploy!Look, InstallTypes, Deploy!Versions, Deploy!Edits, InstallConstants
  <2> QED
    BY <2>1, <2>2, <2>3, <2>4 DEF InstallTypes
<1>5. CASE Deploy!Stage
  <2>1. setup' \in Setups
    <3>1. PICK s \in Steps : Deploy!Go(s)
      BY <1>5 DEF Deploy!Stage, Steps
    <3> QED
      BY <1>1, <3>1, GoKinds
  <2>2. dest' \in Contents /\ previous' \in Contents /\ staged' \in Copies
    BY <1>1, <1>5, ContentKinds DEF Deploy!Stage, InstallTypes
  <2>3. mishaps' \in Nat /\ mishaps' <= MaxMishaps
    BY <1>1, <1>5, FaultsKeep DEF Deploy!Stage, Deploy!NoFault
  <2>4. kind' \in {"none", "skill", "extension", "template"} /\ source' \in Deploy!Versions
        /\ manifest' \in Entries /\ edits' \in Nat /\ owned' \in BOOLEAN
    BY <1>1, <1>5 DEF Deploy!Stage, InstallTypes, Deploy!Versions, Deploy!Edits, InstallConstants
  <2> QED
    BY <2>1, <2>2, <2>3, <2>4 DEF InstallTypes
<1>6. CASE Deploy!Swap
  <2>1. setup' \in Setups
    <3>1. PICK s \in Steps : Deploy!Go(s)
      BY <1>6 DEF Deploy!Swap, Steps
    <3> QED
      BY <1>1, <3>1, GoKinds
  <2>2. dest' \in Contents /\ previous' \in Contents /\ staged' \in Copies
    BY <1>1, <1>6, ContentKinds DEF Deploy!Swap, Deploy!Discard, InstallTypes
  <2>3. mishaps' \in Nat /\ mishaps' <= MaxMishaps
    BY <1>1, <1>6, FaultsKeep DEF Deploy!Swap, Deploy!Discard, Deploy!NoFault
  <2>4. kind' \in {"none", "skill", "extension", "template"} /\ source' \in Deploy!Versions
        /\ manifest' \in Entries /\ edits' \in Nat /\ owned' \in BOOLEAN
    BY <1>1, <1>6 DEF Deploy!Swap, InstallTypes, Deploy!Versions, Deploy!Edits, InstallConstants
  <2> QED
    BY <2>1, <2>2, <2>3, <2>4 DEF InstallTypes
<1>7. CASE Deploy!Aside
  <2>1. setup' \in Setups
    <3>1. \/ \E s \in Steps : Deploy!Go(s)
          \/ setup' = [setup EXCEPT !.at = "place", !.moved = TRUE]
      BY <1>7 DEF Deploy!Aside, Steps
    <3>2. "place" \in Steps
      BY DEF Steps
    <3> QED
      BY <1>1, <3>1, <3>2, StepKinds, GoKinds
  <2>2. dest' \in Contents /\ previous' \in Contents /\ staged' \in Copies
    BY <1>1, <1>7, ContentKinds DEF Deploy!Aside, InstallTypes
  <2>3. mishaps' \in Nat /\ mishaps' <= MaxMishaps
    BY <1>1, <1>7, FaultsKeep DEF Deploy!Aside, Deploy!NoFault
  <2>4. kind' \in {"none", "skill", "extension", "template"} /\ source' \in Deploy!Versions
        /\ manifest' \in Entries /\ edits' \in Nat /\ owned' \in BOOLEAN
    BY <1>1, <1>7 DEF Deploy!Aside, InstallTypes, Deploy!Versions, Deploy!Edits, InstallConstants
  <2> QED
    BY <2>1, <2>2, <2>3, <2>4 DEF InstallTypes
<1>8. CASE Deploy!Place
  <2>1. setup' \in Setups
    <3>1. PICK s \in Steps : Deploy!Go(s)
      BY <1>8 DEF Deploy!Place, Steps
    <3> QED
      BY <1>1, <3>1, GoKinds
  <2>2. dest' \in Contents /\ previous' \in Contents /\ staged' \in Copies
    BY <1>1, <1>8, ContentKinds DEF Deploy!Place, InstallTypes
  <2>3. mishaps' \in Nat /\ mishaps' <= MaxMishaps
    BY <1>1, <1>8, FaultsKeep DEF Deploy!Place, Deploy!NoFault
  <2>4. kind' \in {"none", "skill", "extension", "template"} /\ source' \in Deploy!Versions
        /\ manifest' \in Entries /\ edits' \in Nat /\ owned' \in BOOLEAN
    BY <1>1, <1>8 DEF Deploy!Place, InstallTypes, Deploy!Versions, Deploy!Edits, InstallConstants
  <2> QED
    BY <2>1, <2>2, <2>3, <2>4 DEF InstallTypes
<1>9. CASE Deploy!Unplace
  <2>1. setup' \in Setups
    <3>1. PICK s \in Steps : Deploy!Go(s)
      BY <1>9 DEF Deploy!Unplace, Steps
    <3> QED
      BY <1>1, <3>1, GoKinds
  <2>2. dest' \in Contents /\ previous' \in Contents /\ staged' \in Copies
    BY <1>1, <1>9, ContentKinds DEF Deploy!Unplace, InstallTypes
  <2>3. mishaps' \in Nat /\ mishaps' <= MaxMishaps
    BY <1>1, <1>9, FaultsKeep DEF Deploy!Unplace, Deploy!NoFault
  <2>4. kind' \in {"none", "skill", "extension", "template"} /\ source' \in Deploy!Versions
        /\ manifest' \in Entries /\ edits' \in Nat /\ owned' \in BOOLEAN
    BY <1>1, <1>9 DEF Deploy!Unplace, InstallTypes, Deploy!Versions, Deploy!Edits, InstallConstants
  <2> QED
    BY <2>1, <2>2, <2>3, <2>4 DEF InstallTypes
<1>10. CASE Deploy!Drop
  <2>1. setup' \in Setups
    <3>1. PICK s \in Steps : Deploy!Go(s)
      BY <1>10 DEF Deploy!Drop, Steps
    <3> QED
      BY <1>1, <3>1, GoKinds
  <2>2. dest' \in Contents /\ previous' \in Contents /\ staged' \in Copies
    BY <1>1, <1>10, ContentKinds DEF Deploy!Drop, Deploy!Discard, InstallTypes
  <2>3. mishaps' \in Nat /\ mishaps' <= MaxMishaps
    BY <1>1, <1>10, FaultsKeep DEF Deploy!Drop, Deploy!Discard, Deploy!NoFault
  <2>4. kind' \in {"none", "skill", "extension", "template"} /\ source' \in Deploy!Versions
        /\ manifest' \in Entries /\ edits' \in Nat /\ owned' \in BOOLEAN
    BY <1>1, <1>10 DEF Deploy!Drop, InstallTypes, Deploy!Versions, Deploy!Edits, InstallConstants
  <2> QED
    BY <2>1, <2>2, <2>3, <2>4 DEF InstallTypes
<1>11. CASE Deploy!Record
  <2>1. setup' \in Setups
    <3>1. \A d \in Nat : Deploy!Recorded(Deploy!Entry(d, FALSE)) => setup' \in Setups
      BY <1>1, EntryKinds, RecordedKinds
    <3>2. source \in Nat /\ Deploy!Digest(dest) \in Nat
      BY <1>1, ContentKinds
    <3> QED
      BY <1>11, <3>1, <3>2 DEF Deploy!Record
  <2>2. dest' \in Contents /\ previous' \in Contents /\ staged' \in Copies
    BY <1>1, <1>11, ContentKinds DEF Deploy!Record, InstallTypes
  <2>3. mishaps' \in Nat /\ mishaps' <= MaxMishaps
    BY <1>1, <1>11, FaultsKeep DEF Deploy!Record, Deploy!NoFault
  <2>4. kind' \in {"none", "skill", "extension", "template"} /\ source' \in Deploy!Versions
        /\ manifest' \in Entries /\ edits' \in Nat /\ owned' \in BOOLEAN
    BY <1>1, <1>11 DEF Deploy!Record, InstallTypes, Deploy!Versions, Deploy!Edits, InstallConstants
  <2> QED
    BY <2>1, <2>2, <2>3, <2>4 DEF InstallTypes
<1>12. CASE Deploy!Link
  <2>1. setup' \in Setups
    <3>1. \/ Deploy!Recorded(Deploy!Entry(0, TRUE)) \/ Deploy!Recorded(Deploy!Entry(source, FALSE))
          \/ \E s \in Steps : Deploy!Go(s)
      BY <1>12 DEF Deploy!Link, Steps
    <3>2. Deploy!Entry(0, TRUE) \in Entries /\ Deploy!Entry(source, FALSE) \in Entries
      BY <1>1, EntryKinds
    <3> QED
      BY <1>1, <3>1, <3>2, RecordedKinds, GoKinds
  <2>2. dest' \in Contents /\ previous' \in Contents /\ staged' \in Copies
    BY <1>1, <1>12, ContentKinds DEF Deploy!Link, InstallTypes
  <2>3. mishaps' \in Nat /\ mishaps' <= MaxMishaps
    BY <1>1, <1>12, FaultsKeep DEF Deploy!Link, Deploy!NoFault
  <2>4. kind' \in {"none", "skill", "extension", "template"} /\ source' \in Deploy!Versions
        /\ manifest' \in Entries /\ edits' \in Nat /\ owned' \in BOOLEAN
    BY <1>1, <1>12 DEF Deploy!Link, InstallTypes, Deploy!Versions, Deploy!Edits, InstallConstants
  <2> QED
    BY <2>1, <2>2, <2>3, <2>4 DEF InstallTypes
<1>13. CASE Deploy!Clear
  <2>1. setup' \in Setups
    <3>1. PICK s \in Steps : Deploy!Go(s)
      BY <1>13 DEF Deploy!Clear, Steps
    <3> QED
      BY <1>1, <3>1, GoKinds
  <2>2. dest' \in Contents /\ previous' \in Contents /\ staged' \in Copies
    BY <1>1, <1>13, ContentKinds DEF Deploy!Clear, InstallTypes
  <2>3. mishaps' \in Nat /\ mishaps' <= MaxMishaps
    BY <1>1, <1>13, FaultsKeep DEF Deploy!Clear, Deploy!NoFault
  <2>4. kind' \in {"none", "skill", "extension", "template"} /\ source' \in Deploy!Versions
        /\ manifest' \in Entries /\ edits' \in Nat /\ owned' \in BOOLEAN
    BY <1>1, <1>13 DEF Deploy!Clear, InstallTypes, Deploy!Versions, Deploy!Edits, InstallConstants
  <2> QED
    BY <2>1, <2>2, <2>3, <2>4 DEF InstallTypes
<1>14. CASE Deploy!Make
  <2>1. setup' \in Setups
    <3>1. Deploy!Recorded(Deploy!Entry(0, TRUE)) \/ \E s \in Steps : Deploy!Go(s)
      BY <1>14 DEF Deploy!Make, Steps
    <3>2. Deploy!Entry(0, TRUE) \in Entries
      BY <1>1, EntryKinds
    <3> QED
      BY <1>1, <3>1, <3>2, RecordedKinds, GoKinds
  <2>2. dest' \in Contents /\ previous' \in Contents /\ staged' \in Copies
    BY <1>1, <1>14, ContentKinds DEF Deploy!Make, InstallTypes
  <2>3. mishaps' \in Nat /\ mishaps' <= MaxMishaps
    BY <1>1, <1>14, FaultsKeep DEF Deploy!Make, Deploy!NoFault
  <2>4. kind' \in {"none", "skill", "extension", "template"} /\ source' \in Deploy!Versions
        /\ manifest' \in Entries /\ edits' \in Nat /\ owned' \in BOOLEAN
    BY <1>1, <1>14 DEF Deploy!Make, InstallTypes, Deploy!Versions, Deploy!Edits, InstallConstants
  <2> QED
    BY <2>1, <2>2, <2>3, <2>4 DEF InstallTypes
<1>15. CASE Deploy!Copy
  <2>1. setup' \in Setups
    <3>1. PICK s \in Steps : Deploy!Go(s)
      BY <1>15 DEF Deploy!Copy, Steps
    <3> QED
      BY <1>1, <3>1, GoKinds
  <2>2. dest' \in Contents /\ previous' \in Contents /\ staged' \in Copies
    BY <1>1, <1>15, ContentKinds DEF Deploy!Copy, InstallTypes
  <2>3. mishaps' \in Nat /\ mishaps' <= MaxMishaps
    BY <1>1, <1>15, FaultsKeep DEF Deploy!Copy, Deploy!NoFault
  <2>4. kind' \in {"none", "skill", "extension", "template"} /\ source' \in Deploy!Versions
        /\ manifest' \in Entries /\ edits' \in Nat /\ owned' \in BOOLEAN
    BY <1>1, <1>15 DEF Deploy!Copy, InstallTypes, Deploy!Versions, Deploy!Edits, InstallConstants
  <2> QED
    BY <2>1, <2>2, <2>3, <2>4 DEF InstallTypes
<1>16. CASE Deploy!Save
  <2>1. setup' \in Setups
    BY <1>1, <1>16, StepKinds, EntryKinds DEF Deploy!Save, Deploy!At, Steps, States
  <2>2. dest' \in Contents /\ previous' \in Contents /\ staged' \in Copies
    BY <1>1, <1>16, ContentKinds DEF Deploy!Save, InstallTypes
  <2>3. mishaps' \in Nat /\ mishaps' <= MaxMishaps
    BY <1>1, <1>16, FaultsKeep DEF Deploy!Save, Deploy!NoFault
  <2>4. kind' \in {"none", "skill", "extension", "template"} /\ source' \in Deploy!Versions
        /\ manifest' \in Entries /\ edits' \in Nat /\ owned' \in BOOLEAN
    BY <1>1, <1>16, EntryKinds DEF Deploy!Save, InstallTypes, Deploy!Versions, Deploy!Edits,
       InstallConstants
  <2> QED
    BY <2>1, <2>2, <2>3, <2>4 DEF InstallTypes
<1>17. CASE Deploy!Killed
  <2>1. setup' \in Setups
    BY <1>1, <1>17, StepKinds, EntryKinds DEF Deploy!Killed, Deploy!At, Steps, States
  <2>2. dest' \in Contents /\ previous' \in Contents /\ staged' \in Copies
    BY <1>1, <1>17, ContentKinds DEF Deploy!Killed, InstallTypes
  <2>3. mishaps' \in Nat /\ mishaps' <= MaxMishaps
    BY <1>1, <1>17, FaultsKeep DEF Deploy!Killed, Deploy!NoFault
  <2>4. kind' \in {"none", "skill", "extension", "template"} /\ source' \in Deploy!Versions
        /\ manifest' \in Entries /\ edits' \in Nat /\ owned' \in BOOLEAN
    BY <1>1, <1>17 DEF Deploy!Killed, InstallTypes, Deploy!Versions, Deploy!Edits, InstallConstants
  <2> QED
    BY <2>1, <2>2, <2>3, <2>4 DEF InstallTypes
<1>18. CASE Deploy!Edit
  <2>1. setup' \in Setups
    BY <1>1, <1>18, StepKinds DEF Deploy!Edit, Deploy!UnderSetup, Deploy!At, Steps, States
  <2>2. dest' \in Contents /\ previous' \in Contents /\ staged' \in Copies
    <3>1. Deploy!Torn \in Nat /\ Deploy!Digest(dest) \in Nat
      BY <1>1, ContentKinds
    <3>2. edits' \in Nat /\ Deploy!Torn + edits' \in Nat
      BY <1>1, <1>18, <3>1 DEF Deploy!Edit, InstallTypes
    <3>3. \A d \in Nat : Deploy!Content(edits', d, TRUE) \in Contents
      BY <3>2 DEF Deploy!Content, Contents
    <3>4. Deploy!Edited(edits') \in Contents
      BY <3>2 DEF Deploy!Edited, Deploy!Content, Contents
    <3>5. dest' \in Contents
      BY <1>18, <3>1, <3>2, <3>3, <3>4 DEF Deploy!Edit
    <3> QED
      BY <1>1, <1>18, <3>5 DEF Deploy!Edit, InstallTypes
  <2>3. mishaps' \in Nat /\ mishaps' <= MaxMishaps
    BY <1>1, <1>18, FaultsKeep DEF Deploy!Edit, Deploy!NoFault
  <2>4. kind' \in {"none", "skill", "extension", "template"} /\ source' \in Deploy!Versions
        /\ manifest' \in Entries /\ edits' \in Nat /\ owned' \in BOOLEAN
    BY <1>1, <1>18 DEF Deploy!Edit, InstallTypes, Deploy!Versions, Deploy!Edits, InstallConstants
  <2> QED
    BY <2>1, <2>2, <2>3, <2>4 DEF InstallTypes
<1>19. CASE Deploy!Remove
  <2>1. setup' \in Setups
    BY <1>1, <1>19, StepKinds DEF Deploy!Remove, Deploy!Agree, Steps, States
  <2>2. dest' \in Contents /\ previous' \in Contents /\ staged' \in Copies
    BY <1>1, <1>19, ContentKinds DEF Deploy!Remove, InstallTypes
  <2>3. mishaps' \in Nat /\ mishaps' <= MaxMishaps
    BY <1>1, <1>19, FaultsKeep DEF Deploy!Remove, Deploy!NoFault
  <2>4. kind' \in {"none", "skill", "extension", "template"} /\ source' \in Deploy!Versions
        /\ manifest' \in Entries /\ edits' \in Nat /\ owned' \in BOOLEAN
    BY <1>1, <1>19 DEF Deploy!Remove, InstallTypes, Deploy!Versions, Deploy!Edits, InstallConstants
  <2> QED
    BY <2>1, <2>2, <2>3, <2>4 DEF InstallTypes
<1>20. CASE Deploy!Pull
  <2>1. setup' \in Setups
    BY <1>1, <1>20, StepKinds DEF Deploy!Pull, Deploy!At, Steps, States
  <2>2. dest' \in Contents /\ previous' \in Contents /\ staged' \in Copies
    BY <1>1, <1>20, ContentKinds DEF Deploy!Pull, InstallTypes
  <2>3. mishaps' \in Nat /\ mishaps' <= MaxMishaps
    BY <1>1, <1>20, FaultsKeep DEF Deploy!Pull, Deploy!NoFault
  <2>4. kind' \in {"none", "skill", "extension", "template"} /\ source' \in Deploy!Versions
        /\ manifest' \in Entries /\ edits' \in Nat /\ owned' \in BOOLEAN
    BY <1>1, <1>20 DEF Deploy!Pull, InstallTypes, Deploy!Versions, Deploy!Edits, InstallConstants
  <2> QED
    BY <2>1, <2>2, <2>3, <2>4 DEF InstallTypes
<1>21. CASE UNCHANGED Deploy!vars
  BY <1>1, <1>21 DEF Deploy!vars, InstallTypes
<1> QED
  BY <1>2, <1>3, <1>4, <1>5, <1>6, <1>7, <1>8, <1>9, <1>10, <1>11, <1>12, <1>13, <1>14, <1>15,
     <1>16, <1>17, <1>18, <1>19, <1>20, <1>21 DEF Deploy!Next
(* The run after a step, field by field.                                   *)
LEMMA GoesTo ==
  ASSUME InstallTypes, NEW s, Deploy!Go(s)
  PROVE  setup'.at = s /\ setup'.state = setup.state /\ setup'.entry = setup.entry
         /\ setup'.moved = setup.moved
  BY DEF Deploy!Go, InstallTypes, Setups

LEMMA RecordsAs ==
  ASSUME InstallTypes, NEW e, Deploy!Recorded(e)
  PROVE  setup'.at = "save" /\ setup'.entry = e /\ setup'.moved = setup.moved
  BY DEF Deploy!Recorded, InstallTypes, Setups

LEMMA LookGoesTo ==
  ASSUME InstallTypes, Deploy!Look
  PROVE  \/ setup'.at = "save" /\ setup'.entry = Deploy!Entry(source, FALSE)
         \/ /\ setup'.state = Deploy!Found(dest) /\ setup'.entry = setup.entry
            /\ \/ setup'.at = "save"
               \/ setup'.at = "link" /\ kind = "extension"
               \/ /\ setup'.at = (IF kind = "skill" THEN "stage" ELSE "copy")
                  /\ kind # "extension"
                  /\ \/ Deploy!Found(dest) \in {"absent", "stale"} /\ Deploy!Take(dest)
                     \/ Deploy!Agree(dest)
<1>1. \A e : Deploy!Recorded(e) => setup'.at = "save" /\ setup'.entry = e
  BY RecordsAs
<1>2. \A s, t : setup' = [setup EXCEPT !.at = s, !.state = t]
                  => setup'.at = s /\ setup'.state = t /\ setup'.entry = setup.entry
  BY DEF InstallTypes, Setups
<1>3. \/ kind = "extension" /\ setup' = [setup EXCEPT !.at = "link", !.state = Deploy!Found(dest)]
      \/ kind # "extension" /\ Deploy!Recorded(Deploy!Entry(source, FALSE))
      \/ /\ kind # "extension"
         /\ \E s : /\ s = (IF kind = "skill" THEN "stage" ELSE "copy")
                 /\ setup' = [setup EXCEPT !.at = s, !.state = Deploy!Found(dest)]
         /\ (Deploy!Found(dest) \in {"absent", "stale"} /\ Deploy!Take(dest)) \/ Deploy!Agree(dest)
      \/ setup' = [setup EXCEPT !.at = "save", !.state = Deploy!Found(dest)]
  BY DEF Deploy!Look
<1> QED
  BY <1>1, <1>2, <1>3

(* What the user gave up stays given up, and an answer is remembered.      *)
LEMMA GivenGrows ==
  ASSUME [Deploy!Next]_Deploy!vars
  PROVE  free \subseteq free' /\ Given \subseteq Given'
<1>1. free \subseteq free' /\ replaced \subseteq replaced'
  BY DEF Deploy!Next, Deploy!vars, Deploy!Start, Deploy!Tidy, Deploy!Look, Deploy!Stage,
     Deploy!Swap, Deploy!Aside, Deploy!Place, Deploy!Unplace, Deploy!Drop, Deploy!Record,
     Deploy!Link,
     Deploy!Clear, Deploy!Make, Deploy!Copy, Deploy!Save, Deploy!Killed, Deploy!Edit,
     Deploy!Remove, Deploy!Pull, Deploy!Agree, Deploy!Keep, Deploy!Take
<1> QED
  BY <1>1 DEF Given

(* What can lie in the two places after a step.                            *)
LEMMA WhatIsDeployed ==
  ASSUME [Deploy!Next]_Deploy!vars
  PROVE  /\ Deploy!Edit \/ dest' \in {dest, previous, staged, Deploy!Nothing, Deploy!Partial, Deploy!Shipped(source), Deploy!RepoLink}
         /\ previous' \in {previous, dest, Deploy!Nothing, Deploy!Partial}
         /\ Deploy!Edit \/ edits' = edits
<1>1. Deploy!Edit \/ dest' \in {dest, previous, staged, Deploy!Nothing, Deploy!Partial, Deploy!Shipped(source), Deploy!RepoLink}
  BY DEF Deploy!Next, Deploy!vars, Deploy!Start, Deploy!Tidy, Deploy!Look, Deploy!Stage,
     Deploy!Swap, Deploy!Aside, Deploy!Place, Deploy!Unplace, Deploy!Drop, Deploy!Record,
     Deploy!Link,
     Deploy!Clear, Deploy!Make, Deploy!Copy, Deploy!Save, Deploy!Killed, Deploy!Remove, Deploy!Pull
<1>2. previous' \in {previous, dest, Deploy!Nothing, Deploy!Partial}
  BY DEF Deploy!Next, Deploy!vars, Deploy!Start, Deploy!Tidy, Deploy!Look, Deploy!Stage,
     Deploy!Swap, Deploy!Aside, Deploy!Place, Deploy!Unplace, Deploy!Drop, Deploy!Record,
     Deploy!Link,
     Deploy!Clear, Deploy!Make, Deploy!Copy, Deploy!Save, Deploy!Killed, Deploy!Edit,
     Deploy!Remove, Deploy!Pull, Deploy!Discard
<1>3. Deploy!Edit \/ edits' = edits
  BY DEF Deploy!Next, Deploy!vars, Deploy!Start, Deploy!Tidy, Deploy!Look, Deploy!Stage,
     Deploy!Swap, Deploy!Aside, Deploy!Place, Deploy!Unplace, Deploy!Drop, Deploy!Record,
     Deploy!Link,
     Deploy!Clear, Deploy!Make, Deploy!Copy, Deploy!Save, Deploy!Killed, Deploy!Remove, Deploy!Pull
<1> QED
  BY <1>1, <1>2, <1>3

(* What setup writes has nothing of the user's in it.                      *)
LEMMA SetupsOwn ==
  ASSUME InstallConstants, InstallTypes,
         NEW c \in {staged, Deploy!Nothing, Deploy!Partial, Deploy!Shipped(source), Deploy!RepoLink}
  PROVE  /\ c.own = 0 /\ c.digest \in 0 .. Deploy!Torn
         /\ Genuine(c) /\ Yielded(c)
<1>1. c.own = 0 /\ c.digest \in 0 .. Deploy!Torn
  BY DEF InstallConstants, InstallTypes, Copies, Deploy!Versions, Deploy!Torn, Deploy!Nothing,
     Deploy!Partial, Deploy!Shipped,
     Deploy!RepoLink, Deploy!Content
<1>2. Deploy!Torn \in Nat
  BY DEF InstallConstants, Deploy!Torn
<1> QED
  BY <1>1, <1>2 DEF Genuine, Yielded

LEMMA GenuineLasts ==
  ASSUME [Deploy!Next]_Deploy!vars, NEW c, Genuine(c)
  PROVE  Genuine(c)'
  BY GivenGrows DEF Genuine

LEMMA GenuineKeeps ==
  ASSUME InstallConstants, InstallTypes, ContentsGenuine, [Deploy!Next]_Deploy!vars
  PROVE  ContentsGenuine'
<1>1. \A c \in {staged, Deploy!Nothing, Deploy!Partial, Deploy!Shipped(source), Deploy!RepoLink, dest, previous} : Genuine(c)
  BY SetupsOwn DEF ContentsGenuine
<1>2. \A c : Genuine(c) => (Genuine(c))'
  BY GenuineLasts
<1>3. Genuine(previous)'
  BY <1>1, <1>2, WhatIsDeployed DEF Genuine
<1>4. CASE ~Deploy!Edit
  <2>1. Genuine(dest)'
    BY <1>1, <1>2, <1>4, WhatIsDeployed DEF Genuine
  <2> QED
    BY <1>3, <2>1 DEF ContentsGenuine
<1>5. CASE Deploy!Edit
  <2>1. Deploy!Torn \in Nat /\ edits' \in Nat \ {0} /\ dest \in Contents
    BY <1>5 DEF InstallConstants, Deploy!Torn, Deploy!Edit, InstallTypes
  <2>2. ASSUME dest' \in {Deploy!Edited(edits'), Deploy!Content(edits', Deploy!Torn + edits', TRUE)}
        PROVE  Genuine(dest)'
    BY <2>1, <2>2 DEF Deploy!Edited, Deploy!Content, Genuine
  <2>3. ASSUME dest' = Deploy!Content(edits', Deploy!Digest(dest), TRUE)
        PROVE  Genuine(dest)'
    <3>1. dest'.link /\ dest'.digest = Deploy!Digest(dest) /\ dest'.own = edits'
      BY <2>3 DEF Deploy!Content
    <3>2. Deploy!Digest(dest) \in {source, dest.digest}
      BY DEF Deploy!Digest
    <3>3. ASSUME NEW k \in Nat \ {0}, dest'.digest = Deploy!Torn + k
          PROVE  k \in free'
      <4>1. dest.digest = Deploy!Torn + k
        BY <2>1, <3>1, <3>2, <3>3 DEF InstallTypes, InstallConstants, Deploy!Versions, Deploy!Torn
      <4>2. k \in free \/ dest.own = k
        BY <4>1 DEF ContentsGenuine, Genuine
      <4> QED
        BY <1>5, <4>2 DEF Deploy!Edit
    <3> QED
      BY <3>1, <3>3 DEF Genuine
  <2> QED
    BY <1>3, <1>5, <2>2, <2>3 DEF Deploy!Edit, ContentsGenuine
<1> QED
  BY <1>4, <1>5

(* An entry after a step: an earlier one, one of the repository's bytes,   *)
(* or the digest of what was just put there.                               *)
LEMMA EntriesKeep ==
  ASSUME InstallConstants, InstallTypes, ContentsGenuine, EntriesGiven, AboutToReplace,
         [Deploy!Next]_Deploy!vars
  PROVE  EntriesGiven'
<1>1. source \in 1 .. MaxVersion /\ MaxVersion \in Nat
  BY DEF InstallConstants, InstallTypes, Deploy!Versions
<1>2. \A f : /\ EntryGiven(Deploy!NoEntry, f) /\ EntryGiven(Deploy!Entry(source, FALSE), f)
            /\ EntryGiven(Deploy!Entry(0, TRUE), f)
  BY <1>1 DEF EntryGiven, Deploy!NoEntry, Deploy!Entry, Deploy!Torn
<1>3. \A e : EntryGiven(e, free) => EntryGiven(e, free')
  BY GivenGrows DEF EntryGiven
<1>5. ASSUME Deploy!At("record") PROVE EntryGiven(Deploy!Entry(Deploy!Digest(dest), FALSE), free)
  <2>1. dest.own # 0 => dest.own \in free
    BY <1>5 DEF AboutToReplace, Deploy!At
  <2>2. Deploy!Digest(dest) \in {source, dest.digest}
    BY DEF Deploy!Digest
  <2>3. ASSUME NEW k \in Nat \ {0}, Deploy!Digest(dest) = Deploy!Torn + k PROVE k \in free
    <3>1. dest.digest = Deploy!Torn + k
      BY <1>1, <2>2, <2>3 DEF Deploy!Torn
    <3>2. k \in free \/ dest.own = k
      BY <3>1 DEF ContentsGenuine, Genuine
    <3> QED
      BY <2>1, <3>2
  <2> QED
    BY <2>3 DEF EntryGiven, Deploy!Entry
<1>6. \/ setup'.entry = setup.entry \/ setup'.entry = manifest \/ setup'.entry = Deploy!NoEntry
      \/ setup'.entry = Deploy!Entry(source, FALSE) \/ setup'.entry = Deploy!Entry(0, TRUE)
      \/ Deploy!At("record") /\ setup'.entry = Deploy!Entry(Deploy!Digest(dest), FALSE)
  <2>1. \A s : Deploy!Go(s) => setup'.entry = setup.entry
    BY GoesTo
  <2>2. \A e : Deploy!Recorded(e) => setup'.entry = e
    BY RecordsAs
  <2>3. CASE Deploy!Start
    BY <2>3 DEF Deploy!Start, Deploy!Idle
  <2>4. CASE Deploy!Tidy \/ Deploy!Stage \/ Deploy!Swap \/ Deploy!Place \/ Deploy!Unplace \/ Deploy!Drop \/ Deploy!Clear \/ Deploy!Copy
    BY <2>1, <2>4 DEF Deploy!Tidy, Deploy!Stage, Deploy!Swap, Deploy!Place, Deploy!Unplace,
       Deploy!Drop, Deploy!Clear, Deploy!Copy
  <2>5. CASE Deploy!Look
    BY <2>5, LookGoesTo
  <2>6. CASE Deploy!Aside
    <3>1. setup' = [setup EXCEPT !.at = "place", !.moved = TRUE] => setup'.entry = setup.entry
      BY DEF InstallTypes, Setups
    <3> QED
      BY <2>1, <2>6, <3>1 DEF Deploy!Aside
  <2>7. CASE Deploy!Record
    BY <2>2, <2>7 DEF Deploy!Record
  <2>8. CASE Deploy!Link \/ Deploy!Make
    BY <2>1, <2>2, <2>8 DEF Deploy!Link, Deploy!Make
  <2>9. CASE Deploy!Save \/ Deploy!Killed
    <3>1. setup' = Deploy!Idle
      BY <2>9 DEF Deploy!Save, Deploy!Killed
    <3> QED
      BY <3>1 DEF Deploy!Idle
  <2>10. CASE Deploy!Edit \/ Deploy!Remove \/ Deploy!Pull \/ UNCHANGED Deploy!vars
    BY <2>10 DEF Deploy!Edit, Deploy!Remove, Deploy!Pull, Deploy!vars
  <2> QED
    BY <2>3, <2>4, <2>5, <2>6, <2>7, <2>8, <2>9, <2>10 DEF Deploy!Next
<1>7. manifest' \in {manifest, setup.entry}
  BY DEF Deploy!Next, Deploy!vars, Deploy!Start, Deploy!Tidy, Deploy!Look, Deploy!Stage,
     Deploy!Swap, Deploy!Aside, Deploy!Place, Deploy!Unplace, Deploy!Drop, Deploy!Record,
     Deploy!Link,
     Deploy!Clear, Deploy!Make, Deploy!Copy, Deploy!Save, Deploy!Killed, Deploy!Edit,
     Deploy!Remove, Deploy!Pull
<1> QED
  BY <1>2, <1>3, <1>5, <1>6, <1>7 DEF EntriesGiven

(* What setup finds stale the user gave up, unless it lies behind a link.  *)
LEMMA StaleIsGiven ==
  ASSUME InstallConstants, InstallTypes, ContentsGenuine, EntriesGiven, Deploy!Found(dest) = "stale"
  PROVE  Yielded(dest) \/ dest.link
<1>1. dest.own \in Nat /\ Deploy!Torn \in Nat
  BY DEF InstallConstants, InstallTypes, Contents, Deploy!Torn
<1>2. Deploy!Digest(dest) # source /\ Deploy!Digest(dest) = setup.entry.digest
  BY DEF Deploy!Found, Deploy!Classify
<1>3. dest.digest = setup.entry.digest
  BY <1>2 DEF Deploy!Digest
<1>4. ~dest.link /\ dest.own # 0 => dest.own \in free
  BY <1>1, <1>3 DEF ContentsGenuine, Genuine, EntriesGiven, EntryGiven
<1> QED
  BY <1>4 DEF Yielded, Given

LEMMA AbsentIsNothing ==
  ASSUME Deploy!Found(dest) = "absent"
  PROVE  dest = Deploy!Nothing
  BY DEF Deploy!Found, Deploy!Classify

LEMMA ReplaceKeeps ==
  ASSUME InstallConstants, InstallTypes, ContentsGenuine, EntriesGiven, AboutToReplace,
         EachItsSteps, [Deploy!Next]_Deploy!vars
  PROVE  AboutToReplace'
<1> DEFINE Apart == {"idle", "tidy", "retidy", "look", "place", "unplace", "make", "save"}
<1>1. setup'.at \in Apart => AboutToReplace'
  BY DEF AboutToReplace, Deploy!At
<1>2. \A s : Deploy!Go(s) => setup'.at = s /\ setup'.state = setup.state
  BY GoesTo
<1>3. \A e : Deploy!Recorded(e) => setup'.at = "save"
  BY RecordsAs
<1>4. CASE Deploy!Start \/ Deploy!Save \/ Deploy!Killed
  <2>1. setup' = Deploy!Idle \/ setup'.at \in {"tidy", "look"}
    BY <1>4 DEF Deploy!Start, Deploy!Save, Deploy!Killed, Deploy!Idle
  <2> QED
    BY <1>1, <2>1 DEF Deploy!Idle
<1>5. CASE Deploy!Tidy \/ Deploy!Unplace \/ Deploy!Record \/ Deploy!Make
  BY <1>1, <1>2, <1>3, <1>5 DEF Deploy!Tidy, Deploy!Unplace, Deploy!Record, Deploy!Make
<1>6. CASE Deploy!Look
  <2>1. Given \subseteq Given'
    BY GivenGrows
  <2>2. dest' = dest
    BY <1>6 DEF Deploy!Look
  <2>3. Deploy!Found(dest) = "stale" => Yielded(dest) \/ dest.link
    BY StaleIsGiven
  <2>4. CASE setup'.at = "save"
    BY <1>1, <2>4
  <2>5. CASE setup'.at = "link" /\ setup'.state = Deploy!Found(dest)
    BY <2>1, <2>2, <2>3, <2>5 DEF AboutToReplace, Deploy!At, Yielded
  <2>6. ASSUME setup'.at \in {"stage", "copy"},
               (Deploy!Found(dest) \in {"absent", "stale"} /\ Deploy!Take(dest)) \/ Deploy!Agree(dest)
        PROVE  AboutToReplace'
    <3>1. Deploy!Found(dest) = "absent" => dest.own = 0
      BY AbsentIsNothing DEF Deploy!Nothing, Deploy!Content
    <3>2. Deploy!Found(dest) = "stale" /\ Deploy!Take(dest) => Yielded(dest)'
      BY <2>1, <2>2, <2>3 DEF Deploy!Take, Yielded, Given
    <3>3. Deploy!Agree(dest) => Yielded(dest)'
      BY <2>2 DEF Deploy!Agree, Yielded, Given
    <3>4. Yielded(dest)'
      BY <2>2, <2>6, <3>1, <3>2, <3>3 DEF Yielded
    <3> QED
      BY <2>6, <3>4 DEF AboutToReplace, Deploy!At
  <2> QED
    BY <1>6, <2>4, <2>5, <2>6, LookGoesTo
<1>7. CASE Deploy!Stage \/ Deploy!Swap \/ Deploy!Aside
  <2>1. UNCHANGED <<free, replaced>>
    BY <1>7 DEF Deploy!Stage, Deploy!Swap, Deploy!Aside
  <2>2. setup' = [setup EXCEPT !.at = "place", !.moved = TRUE] => setup'.at = "place"
    BY DEF InstallTypes, Setups
  <2>3. \/ setup'.at \in Apart
        \/ Deploy!At("stage") /\ setup'.at = "swap" /\ dest' = dest /\ setup'.state = setup.state
        \/ Deploy!At("swap") /\ setup'.at = "aside" /\ dest' = dest /\ setup'.state = setup.state
    BY <1>2, <1>7, <2>2 DEF Deploy!Stage, Deploy!Swap, Deploy!Aside
  <2> QED
    BY <1>1, <2>1, <2>3 DEF AboutToReplace, Deploy!At, Yielded, Given
<1>8. CASE Deploy!Place \/ Deploy!Copy
  <2>1. \/ setup'.at \in Apart
        \/ setup'.at \in {"drop", "record"} /\ dest' \in {staged, Deploy!Shipped(source)}
    <3>1. Deploy!Place => Deploy!Go("unplace") \/ (Deploy!Go("drop") /\ dest' = staged)
      BY DEF Deploy!Place
    <3>2. Deploy!Copy => Deploy!Go("idle") \/ Deploy!Go("save") \/ (Deploy!Go("record") /\ dest' = Deploy!Shipped(source))
      BY DEF Deploy!Copy
    <3> QED
      BY <1>2, <1>8, <3>1, <3>2
  <2>2. dest' \in {staged, Deploy!Shipped(source)} => dest'.own = 0
    BY SetupsOwn
  <2> QED
    BY <1>1, <2>1, <2>2 DEF AboutToReplace, Deploy!At
<1>9. CASE Deploy!Drop
  <2>1. Deploy!At("drop") /\ setup'.at = "record" /\ dest' = dest /\ free' = free
    BY <1>2, <1>9 DEF Deploy!Drop
  <2> QED
    BY <2>1 DEF AboutToReplace, Deploy!At
<1>10. CASE Deploy!Link
  <2>1. Given \subseteq Given' /\ dest' = dest
    BY <1>10, GivenGrows DEF Deploy!Link
  <2>2. \/ setup'.at \in Apart
        \/ setup'.at = "clear" /\ setup.state = "stale" /\ Deploy!Take(dest)
        \/ setup'.at = "clear" /\ Deploy!Agree(dest)
    BY <1>2, <1>3, <1>10 DEF Deploy!Link
  <2>3. setup.state = "stale" => Yielded(dest) \/ dest.link
    BY <1>10 DEF Deploy!Link, AboutToReplace
  <2>4. setup.state = "stale" /\ Deploy!Take(dest) => Yielded(dest)'
    BY <2>1, <2>3 DEF Deploy!Take, Yielded, Given
  <2>5. Deploy!Agree(dest) => Yielded(dest)'
    BY <2>1 DEF Deploy!Agree, Yielded, Given
  <2> QED
    BY <1>1, <2>2, <2>4, <2>5 DEF AboutToReplace, Deploy!At
<1>11. CASE Deploy!Clear
  <2>1. setup'.at \in Apart \/ (setup'.at = "copy" /\ dest' = Deploy!Nothing)
    <3>1. Deploy!Go("save") \/ (dest' = Deploy!Nothing /\ (Deploy!Go("make") \/ Deploy!Go("copy")))
      BY <1>11 DEF Deploy!Clear
    <3> QED
      BY <1>2, <3>1
  <2>2. dest' = Deploy!Nothing => dest'.own = 0
    BY DEF Deploy!Nothing, Deploy!Content
  <2> QED
    BY <1>1, <2>1, <2>2 DEF AboutToReplace, Deploy!At, Yielded
<1>12. CASE Deploy!Edit
  <2>1. setup' = setup /\ dest'.own = edits' /\ kind' = kind
    BY <1>12 DEF Deploy!Edit, Deploy!Edited, Deploy!Content
  <2>2. Deploy!UnderSetup => edits' \in free'
    BY <1>12 DEF Deploy!Edit
  <2>3. Yielded(dest)' \/ ~Deploy!UnderSetup
    BY <2>1, <2>2 DEF Yielded, Given
  <2>4. CASE Deploy!UnderSetup
    BY <2>1, <2>2, <2>3, <2>4 DEF AboutToReplace, Deploy!At
  <2>5. CASE ~Deploy!UnderSetup
    <3>1. \/ setup.at \in {"idle", "tidy", "look", "retidy", "save"}
          \/ setup.at \notin {"drop", "record"} /\ kind = "skill" /\ setup.state = "absent"
      BY <2>5 DEF Deploy!UnderSetup, Deploy!At
    <3> QED
      BY <1>1, <2>1, <3>1 DEF AboutToReplace, Deploy!At, EachItsSteps
  <2> QED
    BY <2>4, <2>5
<1>13. CASE Deploy!Remove
  <2>1. dest'.own = 0
    BY <1>13 DEF Deploy!Remove, Deploy!Nothing, Deploy!Content
  <2> QED
    BY <2>1 DEF AboutToReplace, Yielded
<1>14. CASE Deploy!Pull \/ UNCHANGED Deploy!vars
  BY <1>14 DEF Deploy!Pull, Deploy!vars, AboutToReplace, Deploy!At, Yielded, Given
<1> QED
  BY <1>4, <1>5, <1>6, <1>7, <1>8, <1>9, <1>10, <1>11, <1>12, <1>13, <1>14 DEF Deploy!Next

(* Each kind takes its own steps.                                          *)
LEMMA StepsKeep ==
  ASSUME InstallTypes, EachItsSteps, [Deploy!Next]_Deploy!vars
  PROVE  EachItsSteps'
<1>1. \A s : Deploy!Go(s) => setup'.at = s
  BY GoesTo
<1>2. \A e : Deploy!Recorded(e) => setup'.at = "save"
  BY RecordsAs
<1>3. setup' = [setup EXCEPT !.at = "place", !.moved = TRUE] => setup'.at = "place"
  BY DEF InstallTypes, Setups
<1>4. CASE Deploy!Start \/ Deploy!Save \/ Deploy!Killed
  <2>1. setup' = Deploy!Idle \/ setup'.at \in {"tidy", "look"}
    BY <1>4 DEF Deploy!Start, Deploy!Save, Deploy!Killed, Deploy!Idle
  <2> QED
    BY <2>1 DEF EachItsSteps, Deploy!Idle
<1>5. CASE Deploy!Look
  <2>1. kind' = kind /\ (kind = "skill" => setup'.at \in {"stage", "save"})
    BY <1>2, <1>5, LookGoesTo DEF Deploy!Look, InstallTypes, Setups
  <2> QED
    BY <2>1 DEF EachItsSteps
<1>6. CASE Deploy!Tidy \/ Deploy!Stage \/ Deploy!Swap \/ Deploy!Aside \/ Deploy!Place \/ Deploy!Unplace \/ Deploy!Drop \/ Deploy!Record \/ Deploy!Make
  <2>1. setup'.at \notin {"link", "clear", "make", "copy"}
    BY <1>1, <1>2, <1>3, <1>6 DEF Deploy!Tidy, Deploy!Stage, Deploy!Swap, Deploy!Aside,
       Deploy!Place, Deploy!Unplace, Deploy!Drop, Deploy!Record, Deploy!Make
  <2> QED
    BY <2>1 DEF EachItsSteps
<1>7. CASE Deploy!Link \/ Deploy!Clear \/ Deploy!Copy
  <2>1. kind' = kind /\ kind # "skill"
    BY <1>7 DEF Deploy!Link, Deploy!Clear, Deploy!Copy, Deploy!At, EachItsSteps
  <2> QED
    BY <2>1 DEF EachItsSteps
<1>8. CASE Deploy!Edit \/ Deploy!Remove \/ Deploy!Pull \/ UNCHANGED Deploy!vars
  BY <1>8 DEF Deploy!Edit, Deploy!Remove, Deploy!Pull, Deploy!vars, EachItsSteps
<1> QED
  BY <1>4, <1>5, <1>6, <1>7, <1>8 DEF Deploy!Next


LEMMA YieldedLasts ==
  ASSUME [Deploy!Next]_Deploy!vars, NEW c, Yielded(c)
  PROVE  Yielded(c)'
  BY GivenGrows DEF Yielded

LEMMA PreviousKeeps ==
  ASSUME InstallConstants, InstallTypes, AboutToReplace, Yielded(previous), [Deploy!Next]_Deploy!vars
  PROVE  Yielded(previous)'
<1>1. Yielded(Deploy!Nothing) /\ Yielded(Deploy!Partial)
  BY SetupsOwn
<1>2. previous' \in {previous, Deploy!Nothing, Deploy!Partial} \/ (previous' = dest /\ Deploy!Aside)
  BY DEF Deploy!Next, Deploy!vars, Deploy!Start, Deploy!Tidy, Deploy!Look, Deploy!Stage,
     Deploy!Swap, Deploy!Aside, Deploy!Place, Deploy!Unplace, Deploy!Drop, Deploy!Record,
     Deploy!Link,
     Deploy!Clear, Deploy!Make, Deploy!Copy, Deploy!Save, Deploy!Killed, Deploy!Edit,
     Deploy!Remove, Deploy!Pull, Deploy!Discard
<1>3. CASE previous' \in {previous, Deploy!Nothing, Deploy!Partial}
  BY <1>1, <1>3, YieldedLasts DEF Yielded
<1>4. CASE Deploy!Aside
  <2>1. previous' = previous \/ (previous' = dest /\ setup.state # "absent" /\ Deploy!At("aside"))
    BY <1>4 DEF Deploy!Aside
  <2>2. Deploy!At("aside") /\ setup.state # "absent" => Yielded(dest)
    BY DEF AboutToReplace, Deploy!At
  <2> QED
    BY <2>1, <2>2, YieldedLasts DEF Yielded
<1> QED
  BY <1>2, <1>3, <1>4

(* What is deployed leaves that place only for the other, or given up.     *)
LEMMA NoEditHere ==
  ASSUME edits' = edits, edits \in Nat
  PROVE  ~Deploy!Edit
<1>1. Deploy!Edit => edits' = edits + 1
  BY DEF Deploy!Edit
<1> QED
  BY <1>1

LEMMA AnswerKeeps ==
  ASSUME InstallConstants, InstallTypes, AboutToReplace, EachItsSteps, Yielded(previous),
         Deploy!EditsNeedAnAnswer, [Deploy!Next]_Deploy!vars
  PROVE  Deploy!EditsNeedAnAnswer'
<1>1. Given \subseteq Given'
  BY GivenGrows
<1>2. \A k \in 1 .. edits : k \in Given \/ dest.own = k
  BY DEF Deploy!EditsNeedAnAnswer, Yielded, Given, InstallTypes
<1>3. ASSUME Yielded(dest) \/ dest' = dest \/ previous' = dest, ~Deploy!Edit
      PROVE  Deploy!EditsNeedAnAnswer'
  <2>1. edits' = edits
    BY <1>3, WhatIsDeployed
  <2>2. ASSUME NEW k \in 1 .. edits
        PROVE  k \in Given' \/ dest'.own = k \/ previous'.own = k
    BY <1>1, <1>2, <1>3, <2>2 DEF Yielded, InstallTypes
  <2> QED
    BY <2>1, <2>2 DEF Deploy!EditsNeedAnAnswer, Given
<1>4. dest = Deploy!Nothing => Yielded(dest)
  BY SetupsOwn
<1>5. CASE Deploy!Edit
  <2>1. edits' = edits + 1 /\ dest'.own = edits'
    BY <1>5 DEF Deploy!Edit, Deploy!Edited, Deploy!Content
  <2>2. \A k \in 1 .. edits : k \in Given'
    BY <1>1, <1>2, <1>5 DEF Deploy!Edit, Given, InstallTypes
  <2>3. \A k \in 1 .. edits' : k \in Given' \/ dest'.own = k
    BY <2>1, <2>2 DEF InstallTypes
  <2> QED
    BY <2>3 DEF Deploy!EditsNeedAnAnswer, Given
<1>6. CASE Deploy!Tidy \/ Deploy!Aside \/ Deploy!Place \/ Deploy!Unplace \/ Deploy!Make
  <2>1. dest = Deploy!Nothing \/ dest' = dest \/ previous' = dest
    BY <1>6 DEF Deploy!Tidy, Deploy!Aside, Deploy!Place, Deploy!Unplace, Deploy!Make
  <2>2. ~Deploy!Edit
    <3>1. edits' = edits /\ edits \in Nat
      BY <1>6 DEF Deploy!Tidy, Deploy!Aside, Deploy!Place, Deploy!Unplace, Deploy!Make, InstallTypes
    <3> QED
      BY <3>1, NoEditHere
  <2> QED
    BY <1>3, <1>4, <2>1, <2>2
<1>7. CASE Deploy!Clear \/ Deploy!Copy \/ Deploy!Killed
  <2>1. \/ dest' = dest \/ setup.at \in {"clear", "copy"}
    BY <1>7 DEF Deploy!Clear, Deploy!Copy, Deploy!Killed, Deploy!At
  <2>2. setup.at \in {"clear", "copy"} => Yielded(dest)
    BY DEF AboutToReplace
  <2>3. ~Deploy!Edit
    <3>1. edits' = edits /\ edits \in Nat
      BY <1>7 DEF Deploy!Clear, Deploy!Copy, Deploy!Killed, InstallTypes
    <3> QED
      BY <3>1, NoEditHere
  <2> QED
    BY <1>3, <2>1, <2>2, <2>3
<1>8. CASE Deploy!Remove
  <2>1. edits' = edits /\ \A k \in 1 .. edits : k \in Given'
    BY <1>1, <1>2, <1>8 DEF Deploy!Remove, Deploy!Agree, Given, InstallTypes
  <2> QED
    BY <2>1 DEF Deploy!EditsNeedAnAnswer, Given
<1>9. CASE Deploy!Start \/ Deploy!Look \/ Deploy!Stage \/ Deploy!Swap \/ Deploy!Drop \/ Deploy!Record \/ Deploy!Link \/ Deploy!Save \/ Deploy!Pull
           \/ UNCHANGED Deploy!vars
  <2>1. dest' = dest /\ edits' = edits /\ edits \in Nat
    BY <1>9 DEF Deploy!Start, Deploy!Look, Deploy!Stage, Deploy!Swap, Deploy!Drop, Deploy!Record,
       Deploy!Link, Deploy!Save, Deploy!Pull, Deploy!vars, InstallTypes
  <2>2. ~Deploy!Edit
    BY <2>1, NoEditHere
  <2> QED
    BY <1>3, <2>1, <2>2
<1> QED
  BY <1>5, <1>6, <1>7, <1>8, <1>9 DEF Deploy!Next

LEMMA AnswerInit ==
  ASSUME InstallConstants, Deploy!Init
  PROVE  AnswerInv
<1>1. InstallTypes
  <2>1. Deploy!Nothing \in Contents /\ Deploy!Nothing \in Copies /\ 1 \in Deploy!Versions /\ Deploy!NoEntry \in Entries
    BY DEF InstallConstants, Deploy!Nothing, Deploy!Content, Contents, Copies, Deploy!Versions,
       Deploy!NoEntry, Entries
  <2>2. Deploy!Idle \in Setups
    BY <2>1 DEF Deploy!Idle, Setups, Steps, States
  <2>3. /\ dest \in Contents /\ previous \in Contents /\ staged \in Copies
        /\ manifest \in Entries /\ setup \in Setups
    BY <2>1, <2>2 DEF Deploy!Init
  <2>4. kind = "none" /\ source \in Deploy!Versions /\ owned \in BOOLEAN
    BY <2>1 DEF Deploy!Init
  <2>5. edits \in Nat /\ mishaps \in Nat /\ mishaps <= MaxMishaps
    BY DEF Deploy!Init, InstallConstants
  <2> QED
    BY <2>3, <2>4, <2>5 DEF InstallTypes
<1>2. Genuine(Deploy!Nothing) /\ Yielded(Deploy!Nothing)
  BY <1>1, SetupsOwn
<1>3. ContentsGenuine /\ Yielded(previous)
  BY <1>2 DEF Deploy!Init, ContentsGenuine
<1>4. EntriesGiven
  BY DEF Deploy!Init, EntriesGiven, EntryGiven, Deploy!Idle, Deploy!NoEntry, Deploy!Torn,
     InstallConstants
<1>5. AboutToReplace /\ EachItsSteps
  BY DEF Deploy!Init, Deploy!Idle, AboutToReplace, EachItsSteps, Deploy!At
<1>6. Deploy!EditsNeedAnAnswer
  BY DEF Deploy!Init, Deploy!EditsNeedAnAnswer
<1> QED
  BY <1>1, <1>3, <1>4, <1>5, <1>6 DEF AnswerInv

(* Setup destroys nothing that only the user has without having been told  *)
(* to, or having found it behind a link to its own bytes                   *)
(* (may_overwrite(), install_skills(), _link_directory()).                 *)
THEOREM NothingIsTakenUnasked ==
  ASSUME InstallConstants
  PROVE  Deploy!Spec => []EditsNeedAnAnswer
<1>1. Deploy!Init => AnswerInv
  BY AnswerInit
<1>2. AnswerInv /\ [Deploy!Next]_Deploy!vars => AnswerInv'
  BY TypesKeep, GenuineKeeps, EntriesKeep, ReplaceKeeps, StepsKeep, PreviousKeeps, AnswerKeeps
  DEF AnswerInv
<1>3. AnswerInv => EditsNeedAnAnswer
  BY DEF AnswerInv, EditsNeedAnAnswer, Deploy!EditsNeedAnAnswer
<1> QED
  BY <1>1, <1>2, <1>3, PTL DEF Deploy!Spec


(* Setup leaves a skill the user has with nothing whole in its two places  *)
(* only while the new copy is about to be moved in.                        *)
LEMMA StagedKeeps ==
  ASSUME InstallConstants, InstallTypes, StagedIsWhole, [Deploy!Next]_Deploy!vars
  PROVE  StagedIsWhole'
<1>1. Whole(Deploy!Shipped(source))
  BY DEF InstallConstants, InstallTypes, Deploy!Versions, Whole, Deploy!Shipped, Deploy!Nothing,
     Deploy!Partial, Deploy!Content, Deploy!Torn
<1>2. \A s : Deploy!Go(s) => setup'.at = s
  BY GoesTo
<1>3. \A e : Deploy!Recorded(e) => setup'.at = "save"
  BY RecordsAs
<1>4. CASE Deploy!Start \/ Deploy!Save \/ Deploy!Killed
  <2>1. setup' = Deploy!Idle \/ setup'.at \in {"tidy", "look"}
    BY <1>4 DEF Deploy!Start, Deploy!Save, Deploy!Killed, Deploy!Idle
  <2> QED
    BY <2>1 DEF StagedIsWhole, Deploy!Idle
<1>5. CASE Deploy!Tidy \/ Deploy!Place \/ Deploy!Unplace \/ Deploy!Drop \/ Deploy!Record \/ Deploy!Link \/ Deploy!Clear \/ Deploy!Make \/ Deploy!Copy
  <2>1. setup'.at \notin {"swap", "aside", "place"}
    BY <1>2, <1>3, <1>5 DEF Deploy!Tidy, Deploy!Place, Deploy!Unplace, Deploy!Drop, Deploy!Record,
       Deploy!Link, Deploy!Clear, Deploy!Make, Deploy!Copy
  <2> QED
    BY <2>1 DEF StagedIsWhole
<1>6. CASE Deploy!Look
  <2>1. setup'.at \notin {"swap", "aside", "place"}
    BY <1>6, LookGoesTo
  <2> QED
    BY <2>1 DEF StagedIsWhole
<1>7. CASE Deploy!Stage
  <2>1. setup'.at = "retidy" \/ staged' = Deploy!Shipped(source)
    BY <1>2, <1>7 DEF Deploy!Stage
  <2> QED
    BY <1>1, <2>1 DEF StagedIsWhole, Whole
<1>8. CASE Deploy!Swap \/ Deploy!Aside
  <2>1. staged' = staged /\ setup.at \in {"swap", "aside"}
    BY <1>8 DEF Deploy!Swap, Deploy!Aside, Deploy!At
  <2> QED
    BY <2>1 DEF StagedIsWhole, Whole
<1>9. CASE Deploy!Edit \/ Deploy!Remove \/ Deploy!Pull \/ UNCHANGED Deploy!vars
  BY <1>9 DEF Deploy!Edit, Deploy!Remove, Deploy!Pull, Deploy!vars, StagedIsWhole, Whole
<1> QED
  BY <1>4, <1>5, <1>6, <1>7, <1>8, <1>9 DEF Deploy!Next

LEMMA FaultCounts ==
  ASSUME InstallConstants, InstallTypes
  PROVE  /\ Deploy!Fault => mishaps' = mishaps + 1 /\ mishaps' <= MaxMishaps
         /\ Deploy!NoFault => mishaps' = mishaps
         /\ mishaps \in Nat
  BY DEF InstallConstants, InstallTypes, Deploy!Fault, Deploy!NoFault, Deploy!MayFail

LEMMA NoneKeeps ==
  ASSUME NoneIsIdle, [Deploy!Next]_Deploy!vars
  PROVE  NoneIsIdle'
<1>1. CASE Deploy!Start
  BY <1>1 DEF Deploy!Start, NoneIsIdle
<1>2. CASE kind' = kind /\ (kind = "none" => setup' = setup)
  BY <1>2 DEF NoneIsIdle, Deploy!At
<1>3. kind' = kind \/ Deploy!Start
  BY DEF Deploy!Next, Deploy!vars, Deploy!Tidy, Deploy!Look, Deploy!Stage, Deploy!Swap,
     Deploy!Aside, Deploy!Place, Deploy!Unplace, Deploy!Drop, Deploy!Record, Deploy!Link,
     Deploy!Clear, Deploy!Make, Deploy!Copy, Deploy!Save, Deploy!Killed, Deploy!Edit,
     Deploy!Remove, Deploy!Pull
<1>4. setup' = setup \/ Deploy!Start \/ ~Deploy!At("idle")
  BY DEF Deploy!Next, Deploy!vars, Deploy!Tidy, Deploy!Look, Deploy!Stage, Deploy!Swap,
     Deploy!Aside, Deploy!Place, Deploy!Unplace, Deploy!Drop, Deploy!Record, Deploy!Link,
     Deploy!Clear, Deploy!Make, Deploy!Copy, Deploy!Save, Deploy!Killed, Deploy!Edit,
     Deploy!Remove, Deploy!Pull, Deploy!At
<1> QED
  BY <1>1, <1>2, <1>3, <1>4 DEF NoneIsIdle

(* A step after which the name has something whole, or that the user's     *)
(* removal preceded, leaves nothing to show.                               *)
LEMMA BareKeeps ==
  ASSUME InstallConstants, MaxMishaps <= 2, InstallTypes, EachItsSteps, NoneIsIdle,
         StagedIsWhole, BareIsMoved, [Deploy!Next]_Deploy!vars
  PROVE  BareIsMoved'
<1>1. \A s : Deploy!Go(s) => setup'.at = s /\ setup'.moved = setup.moved
  BY GoesTo
<1>2. /\ Deploy!Fault => mishaps' = mishaps + 1 /\ mishaps' <= 2
      /\ Deploy!NoFault => mishaps' = mishaps
      /\ mishaps \in Nat
  BY FaultCounts DEF InstallConstants, InstallTypes
<1>3. Whole(dest)' \/ ~owned' \/ kind' \notin {"none", "skill"} => BareIsMoved'
  BY DEF BareIsMoved, Bare
<1>4. dest' = dest /\ kind' = kind /\ owned' = owned => Bare' = Bare
  BY DEF Bare, Whole
<1>5. /\ Bare => dest = Deploy!Nothing /\ kind = "skill"
      /\ ~Bare' => BareIsMoved'
      /\ ~Whole(Deploy!Nothing)
  BY DEF BareIsMoved, Whole
<1>6. CASE Deploy!Start
  <2>1. /\ kind' = "skill" => setup'.at = "tidy"
        /\ setup.at = "idle" /\ kind' # "none"
        /\ dest' = dest /\ previous' = previous /\ owned' = owned /\ mishaps' = mishaps
        /\ kind' = "skill" => kind \in {"none", "skill"}
    BY <1>6 DEF Deploy!Start, Deploy!Idle, Deploy!At
  <2>2. ASSUME Bare'
        PROVE  BareIsMoved'
    <3>1. Bare /\ kind' = "skill"
      BY <2>1, <2>2 DEF Bare, Whole
    <3>2. dest = Deploy!Nothing /\ Whole(previous) /\ mishaps >= 1
      BY <2>1, <3>1 DEF BareIsMoved, Deploy!At
    <3> QED
      BY <2>1, <3>1, <3>2 DEF BareIsMoved, Whole
  <2> QED
    BY <1>5, <2>2
<1>7. CASE Deploy!Tidy
  <2> SUFFICES ASSUME Bare'
               PROVE  BareIsMoved'
    BY <1>5
  <2>1. setup.at \in {"tidy", "retidy"} /\ kind' = kind
        /\ (Deploy!Go("look") \/ Deploy!Go("save")) /\ (Deploy!At("tidy") => Deploy!Go("look"))
    BY <1>7 DEF Deploy!Tidy, Deploy!At
  <2>2. Bare => Whole(previous) /\ mishaps >= 1 /\ (Deploy!At("retidy") => mishaps >= 2)
    BY <1>2, <2>1 DEF BareIsMoved, Deploy!At
  <2>3. \/ dest = Deploy!Nothing /\ dest' = previous /\ (owned' <=> (owned \/ previous # Deploy!Partial))
           /\ previous # Deploy!Nothing
        \/ dest' = dest /\ owned' = owned /\ (previous = Deploy!Nothing \/ dest # Deploy!Nothing)
        \/ dest' = dest /\ owned' = owned /\ previous' = previous /\ Deploy!Fault
    BY <1>7 DEF Deploy!Tidy
  <2>4. CASE dest = Deploy!Nothing /\ dest' = previous /\ (owned' <=> (owned \/ previous # Deploy!Partial))
             /\ previous # Deploy!Nothing
    <3>1. previous = Deploy!Partial
      BY <2>4 DEF Bare, Whole
    <3>2. Bare
      BY <2>1, <2>4, <3>1 DEF Bare, Whole
    <3> QED
      BY <2>2, <3>1, <3>2 DEF Whole
  <2>5. CASE dest' = dest /\ owned' = owned /\ (previous = Deploy!Nothing \/ dest # Deploy!Nothing)
    BY <1>4, <1>5, <2>1, <2>2, <2>5
  <2>6. CASE dest' = dest /\ owned' = owned /\ previous' = previous /\ Deploy!Fault
    <3>1. Bare
      BY <1>4, <2>1, <2>6
    <3>2. mishaps' >= 2 /\ Deploy!At("tidy") /\ setup'.at = "look"
      BY <1>1, <1>2, <2>1, <2>2, <2>6, <3>1 DEF Deploy!At
    <3> QED
      BY <1>5, <2>1, <2>2, <2>6, <3>1, <3>2 DEF BareIsMoved, Whole, Deploy!At
  <2> QED
    BY <2>3, <2>4, <2>5, <2>6
<1>8. CASE Deploy!Look
  <2> SUFFICES ASSUME Bare'
               PROVE  BareIsMoved'
    BY <1>5
  <2>1. Deploy!At("look") /\ UNCHANGED <<dest, kind, owned, previous>> /\ (Deploy!Fault \/ Deploy!NoFault)
    BY <1>8 DEF Deploy!Look
  <2>2. Bare /\ dest = Deploy!Nothing /\ kind = "skill"
    BY <1>4, <1>5, <2>1
  <2>3. Whole(previous) /\ mishaps >= 2
    BY <2>1, <2>2 DEF BareIsMoved, Deploy!At
  <2>4. Deploy!NoFault /\ ~Deploy!Fault
    BY <1>2, <2>1, <2>3
  <2>5. Deploy!Found(dest) = "absent"
    BY <2>2 DEF Deploy!Found, Deploy!Classify, Deploy!Nothing, Deploy!Content
  <2>6. setup' = [setup EXCEPT !.at = "stage", !.state = Deploy!Found(dest)]
    BY <1>8, <2>2, <2>4, <2>5 DEF Deploy!Look
  <2>7. setup'.at = "stage"
    BY <2>6 DEF InstallTypes, Setups
  <2> QED
    BY <1>2, <2>1, <2>2, <2>3, <2>4, <2>7 DEF BareIsMoved, Whole, Deploy!At
<1>9. CASE Deploy!Stage
  <2> SUFFICES ASSUME Bare'
               PROVE  BareIsMoved'
    BY <1>5
  <2>1. /\ Deploy!At("stage") /\ UNCHANGED <<dest, kind, owned, previous>>
        /\ Deploy!Fault \/ (Deploy!NoFault /\ Deploy!Go("swap"))
    BY <1>9 DEF Deploy!Stage
  <2>2. Bare /\ dest = Deploy!Nothing /\ kind = "skill"
    BY <1>4, <1>5, <2>1
  <2>3. Whole(previous) /\ mishaps >= 2
    BY <2>1, <2>2 DEF BareIsMoved, Deploy!At
  <2>4. mishaps' = mishaps /\ setup'.at = "swap"
    BY <1>1, <1>2, <2>1, <2>3
  <2> QED
    BY <2>1, <2>2, <2>3, <2>4 DEF BareIsMoved, Whole, Deploy!At
<1>10. CASE Deploy!Swap
  <2> SUFFICES ASSUME Bare'
               PROVE  BareIsMoved'
    BY <1>5
  <2>1. Deploy!At("swap") /\ UNCHANGED <<dest, kind, owned>> /\ (Deploy!Fault \/ Deploy!NoFault) /\ Deploy!Go("aside")
    BY <1>10 DEF Deploy!Swap, Deploy!Discard
  <2>2. Bare /\ dest = Deploy!Nothing /\ kind = "skill"
    BY <1>4, <1>5, <2>1
  <2>3. mishaps >= 2
    BY <2>1, <2>2 DEF BareIsMoved, Deploy!At
  <2>4. mishaps' >= 2 /\ setup'.at = "aside"
    BY <1>1, <1>2, <2>1, <2>3
  <2> QED
    BY <2>1, <2>2, <2>3, <2>4 DEF BareIsMoved, Deploy!At
<1>11. CASE Deploy!Aside
  <2> SUFFICES ASSUME Bare'
               PROVE  BareIsMoved'
    BY <1>5
  <2>1. Deploy!At("aside") /\ UNCHANGED <<kind, owned>>
    BY <1>11 DEF Deploy!Aside
  <2>2. \/ dest = Deploy!Nothing /\ Deploy!Go("place") /\ Deploy!NoFault /\ UNCHANGED <<dest, previous>>
        \/ /\ dest # Deploy!Nothing /\ previous' = dest /\ dest' = Deploy!Nothing
           /\ setup' = [setup EXCEPT !.at = "place", !.moved = TRUE]
        \/ dest # Deploy!Nothing /\ dest' = dest
    BY <1>11 DEF Deploy!Aside
  <2>3. CASE dest = Deploy!Nothing /\ Deploy!Go("place") /\ Deploy!NoFault /\ UNCHANGED <<dest, previous>>
    <3>1. Bare /\ kind = "skill"
      BY <1>4, <1>5, <2>1, <2>3
    <3>2. mishaps >= 2
      BY <2>1, <3>1 DEF BareIsMoved, Deploy!At
    <3> QED
      BY <1>1, <1>2, <2>1, <2>3, <3>1, <3>2 DEF BareIsMoved, Deploy!At
  <2>4. CASE /\ dest # Deploy!Nothing /\ previous' = dest /\ dest' = Deploy!Nothing
             /\ setup' = [setup EXCEPT !.at = "place", !.moved = TRUE]
    <3>1. setup'.at = "place" /\ setup'.moved = TRUE
      BY <2>4 DEF InstallTypes, Setups
    <3>2. Whole(dest)
      BY <1>5, <2>1, <2>4 DEF Bare
    <3>3. kind = "skill"
      BY <2>1 DEF Bare, NoneIsIdle, Deploy!At
    <3> QED
      BY <2>1, <2>4, <3>1, <3>2, <3>3 DEF BareIsMoved, Whole, Deploy!At
  <2>5. CASE dest # Deploy!Nothing /\ dest' = dest
    BY <1>4, <1>5, <2>1, <2>5
  <2> QED
    BY <2>2, <2>3, <2>4, <2>5
<1>12. CASE Deploy!Place
  <2> SUFFICES ASSUME Bare'
               PROVE  BareIsMoved'
    BY <1>5
  <2>1. Deploy!At("place") /\ kind' = kind
    BY <1>12 DEF Deploy!Place
  <2>2. \/ dest' = staged
        \/ dest = Deploy!Nothing /\ Deploy!Go("unplace") /\ Deploy!Fault /\ UNCHANGED <<dest, previous, owned>>
        \/ dest # Deploy!Nothing /\ UNCHANGED <<dest, owned>>
    BY <1>12 DEF Deploy!Place
  <2>3. CASE dest' = staged
    BY <1>3, <2>1, <2>3 DEF StagedIsWhole, Whole, Deploy!At
  <2>4. CASE dest = Deploy!Nothing /\ Deploy!Go("unplace") /\ Deploy!Fault /\ UNCHANGED <<dest, previous, owned>>
    <3>1. Bare /\ kind = "skill"
      BY <1>4, <1>5, <2>1, <2>4
    <3>2. setup.moved /\ Whole(previous)
      BY <1>2, <2>1, <2>4, <3>1 DEF BareIsMoved, Deploy!At
    <3>3. mishaps' >= 1 /\ setup'.at = "unplace" /\ setup'.moved = setup.moved
      BY <1>1, <1>2, <2>4
    <3> QED
      BY <2>1, <2>4, <3>1, <3>2, <3>3 DEF BareIsMoved, Whole, Deploy!At
  <2>5. CASE dest # Deploy!Nothing /\ UNCHANGED <<dest, owned>>
    BY <1>4, <1>5, <2>1, <2>5
  <2> QED
    BY <2>2, <2>3, <2>4, <2>5
<1>13. CASE Deploy!Unplace
  <2> SUFFICES ASSUME Bare'
               PROVE  BareIsMoved'
    BY <1>5
  <2>1. Deploy!At("unplace") /\ UNCHANGED <<kind, owned>> /\ Deploy!Go("retidy")
    BY <1>13 DEF Deploy!Unplace
  <2>2. Bare => setup.moved /\ Whole(previous) /\ mishaps >= 1
    BY <2>1 DEF BareIsMoved, Deploy!At
  <2>3. \/ dest = Deploy!Nothing /\ dest' = previous
        \/ ~(setup.moved /\ dest = Deploy!Nothing) /\ dest' = dest
        \/ Deploy!Fault /\ UNCHANGED <<dest, previous>>
    BY <1>13 DEF Deploy!Unplace
  <2>4. CASE dest = Deploy!Nothing /\ dest' = previous
    <3>1. Bare
      BY <2>1, <2>4 DEF Bare, Whole
    <3> QED
      BY <1>3, <2>2, <2>4, <3>1 DEF Whole
  <2>5. CASE ~(setup.moved /\ dest = Deploy!Nothing) /\ dest' = dest
    BY <1>4, <1>5, <2>1, <2>2, <2>5
  <2>6. CASE Deploy!Fault /\ UNCHANGED <<dest, previous>>
    <3>1. Bare /\ dest = Deploy!Nothing /\ kind = "skill"
      BY <1>4, <1>5, <2>1, <2>6
    <3>2. mishaps' >= 2 /\ setup'.at = "retidy"
      BY <1>1, <1>2, <2>1, <2>2, <2>6, <3>1
    <3> QED
      BY <2>1, <2>2, <2>6, <3>1, <3>2 DEF BareIsMoved, Whole, Deploy!At
  <2> QED
    BY <2>3, <2>4, <2>5, <2>6
<1>14. CASE Deploy!Drop \/ Deploy!Record \/ Deploy!Save
  <2>1. setup.at \in {"drop", "record", "save"} /\ UNCHANGED <<dest, kind, owned>>
    BY <1>14 DEF Deploy!Drop, Deploy!Record, Deploy!Save, Deploy!At
  <2>2. ~Bare
    BY <2>1 DEF BareIsMoved, Deploy!At
  <2> QED
    BY <1>4, <1>5, <2>1, <2>2
<1>15. CASE Deploy!Link \/ Deploy!Clear \/ Deploy!Make \/ Deploy!Copy
  <2>1. kind' = kind /\ setup.at \in {"link", "clear", "make", "copy"}
    BY <1>15 DEF Deploy!Link, Deploy!Clear, Deploy!Make, Deploy!Copy, Deploy!At
  <2>2. kind' \notin {"none", "skill"}
    BY <2>1 DEF EachItsSteps, NoneIsIdle, Deploy!At
  <2> QED
    BY <1>3, <2>2
<1>16. CASE Deploy!Killed
  <2> SUFFICES ASSUME Bare'
               PROVE  BareIsMoved'
    BY <1>5
  <2>1. ~Deploy!At("idle") /\ setup' = Deploy!Idle /\ Deploy!Fault /\ UNCHANGED <<kind, owned, previous>>
    BY <1>16 DEF Deploy!Killed
  <2>2. kind = "skill"
    BY <2>1 DEF Bare, NoneIsIdle
  <2>3. dest' = dest
    BY <1>16, <2>2 DEF Deploy!Killed, EachItsSteps, Deploy!At
  <2>4. Bare /\ dest = Deploy!Nothing
    BY <1>4, <1>5, <2>1, <2>3
  <2>5. mishaps <= 1 /\ mishaps' >= 1
    BY <1>2, <2>1
  <2>6. Whole(previous)
    BY <1>2, <2>1, <2>4, <2>5 DEF BareIsMoved, Deploy!At
  <2>7. setup'.at = "idle"
    BY <2>1 DEF Deploy!Idle
  <2> QED
    BY <2>1, <2>2, <2>3, <2>4, <2>5, <2>6, <2>7 DEF BareIsMoved, Whole, Deploy!At
<1>17. CASE Deploy!Edit
  <2>1. dest'.own = edits' /\ edits' # 0
    BY <1>17 DEF Deploy!Edit, Deploy!Edited, Deploy!Content, InstallTypes
  <2>2. Whole(dest)'
    BY <2>1 DEF Whole, Deploy!Nothing, Deploy!Partial, Deploy!Content
  <2> QED
    BY <1>3, <2>2
<1>18. CASE Deploy!Remove
  BY <1>3, <1>18 DEF Deploy!Remove
<1>19. CASE Deploy!Pull \/ UNCHANGED Deploy!vars
  <2>1. UNCHANGED <<kind, dest, previous, setup, owned, mishaps>>
    BY <1>19 DEF Deploy!Pull, Deploy!vars
  <2> QED
    BY <2>1 DEF BareIsMoved, Bare, Whole, Deploy!At
<1> QED
  BY <1>6, <1>7, <1>8, <1>9, <1>10, <1>11, <1>12, <1>13, <1>14, <1>15, <1>16, <1>17, <1>18,
     <1>19 DEF Deploy!Next

(* At most two kills and failures of steps leave the user with the old     *)
(* skill or the new one (install_skills(), _reconcile_scratch()); the      *)
(* third can be the one too many.                                          *)
THEOREM SkillOutlivesTwoFailures ==
  ASSUME InstallConstants, MaxMishaps <= 2
  PROVE  Deploy!Spec => []NeverNeither
<1>1. Deploy!Init => SkillInv
  <2>1. Deploy!Init => InstallTypes
    BY AnswerInit DEF AnswerInv
  <2>2. Deploy!Init => EachItsSteps /\ NoneIsIdle /\ StagedIsWhole /\ BareIsMoved
    BY DEF Deploy!Init, Deploy!Idle, EachItsSteps, NoneIsIdle, StagedIsWhole, BareIsMoved, Bare,
       Deploy!At
  <2> QED
    BY <2>1, <2>2 DEF SkillInv
<1>2. SkillInv /\ [Deploy!Next]_Deploy!vars => SkillInv'
  BY TypesKeep, StepsKeep, NoneKeeps, StagedKeeps, BareKeeps DEF SkillInv
<1>3. SkillInv => NeverNeither
  <2>1. ASSUME SkillInv, kind = "skill", owned, ~Whole(dest)
        PROVE  Whole(previous) \/ ((Deploy!At("aside") \/ Deploy!At("place")) /\ Whole(staged))
    BY <2>1 DEF SkillInv, BareIsMoved, Bare, StagedIsWhole, Deploy!At
  <2> QED
    BY <2>1 DEF NeverNeither, Deploy!NeverNeither, Whole
<1> QED
  BY <1>1, <1>2, <1>3, PTL DEF Deploy!Spec

-----------------------------------------------------------------------------
(***************************************************************************)
(* What is filed of what is said, for any number of turns and days, runs   *)
(* that overlap with the session and are killed, and lines that are lost:  *)
(* nothing a peer says is filed as conversation, and a message has two     *)
(* rows only if a run missed its line, or if it is a launch prompt with    *)
(* mail, which the two sources do not quote alike.                         *)
(*                                                                         *)
(* What carries both: a line is in one file, after its prompt; a turn is   *)
(* in the session store when all its lines are written; and a run that has *)
(* read the spool knows every line but those it missed.                    *)
(***************************************************************************)

(* Assumed of the constants: "no row" is no row.                           *)
TalkConstants == MaxTurns \in Nat /\ MaxDays \in Nat \ {0} /\ None \notin Talk!Row

TalkTypes ==
  /\ turn \in [n : 0 .. MaxTurns, left : SUBSET {"reply", "turn"}]
  /\ turn.n = 0 => turn.left = {}
  /\ kinds \in [Talk!Turns -> Talk!Kinds \union {None}]
  /\ \A t \in 1 .. turn.n : kinds[t] \in Talk!Kinds
  /\ spool \in [Talk!Days -> Seq(Talk!Said)] /\ day \in Talk!Days
  /\ sessions \subseteq Talk!Turns
  /\ messages \in [Talk!Keys -> Talk!Row \union {None}]
  /\ run \in [at : {"idle", "spool", "store"}, missed : SUBSET Talk!Said]
  /\ taken \subseteq Talk!Said

Spooled(x) == \E d \in Talk!Days : x \in Talk!Ids(spool[d])

(* A line is written once what it holds was said, and the session store    *)
(* has a turn when nothing more will be said in it.                        *)
SaidBefore ==
  /\ \A x \in Talk!Said : Spooled(x) =>
       x[1] <= turn.n /\ (x = <<turn.n, "out">> => "reply" \notin turn.left)
  /\ \A t \in sessions : t <= turn.n /\ (t = turn.n => turn.left = {})

(* Turns follow one another, and so do the prompt and the reply of one.    *)
Before(x, y) == x[1] < y[1] \/ (x[1] = y[1] /\ x[2] = "in" /\ y[2] = "out")

SpoolOrdered ==
  /\ \A d \in Talk!Days : \A i, j \in DOMAIN spool[d] : i < j => Before(spool[d][i], spool[d][j])
  /\ \A x \in Talk!Said : \A d, e \in Talk!Days : x \in Talk!Ids(spool[d]) /\ x \in Talk!Ids(spool[e]) => d = e

(* Where the rows come from.                                               *)
RowsFromSources ==
  \A t \in Talk!Turns, dir \in Talk!Directions :
    /\ messages[<<"hook", t, dir>>] # None => Spooled(<<t, dir>>)
    /\ messages[<<"store", t, dir>>] # None =>
         t \in sessions /\ (Spooled(<<t, dir>>) => <<t, dir>> \in taken \/ Talk!Stripped(t, dir))

(* What a run that is past the spool has not filed.                        *)
RunSawSpool ==
  run.at = "store" =>
    \A t \in Talk!Turns, dir \in Talk!Directions : Spooled(<<t, dir>>) =>
      \/ messages[<<"hook", t, dir>>] # None
      \/ dir = "in" /\ kinds[t] = "peer"
      \/ <<t, dir>> \in run.missed

TalkInv ==
  /\ TalkTypes
  /\ SaidBefore
  /\ SpoolOrdered
  /\ RowsFromSources
  /\ RunSawSpool
  /\ Talk!PeersKeptApart

------------------------------------------------------------------------------
LEMMA LatestIsLast ==
  ASSUME NEW n \in Nat, NEW S \in SUBSET (0 .. n), S # {}
  PROVE  Talk!Latest(S) \in S /\ \A m \in S : m <= Talk!Latest(S)
<1> DEFINE R == {ss \in Nat \X Nat : ss[1] < ss[2]}
           D == {n - m : m \in S}
<1>1. IsWellFoundedOn(R, Nat)
  BY NatLessThanWellFounded DEF OpToRel
<1>2. ASSUME NEW x \in Nat, NEW y \in Nat, <<y, x>> \notin R
      PROVE  x <= y
  <2>1. <<y, x>> \in Nat \X Nat
    OBVIOUS
  <2>2. ~ (<<y, x>>[1] < <<y, x>>[2])
    BY <1>2, <2>1
  <2> QED
    BY <2>2
<1>3. D \in SUBSET Nat /\ D # {}
  <2>1. \A m \in S : n - m \in Nat
    OBVIOUS
  <2>2. PICK m \in S : TRUE
    OBVIOUS
  <2> QED
    BY <2>1, <2>2
<1> HIDE DEF R
<1>4. \E x \in D : \A y \in D : <<y, x>> \notin R
  <2> HIDE DEF D
  <2> QED
    BY <1>1, <1>3, WFMin
<1>5. \E x \in D : \A y \in D : x <= y
  BY <1>2, <1>3, <1>4
<1>6. \E k \in S : \A m \in S : m <= k
  <2>1. PICK k \in S : \A y \in D : n - k <= y
    BY <1>5
  <2>2. \A m \in S : n - k <= n - m
    BY <2>1
  <2> QED
    BY <2>2
<1> QED
  BY <1>6 DEF Talk!Latest

(* What a file of the spool stands for.                                    *)
LEMMA FileRowsAre ==
  ASSUME NEW lines \in Seq(Talk!Said)
  PROVE  /\ DOMAIN Talk!FileRows(lines) =
              {<<"hook", x[1], x[2]>> : x \in {y \in Talk!Ids(lines) : y[2] = "out" \/ kinds[y[1]] # "peer"}}
         /\ \A x \in Talk!Ids(lines) : x[2] = "out" \/ kinds[x[1]] # "peer" =>
              \E k \in DOMAIN lines :
                /\ lines[k] = x
                /\ Talk!FileRows(lines)[<<"hook", x[1], x[2]>>] =
                     IF x[2] = "in" THEN Talk!PromptRow(x[1]) ELSE Talk!ReplyRow(Talk!Answering(lines, k))
<1> DEFINE kept == {k \in DOMAIN lines : lines[k][2] = "out" \/ kinds[lines[k][1]] # "peer"}
           keys == {<<"hook", lines[k][1], lines[k][2]>> : k \in kept}
           index(key) == CHOOSE i \in kept : lines[i] = <<key[2], key[3]>>
<1>1. Talk!FileRows(lines) =
        [key \in keys |-> IF key[3] = "in" THEN Talk!PromptRow(key[2])
                          ELSE Talk!ReplyRow(Talk!Answering(lines, index(key)))]
  BY DEF Talk!FileRows
<1>2. DOMAIN lines = 1 .. Len(lines) /\ \A k \in DOMAIN lines : lines[k] \in Talk!Said
  OBVIOUS
<1>3. keys = {<<"hook", x[1], x[2]>> :
                x \in {y \in Talk!Ids(lines) : y[2] = "out" \/ kinds[y[1]] # "peer"}}
  BY DEF Talk!Ids
<1>4. ASSUME NEW x \in Talk!Ids(lines), x[2] = "out" \/ kinds[x[1]] # "peer"
      PROVE  \E k \in DOMAIN lines :
                /\ lines[k] = x
                /\ Talk!FileRows(lines)[<<"hook", x[1], x[2]>>] =
                     IF x[2] = "in" THEN Talk!PromptRow(x[1]) ELSE Talk!ReplyRow(Talk!Answering(lines, k))
  <2> DEFINE key == <<"hook", x[1], x[2]>>
  <2>1. PICK i \in kept : lines[i] = x
    BY <1>4 DEF Talk!Ids
  <2>2. x \in Talk!Said /\ x = <<x[1], x[2]>>
    BY <1>2, <2>1 DEF Talk!Said
  <2>3. key \in keys /\ key[2] = x[1] /\ key[3] = x[2]
    BY <1>3, <1>4
  <2>4. index(key) \in kept /\ lines[index(key)] = x
    BY <2>1, <2>2, <2>3
  <2>5. Talk!FileRows(lines)[key] = IF x[2] = "in" THEN Talk!PromptRow(x[1])
                               ELSE Talk!ReplyRow(Talk!Answering(lines, index(key)))
    BY <1>1, <2>3
  <2> QED
    BY <2>4, <2>5
<1> QED
  BY <1>1, <1>3, <1>4

LEMMA FileValuesAre ==
  ASSUME NEW lines \in Seq(Talk!Said), NEW x \in Talk!Ids(lines), x[2] = "out" \/ kinds[x[1]] # "peer"
  PROVE  \E k \in DOMAIN lines :
           /\ lines[k] = x
           /\ Talk!FileRows(lines)[<<"hook", x[1], x[2]>>] =
                IF x[2] = "in" THEN Talk!PromptRow(x[1]) ELSE Talk!ReplyRow(Talk!Answering(lines, k))
<1> DEFINE row(k) == IF x[2] = "in" THEN Talk!PromptRow(x[1]) ELSE Talk!ReplyRow(Talk!Answering(lines, k))
<1> QED
  BY FileRowsAre

(* The rows that a run files from the session store.                       *)
LEMMA StoreRowsAre ==
  ASSUME TalkTypes
  PROVE  /\ \A key \in DOMAIN Talk!StoreRows :
              \E t \in sessions, dir \in Talk!Directions :
                /\ key = <<"store", t, dir>>
                /\ ~Talk!Covered(t, dir)
                /\ dir = "out" \/ kinds[t] # "peer"
                /\ Talk!StoreRows[key] = IF dir = "in" THEN Talk!PromptRow(t) ELSE Talk!ReplyRow(Talk!Channel(t))
<1> DEFINE kept == {m \in sessions \X Talk!Directions :
                      /\ ~Talk!Covered(m[1], m[2])
                      /\ m[2] = "out" \/ kinds[m[1]] # "peer"}
           keys == {<<"store", said[1], said[2]>> : said \in kept}
<1>1. Talk!StoreRows =
        [key \in keys |-> IF key[3] = "in" THEN Talk!PromptRow(key[2]) ELSE Talk!ReplyRow(Talk!Channel(key[2]))]
  BY DEF Talk!StoreRows
<1>2. ASSUME NEW key \in keys
      PROVE  \E t \in sessions, dir \in Talk!Directions :
                /\ key = <<"store", t, dir>>
                /\ ~Talk!Covered(t, dir)
                /\ dir = "out" \/ kinds[t] # "peer"
                /\ Talk!StoreRows[key] = IF dir = "in" THEN Talk!PromptRow(t) ELSE Talk!ReplyRow(Talk!Channel(t))
  <2>1. PICK m \in kept : key = <<"store", m[1], m[2]>>
    OBVIOUS
  <2>2. m[1] \in sessions /\ m[2] \in Talk!Directions /\ key[2] = m[1] /\ key[3] = m[2]
    BY <2>1
  <2>3. Talk!StoreRows[key] = IF m[2] = "in" THEN Talk!PromptRow(m[1]) ELSE Talk!ReplyRow(Talk!Channel(m[1]))
    BY <1>1, <2>2
  <2> QED
    BY <2>1, <2>2, <2>3
<1> QED
  BY <1>1, <1>2

LEMMA RowKinds ==
  /\ \A t : kinds[t] \in Talk!Kinds => Talk!PromptRow(t) \in Talk!Row
  /\ \A c \in {"human-agent", "agent-agent"} : Talk!ReplyRow(c) \in Talk!Row /\ Talk!ReplyRow(c).channel = c
  /\ \A t : Talk!Channel(t) \in {"human-agent", "agent-agent"}
  /\ \A lines, k : Talk!Answering(lines, k) \in {"human-agent", "agent-agent"}
<1>1. \A t : kinds[t] \in Talk!Kinds => Talk!PromptRow(t) \in Talk!Row
  BY DEF Talk!PromptRow, Talk!Row, Talk!Actors
<1>2. \A c \in {"human-agent", "agent-agent"} : Talk!ReplyRow(c) \in Talk!Row /\ Talk!ReplyRow(c).channel = c
  BY DEF Talk!ReplyRow, Talk!Row, Talk!Actors
<1>3. \A t : Talk!Channel(t) \in {"human-agent", "agent-agent"}
  BY DEF Talk!Channel
<1>4. \A lines, k : Talk!Answering(lines, k) \in {"human-agent", "agent-agent"}
  BY <1>3 DEF Talk!Answering, Talk!PriorChannel
<1> QED
  BY <1>1, <1>2, <1>3, <1>4

(* A line that is a row's, as a run files it.                              *)
FiledAs(key, row, d, k) ==
  LET x == spool[d][k] IN
  /\ key = <<"hook", x[1], x[2]>>
  /\ x[2] = "out" \/ kinds[x[1]] # "peer"
  /\ row = IF x[2] = "in" THEN Talk!PromptRow(x[1]) ELSE Talk!ReplyRow(Talk!Answering(spool[d], k))

LEMMA SpoolFiles ==
  ASSUME TalkConstants, TalkTypes, Talk!IngestSpool, NEW key \in Talk!Keys
  PROVE  \/ /\ messages'[key] = messages[key]
            /\ \A d \in Talk!Days : key \in DOMAIN Talk!FileRows(spool[d]) =>
                                    Talk!Ids(spool[d]) \subseteq run'.missed
         \/ \E d \in Talk!Days : \E k \in DOMAIN spool[d] : FiledAs(key, messages'[key], d, k)
<1>0. PICK opened \in SUBSET Talk!Days :
        /\ messages' = [k \in Talk!Keys |->
                          IF Talk!Filing(k, opened) = {} THEN messages[k]
                          ELSE Talk!FileRows(spool[Talk!Latest(Talk!Filing(k, opened))])[k]]
        /\ run' = [at |-> "store", missed |-> UNION {Talk!Ids(spool[d]) : d \in Talk!Days \ opened}]
  BY DEF Talk!IngestSpool
<1> DEFINE filing == Talk!Filing(key, opened)
<1>1. messages'[key] = IF filing = {} THEN messages[key]
                       ELSE Talk!FileRows(spool[Talk!Latest(filing)])[key]
  BY <1>0
<1>2. CASE filing = {}
  <2>1. ASSUME NEW d \in Talk!Days, key \in DOMAIN Talk!FileRows(spool[d])
        PROVE  Talk!Ids(spool[d]) \subseteq run'.missed
    <3>1. d \in Talk!Days \ opened
      BY <1>2, <2>1 DEF Talk!Filing
    <3> QED
      BY <1>0, <3>1
  <2> QED
    BY <1>1, <1>2, <2>1
<1>3. CASE filing # {}
  <2> DEFINE d == Talk!Latest(filing)
  <2>1. filing \in SUBSET (0 .. MaxDays) /\ MaxDays \in Nat
    <3>1. filing \subseteq Talk!Days
      BY <1>0 DEF Talk!Filing
    <3>2. Talk!Days \subseteq 0 .. MaxDays /\ MaxDays \in Nat
      BY DEF Talk!Days, TalkConstants
    <3> QED
      BY <3>1, <3>2
  <2>2. d \in filing
    BY <1>3, <2>1, LatestIsLast
  <2>3. d \in Talk!Days /\ key \in DOMAIN Talk!FileRows(spool[d]) /\ spool[d] \in Seq(Talk!Said)
    BY <1>0, <2>2 DEF Talk!Filing, TalkTypes
  <2>4. messages'[key] = Talk!FileRows(spool[d])[key]
    BY <1>1, <1>3
  <2> HIDE DEF d
  <2>5. PICK x \in Talk!Ids(spool[d]) : key = <<"hook", x[1], x[2]>> /\ (x[2] = "out" \/ kinds[x[1]] # "peer")
    <3>1. DOMAIN Talk!FileRows(spool[d]) =
            {<<"hook", x[1], x[2]>> :
               x \in {y \in Talk!Ids(spool[d]) : y[2] = "out" \/ kinds[y[1]] # "peer"}}
      BY <2>3, FileRowsAre
    <3> QED
      BY <2>3, <3>1
  <2>6. PICK k \in DOMAIN spool[d] :
          /\ spool[d][k] = x
          /\ Talk!FileRows(spool[d])[<<"hook", x[1], x[2]>>] =
               IF x[2] = "in" THEN Talk!PromptRow(x[1]) ELSE Talk!ReplyRow(Talk!Answering(spool[d], k))
    BY <2>3, <2>5, FileValuesAre
  <2>7. FiledAs(key, messages'[key], d, k)
    BY <2>4, <2>5, <2>6 DEF FiledAs
  <2> QED
    BY <2>3, <2>7
<1> QED
  BY <1>2, <1>3

LEMMA LinesAreSaid ==
  ASSUME TalkTypes, SaidBefore, NEW d \in Talk!Days, NEW k \in DOMAIN spool[d]
  PROVE  /\ spool[d][k] \in Talk!Said /\ spool[d][k][1] \in 1 .. turn.n /\ spool[d][k][2] \in Talk!Directions
         /\ spool[d][k] = <<spool[d][k][1], spool[d][k][2]>>
         /\ kinds[spool[d][k][1]] \in Talk!Kinds
         /\ Spooled(spool[d][k])
<1>1. spool[d] \in Seq(Talk!Said) /\ spool[d][k] \in Talk!Said
  BY DEF TalkTypes
<1>2. Spooled(spool[d][k])
  BY DEF Spooled, Talk!Ids
<1>3. spool[d][k][1] \in 1 .. turn.n
  BY <1>1, <1>2 DEF SaidBefore, Talk!Said, Talk!Turns
<1> QED
  BY <1>1, <1>2, <1>3 DEF Talk!Said, TalkTypes

LEMMA SessionKinds ==
  ASSUME TalkTypes, SaidBefore, NEW t \in sessions
  PROVE  t \in 1 .. turn.n /\ t \in Talk!Turns /\ kinds[t] \in Talk!Kinds
  BY DEF TalkTypes, SaidBefore, Talk!Turns

(* A line that is appended, and what it is added to.                       *)
Spoken(x) ==
  /\ \/ Talk!Prompt /\ x = <<turn.n + 1, "in">> /\ turn' = [n |-> turn.n + 1, left |-> {"reply"}]
     \/ /\ Talk!Reply /\ x = <<turn.n, "out">> /\ "reply" \in turn.left
        /\ turn' = [turn EXCEPT !.left = {"turn"}] /\ kinds' = kinds
  /\ \/ /\ spool' = [spool EXCEPT ![day] = Append(@, x)]
        /\ run' = IF run.at = "store" THEN [run EXCEPT !.missed = @ \union {x}] ELSE run
     \/ spool' = spool /\ run' = run
  /\ UNCHANGED <<day, sessions, messages, taken>>

LEMMA SpokenAtAll ==
  ASSUME TalkConstants, TalkTypes, Talk!Prompt \/ Talk!Reply
  PROVE  \E x \in Talk!Said : Spoken(x)
<1>1. CASE Talk!Prompt
  <2>1. turn.n + 1 \in Talk!Turns
    BY <1>1 DEF Talk!Prompt, TalkTypes, Talk!Turns, TalkConstants
  <2>2. <<turn.n + 1, "in">> \in Talk!Said
    BY <2>1 DEF Talk!Said, Talk!Directions
  <2> QED
    BY <1>1, <2>2 DEF Spoken, Talk!Prompt, Talk!Hook
<1>2. CASE Talk!Reply
  <2>1. turn.n \in Talk!Turns
    BY <1>2 DEF Talk!Reply, TalkTypes, Talk!Turns, TalkConstants
  <2>2. <<turn.n, "out">> \in Talk!Said
    BY <2>1 DEF Talk!Said, Talk!Directions
  <2> QED
    BY <1>2, <2>2 DEF Spoken, Talk!Reply, Talk!Hook
<1> QED
  BY <1>1, <1>2

LEMMA TalkTypesKeep ==
  ASSUME TalkConstants, TalkTypes, SaidBefore, [Talk!Next]_Talk!vars
  PROVE  TalkTypes'
<1>1. CASE Talk!Begin \/ Talk!Killed \/ Talk!Midnight \/ UNCHANGED Talk!vars
  <2>1. UNCHANGED <<turn, kinds, spool, sessions, messages, taken>>
    BY <1>1 DEF Talk!Begin, Talk!Killed, Talk!Midnight, Talk!vars
  <2>2. day' \in Talk!Days
    BY <1>1 DEF Talk!Begin, Talk!Killed, Talk!Midnight, Talk!vars, TalkTypes, Talk!Days,
       TalkConstants
  <2>3. run' \in [at : {"idle", "spool", "store"}, missed : SUBSET Talk!Said]
    BY <1>1 DEF Talk!Begin, Talk!Killed, Talk!Midnight, Talk!vars, TalkTypes, Talk!NoRun
  <2> QED
    BY <2>1, <2>2, <2>3 DEF TalkTypes
<1>2. CASE Talk!IngestSpool
  <2>1. \A key \in Talk!Keys : messages'[key] \in Talk!Row \union {None}
    <3> TAKE key \in Talk!Keys
    <3>1. CASE messages'[key] = messages[key]
      BY <3>1 DEF TalkTypes
    <3>2. ASSUME NEW d \in Talk!Days, NEW k \in DOMAIN spool[d], FiledAs(key, messages'[key], d, k)
          PROVE  messages'[key] \in Talk!Row
      BY <3>2, RowKinds, LinesAreSaid DEF FiledAs
    <3> QED
      BY <1>2, <3>1, <3>2, SpoolFiles
  <2>2. messages' \in [Talk!Keys -> Talk!Row \union {None}]
    BY <1>2, <2>1 DEF Talk!IngestSpool
  <2>3. run' \in [at : {"idle", "spool", "store"}, missed : SUBSET Talk!Said]
    <3>1. PICK opened \in SUBSET Talk!Days :
            run' = [at |-> "store", missed |-> UNION {Talk!Ids(spool[d]) : d \in Talk!Days \ opened}]
      BY <1>2 DEF Talk!IngestSpool
    <3>2. \A d \in Talk!Days : Talk!Ids(spool[d]) \subseteq Talk!Said
      BY DEF TalkTypes, Talk!Ids
    <3>3. UNION {Talk!Ids(spool[d]) : d \in Talk!Days \ opened} \subseteq Talk!Said
      BY <3>2
    <3> QED
      BY <3>1, <3>3
  <2> QED
    BY <1>2, <2>2, <2>3 DEF Talk!IngestSpool, TalkTypes
<1>3. CASE Talk!SeedSessionStore
  <2>1. \A key \in DOMAIN Talk!StoreRows : Talk!StoreRows[key] \in Talk!Row
    BY StoreRowsAre, SessionKinds, RowKinds
  <2>2. messages' \in [Talk!Keys -> Talk!Row \union {None}]
    BY <1>3, <2>1 DEF Talk!SeedSessionStore, Talk!Recorded, TalkTypes
  <2>3. taken' \subseteq Talk!Said
    BY <1>3 DEF Talk!SeedSessionStore, TalkTypes
  <2>4. run' \in [at : {"idle", "spool", "store"}, missed : SUBSET Talk!Said]
    BY <1>3 DEF Talk!SeedSessionStore, Talk!NoRun
  <2> QED
    BY <1>3, <2>2, <2>3, <2>4 DEF Talk!SeedSessionStore, TalkTypes
<1>4. CASE Talk!Prompt \/ Talk!Reply
  <2>1. PICK x \in Talk!Said : Spoken(x)
    BY <1>4, SpokenAtAll
  <2>2. spool' \in [Talk!Days -> Seq(Talk!Said)]
    <3>1. \A s \in Seq(Talk!Said) : Append(s, x) \in Seq(Talk!Said)
      OBVIOUS
    <3>2. spool \in [Talk!Days -> Seq(Talk!Said)] /\ day \in Talk!Days
      BY DEF TalkTypes
    <3>3. [spool EXCEPT ![day] = Append(@, x)] \in [Talk!Days -> Seq(Talk!Said)]
      BY <3>1, <3>2
    <3> QED
      BY <2>1, <3>2, <3>3 DEF Spoken
  <2>3. run' \in [at : {"idle", "spool", "store"}, missed : SUBSET Talk!Said]
    <3>1. run' = run \/ run' = [run EXCEPT !.missed = @ \union {x}]
      BY <2>1 DEF Spoken
    <3> QED
      BY <3>1 DEF TalkTypes
  <2>4. CASE Talk!Prompt
    <3>1. turn.n + 1 \in 1 .. MaxTurns /\ turn.n \in Nat
      BY <2>4 DEF Talk!Prompt, TalkTypes, TalkConstants
    <3>2. turn' = [n |-> turn.n + 1, left |-> {"reply"}]
      BY <2>4 DEF Talk!Prompt
    <3>3. PICK who \in Talk!Kinds : kinds' = [kinds EXCEPT ![turn.n + 1] = who]
      BY <2>4 DEF Talk!Prompt
    <3>4. kinds' \in [Talk!Turns -> Talk!Kinds \union {None}]
      BY <3>3 DEF TalkTypes
    <3>5. \A t \in 1 .. turn'.n : kinds'[t] \in Talk!Kinds
      BY <3>1, <3>2, <3>3 DEF TalkTypes, Talk!Turns
    <3> QED
      BY <2>1, <2>2, <2>3, <3>1, <3>2, <3>4, <3>5 DEF TalkTypes, Spoken
  <2>5. CASE Talk!Reply
    <3>1. turn' = [turn EXCEPT !.left = {"turn"}] /\ kinds' = kinds /\ turn.n # 0
      BY <2>5 DEF Talk!Reply, TalkTypes
    <3> QED
      BY <2>1, <2>2, <2>3, <3>1 DEF TalkTypes, Spoken
  <2> QED
    BY <1>4, <2>4, <2>5
<1>5. CASE Talk!WriteTurn
  <2>1. turn.n \in Talk!Turns
    BY <1>5 DEF Talk!WriteTurn, TalkTypes, Talk!Turns, TalkConstants
  <2> QED
    BY <1>5, <2>1 DEF Talk!WriteTurn, TalkTypes
<1> QED
  BY <1>1, <1>2, <1>3, <1>4, <1>5 DEF Talk!Next

LEMMA SpokenIsNew ==
  ASSUME TalkConstants, TalkTypes, SaidBefore, NEW x \in Talk!Said, Spoken(x)
  PROVE  /\ ~Spooled(x) /\ x[1] \notin sessions
         /\ \A t \in Talk!Turns : Spooled(<<t, "in">>) \/ Spooled(<<t, "out">>) \/ t \in sessions
                               => kinds'[t] = kinds[t] /\ t \in 1 .. turn.n
         /\ kinds'[x[1]] \in Talk!Kinds
<1>1. turn.n \in Nat /\ sessions \subseteq Talk!Turns
  BY DEF TalkTypes
<1>2. CASE Talk!Prompt
  <2>1. x[1] = turn.n + 1 /\ turn.n + 1 \in Talk!Turns /\ turn.left = {}
    BY <1>1, <1>2 DEF Spoken, Talk!Prompt, Talk!Reply, Talk!Turns, Talk!Said
  <2>2. ~Spooled(x) /\ x[1] \notin sessions
    BY <1>1, <2>1 DEF SaidBefore
  <2>3. \A t \in 1 .. turn.n : kinds'[t] = kinds[t]
    BY <1>1, <1>2 DEF Talk!Prompt, TalkTypes, Talk!Turns
  <2>4. kinds'[x[1]] \in Talk!Kinds
    BY <1>2, <2>1 DEF Talk!Prompt, TalkTypes
  <2>5. \A t \in Talk!Turns : Spooled(<<t, "in">>) \/ Spooled(<<t, "out">>) \/ t \in sessions
          => t \in 1 .. turn.n
    BY <1>1 DEF SaidBefore, Talk!Turns, Talk!Said, Talk!Directions
  <2> QED
    BY <2>2, <2>3, <2>4, <2>5
<1>3. CASE ~Talk!Prompt
  <2>1. x = <<turn.n, "out">> /\ "reply" \in turn.left /\ kinds' = kinds
    BY <1>3 DEF Spoken
  <2>2. ~Spooled(x) /\ x[1] \notin sessions
    BY <1>1, <2>1 DEF SaidBefore
  <2>3. turn.n \in 1 .. turn.n /\ kinds'[x[1]] \in Talk!Kinds
    BY <1>1, <2>1 DEF TalkTypes
  <2>4. \A t \in Talk!Turns : Spooled(<<t, "in">>) \/ Spooled(<<t, "out">>) \/ t \in sessions
          => t \in 1 .. turn.n
    BY <1>1 DEF SaidBefore, Talk!Turns, Talk!Said, Talk!Directions
  <2> QED
    BY <2>1, <2>2, <2>3, <2>4
<1> QED
  BY <1>2, <1>3

LEMMA SpoolGrows ==
  ASSUME TalkConstants, TalkTypes, NEW x \in Talk!Said, Spoken(x)
  PROVE  /\ \A d \in Talk!Days : Talk!Ids(spool[d]) \subseteq Talk!Ids(spool'[d])
         /\ \A d \in Talk!Days : Talk!Ids(spool'[d]) \subseteq Talk!Ids(spool[d]) \union {x}
         /\ \A d \in Talk!Days : x \in Talk!Ids(spool'[d]) => d = day \/ x \in Talk!Ids(spool[d])
         /\ \A y : Spooled(y) => (Spooled(y))'
         /\ \A y : (Spooled(y))' => Spooled(y) \/ y = x
<1>1. CASE spool' = spool
  BY <1>1 DEF Spooled
<1>2. CASE spool' = [spool EXCEPT ![day] = Append(@, x)]
  <2>1. spool \in [Talk!Days -> Seq(Talk!Said)] /\ day \in Talk!Days
    BY DEF TalkTypes
  <2>2. \A d \in Talk!Days : d # day => spool'[d] = spool[d]
    BY <1>2, <2>1
  <2>3. spool'[day] = Append(spool[day], x) /\ spool[day] \in Seq(Talk!Said)
    BY <1>2, <2>1
  <2>4. Talk!Ids(spool'[day]) = Talk!Ids(spool[day]) \union {x}
    <3>1. /\ DOMAIN Append(spool[day], x) = 1 .. Len(spool[day]) + 1
          /\ \A k \in 1 .. Len(spool[day]) : Append(spool[day], x)[k] = spool[day][k]
          /\ Append(spool[day], x)[Len(spool[day]) + 1] = x
          /\ DOMAIN spool[day] = 1 .. Len(spool[day]) /\ Len(spool[day]) \in Nat
      BY <2>3
    <3>2. 1 .. Len(spool[day]) + 1 = (1 .. Len(spool[day])) \union {Len(spool[day]) + 1}
      BY <3>1
    <3>3. Talk!Ids(Append(spool[day], x)) \subseteq Talk!Ids(spool[day]) \union {x}
      BY <3>1, <3>2 DEF Talk!Ids
    <3>4. Talk!Ids(spool[day]) \union {x} \subseteq Talk!Ids(Append(spool[day], x))
      BY <3>1, <3>2 DEF Talk!Ids
    <3> QED
      BY <2>3, <3>3, <3>4
  <2>5. /\ \A d \in Talk!Days : Talk!Ids(spool[d]) \subseteq Talk!Ids(spool'[d])
        /\ \A d \in Talk!Days : Talk!Ids(spool'[d]) \subseteq Talk!Ids(spool[d]) \union {x}
        /\ \A d \in Talk!Days : x \in Talk!Ids(spool'[d]) => d = day \/ x \in Talk!Ids(spool[d])
    BY <2>2, <2>4
  <2> QED
    BY <2>5 DEF Spooled
<1> QED
  BY <1>1, <1>2 DEF Spoken

LEMMA SaidKeeps ==
  ASSUME TalkConstants, TalkTypes, SaidBefore, [Talk!Next]_Talk!vars
  PROVE  SaidBefore'
<1>1. turn.n \in Nat /\ sessions \subseteq Talk!Turns
  BY DEF TalkTypes
<1>2. CASE Talk!Begin \/ Talk!IngestSpool \/ Talk!SeedSessionStore \/ Talk!Killed \/ Talk!Midnight \/ UNCHANGED Talk!vars
  BY <1>2 DEF Talk!Begin, Talk!IngestSpool, Talk!SeedSessionStore, Talk!Killed, Talk!Midnight,
     Talk!vars, SaidBefore, Spooled
<1>3. CASE Talk!Prompt \/ Talk!Reply
  <2>1. PICK x \in Talk!Said : Spoken(x)
    BY <1>3, SpokenAtAll
  <2>2. \A y : (Spooled(y))' => Spooled(y) \/ y = x
    BY <2>1, SpoolGrows
  <2>3. sessions' = sessions
    BY <2>1 DEF Spoken
  <2>4. CASE Talk!Prompt
    <3>1. turn'.n = turn.n + 1 /\ turn'.left = {"reply"} /\ (x = <<turn.n + 1, "in">> \/ Talk!Reply)
      BY <2>1, <2>4 DEF Spoken, Talk!Prompt
    <3>2. turn.left = {} /\ ~Talk!Reply
      BY <2>4 DEF Talk!Prompt, Talk!Reply
    <3> QED
      BY <1>1, <2>2, <2>3, <3>1, <3>2 DEF SaidBefore, Talk!Turns, Talk!Said
  <2>5. CASE ~Talk!Prompt
    <3>1. /\ x = <<turn.n, "out">> /\ "reply" \in turn.left
          /\ turn'.n = turn.n /\ turn'.left = {"turn"}
      BY <2>1, <2>5 DEF Spoken, TalkTypes
    <3> QED
      BY <1>1, <2>2, <2>3, <3>1 DEF SaidBefore, Talk!Turns, Talk!Said
  <2> QED
    BY <2>4, <2>5
<1>4. CASE Talk!WriteTurn
  <2>1. /\ turn'.n = turn.n /\ turn'.left = {} /\ turn.left # {}
        /\ sessions' = sessions \union {turn.n} /\ spool' = spool
    BY <1>4 DEF Talk!WriteTurn, TalkTypes
  <2>2. \A y : (Spooled(y))' = Spooled(y)
    BY <2>1 DEF Spooled
  <2> QED
    BY <1>1, <2>1, <2>2 DEF SaidBefore, Talk!Turns
<1> QED
  BY <1>2, <1>3, <1>4 DEF Talk!Next

LEMMA OrderKeeps ==
  ASSUME TalkConstants, TalkTypes, SaidBefore, SpoolOrdered, [Talk!Next]_Talk!vars
  PROVE  SpoolOrdered'
<1>1. CASE Talk!Prompt \/ Talk!Reply
  <2>1. PICK x \in Talk!Said : Spoken(x)
    BY <1>1, SpokenAtAll
  <2>2. ~Spooled(x)
    BY <2>1, SpokenIsNew
  <2>3. ASSUME NEW y \in Talk!Said, NEW d \in Talk!Days, NEW e \in Talk!Days,
               y \in Talk!Ids(spool'[d]), y \in Talk!Ids(spool'[e])
        PROVE  d = e
    <3>1. CASE y = x
      BY <2>1, <2>2, <2>3, <3>1, SpoolGrows DEF Spooled
    <3>2. CASE y # x
      BY <2>1, <2>3, <3>2, SpoolGrows DEF SpoolOrdered
    <3> QED
      BY <3>1, <3>2
  <2>4. ASSUME NEW y \in Talk!Said, Spooled(y)
        PROVE  Before(y, x)
    <3>1. y[1] \in Nat /\ y[2] \in Talk!Directions /\ turn.n \in Nat /\ y[1] <= turn.n
          /\ (y = <<turn.n, "out">> => "reply" \notin turn.left)
      BY <2>4 DEF SaidBefore, Talk!Said, Talk!Turns, TalkTypes
    <3>2. y = <<y[1], y[2]>>
      BY DEF Talk!Said
    <3>3. CASE x = <<turn.n + 1, "in">>
      BY <3>1, <3>3 DEF Before
    <3>4. CASE x = <<turn.n, "out">> /\ "reply" \in turn.left
      BY <3>1, <3>2, <3>4 DEF Before, Talk!Directions
    <3> QED
      BY <2>1, <3>3, <3>4 DEF Spoken
  <2>5. ASSUME NEW d \in Talk!Days, NEW i \in DOMAIN spool'[d], NEW j \in DOMAIN spool'[d], i < j
        PROVE  Before(spool'[d][i], spool'[d][j])
    <3>1. spool[d] \in Seq(Talk!Said) /\ spool \in [Talk!Days -> Seq(Talk!Said)] /\ day \in Talk!Days
      BY DEF TalkTypes
    <3>2. CASE spool'[d] = spool[d]
      BY <2>5, <3>2 DEF SpoolOrdered
    <3>3. CASE spool'[d] = Append(spool[d], x)
      <4>1. /\ DOMAIN spool[d] = 1 .. Len(spool[d]) /\ Len(spool[d]) \in Nat
            /\ DOMAIN spool'[d] = 1 .. Len(spool[d]) + 1
            /\ \A k \in 1 .. Len(spool[d]) : spool'[d][k] = spool[d][k]
            /\ spool'[d][Len(spool[d]) + 1] = x
        BY <3>1, <3>3
      <4>2. i \in DOMAIN spool[d] /\ spool'[d][i] = spool[d][i]
        BY <2>5, <4>1
      <4>3. CASE j \in DOMAIN spool[d]
        BY <2>5, <4>1, <4>2, <4>3 DEF SpoolOrdered
      <4>4. CASE j \notin DOMAIN spool[d]
        <5>1. spool'[d][j] = x
          BY <4>1, <4>4
        <5>2. spool[d][i] \in Talk!Said /\ Spooled(spool[d][i])
          BY <3>1, <4>2 DEF Spooled, Talk!Ids
        <5> QED
          BY <2>4, <4>2, <5>1, <5>2
      <4> QED
        BY <4>3, <4>4
    <3> QED
      BY <2>1, <3>1, <3>2, <3>3 DEF Spoken
  <2> QED
    BY <2>3, <2>5 DEF SpoolOrdered
<1>2. CASE spool' = spool
  BY <1>2 DEF SpoolOrdered
<1>3. spool' = spool \/ Talk!Prompt \/ Talk!Reply
  BY DEF Talk!Next, Talk!vars, Talk!Begin, Talk!IngestSpool, Talk!SeedSessionStore, Talk!Killed,
     Talk!WriteTurn, Talk!Midnight
<1> QED
  BY <1>1, <1>2, <1>3

LEMMA RowsKeep ==
  ASSUME TalkConstants, TalkTypes, SaidBefore, RowsFromSources, RunSawSpool, [Talk!Next]_Talk!vars
  PROVE  RowsFromSources'
<1>1. CASE Talk!Begin \/ Talk!Killed \/ Talk!Midnight \/ Talk!WriteTurn \/ UNCHANGED Talk!vars
  <2>1. UNCHANGED <<messages, taken, spool, kinds>> /\ sessions \subseteq sessions'
    BY <1>1 DEF Talk!Begin, Talk!Killed, Talk!Midnight, Talk!WriteTurn, Talk!vars
  <2> QED
    BY <2>1 DEF RowsFromSources, Spooled, Talk!Stripped
<1>2. CASE Talk!IngestSpool
  <2>1. UNCHANGED <<taken, spool, sessions, kinds>>
    BY <1>2 DEF Talk!IngestSpool
  <2>2. \A y : (Spooled(y))' = Spooled(y)
    BY <2>1 DEF Spooled
  <2>3. ASSUME NEW t \in Talk!Turns, NEW dir \in Talk!Directions
        PROVE  /\ messages'[<<"hook", t, dir>>] # None => Spooled(<<t, dir>>)
               /\ messages'[<<"store", t, dir>>] = messages[<<"store", t, dir>>]
    <3>1. <<"hook", t, dir>> \in Talk!Keys /\ <<"store", t, dir>> \in Talk!Keys
      BY DEF Talk!Keys, Talk!Sources
    <3>2. ASSUME NEW d \in Talk!Days, NEW k \in DOMAIN spool[d],
                 FiledAs(<<"hook", t, dir>>, messages'[<<"hook", t, dir>>], d, k)
          PROVE  Spooled(<<t, dir>>)
      <4>1. spool[d][k] = <<spool[d][k][1], spool[d][k][2]>> /\ Spooled(spool[d][k])
        BY LinesAreSaid
      <4>2. <<"hook", t, dir>> = <<"hook", spool[d][k][1], spool[d][k][2]>>
        BY <3>2 DEF FiledAs
      <4>3. t = spool[d][k][1] /\ dir = spool[d][k][2]
        BY <4>2
      <4> QED
        BY <4>1, <4>3
    <3>3. messages'[<<"hook", t, dir>>] = messages[<<"hook", t, dir>>] \/ Spooled(<<t, dir>>)
      BY <1>2, <3>1, <3>2, SpoolFiles
    <3>4. ASSUME NEW d \in Talk!Days, NEW k \in DOMAIN spool[d],
                 FiledAs(<<"store", t, dir>>, messages'[<<"store", t, dir>>], d, k)
          PROVE  FALSE
      BY <3>4 DEF FiledAs
    <3>5. messages'[<<"store", t, dir>>] = messages[<<"store", t, dir>>]
      BY <1>2, <3>1, <3>4, SpoolFiles
    <3> QED
      BY <3>3, <3>5 DEF RowsFromSources
  <2> QED
    BY <2>1, <2>2, <2>3 DEF RowsFromSources, Talk!Stripped
<1>3. CASE Talk!SeedSessionStore
  <2>1. /\ UNCHANGED <<spool, sessions, kinds>> /\ run.at = "store" /\ taken \subseteq taken'
        /\ \A m \in run.missed : <<"store", m[1], m[2]>> \in DOMAIN Talk!StoreRows => m \in taken'
        /\ messages' = Talk!Recorded(messages, Talk!StoreRows)
    BY <1>3 DEF Talk!SeedSessionStore
  <2>2. /\ \A y : (Spooled(y))' = Spooled(y)
        /\ \A key \in Talk!Keys : messages'[key] = IF key \in DOMAIN Talk!StoreRows THEN Talk!StoreRows[key]
                                             ELSE messages[key]
    <3>1. \A y : (Spooled(y))' = Spooled(y)
      BY <2>1 DEF Spooled
    <3>2. \A key \in Talk!Keys : messages'[key] = IF key \in DOMAIN Talk!StoreRows THEN Talk!StoreRows[key]
                                            ELSE messages[key]
      <4>1. messages' = Talk!Recorded(messages, Talk!StoreRows)
        BY <2>1
      <4>2. \A filed, new : \A key \in Talk!Keys :
              Talk!Recorded(filed, new)[key] = IF key \in DOMAIN new THEN new[key] ELSE filed[key]
        BY DEF Talk!Recorded
      <4> QED
        BY <4>1, <4>2
    <3> QED
      BY <3>1, <3>2
  <2>3. ASSUME NEW t \in Talk!Turns, NEW dir \in Talk!Directions
        PROVE  /\ messages'[<<"hook", t, dir>>] # None => Spooled(<<t, dir>>)
               /\ messages'[<<"store", t, dir>>] # None =>
                    t \in sessions /\ (Spooled(<<t, dir>>) => <<t, dir>> \in taken' \/ Talk!Stripped(t, dir))
    <3>1. <<"hook", t, dir>> \in Talk!Keys /\ <<"store", t, dir>> \in Talk!Keys
      BY DEF Talk!Keys, Talk!Sources
    <3>2. <<"hook", t, dir>> \notin DOMAIN Talk!StoreRows
      BY StoreRowsAre
    <3>3. messages'[<<"hook", t, dir>>] = messages[<<"hook", t, dir>>]
      BY <2>2, <3>1, <3>2
    <3>4. CASE <<"store", t, dir>> \notin DOMAIN Talk!StoreRows
      <4>1. messages'[<<"store", t, dir>>] = messages[<<"store", t, dir>>]
        BY <2>2, <3>1, <3>4
      <4> QED
        BY <2>1, <3>3, <4>1 DEF RowsFromSources
    <3>5. CASE <<"store", t, dir>> \in DOMAIN Talk!StoreRows
      <4>1. PICK t1 \in sessions, dir1 \in Talk!Directions :
              /\ <<"store", t, dir>> = <<"store", t1, dir1>>
              /\ ~Talk!Covered(t1, dir1)
              /\ dir1 = "out" \/ kinds[t1] # "peer"
        BY <3>5, StoreRowsAre
      <4>2. t = t1 /\ dir = dir1
        BY <4>1
      <4>3. /\ t \in sessions /\ (dir = "out" \/ kinds[t] # "peer")
            /\ messages[<<"hook", t, dir>>] = None \/ Talk!Stripped(t, dir)
        BY <4>1, <4>2 DEF Talk!Covered
      <4>4. Spooled(<<t, dir>>) => <<t, dir>> \in run.missed \/ Talk!Stripped(t, dir)
        BY <2>1, <4>3 DEF RunSawSpool
      <4>5. Spooled(<<t, dir>>) => <<t, dir>> \in taken' \/ Talk!Stripped(t, dir)
        BY <2>1, <3>5, <4>4
      <4> QED
        BY <3>3, <4>3, <4>5 DEF RowsFromSources
    <3> QED
      BY <3>4, <3>5
  <2> QED
    BY <2>1, <2>2, <2>3 DEF RowsFromSources, Talk!Stripped
<1>4. CASE Talk!Prompt \/ Talk!Reply
  <2>1. PICK x \in Talk!Said : Spoken(x)
    BY <1>4, SpokenAtAll
  <2>2. UNCHANGED <<sessions, messages, taken>>
    BY <2>1 DEF Spoken
  <2>3. x[1] \notin sessions
    BY <2>1, SpokenIsNew
  <2>4. \A y : Spooled(y) => (Spooled(y))'
    BY <2>1, SpoolGrows
  <2>5. \A y : (Spooled(y))' => Spooled(y) \/ y = x
    BY <2>1, SpoolGrows
  <2>6. ASSUME NEW t \in Talk!Turns, NEW dir \in Talk!Directions, t \in sessions
        PROVE  (Spooled(<<t, dir>>))' => Spooled(<<t, dir>>)
    <3>1. <<t, dir>> # x
      BY <2>3, <2>6
    <3> QED
      BY <2>5, <3>1
  <2>7. \A t \in Talk!Turns : t \in sessions => kinds'[t] = kinds[t]
    BY <2>1, SpokenIsNew
  <2> QED
    BY <2>2, <2>4, <2>6, <2>7 DEF RowsFromSources, Talk!Stripped
<1> QED
  BY <1>1, <1>2, <1>3, <1>4 DEF Talk!Next

LEMMA RunKeeps ==
  ASSUME TalkConstants, TalkTypes, SaidBefore, RunSawSpool, [Talk!Next]_Talk!vars
  PROVE  RunSawSpool'
<1>1. CASE Talk!Begin \/ Talk!Killed \/ Talk!SeedSessionStore
  <2>1. run'.at # "store"
    BY <1>1 DEF Talk!Begin, Talk!Killed, Talk!SeedSessionStore, Talk!NoRun
  <2> QED
    BY <2>1 DEF RunSawSpool
<1>2. CASE Talk!Midnight \/ Talk!WriteTurn \/ UNCHANGED Talk!vars
  <2>1. UNCHANGED <<messages, spool, run, kinds>>
    BY <1>2 DEF Talk!Midnight, Talk!WriteTurn, Talk!vars
  <2> QED
    BY <2>1 DEF RunSawSpool, Spooled
<1>3. CASE Talk!IngestSpool
  <2>1. UNCHANGED <<spool, kinds>>
    BY <1>3 DEF Talk!IngestSpool
  <2>2. ASSUME NEW t \in Talk!Turns, NEW dir \in Talk!Directions, Spooled(<<t, dir>>),
               dir = "out" \/ kinds[t] # "peer"
        PROVE  messages'[<<"hook", t, dir>>] # None \/ <<t, dir>> \in run'.missed
    <3>1. PICK d \in Talk!Days : <<t, dir>> \in Talk!Ids(spool[d])
      BY <2>2 DEF Spooled
    <3>2. <<"hook", t, dir>> \in DOMAIN Talk!FileRows(spool[d])
      <4>1. spool[d] \in Seq(Talk!Said)
        BY DEF TalkTypes
      <4>2. DOMAIN Talk!FileRows(spool[d]) =
              {<<"hook", x[1], x[2]>> :
                 x \in {y \in Talk!Ids(spool[d]) : y[2] = "out" \/ kinds[y[1]] # "peer"}}
        BY <4>1, FileRowsAre
      <4>3. <<t, dir>> \in {y \in Talk!Ids(spool[d]) : y[2] = "out" \/ kinds[y[1]] # "peer"}
        BY <2>2, <3>1
      <4> QED
        BY <4>2, <4>3
    <3>3. <<"hook", t, dir>> \in Talk!Keys
      BY DEF Talk!Keys, Talk!Sources
    <3>4. ASSUME NEW d1 \in Talk!Days, NEW k \in DOMAIN spool[d1],
                 FiledAs(<<"hook", t, dir>>, messages'[<<"hook", t, dir>>], d1, k)
          PROVE  messages'[<<"hook", t, dir>>] # None
      <4>1. messages'[<<"hook", t, dir>>] \in Talk!Row
        BY <3>4, RowKinds, LinesAreSaid DEF FiledAs
      <4> QED
        BY <4>1 DEF TalkConstants
    <3> QED
      BY <1>3, <3>1, <3>2, <3>3, <3>4, SpoolFiles
  <2> QED
    BY <2>1, <2>2 DEF RunSawSpool, Spooled, Talk!Directions
<1>4. CASE Talk!Prompt \/ Talk!Reply
  <2>1. PICK x \in Talk!Said : Spoken(x)
    BY <1>4, SpokenAtAll
  <2>2. messages' = messages
    BY <2>1 DEF Spoken
  <2>3. \A y : (Spooled(y))' => Spooled(y) \/ y = x
    BY <2>1, SpoolGrows
  <2>4. \A t \in Talk!Turns, dir \in Talk!Directions : Spooled(<<t, dir>>) => kinds'[t] = kinds[t]
    BY <2>1, SpokenIsNew DEF Talk!Directions
  <2>5. CASE run' = run /\ spool' = spool
    BY <2>2, <2>4, <2>5 DEF RunSawSpool, Spooled
  <2>6. CASE run' = IF run.at = "store" THEN [run EXCEPT !.missed = @ \union {x}] ELSE run
    <3>1. run'.at = "store" => run.at = "store" /\ run'.missed = run.missed \union {x}
      BY <2>6 DEF TalkTypes, Talk!NoRun
    <3> QED
      BY <2>2, <2>3, <2>4, <3>1 DEF RunSawSpool
  <2> QED
    BY <2>1, <2>5, <2>6 DEF Spoken
<1> QED
  BY <1>1, <1>2, <1>3, <1>4 DEF Talk!Next

(* The reply to a prompt of the same file answers that prompt.             *)
LEMMA AnswersOwnPrompt ==
  ASSUME TalkTypes, SpoolOrdered, NEW d \in Talk!Days, NEW i \in DOMAIN spool[d],
         NEW k \in DOMAIN spool[d], NEW t \in Talk!Turns,
         spool[d][i] = <<t, "in">>, spool[d][k] = <<t, "out">>
  PROVE  Talk!Answering(spool[d], k) = Talk!Channel(t)
<1> DEFINE prompts == {m \in 1 .. k : spool[d][m][2] = "in"}
<1>1. spool[d] \in Seq(Talk!Said) /\ DOMAIN spool[d] = 1 .. Len(spool[d]) /\ k \in Nat /\ i \in Nat
  BY DEF TalkTypes
<1>2. \A m \in DOMAIN spool[d] : spool[d][m][1] \in Nat
  BY <1>1 DEF Talk!Said, Talk!Turns
<1>3. \A m, n \in DOMAIN spool[d] : m < n => Before(spool[d][m], spool[d][n])
  BY DEF SpoolOrdered
<1>4. spool[d][i][1] = t /\ spool[d][i][2] = "in" /\ spool[d][k][1] = t /\ spool[d][k][2] = "out"
  OBVIOUS
<1>5. i < k
  <2>1. CASE k < i
    BY <1>2, <1>3, <1>4, <2>1 DEF Before
  <2> QED
    BY <1>1, <1>4, <2>1
<1>6. i \in prompts /\ prompts \in SUBSET (0 .. k)
  BY <1>1, <1>4, <1>5
<1> DEFINE m == Talk!Latest(prompts)
<1>7. m \in prompts /\ i <= m
  BY <1>1, <1>6, LatestIsLast
<1>8. m \in DOMAIN spool[d] /\ m <= k /\ spool[d][m][2] = "in" /\ m \in Nat
  BY <1>1, <1>7
<1> HIDE DEF m
<1>9. m < k
  BY <1>1, <1>4, <1>8
<1>10. spool[d][m][1] = t
  <2>1. Before(spool[d][m], spool[d][k])
    BY <1>3, <1>8, <1>9
  <2>2. i = m \/ Before(spool[d][i], spool[d][m])
    <3>1. i = m \/ i < m
      BY <1>1, <1>7, <1>8
    <3> QED
      BY <1>3, <1>8, <3>1
  <2> QED
    BY <1>2, <1>4, <1>8, <2>1, <2>2 DEF Before
<1> QED
  BY <1>6, <1>10 DEF Talk!Answering, m

(* The human's view, whose rows say of a turn what its kind was.           *)
LEMMA ApartKeeps ==
  ASSUME TalkConstants, TalkTypes, SaidBefore, SpoolOrdered, RowsFromSources, Talk!PeersKeptApart,
         [Talk!Next]_Talk!vars
  PROVE  Talk!PeersKeptApart'
<1> DEFINE Out(t, s) == messages[<<s, t, "out">>]
<1>1. CASE Talk!Begin \/ Talk!Killed \/ Talk!Midnight \/ Talk!WriteTurn \/ UNCHANGED Talk!vars
  <2>1. UNCHANGED <<messages, kinds, spool>>
    BY <1>1 DEF Talk!Begin, Talk!Killed, Talk!Midnight, Talk!WriteTurn, Talk!vars
  <2> QED
    BY <2>1 DEF Talk!PeersKeptApart, Talk!WithPrompt
<1>2. CASE Talk!IngestSpool
  <2>1. UNCHANGED <<kinds, spool>>
    BY <1>2 DEF Talk!IngestSpool
  <2>2. ASSUME NEW t \in Talk!Turns, kinds[t] = "peer", NEW s \in Talk!Sources
        PROVE  messages'[<<s, t, "in">>] = None
    <3>1. <<s, t, "in">> \in Talk!Keys
      BY DEF Talk!Keys, Talk!Directions
    <3>2. ASSUME NEW d \in Talk!Days, NEW k \in DOMAIN spool[d],
                 FiledAs(<<s, t, "in">>, messages'[<<s, t, "in">>], d, k)
          PROVE  FALSE
      <4>1. t = spool[d][k][1] /\ "in" = spool[d][k][2]
        BY <3>2 DEF FiledAs
      <4> QED
        BY <2>2, <3>2, <4>1 DEF FiledAs
    <3>3. messages'[<<s, t, "in">>] = messages[<<s, t, "in">>]
      BY <1>2, <3>1, <3>2, SpoolFiles
    <3> QED
      BY <2>2, <3>3 DEF Talk!PeersKeptApart
  <2>3. ASSUME NEW t \in Talk!Turns, kinds[t] = "peer", NEW s \in Talk!Sources,
               messages'[<<s, t, "out">>] # None,
               messages'[<<s, t, "out">>].channel = "human-agent"
        PROVE  s = "hook" /\ ~Talk!WithPrompt(t)
    <3>1. <<s, t, "out">> \in Talk!Keys
      BY DEF Talk!Keys, Talk!Directions
    <3>2. ASSUME NEW d \in Talk!Days, NEW k \in DOMAIN spool[d],
                 FiledAs(<<s, t, "out">>, messages'[<<s, t, "out">>], d, k)
          PROVE  s = "hook" /\ ~Talk!WithPrompt(t)
      <4>1. s = "hook" /\ t = spool[d][k][1] /\ "out" = spool[d][k][2]
        BY <3>2 DEF FiledAs
      <4>2. spool[d][k] = <<t, "out">> /\ <<t, "out">> \in Talk!Ids(spool[d]) /\ <<t, "out">> \in Talk!Said
        BY <4>1, LinesAreSaid DEF Talk!Ids
      <4>3. messages'[<<s, t, "out">>] = Talk!ReplyRow(Talk!Answering(spool[d], k))
        BY <3>2, <4>1 DEF FiledAs
      <4>4. Talk!Answering(spool[d], k) = "human-agent"
        BY <2>3, <4>3, RowKinds
      <4>5. ASSUME NEW e \in Talk!Days, {<<t, "in">>, <<t, "out">>} \subseteq Talk!Ids(spool[e])
            PROVE  FALSE
        <5>1. e = d
          BY <4>2, <4>5 DEF SpoolOrdered
        <5>2. PICK i \in DOMAIN spool[d] : spool[d][i] = <<t, "in">>
          BY <4>5, <5>1 DEF Talk!Ids
        <5>3. Talk!Answering(spool[d], k) = Talk!Channel(t)
          BY <4>2, <5>2, AnswersOwnPrompt
        <5> QED
          BY <2>3, <4>4, <5>3 DEF Talk!Channel
      <4> QED
        BY <4>1, <4>5 DEF Talk!WithPrompt
    <3>3. CASE messages'[<<s, t, "out">>] = messages[<<s, t, "out">>]
      BY <2>3, <3>3 DEF Talk!PeersKeptApart
    <3> QED
      BY <1>2, <3>1, <3>2, <3>3, SpoolFiles
  <2> QED
    BY <2>1, <2>2, <2>3 DEF Talk!PeersKeptApart, Talk!WithPrompt
<1>3. CASE Talk!SeedSessionStore
  <2>1. /\ UNCHANGED <<kinds, spool>>
        /\ \A key \in Talk!Keys : messages'[key] = IF key \in DOMAIN Talk!StoreRows THEN Talk!StoreRows[key]
                                             ELSE messages[key]
    BY <1>3 DEF Talk!SeedSessionStore, Talk!Recorded
  <2>2. ASSUME NEW t \in Talk!Turns, kinds[t] = "peer", NEW s \in Talk!Sources
        PROVE  messages'[<<s, t, "in">>] = None
    <3>1. <<s, t, "in">> \in Talk!Keys
      BY DEF Talk!Keys, Talk!Directions
    <3>2. <<s, t, "in">> \notin DOMAIN Talk!StoreRows
      <4>1. ASSUME NEW t1 \in sessions, NEW dir1 \in Talk!Directions,
                   <<s, t, "in">> = <<"store", t1, dir1>>, dir1 = "out" \/ kinds[t1] # "peer"
            PROVE  FALSE
        <5>1. t1 = t /\ dir1 = "in"
          BY <4>1
        <5> QED
          BY <2>2, <4>1, <5>1
      <4> QED
        BY <4>1, StoreRowsAre
    <3> QED
      BY <2>1, <2>2, <3>1, <3>2 DEF Talk!PeersKeptApart
  <2>3. ASSUME NEW t \in Talk!Turns, kinds[t] = "peer", NEW s \in Talk!Sources,
               messages'[<<s, t, "out">>] # None,
               messages'[<<s, t, "out">>].channel = "human-agent"
        PROVE  s = "hook" /\ ~Talk!WithPrompt(t)
    <3>1. <<s, t, "out">> \in Talk!Keys
      BY DEF Talk!Keys, Talk!Directions
    <3>2. CASE <<s, t, "out">> \in DOMAIN Talk!StoreRows
      <4>1. PICK t1 \in sessions, dir1 \in Talk!Directions :
              /\ <<s, t, "out">> = <<"store", t1, dir1>>
              /\ Talk!StoreRows[<<s, t, "out">>] = IF dir1 = "in" THEN Talk!PromptRow(t1) ELSE Talk!ReplyRow(Talk!Channel(t1))
        BY <3>2, StoreRowsAre
      <4>2. t1 = t /\ dir1 = "out"
        BY <4>1
      <4>3. messages'[<<s, t, "out">>] = Talk!ReplyRow(Talk!Channel(t))
        BY <2>1, <3>1, <3>2, <4>1, <4>2
      <4>4. Talk!Channel(t) = "agent-agent"
        BY <2>3 DEF Talk!Channel
      <4> QED
        BY <2>3, <4>3, <4>4, RowKinds
    <3>3. CASE <<s, t, "out">> \notin DOMAIN Talk!StoreRows
      BY <2>1, <2>3, <3>1, <3>3 DEF Talk!PeersKeptApart
    <3> QED
      BY <3>2, <3>3
  <2> QED
    BY <2>1, <2>2, <2>3 DEF Talk!PeersKeptApart, Talk!WithPrompt
<1>4. CASE Talk!Prompt \/ Talk!Reply
  <2>1. PICK x \in Talk!Said : Spoken(x)
    BY <1>4, SpokenAtAll
  <2>2. messages' = messages
    BY <2>1 DEF Spoken
  <2>3. ~Spooled(x) /\ x[1] \notin sessions
        /\ \A t \in Talk!Turns : Spooled(<<t, "in">>) \/ Spooled(<<t, "out">>) \/ t \in sessions
                              => kinds'[t] = kinds[t] /\ t \in 1 .. turn.n
    BY <2>1, SpokenIsNew
  <2>4. ASSUME NEW t \in Talk!Turns, NEW s \in Talk!Sources, NEW dir \in Talk!Directions,
               messages[<<s, t, dir>>] # None
        PROVE  kinds'[t] = kinds[t]
    BY <2>3, <2>4 DEF RowsFromSources, Talk!Sources, Talk!Directions
  <2>5. ASSUME NEW t \in Talk!Turns, kinds'[t] = "peer", NEW s \in Talk!Sources
        PROVE  messages'[<<s, t, "in">>] = None
    BY <2>2, <2>4, <2>5 DEF Talk!PeersKeptApart, Talk!Directions
  <2>6. ASSUME NEW t \in Talk!Turns, kinds'[t] = "peer", NEW s \in Talk!Sources,
               messages[<<s, t, "out">>] # None,
               messages[<<s, t, "out">>].channel = "human-agent"
        PROVE  s = "hook" /\ ~(Talk!WithPrompt(t))'
    <3>1. kinds[t] = "peer"
      BY <2>4, <2>6 DEF Talk!Directions
    <3>2. s = "hook" /\ ~Talk!WithPrompt(t)
      BY <2>6, <3>1 DEF Talk!PeersKeptApart
    <3>3. Spooled(<<t, "out">>)
      BY <2>6, <3>2 DEF RowsFromSources, Talk!Directions
    <3>4. x # <<t, "out">> /\ x # <<t, "in">>
      <4>1. t <= turn.n /\ turn.n \in Nat /\ t \in Nat
        <5>1. t \in 1 .. turn.n
          BY <2>3, <3>3
        <5>2. turn.n \in Nat
          BY DEF TalkTypes
        <5> QED
          BY <5>1, <5>2
      <4>2. x = <<turn.n + 1, "in">> \/ x = <<turn.n, "out">>
        BY <2>1 DEF Spoken
      <4> QED
        BY <2>3, <3>3, <4>1, <4>2
    <3>5. \A d \in Talk!Days : Talk!Ids(spool'[d]) \subseteq Talk!Ids(spool[d]) \union {x}
      BY <2>1, SpoolGrows
    <3> QED
      BY <3>2, <3>4, <3>5 DEF Talk!WithPrompt
  <2> QED
    BY <2>2, <2>5, <2>6 DEF Talk!PeersKeptApart
<1> QED
  BY <1>1, <1>2, <1>3, <1>4 DEF Talk!Next

LEMMA TalkInit ==
  ASSUME TalkConstants, Talk!Init
  PROVE  TalkInv
<1>1. TalkTypes
  <2>1. kinds \in [Talk!Turns -> Talk!Kinds \union {None}] /\ messages \in [Talk!Keys -> Talk!Row \union {None}]
    BY DEF Talk!Init
  <2>2. spool \in [Talk!Days -> Seq(Talk!Said)]
    BY DEF Talk!Init
  <2>3. turn \in [n : 0 .. MaxTurns, left : SUBSET {"reply", "turn"}] /\ turn.n = 0 /\ turn.left = {}
    BY DEF Talk!Init, TalkConstants
  <2>4. run \in [at : {"idle", "spool", "store"}, missed : SUBSET Talk!Said]
    BY DEF Talk!Init, Talk!NoRun
  <2>5. sessions \subseteq Talk!Turns /\ day \in Talk!Days /\ taken \subseteq Talk!Said
    BY DEF Talk!Init, Talk!Days, TalkConstants
  <2> QED
    BY <2>1, <2>2, <2>3, <2>4, <2>5 DEF TalkTypes
<1>2. \A x : ~Spooled(x)
  BY DEF Talk!Init, Spooled, Talk!Ids
<1>3. SaidBefore /\ RowsFromSources /\ RunSawSpool
  BY <1>2 DEF Talk!Init, SaidBefore, RowsFromSources, RunSawSpool, Talk!NoRun, Talk!Keys,
     Talk!Sources
<1>4. SpoolOrdered
  BY <1>2 DEF Talk!Init, SpoolOrdered, Spooled
<1>5. Talk!PeersKeptApart
  BY DEF Talk!Init, Talk!PeersKeptApart, Talk!Keys, Talk!Directions
<1> QED
  BY <1>1, <1>3, <1>4, <1>5 DEF TalkInv

LEMMA TalkStep ==
  ASSUME TalkConstants, TalkInv, [Talk!Next]_Talk!vars
  PROVE  TalkInv'
  BY TalkTypesKeep, SaidKeeps, OrderKeeps, RowsKeep, RunKeeps, ApartKeeps DEF TalkInv

(* ingest_spool(), classify(): whatever runs overlap with the session, for *)
(* any number of turns and files, no peer's message is filed as            *)
(* conversation, and an answer to one is only if its prompt was lost.      *)
THEOREM PeersStayApart ==
  ASSUME TalkConstants
  PROVE  Talk!Spec => []PeersKeptApart
<1>1. Talk!Init => TalkInv
  BY TalkInit
<1>2. TalkInv /\ [Talk!Next]_Talk!vars => TalkInv'
  BY TalkStep
<1>3. TalkInv => PeersKeptApart
  BY DEF TalkInv, PeersKeptApart
<1> QED
  BY <1>1, <1>2, <1>3, PTL DEF Talk!Spec

LEMMA RowsAreFiledOnce ==
  ASSUME TalkInv
  PROVE  Talk!FiledOnce
  BY DEF TalkInv, RowsFromSources, Talk!FiledOnce, Talk!Said

-----------------------------------------------------------------------------
(***************************************************************************)
(* What is filed of mail and of handoffs, for any letters, recipients and  *)
(* texts: whatever moves under a run, and is read again from another       *)
(* place, has its one row. What carries it: no two letters have one        *)
(* identity, and what is read has a row under the key of what it is.       *)
(***************************************************************************)

(* Assumed of the constants: "nothing there" is no letter and no report.   *)
SeedConstants == None \notin Seeds!Letters /\ None \notin Reports

(* What a behaviour has files of, and the key of one.                      *)
Things == IF files = "mail" THEN Seeds!Letters ELSE Reports

KeyOf(x) == IF files = "mail" THEN <<"mail", Seeds!Identity(x)>> ELSE <<"handoffs", <<"text", x>>>>

SeedTypes ==
  /\ files \in Seeds!Sources
  /\ shelves \in [Seeds!Files -> Things \union {None}]
  /\ \A f \in Seeds!Files : Seeds!Present(f) => (files = "mail" <=> f[1] \in Seeds!MailPlaces)
  /\ pass = [on |-> pass.on, left |-> pass.left, read |-> pass.read, rows |-> pass.rows]
  /\ pass.left \subseteq Seeds!Files

(* A row is under the key of what it holds, and what was read has one.     *)
RowsFit(filed)      == \A k \in DOMAIN filed : filed[k] \in Things /\ k = KeyOf(filed[k])
HaveRows(xs, filed) == \A x \in xs : x \in Things /\ KeyOf(x) \in DOMAIN filed

SeedInv ==
  /\ SeedTypes
  /\ RowsFit(stored) /\ RowsFit(pass.rows)
  /\ HaveRows(read, stored) /\ HaveRows(pass.read, pass.rows)
  /\ pass # Seeds!NoPass => DOMAIN stored \subseteq DOMAIN pass.rows

-----------------------------------------------------------------------------
(* No two letters have one identity (_mail_identity()).                    *)
LEMMA KeysTellApart ==
  ASSUME NEW x \in Things, NEW y \in Things, KeyOf(x) = KeyOf(y)
  PROVE  x = y
<1>1. CASE files = "mail"
  <2>1. x \in Seeds!Letters /\ y \in Seeds!Letters /\ Seeds!Identity(x) = Seeds!Identity(y)
    BY <1>1 DEF Things, KeyOf
  <2>2. \A l \in Seeds!Letters : l = [id |-> l.id, to |-> l.to] /\ l.id \in {None, l.to}
    BY DEF Seeds!Letters
  <2>3. x.id = y.id /\ x.to = y.to
    BY <2>1, <2>2 DEF Seeds!Identity
  <2> QED
    BY <2>1, <2>2, <2>3
<1>2. CASE files # "mail"
  BY <1>2 DEF KeyOf
<1> QED
  BY <1>1, <1>2

LEMMA ShelvedKey ==
  ASSUME SeedTypes, NEW f \in Seeds!Files, Seeds!Present(f)
  PROVE  shelves[f] \in Things /\ Seeds!Key(f) = KeyOf(shelves[f])
  BY DEF SeedTypes, Seeds!Present, Seeds!Key, KeyOf

LEMMA ShelvesKeep ==
  ASSUME SeedConstants, SeedTypes, [Seeds!Next]_Seeds!vars
  PROVE  /\ files' = files /\ shelves' \in [Seeds!Files -> Things \union {None}]
         /\ \A f \in Seeds!Files : (Seeds!Present(f))' => (files = "mail" <=> f[1] \in Seeds!MailPlaces)
<1>1. files' = files
  BY DEF Seeds!Next, Seeds!vars, Seeds!BeginPass, Seeds!SeedOperatorMail, Seeds!SeedHandoffs,
     Seeds!ReadFile, Seeds!Commit, Seeds!Killed, Seeds!Deliver,
     Seeds!CopyToArchive, Seeds!LeaveInbox, Seeds!WriteReport, Seeds!MoveReport
<1>2. CASE shelves' = shelves
  BY <1>1, <1>2 DEF SeedTypes, Seeds!Present
<1>3. \A p \in Seeds!MailPlaces, l \in Seeds!Letters : <<p, l>> \in Seeds!Files /\ <<p, l>>[1] \in Seeds!MailPlaces
  BY DEF Seeds!Files
<1>4. \A p \in Seeds!HandoffPlaces : <<p, None>> \in Seeds!Files /\ <<p, None>>[1] \notin Seeds!MailPlaces
  BY DEF Seeds!Files, Seeds!HandoffPlaces, Seeds!MailPlaces
<1>5. ASSUME NEW l \in Seeds!Letters, (\E place \in Seeds!MailPlaces : Seeds!Deliver(l, place)) \/ Seeds!CopyToArchive(l)
                                \/ Seeds!LeaveInbox(l)
      PROVE  /\ shelves' \in [Seeds!Files -> Things \union {None}]
             /\ \A f \in Seeds!Files : (Seeds!Present(f))' => (files = "mail" <=> f[1] \in Seeds!MailPlaces)
  <2>1. \E p \in Seeds!MailPlaces, c \in {l, None} :
          files = "mail" /\ shelves' = [shelves EXCEPT ![<<p, l>>] = c]
    <3>1. "inbox" \in Seeds!MailPlaces /\ "archive" \in Seeds!MailPlaces
      BY DEF Seeds!MailPlaces
    <3>2. Seeds!Present(<<"inbox", l>>) => files = "mail"
      BY <1>3, <3>1 DEF SeedTypes
    <3> QED
      BY <1>5, <3>1, <3>2 DEF Seeds!Deliver, Seeds!CopyToArchive, Seeds!LeaveInbox
  <2>2. PICK p \in Seeds!MailPlaces, c \in {l, None} :
          files = "mail" /\ shelves' = [shelves EXCEPT ![<<p, l>>] = c]
    BY <2>1
  <2>3. <<p, l>> \in Seeds!Files /\ <<p, l>>[1] \in Seeds!MailPlaces
    BY <1>3
  <2>4. shelves' \in [Seeds!Files -> Things \union {None}]
    BY <2>2 DEF SeedTypes, Things
  <2>5. \A f \in Seeds!Files : f # <<p, l>> => shelves'[f] = shelves[f]
    BY <2>2, <2>3 DEF SeedTypes
  <2> QED
    BY <2>2, <2>3, <2>4, <2>5 DEF SeedTypes, Seeds!Present
<1>6. ASSUME NEW r \in Reports, Seeds!WriteReport(r)
      PROVE  /\ shelves' \in [Seeds!Files -> Things \union {None}]
             /\ \A f \in Seeds!Files : (Seeds!Present(f))' => (files = "mail" <=> f[1] \in Seeds!MailPlaces)
  <2>1. files # "mail"
    BY <1>6 DEF Seeds!WriteReport
  <2>2. "live" \in Seeds!HandoffPlaces /\ "prev" \in Seeds!HandoffPlaces
    BY DEF Seeds!HandoffPlaces
  <2>3. shelves' = [shelves EXCEPT ![<<"live", None>>] = r,
                                   ![<<"prev", None>>] = shelves[<<"live", None>>]]
    BY <1>6 DEF Seeds!WriteReport
  <2>4. shelves[<<"live", None>>] \in Things \union {None} /\ r \in Things
    BY <1>4, <2>1, <2>2 DEF SeedTypes, Things
  <2>5. shelves' \in [Seeds!Files -> Things \union {None}]
    BY <2>3, <2>4 DEF SeedTypes
  <2>6. \A f \in Seeds!Files : f # <<"live", None>> /\ f # <<"prev", None>> => shelves'[f] = shelves[f]
    BY <2>3 DEF SeedTypes
  <2> QED
    BY <1>4, <2>1, <2>2, <2>5, <2>6 DEF SeedTypes, Seeds!Present
<1>7. ASSUME NEW from \in Seeds!HandoffPlaces, NEW to \in Seeds!HandoffPlaces, Seeds!MoveReport(from, to)
      PROVE  /\ shelves' \in [Seeds!Files -> Things \union {None}]
             /\ \A f \in Seeds!Files : (Seeds!Present(f))' => (files = "mail" <=> f[1] \in Seeds!MailPlaces)
  <2>1. files # "mail"
    BY <1>4, <1>7 DEF Seeds!MoveReport, SeedTypes
  <2>2. PICK kept \in {None, shelves[<<from, None>>]} :
          shelves' = [shelves EXCEPT ![<<to, None>>] = shelves[<<from, None>>],
                                     ![<<from, None>>] = kept]
    BY <1>7 DEF Seeds!MoveReport
  <2>3. shelves[<<from, None>>] \in Things \union {None} /\ kept \in Things \union {None}
    BY <1>4 DEF SeedTypes
  <2>4. shelves' \in [Seeds!Files -> Things \union {None}]
    BY <2>2, <2>3 DEF SeedTypes
  <2>5. \A f \in Seeds!Files : f # <<to, None>> /\ f # <<from, None>> => shelves'[f] = shelves[f]
    BY <2>2 DEF SeedTypes
  <2> QED
    BY <1>4, <2>1, <2>4, <2>5 DEF SeedTypes, Seeds!Present
<1>8. CASE Seeds!BeginPass \/ Seeds!SeedOperatorMail \/ Seeds!SeedHandoffs \/ Seeds!Commit \/ Seeds!Killed \/ UNCHANGED Seeds!vars
  BY <1>2, <1>1, <1>8 DEF Seeds!BeginPass, Seeds!SeedOperatorMail, Seeds!SeedHandoffs,
     Seeds!ReadFile, Seeds!Commit, Seeds!Killed, Seeds!vars
<1> QED
  BY <1>1, <1>5, <1>6, <1>7, <1>8 DEF Seeds!Next

LEMMA SeedStep ==
  ASSUME SeedConstants, SeedInv, [Seeds!Next]_Seeds!vars
  PROVE  SeedInv'
<1>1. SeedTypes
  BY DEF SeedInv
<1>2. /\ files' = files /\ shelves' \in [Seeds!Files -> Things \union {None}]
      /\ \A f \in Seeds!Files : (Seeds!Present(f))' => (files = "mail" <=> f[1] \in Seeds!MailPlaces)
  BY <1>1, ShelvesKeep
<1>3. /\ Things' = Things
      /\ \A x : (KeyOf(x))' = KeyOf(x)
      /\ \A filed : (RowsFit(filed))' = RowsFit(filed)
      /\ \A xs, filed : (HaveRows(xs, filed))' = HaveRows(xs, filed)
  BY <1>2 DEF Things, KeyOf, RowsFit, HaveRows
<1>4. ASSUME /\ pass' = [on |-> pass'.on, left |-> pass'.left, read |-> pass'.read,
                         rows |-> pass'.rows]
             /\ pass'.left \subseteq Seeds!Files
      PROVE  SeedTypes'
  BY <1>1, <1>2, <1>3, <1>4 DEF SeedTypes
<1>5. CASE pass' = Seeds!NoPass
  <2>1. SeedTypes' /\ RowsFit(pass'.rows) /\ HaveRows(pass'.read, pass'.rows)
    BY <1>4, <1>5 DEF Seeds!NoPass, RowsFit, HaveRows
  <2>2. \/ stored' = stored /\ read' = read
        \/ Seeds!Commit
    BY <1>5 DEF Seeds!Next, Seeds!vars, Seeds!BeginPass, Seeds!SeedOperatorMail,
       Seeds!SeedHandoffs, Seeds!ReadFile, Seeds!Killed, Seeds!Deliver,
       Seeds!CopyToArchive, Seeds!LeaveInbox, Seeds!WriteReport, Seeds!MoveReport
  <2>3. CASE stored' = stored /\ read' = read
    BY <1>3, <1>5, <2>1, <2>3 DEF SeedInv, RowsFit, HaveRows
  <2>4. CASE Seeds!Commit
    <3>1. /\ stored' = pass.rows /\ read' = read \union pass.read
          /\ DOMAIN stored \subseteq DOMAIN pass.rows
      BY <2>4 DEF Seeds!Commit, SeedInv
    <3>2. HaveRows(read', stored')
      BY <3>1 DEF SeedInv, HaveRows
    <3>3. RowsFit(stored')
      BY <3>1 DEF SeedInv
    <3> QED
      BY <1>3, <1>5, <2>1, <3>2, <3>3 DEF SeedInv, RowsFit, HaveRows
  <2> QED
    BY <2>2, <2>3, <2>4
<1>6. CASE Seeds!BeginPass
  <2>1. /\ pass' = [on |-> TRUE, left |-> Seeds!Glob, read |-> {}, rows |-> stored]
        /\ stored' = stored /\ read' = read
    BY <1>6 DEF Seeds!BeginPass
  <2>2. SeedTypes'
    BY <1>4, <2>1 DEF Seeds!Glob
  <2> QED
    BY <1>3, <2>1, <2>2 DEF SeedInv, RowsFit, HaveRows
<1>7. ASSUME NEW f \in pass.left, Seeds!ReadFile(f)
      PROVE  SeedInv'
  <2>1. stored' = stored /\ read' = read /\ pass # Seeds!NoPass
    BY <1>7 DEF Seeds!ReadFile, Seeds!NoPass
  <2>2. CASE ~Seeds!Present(f)
    <3>1. /\ pass'.left = pass.left \ {f} /\ pass'.rows = pass.rows /\ pass'.read = pass.read
          /\ pass' = [on |-> pass'.on, left |-> pass'.left, read |-> pass'.read,
                      rows |-> pass'.rows]
      BY <1>1, <1>7, <2>2 DEF Seeds!ReadFile, SeedTypes
    <3>2. SeedTypes'
      BY <1>1, <1>4, <3>1 DEF SeedTypes
    <3> QED
      BY <1>3, <2>1, <3>1, <3>2 DEF SeedInv, RowsFit, HaveRows
  <2>3. CASE Seeds!Present(f)
    <3> DEFINE key == Seeds!Key(f)
               new == IF key \in DOMAIN pass.rows THEN pass.rows
                      ELSE [k \in DOMAIN pass.rows \union {key} |->
                              IF k = key THEN shelves[f] ELSE pass.rows[k]]
    <3>1. /\ pass'.left = pass.left \ {f} /\ pass'.rows = new
          /\ pass'.read = pass.read \union {shelves[f]}
          /\ pass' = [on |-> pass'.on, left |-> pass'.left, read |-> pass'.read,
                      rows |-> pass'.rows]
      BY <1>1, <1>7, <2>3 DEF Seeds!ReadFile, SeedTypes
    <3>2. SeedTypes'
      BY <1>1, <1>4, <3>1 DEF SeedTypes
    <3>3. shelves[f] \in Things /\ key = KeyOf(shelves[f])
      BY <1>1, <1>7, <2>3, ShelvedKey DEF SeedTypes
    <3>4. RowsFit(pass.rows) /\ HaveRows(pass.read, pass.rows) /\ RowsFit(stored)
          /\ HaveRows(read, stored) /\ DOMAIN stored \subseteq DOMAIN pass.rows
      BY <2>1 DEF SeedInv
    <3> HIDE DEF key
    <3>5. DOMAIN new = DOMAIN pass.rows \union {key}
      OBVIOUS
    <3>6. RowsFit(new)
      BY <3>3, <3>4 DEF RowsFit
    <3>7. HaveRows(pass.read \union {shelves[f]}, new)
      BY <3>3, <3>4, <3>5 DEF HaveRows
    <3> HIDE DEF new
    <3> QED
      BY <1>3, <2>1, <3>1, <3>2, <3>4, <3>5, <3>6, <3>7 DEF SeedInv, RowsFit, HaveRows
  <2> QED
    BY <2>2, <2>3
<1>8. CASE UNCHANGED <<stored, pass, read>>
  <2>1. SeedTypes'
    BY <1>1, <1>4, <1>8 DEF SeedTypes
  <2> QED
    BY <1>3, <1>8, <2>1 DEF SeedInv, RowsFit, HaveRows
<1>9. \/ pass' = Seeds!NoPass \/ Seeds!BeginPass \/ UNCHANGED <<stored, pass, read>>
      \/ \E f \in pass.left : Seeds!ReadFile(f)
  BY DEF Seeds!Next, Seeds!vars, Seeds!SeedOperatorMail, Seeds!SeedHandoffs, Seeds!Commit,
     Seeds!Killed, Seeds!Deliver,
     Seeds!CopyToArchive, Seeds!LeaveInbox, Seeds!WriteReport, Seeds!MoveReport
<1> QED
  BY <1>5, <1>6, <1>7, <1>8, <1>9

LEMMA SeedInit ==
  ASSUME Seeds!Init
  PROVE  SeedInv
  BY DEF Seeds!Init, SeedInv, SeedTypes, Seeds!NoPass, RowsFit, HaveRows, Seeds!Present

LEMMA RowsAreOne ==
  ASSUME SeedInv
  PROVE  Seeds!OneRowEach
<1>1. ASSUME NEW x \in read
      PROVE  \E k \in DOMAIN stored :
               /\ stored[k] = x
               /\ \A other \in DOMAIN stored : stored[other] = x => other = k
  <2>1. x \in Things /\ KeyOf(x) \in DOMAIN stored
    BY DEF SeedInv, HaveRows
  <2>2. stored[KeyOf(x)] = x
    BY <2>1, KeysTellApart DEF SeedInv, RowsFit
  <2>3. \A other \in DOMAIN stored : stored[other] = x => other = KeyOf(x)
    BY DEF SeedInv, RowsFit
  <2> QED
    BY <2>1, <2>2, <2>3
<1> QED
  BY <1>1 DEF Seeds!OneRowEach

-----------------------------------------------------------------------------
(* seed_all(), record(): what both sources of a conversation saw is filed  *)
(* once, unless a run missed the hook's line, written behind it or in a    *)
(* file that could not be read, or it is a launch prompt with mail; and a  *)
(* letter or a handoff that was read has one row, wherever it lay and      *)
(* however often.                                                          *)
THEOREM EachIsFiledOnce ==
  ASSUME TalkConstants, SeedConstants
  PROVE  Talk!Spec /\ Seeds!Spec => []FiledOnce
<1>1. Talk!Init /\ Seeds!Init => TalkInv /\ SeedInv
  BY TalkInit, SeedInit
<1>2. TalkInv /\ [Talk!Next]_Talk!vars => TalkInv'
  BY TalkStep
<1>3. SeedInv /\ [Seeds!Next]_Seeds!vars => SeedInv'
  BY SeedStep
<1>4. TalkInv /\ SeedInv => FiledOnce
  BY RowsAreFiledOnce, RowsAreOne DEF FiledOnce
<1> QED
  BY <1>1, <1>2, <1>3, <1>4, PTL DEF Talk!Spec, Seeds!Spec
=============================================================================
