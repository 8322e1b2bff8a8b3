--------------------------- MODULE RecordsProofs ----------------------------
(***************************************************************************)
(* What is concluded from records that others write: proofs about the      *)
(* parts of MCOwnerWorld other than the owner's world, each about the      *)
(* specification of its own module, for all values of its constants.       *)
(***************************************************************************)
EXTENDS MCOwnerWorld, TLAPS

-----------------------------------------------------------------------------
(***************************************************************************)
(* No commit falls between two check-ins, for any number of checkouts and  *)
(* commits. What carries it: a check-in holds a watermark, and then the    *)
(* HEAD that it will write as the next one, over many steps of others, and *)
(* of either what it reaches is already accounted for.                     *)
(***************************************************************************)

CheckInTypeOK ==
  /\ history \in [CheckIns!Commits -> SUBSET CheckIns!Commits]
  /\ head \in [Checkouts -> CheckIns!Made \union {CheckIns!NoCommit}]
  /\ scrum \in [Checkouts -> {CheckIns!Idle} \union [at : {"report"}, since : CheckIns!Commits \union {None}]
                                    \union [at : {"write"}, head : CheckIns!Commits]]
  /\ mark \in CheckIns!Commits \union {None}

(* A watermark, where it names a commit, names one whose history is known. *)
Accounted(x) ==
  x \notin {None, CheckIns!NoCommit} => x \in CheckIns!Made /\ history[x] \ merges \subseteq covered

HeldMark(c) ==
  /\ scrum[c].at = "report" => Accounted(scrum[c].since)
  /\ scrum[c].at = "write"  => Accounted(scrum[c].head)

CheckInInv == CheckInTypeOK /\ Accounted(mark) /\ \A c \in Checkouts : HeldMark(c)

-----------------------------------------------------------------------------
(* What git does to the commits leaves the accounts as they were: a commit *)
(* that is there keeps its history.                                        *)
LEMMA AccountsLast ==
  ASSUME CheckInTypeOK, NEW x, Accounted(x),
         \A k \in CheckIns!Made : k \in CheckIns!Made' /\ history'[k] = history[k],
         merges \subseteq merges', covered \subseteq covered'
  PROVE  Accounted(x)'
  BY DEF Accounted

(* Where nobody's check-in moves, it is enough that the accounts last.     *)
LEMMA OthersKeepTheirs ==
  ASSUME CheckInInv, CheckInTypeOK', NEW C \in SUBSET Checkouts,
         \A c \in C : scrum'[c] = scrum[c],
         \A k \in CheckIns!Made : k \in CheckIns!Made' /\ history'[k] = history[k],
         merges \subseteq merges', covered \subseteq covered'
  PROVE  \A c \in C : HeldMark(c)'
<1> SUFFICES ASSUME NEW c \in C PROVE HeldMark(c)'
  OBVIOUS
<1>1. CheckInTypeOK /\ HeldMark(c)
  BY DEF CheckInInv
<1>2. \A x : Accounted(x) => Accounted(x)'
  BY <1>1, AccountsLast
<1>3. QED
  BY <1>1, <1>2 DEF HeldMark, Accounted

LEMMA MadeIsKept ==
  ASSUME history' = history
  PROVE  /\ CheckIns!Made' = CheckIns!Made
         /\ \A k \in CheckIns!Made : k \in CheckIns!Made' /\ history'[k] = history[k]
  BY DEF CheckIns!Made

(* A check-in accounts for all that the HEAD it read reaches.              *)
LEMMA ReportAccounts ==
  ASSUME CheckInInv, NEW c \in Checkouts, CheckIns!Report(c)
  PROVE  CheckInInv'
<1>1. /\ scrum[c].at = "report" /\ CheckInTypeOK
      /\ history' = history /\ merges' = merges /\ head' = head /\ mark' = mark
      /\ Accounted(scrum[c].since)
  BY DEF CheckIns!Report, CheckInInv, HeldMark
<1>2. PICK h \in {head[c], CheckIns!NoCommit} :
        \E span \in IF scrum[c].since = None THEN {history[h]} ELSE CheckIns!Span(scrum[c].since, h) :
          /\ covered' = covered \union (span \ merges)
          /\ CheckIns!Do(c, [at |-> "write", head |-> h]) \/ CheckIns!Do(c, CheckIns!Idle)
  BY DEF CheckIns!Report
<1>3. PICK span \in IF scrum[c].since = None THEN {history[h]} ELSE CheckIns!Span(scrum[c].since, h) :
        covered' = covered \union (span \ merges)
  BY <1>2
<1>4. CheckIns!Do(c, [at |-> "write", head |-> h]) \/ CheckIns!Do(c, CheckIns!Idle)
  BY <1>2
<1>5. history[h] \ merges \subseteq covered'
  <2>1. CASE span = history[h]
    BY <1>3, <2>1
  <2>2. CASE scrum[c].since \notin {None, CheckIns!NoCommit} /\ span = history[h] \ history[scrum[c].since]
    BY <1>1, <1>3, <2>2 DEF Accounted
  <2>3. QED
    BY <1>3, <2>1, <2>2 DEF CheckIns!Span
<1>6. h \in CheckIns!Made \union {CheckIns!NoCommit} /\ h \in CheckIns!Commits
  <2>1. CheckIns!NoCommit \in CheckIns!Commits
    BY <1>1 DEF CheckInTypeOK, CheckIns!Commits, CheckIns!NoCommit
  <2>2. QED
    BY <1>1, <2>1 DEF CheckInTypeOK, CheckIns!Made
<1>7. Accounted(h)'
  BY <1>1, <1>5, <1>6, MadeIsKept DEF Accounted
<1>8. CheckInTypeOK'
  BY <1>1, <1>4, <1>6, MadeIsKept DEF CheckInTypeOK, CheckIns!Do, CheckIns!Idle, CheckIns!Commits
<1>9. \A d \in Checkouts \ {c} : scrum'[d] = scrum[d]
  BY <1>1, <1>4 DEF CheckInTypeOK, CheckIns!Do
<1>10. \A d \in Checkouts \ {c} : HeldMark(d)'
  <2>1. covered \subseteq covered' /\ merges \subseteq merges'
    BY <1>1, <1>3
  <2>2. QED
    BY <1>1, <1>8, <1>9, <2>1, MadeIsKept, OthersKeepTheirs
<1>11. HeldMark(c)'
  <2>1. scrum'[c] = [at |-> "write", head |-> h] \/ scrum'[c] = [at |-> "idle"]
    BY <1>1, <1>4 DEF CheckInTypeOK, CheckIns!Do, CheckIns!Idle
  <2>2. QED
    BY <1>7, <2>1 DEF HeldMark, Accounted
<1>12. Accounted(mark)'
  BY <1>1, <1>3, MadeIsKept DEF CheckInInv, Accounted
<1>13. QED
  BY <1>8, <1>10, <1>11, <1>12 DEF CheckInInv

LEMMA AddKeeps ==
  ASSUME CheckInInv, NEW c \in Checkouts, NEW behind \in SUBSET CheckIns!Commits,
         NEW merge \in BOOLEAN, CheckIns!Add(c, behind, merge)
  PROVE  CheckInInv'
<1>1. CheckInTypeOK /\ mark' = mark /\ scrum' = scrum /\ covered' = covered
      /\ merges \subseteq merges'
  BY DEF CheckInInv, CheckIns!Add
<1>2. PICK k \in CheckIns!Commits \ (CheckIns!Made \union {CheckIns!NoCommit}) :
        /\ history' = [history EXCEPT ![k] = behind \union {k}]
        /\ head' = [head EXCEPT ![c] = k]
  BY DEF CheckIns!Add
<1>3. \A j \in CheckIns!Made : j \in CheckIns!Made' /\ history'[j] = history[j]
  BY <1>1, <1>2 DEF CheckInTypeOK, CheckIns!Made
<1>4. k \in CheckIns!Made'
  BY <1>1, <1>2 DEF CheckInTypeOK, CheckIns!Made
<1>5. CheckInTypeOK'
  <2>1. history' \in [CheckIns!Commits -> SUBSET CheckIns!Commits]
    BY <1>1, <1>2 DEF CheckInTypeOK
  <2>2. head' \in [Checkouts -> CheckIns!Made' \union {CheckIns!NoCommit}]
    BY <1>1, <1>2, <1>3, <1>4 DEF CheckInTypeOK
  <2>3. QED
    BY <1>1, <2>1, <2>2 DEF CheckInTypeOK, CheckIns!Commits, CheckIns!Idle
<1>6. Accounted(mark)'
  BY <1>1, <1>3, AccountsLast DEF CheckInInv, Accounted
<1>7. \A d \in Checkouts : HeldMark(d)'
  BY <1>1, <1>3, <1>5, OthersKeepTheirs
<1>8. QED
  BY <1>5, <1>6, <1>7 DEF CheckInInv

-----------------------------------------------------------------------------
LEMMA CheckInInit == CheckIns!Init => CheckInInv
  BY DEF CheckIns!Init, CheckInInv, CheckInTypeOK, Accounted, HeldMark, CheckIns!Idle,
     CheckIns!Commits, CheckIns!NoCommit, CheckIns!Made

LEMMA CheckInStep == CheckInInv /\ [CheckIns!Next]_CheckIns!vars => CheckInInv'
<1> SUFFICES ASSUME CheckInInv, [CheckIns!Next]_CheckIns!vars PROVE CheckInInv'
  OBVIOUS
<1>1. CheckInTypeOK /\ Accounted(mark) /\ \A c \in Checkouts : HeldMark(c)
  BY DEF CheckInInv
<1>2. ASSUME NEW c \in Checkouts, CheckIns!ReadWatermark(c)
      PROVE  CheckInInv'
  <2>1. history' = history /\ merges' = merges /\ head' = head /\ mark' = mark
        /\ covered' = covered
    BY <1>2 DEF CheckIns!ReadWatermark
  <2>2. CheckInTypeOK'
    BY <1>1, <1>2, <2>1, MadeIsKept DEF CheckInTypeOK, CheckIns!ReadWatermark, CheckIns!Do,
       CheckIns!Idle, CheckIns!Commits
  <2>3. \A d \in Checkouts \ {c} : scrum'[d] = scrum[d]
    BY <1>1, <1>2 DEF CheckInTypeOK, CheckIns!ReadWatermark, CheckIns!Do
  <2>4. Accounted(mark)'
    BY <1>1, <2>1, MadeIsKept DEF Accounted
  <2>5. HeldMark(c)'
    <3>1. scrum'[c] = [at |-> "report", since |-> mark]
      BY <1>1, <1>2 DEF CheckInTypeOK, CheckIns!ReadWatermark, CheckIns!Do
    <3>2. QED
      BY <2>1, <2>4, <3>1 DEF HeldMark, Accounted
  <2>6. \A d \in Checkouts \ {c} : HeldMark(d)'
    BY <2>1, <2>2, <2>3, MadeIsKept, OthersKeepTheirs
  <2>7. QED
    BY <2>2, <2>4, <2>5, <2>6 DEF CheckInInv
<1>3. ASSUME NEW c \in Checkouts, CheckIns!Report(c)
      PROVE  CheckInInv'
  BY <1>3, ReportAccounts
<1>4. ASSUME NEW c \in Checkouts, CheckIns!WriteWatermark(c)
      PROVE  CheckInInv'
  <2>1. history' = history /\ merges' = merges /\ head' = head /\ covered' = covered
        /\ scrum[c].at = "write" /\ mark' \in {scrum[c].head, mark}
    BY <1>4 DEF CheckIns!WriteWatermark
  <2>2. scrum[c].head \in CheckIns!Commits
    BY <1>1, <2>1 DEF CheckInTypeOK, CheckIns!Idle
  <2>3. CheckInTypeOK'
    BY <1>1, <1>4, <2>1, <2>2, MadeIsKept DEF CheckInTypeOK, CheckIns!WriteWatermark, CheckIns!Do,
       CheckIns!Idle, CheckIns!Commits
  <2>4. \A d \in Checkouts \ {c} : scrum'[d] = scrum[d]
    BY <1>1, <1>4 DEF CheckInTypeOK, CheckIns!WriteWatermark, CheckIns!Do
  <2>5. Accounted(mark)'
    BY <1>1, <2>1, MadeIsKept DEF HeldMark, Accounted
  <2>6. HeldMark(c)'
    <3>1. scrum'[c] = [at |-> "idle"]
      BY <1>1, <1>4 DEF CheckInTypeOK, CheckIns!WriteWatermark, CheckIns!Do, CheckIns!Idle
    <3>2. QED
      BY <3>1 DEF HeldMark
  <2>7. \A d \in Checkouts \ {c} : HeldMark(d)'
    BY <2>1, <2>3, <2>4, MadeIsKept, OthersKeepTheirs
  <2>8. QED
    BY <2>3, <2>5, <2>6, <2>7 DEF CheckInInv
<1>5. ASSUME NEW c \in Checkouts, NEW d \in Checkouts, CheckIns!Commit(c) \/ CheckIns!Merge(c, d)
      PROVE  CheckInInv'
  <2>1. history[head[c]] \in SUBSET CheckIns!Commits /\ history[head[d]] \in SUBSET CheckIns!Commits
    BY <1>1 DEF CheckInTypeOK, CheckIns!Made, CheckIns!Commits, CheckIns!NoCommit
  <2>2. QED
    BY <1>5, <2>1, AddKeeps DEF CheckIns!Commit, CheckIns!Merge
<1>6. ASSUME NEW c \in Checkouts, CheckIns!Reset(c)
      PROVE  CheckInInv'
  <2>1. history' = history /\ merges' = merges /\ mark' = mark /\ covered' = covered
        /\ scrum' = scrum
    BY <1>6 DEF CheckIns!Reset
  <2>2. CheckInTypeOK'
    BY <1>1, <1>6, <2>1, MadeIsKept DEF CheckInTypeOK, CheckIns!Reset, CheckIns!Idle,
       CheckIns!Commits
  <2>3. Accounted(mark)'
    BY <1>1, <2>1, MadeIsKept DEF Accounted
  <2>4. \A d \in Checkouts : HeldMark(d)'
    BY <2>1, <2>2, MadeIsKept, OthersKeepTheirs
  <2>5. QED
    BY <2>2, <2>3, <2>4 DEF CheckInInv
<1>7. CASE UNCHANGED CheckIns!vars
  BY <1>1, <1>7 DEF CheckIns!vars, CheckInInv, CheckInTypeOK, Accounted, HeldMark, CheckIns!Made,
     CheckIns!Commits, CheckIns!Idle
<1>8. QED
  BY <1>2, <1>3, <1>4, <1>5, <1>6, <1>7 DEF CheckIns!Next

-----------------------------------------------------------------------------
(* `backlog scrum`: of every commit a watermark reaches, merges aside, some *)
(* check-in has listed it, said that it could not, or found it there       *)
(* before the first; in whichever checkouts and however they overlapped.   *)
THEOREM NoCommitFallsBetween == CheckIns!Spec => []WatermarkIsCovered
<1>1. CheckInInv => WatermarkIsCovered
  BY DEF CheckInInv, Accounted, WatermarkIsCovered, CheckIns!WatermarkIsCovered
<1>2. QED
  BY <1>1, CheckInInit, CheckInStep, PTL DEF CheckIns!Spec

-----------------------------------------------------------------------------
(***************************************************************************)
(* No entry of the tab registry is lost but to saves that overlap, for any *)
(* number of tabs and commands. What carries it: a command that has run    *)
(* beside nobody still holds all that the registry names, and is the only  *)
(* one to have touched the temporary file.                                 *)
(***************************************************************************)

Alone(c) ==
  /\ Restore!Busy = {c}
  /\ saves[c].starts \subseteq saves[c].entries
  /\ registry.names \subseteq saves[c].entries \union saves[c].drops
  /\ saves[c].at = "write" => saves[c].file = "temp" /\ temp = Restore!Truncated
  /\ saves[c].at = "swap"  => temp = Restore!Text(saves[c].entries)

TabsInv ==
  /\ Restore!TypeOK /\ Restore!TabsSurvive
  /\ \A c \in Restore!Busy \ crossed : Alone(c)

-----------------------------------------------------------------------------
LEMMA FileNames ==
  /\ \A f \in Restore!File : f.names \in SUBSET Tabs
  /\ \A tabs \in SUBSET Tabs : Restore!Text(tabs) \in Restore!File /\ Restore!Text(tabs).names = tabs
  /\ Restore!NoFile \in Restore!File /\ Restore!Truncated \in Restore!File /\ Restore!Mixed \in Restore!File
<1>1. \A tabs \in SUBSET Tabs : Restore!Text(tabs) \in Restore!File /\ Restore!Text(tabs).names = tabs
  BY DEF Restore!File, Restore!Text
<1>2. Restore!NoFile \in Restore!File /\ Restore!Truncated \in Restore!File /\ Restore!Mixed \in Restore!File
  BY DEF Restore!File
<1>3. Restore!NoFile.names = {} /\ Restore!Truncated.names = {} /\ Restore!Mixed.names = {}
  BY DEF Restore!NoFile, Restore!Truncated, Restore!Mixed
<1>4. \A f \in Restore!File : f.names \in SUBSET Tabs
  BY <1>1, <1>3 DEF Restore!File
<1>5. QED
  BY <1>1, <1>2, <1>4

LEMMA IdleIsSave == Restore!Idle \in Restore!Save
  BY DEF Restore!Idle, Restore!Save

(* A read, a refused read and a save not begun change no file.             *)
LEMMA NothingSaved ==
  ASSUME TabsInv, UNCHANGED <<registry, temp, saves, crossed>>, Restore!TypeOK', Restore!TabsSurvive'
  PROVE  TabsInv'
  BY DEF TabsInv, Alone, Restore!Busy

(* Whoever begins while somebody else is under way makes both crossed.     *)
LEMMA BeginKeeps ==
  ASSUME TabsInv, NEW c \in Commands, saves[c] = Restore!Idle,
         NEW starts \in SUBSET Tabs, NEW entries \in SUBSET Tabs, NEW drops \in SUBSET Tabs,
         starts \subseteq entries, registry.names \subseteq entries \union drops,
         Restore!Begin(c, starts, entries, drops),
         pending' \in SUBSET Tabs, UNCHANGED <<wanted, unkept>>
  PROVE  TabsInv'
<1> DEFINE s == [at |-> "open", entries |-> entries, starts |-> starts,
                 drops |-> drops, file |-> "closed"]
<1>1. Restore!TypeOK /\ Restore!TabsSurvive /\ \A d \in Restore!Busy \ crossed : Alone(d)
  BY DEF TabsInv
<1>2. registry' = registry /\ temp' = temp /\ s \in Restore!Save /\ s # Restore!Idle
  BY DEF Restore!Begin, Restore!Save, Restore!Idle
<1>3. saves' = [saves EXCEPT ![c] = s]
  BY DEF Restore!Begin
<1>4. Restore!Busy' = Restore!Busy \union {c}
  BY <1>1, <1>2, <1>3 DEF Restore!Busy, Restore!TypeOK
<1>5. crossed' = IF Restore!Busy = {} THEN crossed ELSE crossed \union Restore!Busy \union {c}
  BY DEF Restore!Begin
<1>6. Restore!TypeOK'
  BY <1>1, <1>2, <1>3, <1>5 DEF Restore!TypeOK, Restore!Busy
<1>7. Restore!TabsSurvive'
  BY <1>1, <1>2 DEF Restore!TabsSurvive
<1>8. ASSUME NEW d \in Restore!Busy' \ crossed'
      PROVE  Alone(d)'
  <2>1. Restore!Busy = {} /\ d = c /\ Restore!Busy' = {c}
    BY <1>4, <1>5, <1>8
  <2>2. saves'[c] = s
    BY <1>1, <1>3 DEF Restore!TypeOK
  <2>3. QED
    BY <1>2, <2>1, <2>2 DEF Alone
<1>9. QED
  BY <1>6, <1>7, <1>8 DEF TabsInv

(* A step of a command on its way that leaves the registry alone.          *)
LEMMA OnItsWay ==
  ASSUME TabsInv, NEW c \in Restore!Busy, NEW s \in Restore!Save, s # Restore!Idle,
         saves' = [saves EXCEPT ![c] = s],
         temp' \in Restore!File, UNCHANGED <<registry, crossed, pending, wanted, unkept>>,
         c \notin crossed =>
           /\ s.entries = saves[c].entries /\ s.starts = saves[c].starts
           /\ s.drops = saves[c].drops
           /\ s.at = "write" => s.file = "temp" /\ temp' = Restore!Truncated
           /\ s.at = "swap"  => temp' = Restore!Text(s.entries)
  PROVE  TabsInv'
<1>1. Restore!TypeOK /\ Restore!TabsSurvive /\ \A d \in Restore!Busy \ crossed : Alone(d)
  BY DEF TabsInv
<1>2. c \in Commands /\ saves'[c] = s
  BY <1>1 DEF Restore!Busy, Restore!TypeOK
<1>3. Restore!Busy' = Restore!Busy
  BY <1>1, <1>2 DEF Restore!Busy, Restore!TypeOK
<1>4. Restore!TypeOK' /\ Restore!TabsSurvive'
  BY <1>1, <1>2 DEF Restore!TypeOK, Restore!TabsSurvive
<1>5. ASSUME NEW d \in Restore!Busy' \ crossed'
      PROVE  Alone(d)'
  <2>1. d \in Restore!Busy \ crossed /\ Alone(d) /\ d = c
    BY <1>1, <1>3, <1>5 DEF Alone
  <2>2. QED
    BY <1>2, <1>3, <2>1 DEF Alone
<1>6. QED
  BY <1>4, <1>5 DEF TabsInv

(* When a command ends, nobody else was alone.                             *)
LEMMA EndsAlone ==
  ASSUME TabsInv, NEW c \in Restore!Busy, crossed' = crossed \ {c},
         \A d \in Commands \ {c} : saves'[d] = Restore!Idle <=> saves[d] = Restore!Idle,
         saves'[c] = Restore!Idle
  PROVE  Restore!Busy' \ crossed' = {}
  BY DEF TabsInv, Alone, Restore!Busy

-----------------------------------------------------------------------------
LEMMA OpenKeeps ==
  ASSUME TabsInv, NEW c \in Commands, Restore!OpenTemp(c)
  PROVE  TabsInv'
<1> DEFINE s == [saves[c] EXCEPT !.at = "write", !.file = "temp"]
<1>1. saves[c] \in Restore!Save /\ saves[c].at = "open"
  BY DEF TabsInv, Restore!TypeOK, Restore!OpenTemp
<1>2. c \in Restore!Busy /\ s \in Restore!Save /\ s # Restore!Idle
  <2>1. Restore!Idle.at = "idle" /\ saves[c] # Restore!Idle
    BY <1>1 DEF Restore!Idle
  <2>2. s \in Restore!Save /\ s.at # "idle"
    BY <1>1 DEF Restore!Save
  <2>3. QED
    BY <2>1, <2>2 DEF Restore!Busy
<1>3. saves' = [saves EXCEPT ![c] = s]
  BY DEF Restore!OpenTemp
<1>4. temp' = Restore!Truncated /\ UNCHANGED <<registry, crossed, pending, wanted, unkept>>
  BY DEF Restore!OpenTemp
<1>5. /\ s.entries = saves[c].entries /\ s.starts = saves[c].starts
      /\ s.drops = saves[c].drops /\ s.at = "write" /\ s.file = "temp"
  BY <1>1 DEF Restore!Save
<1> HIDE DEF s
<1>6. QED
  BY <1>2, <1>3, <1>4, <1>5, OnItsWay, FileNames

LEMMA WriteKeeps ==
  ASSUME TabsInv, NEW c \in Commands, Restore!WriteTemp(c)
  PROVE  TabsInv'
<1> DEFINE s == [saves[c] EXCEPT !.at = "swap", !.file = "closed"]
<1>1. saves[c] \in Restore!Save /\ saves[c].at = "write" /\ Restore!TypeOK
  BY DEF TabsInv, Restore!TypeOK, Restore!WriteTemp
<1>2. c \in Restore!Busy /\ s \in Restore!Save /\ s # Restore!Idle
  <2>1. Restore!Idle.at = "idle" /\ saves[c] # Restore!Idle
    BY <1>1 DEF Restore!Idle
  <2>2. s \in Restore!Save /\ s.at # "idle"
    BY <1>1 DEF Restore!Save
  <2>3. QED
    BY <2>1, <2>2 DEF Restore!Busy
<1>3. saves' = [saves EXCEPT ![c] = s] /\ UNCHANGED <<crossed, pending, wanted>>
  BY DEF Restore!WriteTemp
<1>4. /\ s.entries = saves[c].entries /\ s.starts = saves[c].starts
      /\ s.drops = saves[c].drops /\ s.at = "swap"
      /\ saves[c].entries \in SUBSET Tabs
  BY <1>1 DEF Restore!Save
<1>5. c \notin crossed => saves[c].file = "temp" /\ temp = Restore!Truncated
  BY <1>1, <1>2 DEF TabsInv, Alone
<1> HIDE DEF s
<1>6. CASE saves[c].file = "temp"
  <2>1. /\ temp' \in Restore!Written(temp, saves[c].entries)
        /\ registry' = registry /\ unkept' = unkept
    BY <1>6 DEF Restore!WriteTemp
  <2>2. temp' \in Restore!File
    BY <1>4, <2>1, FileNames DEF Restore!Written
  <2>3. c \notin crossed => temp' = Restore!Text(saves[c].entries)
    BY <1>5, <2>1 DEF Restore!Written
  <2>4. QED
    BY <1>2, <1>3, <1>4, <2>1, <2>2, <2>3, OnItsWay
<1>7. CASE saves[c].file = "gone"
  <2>1. temp' = temp /\ registry' = registry /\ unkept' = unkept
    BY <1>7 DEF Restore!WriteTemp
  <2>2. temp' \in Restore!File /\ c \in crossed
    BY <1>1, <1>5, <1>7, <2>1 DEF Restore!TypeOK
  <2>3. QED
    BY <1>2, <1>3, <2>1, <2>2, OnItsWay
<1>8. CASE saves[c].file = "registry"
  <2>1. /\ registry' \in Restore!Written(registry, saves[c].entries)
        /\ Restore!Account(c) /\ temp' = temp /\ c \in crossed
    BY <1>5, <1>8 DEF Restore!WriteTemp
  <2>2. unkept' = wanted' \ registry'.names
    BY <2>1 DEF Restore!Account
  <2>3. registry' \in Restore!File
    BY <1>4, <2>1, FileNames DEF Restore!Written
  <2>4. Restore!TypeOK'
    BY <1>1, <1>2, <1>3, <2>1, <2>2, <2>3 DEF Restore!TypeOK
  <2>5. Restore!TabsSurvive'
    BY <2>2 DEF Restore!TabsSurvive
  <2>6. Restore!Busy' = Restore!Busy
    BY <1>1, <1>2, <1>3 DEF Restore!Busy, Restore!TypeOK
  <2>7. Restore!Busy' \ crossed' = {}
    BY <1>2, <1>3, <2>1, <2>6 DEF TabsInv, Alone
  <2>8. QED
    BY <2>4, <2>5, <2>7 DEF TabsInv
<1>9. QED
  BY <1>6, <1>7, <1>8 DEF Restore!WriteTemp

LEMMA SwapKeeps ==
  ASSUME TabsInv, NEW c \in Commands, Restore!Swap(c)
  PROVE  TabsInv'
<1>1. Restore!TypeOK /\ Restore!TabsSurvive /\ saves[c] \in Restore!Save /\ saves[c].at = "swap"
  BY DEF TabsInv, Restore!TypeOK, Restore!Swap
<1>2. c \in Restore!Busy
  BY <1>1 DEF Restore!Busy, Restore!Idle
<1>3. /\ registry' = temp /\ temp' = Restore!NoFile /\ pending' = pending
      /\ crossed' = crossed \ {c}
      /\ wanted' = (wanted \union saves[c].starts) \ saves[c].drops
      /\ Restore!Account(c)
  BY DEF Restore!Swap, Restore!Ends
<1>4. saves' = [d \in Commands |->
                  IF d = c THEN Restore!Idle ELSE [saves[d] EXCEPT !.file = Restore!Moved(@)]]
  BY DEF Restore!Swap
<1>5. ASSUME NEW d \in Commands \ {c}
      PROVE  /\ saves'[d] \in Restore!Save
             /\ saves'[d] = Restore!Idle <=> saves[d] = Restore!Idle
  <2>1. saves[d] \in Restore!Save /\ saves'[d] = [saves[d] EXCEPT !.file = Restore!Moved(@)]
    BY <1>1, <1>4 DEF Restore!TypeOK
  <2>2. Restore!Moved(saves[d].file) \in {"closed", "temp", "registry", "gone"}
    BY <2>1 DEF Restore!Moved, Restore!Save
  <2>3. saves'[d] \in Restore!Save
    BY <2>1, <2>2 DEF Restore!Save
  <2>4. saves[d] = Restore!Idle => saves'[d] = Restore!Idle
    BY <2>1 DEF Restore!Idle, Restore!Moved, Restore!Save
  <2>5. Restore!Moved(saves[d].file) = "closed" <=> saves[d].file = "closed"
    BY <2>1 DEF Restore!Moved, Restore!Save
  <2>6. saves'[d] = Restore!Idle => saves[d] = Restore!Idle
    BY <2>1, <2>2, <2>5 DEF Restore!Idle, Restore!Save
  <2>7. QED
    BY <2>3, <2>4, <2>6
<1>6. saves' \in [Commands -> Restore!Save] /\ saves'[c] = Restore!Idle
  BY <1>4, <1>5, IdleIsSave
<1>7. Restore!Busy' \ crossed' = {}
  BY <1>2, <1>3, <1>5, <1>6, EndsAlone
<1>8. wanted' \in SUBSET Tabs
  BY <1>1, <1>3 DEF Restore!TypeOK, Restore!Save
<1>9. Restore!TypeOK'
  <2>1. {registry, temp}' \subseteq Restore!File
    BY <1>1, <1>3, FileNames DEF Restore!TypeOK
  <2>2. unkept' \subseteq wanted'
    BY <1>3 DEF Restore!Account
  <2>3. QED
    BY <1>1, <1>3, <1>6, <1>8, <2>1, <2>2 DEF Restore!TypeOK
<1>10. Restore!TabsSurvive'
  <2>1. CASE c \in crossed
    BY <1>3, <2>1 DEF Restore!Account, Restore!TabsSurvive
  <2>2. CASE c \notin crossed
    <3>1. /\ saves[c].starts \subseteq saves[c].entries
          /\ registry.names \subseteq saves[c].entries \union saves[c].drops
          /\ temp = Restore!Text(saves[c].entries)
      BY <1>1, <1>2, <2>2 DEF TabsInv, Alone
    <3>2. registry'.names = saves[c].entries
      BY <1>3, <3>1 DEF Restore!Text
    <3>3. unkept' = (unkept \intersect wanted') \ saves[c].entries
      BY <1>3, <2>2, <3>2 DEF Restore!Account
    <3>4. QED
      BY <1>1, <1>3, <3>1, <3>2, <3>3 DEF Restore!TabsSurvive
  <2>3. QED
    BY <2>1, <2>2
<1>11. QED
  BY <1>7, <1>9, <1>10 DEF TabsInv

LEMMA DiesKeeps ==
  ASSUME TabsInv, NEW c \in Commands, Restore!Dies(c)
  PROVE  TabsInv'
<1>1. /\ saves[c] # Restore!Idle /\ saves' = [saves EXCEPT ![c] = Restore!Idle]
      /\ crossed' = crossed \ {c} /\ wanted' = wanted
      /\ UNCHANGED <<registry, temp, pending, unkept>>
  BY DEF Restore!Dies, Restore!Ends
<1>2. Restore!TypeOK /\ Restore!TabsSurvive /\ c \in Restore!Busy
  BY <1>1 DEF TabsInv, Restore!Busy
<1>3. Restore!TypeOK' /\ Restore!TabsSurvive'
  BY <1>1, <1>2, IdleIsSave DEF Restore!TypeOK, Restore!TabsSurvive
<1>4. saves'[c] = Restore!Idle /\ \A d \in Commands \ {c} : saves'[d] = saves[d]
  BY <1>1, <1>2 DEF Restore!TypeOK
<1>5. Restore!Busy' \ crossed' = {}
  BY <1>1, <1>2, <1>4, EndsAlone
<1>6. QED
  BY <1>3, <1>5 DEF TabsInv

-----------------------------------------------------------------------------
LEMMA TabsInit == Restore!Init => TabsInv
<1> SUFFICES ASSUME Restore!Init PROVE TabsInv
  OBVIOUS
<1>1. Restore!TypeOK
  BY FileNames, IdleIsSave DEF Restore!Init, Restore!TypeOK
<1>2. Restore!TabsSurvive /\ Restore!Busy = {}
  BY DEF Restore!Init, Restore!TabsSurvive, Restore!Busy
<1>3. QED
  BY <1>1, <1>2 DEF TabsInv

LEMMA TabsStep == TabsInv /\ [Restore!Next]_Restore!vars => TabsInv'
<1> SUFFICES ASSUME TabsInv, [Restore!Next]_Restore!vars PROVE TabsInv'
  OBVIOUS
<1>1. Restore!TypeOK /\ Restore!TabsSurvive /\ registry.names \in SUBSET Tabs
  BY FileNames DEF TabsInv, Restore!TypeOK
<1>2. \A readable : Restore!LoadTabs(readable) \in SUBSET Tabs
  BY <1>1 DEF Restore!LoadTabs
<1>3. ASSUME NEW i \in Tabs, Restore!StartTab(i)
      PROVE  TabsInv'
  <2>1. UNCHANGED <<registry, temp, saves, crossed, wanted, unkept>>
    BY <1>3 DEF Restore!StartTab
  <2>2. Restore!TypeOK' /\ Restore!TabsSurvive'
    BY <1>1, <1>3, <2>1 DEF Restore!StartTab, Restore!TypeOK, Restore!TabsSurvive
  <2>3. QED
    BY <2>1, <2>2, NothingSaved
<1>4. ASSUME NEW readable \in BOOLEAN, NEW chosen \in SUBSET Tabs,
             Restore!RestoreTabs(readable, chosen)
      PROVE  TabsInv'
  <2>1. UNCHANGED <<registry, temp, saves, crossed, wanted, unkept>> /\ pending' = chosen
    BY <1>4 DEF Restore!RestoreTabs
  <2>2. Restore!TypeOK' /\ Restore!TabsSurvive'
    BY <1>1, <2>1 DEF Restore!TypeOK, Restore!TabsSurvive
  <2>3. QED
    BY <2>1, <2>2, NothingSaved
<1>5. ASSUME NEW readable \in BOOLEAN, NEW c \in Commands, NEW i \in Tabs,
             Restore!RegisterTab(c, i, readable)
      PROVE  TabsInv'
  <2>1. saves[c] = Restore!Idle /\ pending' \in SUBSET Tabs
    BY <1>1, <1>5 DEF Restore!RegisterTab, Restore!TypeOK
  <2>2. CASE Restore!MayExtend(readable) /\ Restore!Begin(c, {i}, Restore!LoadTabs(readable) \union {i}, {})
             /\ UNCHANGED <<wanted, unkept>>
    <3>1. Restore!LoadTabs(readable) = registry.names
      BY <2>2 DEF Restore!MayExtend, Restore!LoadTabs
    <3>2. QED
      BY <1>1, <2>1, <2>2, <3>1, BeginKeeps
  <2>3. CASE /\ wanted' = wanted \union {i}
             /\ unkept' = unkept \union ({i} \ registry.names)
             /\ UNCHANGED <<registry, temp, saves, crossed>>
    <3>1. Restore!TypeOK' /\ Restore!TabsSurvive'
      BY <1>1, <2>1, <2>3 DEF Restore!TypeOK, Restore!TabsSurvive
    <3>2. QED
      BY <2>3, <3>1, NothingSaved
  <2>4. QED
    BY <1>5, <2>2, <2>3 DEF Restore!RegisterTab
<1>6. ASSUME NEW readable \in BOOLEAN, NEW c \in Commands, NEW i \in Tabs,
             Restore!RemoveTab(c, i, readable)
      PROVE  TabsInv'
  <2>1. /\ saves[c] = Restore!Idle /\ i \in Restore!LoadTabs(readable)
        /\ Restore!Begin(c, {}, Restore!LoadTabs(readable) \ {i}, {i})
        /\ UNCHANGED <<pending, wanted, unkept>>
    BY <1>6 DEF Restore!RemoveTab
  <2>2. Restore!LoadTabs(readable) = registry.names
    BY <2>1 DEF Restore!LoadTabs
  <2>3. pending' \in SUBSET Tabs
    BY <1>1, <2>1 DEF Restore!TypeOK
  <2>4. QED
    BY <1>1, <2>1, <2>2, <2>3, BeginKeeps
<1>7. ASSUME NEW c \in Commands, Restore!ClearTabs(c)
      PROVE  TabsInv'
  <2>1. saves[c] = Restore!Idle /\ Restore!Begin(c, {}, {}, Tabs) /\ UNCHANGED <<pending, wanted, unkept>>
    BY <1>7 DEF Restore!ClearTabs
  <2>2. pending' \in SUBSET Tabs
    BY <1>1, <2>1 DEF Restore!TypeOK
  <2>3. QED
    BY <1>1, <2>1, <2>2, BeginKeeps
<1>8. ASSUME NEW c \in Commands, Restore!OpenTemp(c) \/ Restore!WriteTemp(c) \/ Restore!Swap(c) \/ Restore!Dies(c)
      PROVE  TabsInv'
  BY <1>8, OpenKeeps, WriteKeeps, SwapKeeps, DiesKeeps
<1>9. CASE UNCHANGED Restore!vars
  <2>1. Restore!TypeOK' /\ Restore!TabsSurvive'
    BY <1>1, <1>9 DEF Restore!vars, Restore!TypeOK, Restore!TabsSurvive
  <2>2. QED
    BY <1>9, <2>1, NothingSaved DEF Restore!vars
<1>10. QED
  BY <1>3, <1>4, <1>5, <1>6, <1>7, <1>8, <1>9 DEF Restore!Next

-----------------------------------------------------------------------------
(* read_tabs(): an instance that was started in a tab and not stopped since *)
(* is in the registry, but for its own refused entry and for saves that    *)
(* overlap.                                                                *)
THEOREM RegistryKeepsEntries == Restore!Spec => []TabsSurvive
<1>1. TabsInv => TabsSurvive
  BY DEF TabsInv, TabsSurvive
<1>2. QED
  BY <1>1, TabsInit, TabsStep, PTL DEF Restore!Spec

-----------------------------------------------------------------------------
(***************************************************************************)
(* What a reader concludes of a supervisor's records, for any number of    *)
(* processes, boots and pids. What a stamp says stays true of its writer   *)
(* as long as that runs (StampFits), and tells it from every process that  *)
(* had its pid (TokenTells); what a reader has seen is one of those.       *)
(***************************************************************************)

StartTokens == [kind : {"linux", "win"}, value : Int]
BootIds     == [kind : {"uuid", "instant"}, value : Int]

Stamped ==
  [pid : Pids, pid_start : StartTokens \union {None}, boot : BootIds \union {None}, by : Nat]

Supervisors == [run : Nat, pid : Pids, at : {"code", "pid", "run"}]

(* Assumed of the constants: "nothing" is no record and no supervisor.     *)
NoneIsNoRecord == None \notin Stamped /\ None \notin Supervisors

RecordTypes ==
  /\ recordPlatform \in {"linux", "win"} /\ recordClock \in Nat
  /\ recordBoot \in [count : Nat, at : Nat]
  /\ recordProcs \in [Pids -> [up : BOOLEAN, born : Nat, run : Nat]]
  /\ supervisor \in Supervisors \union {None}
  /\ loopCode \in Stamped \union {None} /\ loopPid \in Stamped \union {None}
  /\ reader.at \in {"idle", "probe", "reread", "unlink", "record"}
  /\ reader.at # "idle" => reader.seen \in Stamped
  /\ reader.at = "record" => reader.probed \in BOOLEAN
  /\ reader.at = "unlink" => reader.again \in Nat

(* The supervisor there is has its pid, and started last of all.           *)
Runs ==
  supervisor # None =>
    /\ supervisor.run <= recordClock
    /\ recordProcs[supervisor.pid].up
    /\ recordProcs[supervisor.pid].born = supervisor.run
    /\ recordProcs[supervisor.pid].run = supervisor.run

IsRunning(run) == supervisor # None /\ supervisor.run = run

(* What a stamp says is true of its writer, as long as that runs.          *)
StampFits(s) ==
  /\ s.by <= recordClock
  /\ IsRunning(s.by) =>
       /\ s.pid = supervisor.pid
       /\ s.pid_start \in {None, Records!StartToken(supervisor.pid)}
       /\ s.boot \in {None, Records!BootIdentity(0)}
       /\ supervisor.at # "code"

(* And it tells its writer from others: its token anywhere, or in a boot   *)
(* that it names too.                                                      *)
TokenTells(s) ==
  /\ s.pid_start # None =>
       /\ s.pid_start.kind = recordPlatform
       /\ recordPlatform = "win" => s.pid_start.value = s.by
  /\ (recordPlatform = "linux" /\ s.boot # None) =>
       /\ s.boot.kind = "uuid" /\ s.boot.value <= recordBoot.count
       /\ (s.boot.value = recordBoot.count /\ s.pid_start # None) =>
            s.pid_start.value = s.by - recordBoot.at

RecordsFit ==
  /\ loopCode # None => StampFits(loopCode) /\ TokenTells(loopCode)
  /\ loopPid # None =>
       StampFits(loopPid) /\ TokenTells(loopPid) /\ (IsRunning(loopPid.by) => supervisor.at = "run")

(* The code record is written first.                                       *)
CodeIsSaved ==
  (supervisor # None /\ supervisor.at # "code") =>
    supervisor.run \in unsaved \/ (loopCode # None /\ loopCode.by = supervisor.run)

(* What a reader holds stays true while others move.                       *)
ReaderKnows ==
  reader.at # "idle" =>
    /\ StampFits(reader.seen) /\ TokenTells(reader.seen)
    /\ IsRunning(reader.seen.by) =>
         /\ supervisor.at = "run"
         /\ reader.at \in {"probe", "record"}
         /\ (reader.at = "record" /\ reader.probed) =>
              reader.live \in {None, Records!StartToken(supervisor.pid)}
    /\ reader.at = "unlink" =>
         /\ reader.again <= recordClock
         /\ Records!TellsApart(reader.seen) => ~IsRunning(reader.again)

RecordsInv == RecordTypes /\ Runs /\ RecordsFit /\ CodeIsSaved /\ ReaderKnows

-----------------------------------------------------------------------------
LEMMA AnswerTypes ==
  ASSUME RecordTypes
  PROVE  /\ \A pid \in Pids : Records!StartToken(pid) \in StartTokens
         /\ \A pid \in Pids : Records!StartToken(pid).kind = recordPlatform
         /\ \A nudge \in Nat : Records!BootIdentity(nudge) \in BootIds
<1>1. ASSUME NEW pid \in Pids
      PROVE  Records!StartToken(pid) \in StartTokens /\ Records!StartToken(pid).kind = recordPlatform
  <2>1. recordProcs[pid].born \in Nat /\ recordBoot.at \in Nat
    BY DEF RecordTypes
  <2>2. QED
    BY <2>1 DEF RecordTypes, Records!StartToken, StartTokens
<1>2. ASSUME NEW nudge \in Nat
      PROVE  Records!BootIdentity(nudge) \in BootIds
  BY DEF RecordTypes, Records!BootIdentity, BootIds
<1>3. QED
  BY <1>1, <1>2

LEMMA NothingIsNoAnswer ==
  /\ \A token \in StartTokens : token # None /\ Records!IsStartToken(token)
  /\ \A id \in BootIds : id # None /\ id.value # Damaged
<1>1. None \notin StartTokens /\ None \notin BootIds
  BY ValuesAssumption DEF StartTokens, BootIds, StartTokenKinds
<1>2. QED
  BY <1>1, ValuesAssumption DEF StartTokens, BootIds, Records!IsStartToken, Records!StartTokenKinds

(* The stamps a running supervisor writes.                                 *)
LEMMA NewStamps ==
  ASSUME RecordTypes, Runs, supervisor # None, NEW s \in Records!Stamps(supervisor.pid)
  PROVE  /\ s \in Stamped /\ s.by = supervisor.run /\ s.pid = supervisor.pid
         /\ s.pid_start \in {None, Records!StartToken(supervisor.pid)}
         /\ s.boot \in {None, Records!BootIdentity(0)}
         /\ s.by <= recordClock
         /\ TokenTells(s)
<1> DEFINE pid == supervisor.pid
<1>1. pid \in Pids /\ recordProcs[pid].run \in Nat /\ recordProcs[pid].run = supervisor.run
      /\ recordProcs[pid].born = supervisor.run /\ supervisor.run <= recordClock
  BY DEF RecordTypes, Runs, Supervisors
<1>2. Records!StartToken(pid) \in StartTokens /\ Records!BootIdentity(0) \in BootIds
  BY <1>1, AnswerTypes
<1>3. s.by = supervisor.run /\ s.pid = pid
      /\ s.pid_start \in {None, Records!StartToken(pid)} /\ s.boot \in {None, Records!BootIdentity(0)}
  BY <1>1 DEF Records!Stamps
<1>4. s \in Stamped
  BY <1>1, <1>2 DEF Records!Stamps, Stamped
<1>5. TokenTells(s)
  <2>1. recordBoot.count \in Nat /\ recordBoot.at \in Nat /\ recordPlatform \in {"linux", "win"}
    BY DEF RecordTypes
  <2>2. s.pid_start # None =>
          s.pid_start = [kind |-> recordPlatform,
                         value |-> s.by - (IF recordPlatform = "linux" THEN recordBoot.at ELSE 0)]
    BY <1>1, <1>3 DEF Records!StartToken
  <2>3. (recordPlatform = "linux" /\ s.boot # None) =>
          s.boot = [kind |-> "uuid", value |-> recordBoot.count]
    BY <1>3 DEF Records!BootIdentity
  <2>4. s.by \in Nat
    BY <1>1, <1>3
  <2>5. QED
    BY <2>1, <2>2, <2>3, <2>4 DEF TokenTells
<1>6. QED
  BY <1>1, <1>3, <1>4, <1>5

-----------------------------------------------------------------------------
LEMMA RecordsInit ==
  ASSUME Records!Init
  PROVE  RecordsInv
<1>1. recordBoot \in [count : Nat, at : Nat] /\ reader.at = "idle"
  BY DEF Records!Init, Records!Idle
<1>2. recordProcs \in [Pids -> [up : BOOLEAN, born : Nat, run : Nat]]
  BY DEF Records!Init, Records!NoProcess
<1>3. RecordTypes
  BY <1>1, <1>2 DEF Records!Init, RecordTypes
<1>4. QED
  BY <1>1, <1>3 DEF Records!Init, RecordsInv, Runs, RecordsFit, CodeIsSaved, ReaderKnows

(* What fits goes on fitting: time passes, and the supervisor goes on, or  *)
(* is gone, or is a new one.                                               *)
LEMMA FitsOn ==
  ASSUME RecordTypes, recordClock' \in Nat, recordClock <= recordClock',
         UNCHANGED <<recordPlatform, recordBoot>>,
         \/ supervisor' = None
         \/ supervisor'.run > recordClock
         \/ /\ supervisor # None /\ supervisor' # None
            /\ supervisor'.run = supervisor.run /\ supervisor'.pid = supervisor.pid
            /\ recordProcs'[supervisor.pid] = recordProcs[supervisor.pid]
            /\ supervisor.at # "code" => supervisor'.at # "code"
  PROVE  \A s \in Stamped : StampFits(s) => StampFits(s)'
<1> SUFFICES ASSUME NEW s \in Stamped, StampFits(s)
             PROVE  StampFits(s)'
  OBVIOUS
<1>1. s.by <= recordClock /\ s.by <= recordClock' /\ s.by \in Nat /\ recordClock \in Nat
  BY DEF StampFits, RecordTypes, Stamped
<1>2. IsRunning(s.by)' => /\ IsRunning(s.by)
                          /\ supervisor'.pid = supervisor.pid
                          /\ recordProcs'[supervisor.pid] = recordProcs[supervisor.pid]
                          /\ supervisor.at # "code" => supervisor'.at # "code"
  BY <1>1 DEF IsRunning
<1>3. Records!BootIdentity(0)' = Records!BootIdentity(0)
  BY DEF Records!BootIdentity
<1>4. IsRunning(s.by)' => Records!StartToken(supervisor.pid)' = Records!StartToken(supervisor.pid)
  BY <1>2 DEF Records!StartToken
<1>5. QED
  BY <1>1, <1>2, <1>3, <1>4 DEF StampFits

LEMMA StartKeepsRecords ==
  ASSUME RecordsInv, NoneIsNoRecord, NEW pid \in Pids, Records!Start(pid) \/ Records!OtherStarts(pid)
  PROVE  RecordsInv'
<1>1. RecordTypes /\ Runs /\ RecordsFit /\ CodeIsSaved /\ ReaderKnows
  BY DEF RecordsInv
<1>2. /\ UNCHANGED <<recordPlatform, recordBoot, unsaved, loopCode, loopPid, reader>>
      /\ recordClock \in Nat /\ recordClock' = recordClock + 1 /\ ~recordProcs[pid].up
  BY <1>1 DEF Records!Start, Records!OtherStarts, Records!Starts, RecordTypes
<1>3. PICK run \in {0, recordClock'} :
        /\ recordProcs' = [recordProcs EXCEPT ![pid] = [up |-> TRUE, born |-> recordClock', run |-> run]]
        /\ \/ run = recordClock' /\ supervisor' = [run |-> recordClock', pid |-> pid, at |-> "code"]
           \/ supervisor' = supervisor
  BY DEF Records!Start, Records!OtherStarts, Records!Starts
<1>4. /\ recordProcs' \in [Pids -> [up : BOOLEAN, born : Nat, run : Nat]]
      /\ recordProcs'[pid] = [up |-> TRUE, born |-> recordClock', run |-> run]
      /\ \A other \in Pids \ {pid} : recordProcs'[other] = recordProcs[other]
  BY <1>1, <1>2, <1>3 DEF RecordTypes
<1>5. supervisor # None => supervisor.pid \in Pids \ {pid}
  BY <1>1, <1>2 DEF Runs, RecordTypes, Supervisors
<1>6. \/ /\ supervisor' \in Supervisors /\ supervisor'.run > recordClock /\ supervisor'.run = recordClock'
         /\ supervisor'.pid = pid /\ supervisor'.at = "code" /\ run = recordClock'
      \/ supervisor' = supervisor
  BY <1>2, <1>3 DEF Supervisors
<1>7. \A s \in Stamped : StampFits(s) => StampFits(s)'
  BY <1>1, <1>2, <1>4, <1>5, <1>6, FitsOn
<1>8. RecordTypes'
  BY <1>1, <1>2, <1>4, <1>6 DEF RecordTypes
<1>9. Runs'
  BY <1>1, <1>2, <1>4, <1>5, <1>6 DEF Runs, RecordTypes, Supervisors
<1>10. \A by \in Nat :
         by <= recordClock => (IsRunning(by)' => IsRunning(by) /\ supervisor' = supervisor)
  BY <1>2, <1>6 DEF IsRunning
<1>11. RecordsFit'
  <2>1. loopCode # None => StampFits(loopCode)' /\ TokenTells(loopCode)'
    BY <1>1, <1>2, <1>7 DEF RecordsFit, RecordTypes, TokenTells
  <2>2. loopPid # None => StampFits(loopPid)' /\ (IsRunning(loopPid.by)' => supervisor'.at = "run")
    BY <1>1, <1>2, <1>7, <1>10 DEF RecordsFit, RecordTypes, StampFits, Stamped
  <2>3. loopPid # None => TokenTells(loopPid)'
    BY <1>1, <1>2 DEF RecordsFit, TokenTells
  <2>4. QED
    BY <1>2, <2>1, <2>2, <2>3 DEF RecordsFit
<1>12. CodeIsSaved'
  BY <1>1, <1>2, <1>6 DEF CodeIsSaved
<1>13. ReaderKnows'
  <2> SUFFICES ASSUME reader.at # "idle"
               PROVE  ReaderKnows'
    BY <1>2 DEF ReaderKnows
  <2>1. reader.seen \in Stamped /\ StampFits(reader.seen) /\ StampFits(reader.seen)'
    BY <1>1, <1>2, <1>7 DEF RecordTypes, ReaderKnows
  <2>2. IsRunning(reader.seen.by)' => IsRunning(reader.seen.by) /\ supervisor' = supervisor
    BY <1>2, <1>10, <2>1 DEF StampFits, Stamped
  <2>3. supervisor' = supervisor /\ supervisor # None =>
          Records!StartToken(supervisor.pid)' = Records!StartToken(supervisor.pid)
    BY <1>2, <1>4, <1>5 DEF Records!StartToken
  <2>4. TokenTells(reader.seen)'
    BY <1>1, <1>2 DEF ReaderKnows, TokenTells
  <2>5. ASSUME reader.at = "unlink"
        PROVE  /\ reader.again <= recordClock'
               /\ Records!TellsApart(reader.seen) => ~IsRunning(reader.again)'
    BY <1>1, <1>2, <1>10, <2>5 DEF RecordTypes, ReaderKnows
  <2>6. Records!TellsApart(reader.seen)' <=> Records!TellsApart(reader.seen)
    BY <1>2 DEF Records!TellsApart, Records!BootRelative
  <2>7. QED
    BY <1>1, <1>2, <2>1, <2>2, <2>3, <2>4, <2>5, <2>6 DEF ReaderKnows, IsRunning
<1>14. QED
  BY <1>8, <1>9, <1>11, <1>12, <1>13 DEF RecordsInv

(* The supervisor writes its two records.                                  *)
LEMMA WritesKeep ==
  ASSUME RecordsInv, NoneIsNoRecord, Records!SaveLoopCode \/ Records!WriteLoopPid
  PROVE  RecordsInv'
<1>1. RecordTypes /\ Runs /\ RecordsFit /\ CodeIsSaved /\ ReaderKnows
  BY DEF RecordsInv
<1>2. UNCHANGED <<recordPlatform, recordClock, recordBoot, recordProcs, reader>> /\ recordClock \in Nat
  BY <1>1 DEF Records!SaveLoopCode, Records!WriteLoopPid, Records!machine, RecordTypes
<1>3. PICK step \in {"pid", "run"} :
        /\ supervisor' = [supervisor EXCEPT !.at = step]
        /\ supervisor # None /\ supervisor \in Supervisors
        /\ supervisor.at = (IF step = "pid" THEN "code" ELSE "pid")
  BY <1>1 DEF Records!SaveLoopCode, Records!WriteLoopPid, RecordTypes
<1>4. /\ supervisor' \in Supervisors /\ supervisor'.run = supervisor.run
      /\ supervisor'.pid = supervisor.pid /\ supervisor'.at = step /\ supervisor' # None
  BY <1>3 DEF Supervisors, NoneIsNoRecord
<1>5. \A s \in Stamped : StampFits(s) => StampFits(s)'
  BY <1>1, <1>2, <1>3, <1>4, FitsOn
<1>6. /\ Records!StartToken(supervisor.pid)' = Records!StartToken(supervisor.pid)
      /\ Records!BootIdentity(0)' = Records!BootIdentity(0)
  BY <1>2, <1>4 DEF Records!StartToken, Records!BootIdentity
<1>7. Runs'
  BY <1>1, <1>2, <1>3, <1>4 DEF Runs
<1>8. /\ \A s \in Stamped : TokenTells(s) => TokenTells(s)'
      /\ \A by : IsRunning(by)' <=> IsRunning(by)
  BY <1>2, <1>3, <1>4 DEF TokenTells, IsRunning
<1>9. ReaderKnows'
  <2> SUFFICES ASSUME reader.at # "idle"
               PROVE  ReaderKnows'
    BY <1>2 DEF ReaderKnows
  <2>1. reader.seen \in Stamped /\ StampFits(reader.seen) /\ StampFits(reader.seen)'
    BY <1>1, <1>2, <1>5 DEF RecordTypes, ReaderKnows
  <2>2. ~IsRunning(reader.seen.by)
    BY <1>1, <1>3 DEF ReaderKnows
  <2>3. Records!TellsApart(reader.seen)' <=> Records!TellsApart(reader.seen)
    BY <1>2 DEF Records!TellsApart, Records!BootRelative
  <2>4. TokenTells(reader.seen)'
    BY <1>1, <1>2, <2>1 DEF ReaderKnows, TokenTells
  <2>5. QED
    BY <1>1, <1>2, <1>8, <2>1, <2>2, <2>3, <2>4 DEF ReaderKnows
<1>10. CASE Records!SaveLoopCode
  <2>1. /\ loopPid' = loopPid /\ step = "pid"
        /\ \/ loopCode' \in Records!Stamps(supervisor.pid) /\ unsaved' = unsaved
           \/ loopCode' = loopCode /\ unsaved' = unsaved \union {supervisor.run}
    BY <1>3, <1>4, <1>10 DEF Records!SaveLoopCode, Supervisors
  <2>2. ASSUME loopCode' \in Records!Stamps(supervisor.pid)
        PROVE  /\ loopCode' \in Stamped /\ loopCode'.by = supervisor.run
               /\ StampFits(loopCode)' /\ TokenTells(loopCode)'
    <3>1. PICK s \in Records!Stamps(supervisor.pid) : s = loopCode'
      BY <2>2
    <3>2. /\ s \in Stamped /\ s.by = supervisor.run /\ s.pid = supervisor.pid
          /\ s.pid_start \in {None, Records!StartToken(supervisor.pid)}
          /\ s.boot \in {None, Records!BootIdentity(0)}
          /\ s.by <= recordClock /\ TokenTells(s)
      BY <1>1, <1>3, <3>1, NewStamps
    <3>3. TokenTells(loopCode)'
      BY <1>2, <3>1, <3>2 DEF TokenTells
    <3>4. QED
      BY <1>2, <1>4, <1>6, <2>1, <3>1, <3>2, <3>3 DEF StampFits
  <2>3. ASSUME loopCode' = loopCode, loopCode # None
        PROVE  StampFits(loopCode)' /\ TokenTells(loopCode)'
    BY <1>1, <1>2, <1>5, <2>3 DEF RecordsFit, RecordTypes, TokenTells
  <2>4. RecordTypes'
    BY <1>1, <1>2, <1>4, <2>1, <2>2 DEF RecordTypes
  <2>5. loopPid # None => StampFits(loopPid)' /\ TokenTells(loopPid)' /\ ~IsRunning(loopPid.by)
    BY <1>1, <1>3, <1>5, <1>8, <2>1 DEF RecordsFit, RecordTypes
  <2>6. loopPid # None => ~IsRunning(loopPid.by)'
    BY <1>1, <1>8, <2>1, <2>5 DEF RecordTypes
  <2>7. RecordsFit'
    BY <2>1, <2>2, <2>3, <2>5, <2>6 DEF RecordsFit
  <2>8. CodeIsSaved'
    BY <1>4, <2>1, <2>2, NoneIsNoRecord DEF CodeIsSaved, NoneIsNoRecord
  <2>9. QED
    BY <1>7, <1>9, <2>4, <2>7, <2>8 DEF RecordsInv
<1>11. CASE Records!WriteLoopPid
  <2>1. /\ loopCode' = loopCode /\ unsaved' = unsaved /\ step = "run"
        /\ loopPid' \in Records!Stamps(supervisor.pid)
    BY <1>3, <1>4, <1>11 DEF Records!WriteLoopPid, Supervisors
  <2>2. PICK s \in Records!Stamps(supervisor.pid) : s = loopPid'
    BY <2>1
  <2>3. /\ s \in Stamped /\ s.by = supervisor.run /\ s.pid = supervisor.pid
        /\ s.pid_start \in {None, Records!StartToken(supervisor.pid)}
        /\ s.boot \in {None, Records!BootIdentity(0)}
        /\ s.by <= recordClock /\ TokenTells(s)
    BY <1>1, <1>3, <2>2, NewStamps
  <2>4. StampFits(loopPid)' /\ TokenTells(loopPid)'
    <3>1. StampFits(loopPid)'
      BY <1>2, <1>4, <1>6, <2>1, <2>2, <2>3 DEF StampFits
    <3>2. TokenTells(loopPid)'
      BY <1>2, <2>2, <2>3 DEF TokenTells
    <3>3. QED
      BY <3>1, <3>2
  <2>5. loopCode # None => StampFits(loopCode)' /\ TokenTells(loopCode)'
    BY <1>1, <1>2, <1>5, <2>1 DEF RecordsFit, RecordTypes, TokenTells
  <2>6. RecordTypes'
    BY <1>1, <1>2, <1>4, <2>1, <2>2, <2>3 DEF RecordTypes
  <2>7. RecordsFit' /\ CodeIsSaved'
    BY <1>1, <1>3, <1>4, <2>1, <2>4, <2>5 DEF RecordsFit, CodeIsSaved
  <2>8. QED
    BY <1>7, <1>9, <2>6, <2>7 DEF RecordsInv
<1>12. QED
  BY <1>10, <1>11

LEMMA GoneKeepsRecords ==
  ASSUME RecordsInv, Records!Leave \/ Records!Reboot
  PROVE  RecordsInv'
<1>1. RecordTypes /\ Runs /\ RecordsFit /\ CodeIsSaved /\ ReaderKnows
  BY DEF RecordsInv
<1>2. /\ supervisor' = None /\ UNCHANGED <<recordPlatform, recordClock, loopCode>>
      /\ unsaved' = {}
      /\ loopPid' \in {loopPid, None}
      /\ \A run : ~IsRunning(run)'
  BY DEF Records!Leave, Records!Reboot, IsRunning
<1>3. \A s \in Stamped : StampFits(s) => StampFits(s)'
  BY <1>2 DEF StampFits
<1>4. /\ recordBoot' \in [count : Nat, at : Nat]
      /\ recordBoot' = recordBoot \/ recordBoot'.count = recordBoot.count + 1
      /\ recordProcs' \in [Pids -> [up : BOOLEAN, born : Nat, run : Nat]]
      /\ (reader' = reader /\ recordBoot' = recordBoot) \/ reader' = Records!Idle
  <2>1. CASE Records!Leave
    <3>1. supervisor.pid \in Pids /\ Records!NoProcess \in [up : BOOLEAN, born : Nat, run : Nat]
      BY <1>1, <2>1 DEF Records!Leave, Records!NoProcess, RecordTypes, Supervisors
    <3>2. QED
      BY <1>1, <2>1, <3>1 DEF Records!Leave, RecordTypes
  <2>2. CASE Records!Reboot
    <3>1. Records!NoProcess \in [up : BOOLEAN, born : Nat, run : Nat]
      BY DEF Records!NoProcess
    <3>2. recordBoot.count + 1 \in Nat /\ recordClock \in Nat
      BY <1>1 DEF RecordTypes
    <3>3. QED
      BY <2>2, <3>1, <3>2 DEF Records!Reboot
  <2>3. QED
    BY <2>1, <2>2
<1>5. RecordTypes'
  BY <1>1, <1>2, <1>4 DEF RecordTypes, Records!Idle
<1>6. RecordsFit'
  <2>1. ASSUME NEW s \in Stamped, TokenTells(s)
        PROVE  TokenTells(s)'
    <3>1. s.boot # None => s.boot.value \in Int
      BY DEF Stamped, BootIds
    <3>2. recordBoot.count \in Nat
      BY <1>1 DEF RecordTypes
    <3>3. QED
      BY <1>2, <1>4, <2>1, <3>1, <3>2 DEF TokenTells
  <2>2. loopPid' # None => StampFits(loopPid)' /\ TokenTells(loopPid)'
    <3> SUFFICES ASSUME loopPid' # None
                 PROVE  StampFits(loopPid)' /\ TokenTells(loopPid)'
      OBVIOUS
    <3>1. loopPid' = loopPid /\ loopPid \in Stamped /\ StampFits(loopPid) /\ TokenTells(loopPid)
      BY <1>1, <1>2 DEF RecordsFit, RecordTypes
    <3>2. PICK s \in Stamped : s = loopPid /\ s = loopPid'
      BY <3>1
    <3>3. StampFits(s)' /\ TokenTells(s)'
      BY <1>3, <2>1, <3>1, <3>2
    <3>4. QED
      BY <3>2, <3>3 DEF StampFits, TokenTells, IsRunning
  <2>3. loopCode # None => StampFits(loopCode)' /\ TokenTells(loopCode)'
    <3> SUFFICES ASSUME loopCode # None
                 PROVE  StampFits(loopCode)' /\ TokenTells(loopCode)'
      OBVIOUS
    <3>1. loopCode' = loopCode /\ loopCode \in Stamped /\ StampFits(loopCode) /\ TokenTells(loopCode)
      BY <1>1, <1>2 DEF RecordsFit, RecordTypes
    <3>2. PICK s \in Stamped : s = loopCode /\ s = loopCode'
      BY <3>1
    <3>3. StampFits(s)' /\ TokenTells(s)'
      BY <1>3, <2>1, <3>1, <3>2
    <3>4. QED
      BY <3>2, <3>3 DEF StampFits, TokenTells, IsRunning
  <2>4. QED
    BY <1>2, <2>2, <2>3 DEF RecordsFit
<1>7. Runs' /\ CodeIsSaved'
  BY <1>2 DEF Runs, CodeIsSaved
<1>8. ReaderKnows'
  <2> SUFFICES ASSUME reader'.at # "idle"
               PROVE  ReaderKnows'
    BY DEF ReaderKnows
  <2>1. reader' = reader /\ recordBoot' = recordBoot
    BY <1>4 DEF Records!Idle
  <2>2. StampFits(reader.seen)' /\ TokenTells(reader.seen)'
    BY <1>1, <1>2, <2>1 DEF ReaderKnows, StampFits, TokenTells
  <2>3. QED
    BY <1>1, <1>2, <2>1, <2>2 DEF ReaderKnows
<1>9. QED
  BY <1>5, <1>6, <1>7, <1>8 DEF RecordsInv

-----------------------------------------------------------------------------
(* A token, or a boot identity, does not differ from itself, nor from      *)
(* nothing; and boot instants no further apart than is tolerated do not.   *)
LEMMA NothingDiffers ==
  ASSUME RecordTypes, NEW pid \in Pids
  PROVE  /\ \A token, live \in {None, Records!StartToken(pid)} :
              Records!SameStartToken(token, live) # Records!No
         /\ \A id \in {None, Records!BootIdentity(0)}, now \in Records!Boots :
              Records!SameBoot(id, now) # Records!No
<1>1. Records!StartToken(pid) \in StartTokens /\ (\A nudge \in Nat : Records!BootIdentity(nudge) \in BootIds)
  BY AnswerTypes
<1>2. ASSUME NEW token \in {None, Records!StartToken(pid)}, NEW live \in {None, Records!StartToken(pid)}
      PROVE  Records!SameStartToken(token, live) # Records!No
  BY DEF Records!SameStartToken, Records!IsStartToken, Records!Same, Records!Yes, Records!No,
     Records!Unknown
<1>3. ASSUME NEW id \in {None, Records!BootIdentity(0)}, NEW now \in Records!Boots
      PROVE  Records!SameBoot(id, now) # Records!No
  <2>1. CASE id = None \/ now = None
    BY <2>1 DEF Records!SameBoot, Records!Unknown, Records!No
  <2>2. CASE id # None /\ now # None
    <3>1. PICK nudge \in 0 .. MaxNudge : id = Records!BootIdentity(0) /\ now = Records!BootIdentity(nudge)
      BY <1>3, <2>2 DEF Records!Boots
    <3>2. nudge \in Nat /\ nudge <= Tolerance /\ recordBoot.at \in Nat /\ recordBoot.count \in Nat
          /\ Tolerance \in Nat
      BY WorldAssumption, LivenessAssumption DEF RecordTypes
    <3>3. CASE recordPlatform = "linux"
      BY <3>1, <3>3 DEF Records!BootIdentity, Records!SameBoot, Records!Same, Records!Yes,
         Records!No, Records!Unknown
    <3>4. CASE recordPlatform # "linux"
      BY <3>1, <3>2, <3>4 DEF Records!BootIdentity, Records!SameBoot, Records!Same, Records!Yes,
         Records!No, Records!Unknown
    <3>5. QED
      BY <3>3, <3>4
  <2>3. QED
    BY <2>1, <2>2
<1>4. QED
  BY <1>2, <1>3

(* What a probe says of a supervisor that runs and whose stamp fits.       *)
LEMMA RunningIsNotReused ==
  ASSUME RecordTypes, Runs, NEW s \in Stamped, StampFits(s), IsRunning(s.by),
         NEW live \in Records!Tokens(s.pid), NEW now \in Records!Boots
  PROVE  /\ s.pid = supervisor.pid /\ s.pid \in Pids /\ recordProcs[s.pid].up
         /\ live \in {None, Records!StartToken(supervisor.pid)}
         /\ ~Records!Reused(s, live, now)
<1>1. /\ s.pid = supervisor.pid /\ s.pid \in Pids
      /\ s.pid_start \in {None, Records!StartToken(s.pid)} /\ s.boot \in {None, Records!BootIdentity(0)}
  BY DEF StampFits, Stamped
<1>2. recordProcs[s.pid].up
  BY <1>1 DEF Runs, IsRunning
<1>3. live \in {None, Records!StartToken(s.pid)}
  BY <1>2 DEF Records!Tokens
<1>4. Records!SameStartToken(s.pid_start, live) # Records!No /\ Records!SameBoot(s.boot, now) # Records!No
  BY <1>1, <1>3, NothingDiffers
<1>5. QED
  BY <1>1, <1>2, <1>3, <1>4 DEF Records!Reused

LEMMA ReaderKeeps ==
  ASSUME RecordsInv,
         \/ Records!ReadPid \/ Records!Probe \/ Records!ReRead
         \/ Records!Unlink \/ Records!ReadRecord
  PROVE  RecordsInv'
<1>1. RecordTypes /\ Runs /\ RecordsFit /\ CodeIsSaved /\ ReaderKnows
  BY DEF RecordsInv
<1>2. /\ UNCHANGED <<recordPlatform, recordClock, recordBoot, recordProcs, unsaved, supervisor, loopCode>>
      /\ loopPid' \in {loopPid, None}
  BY DEF Records!ReadPid, Records!Probe, Records!ReRead, Records!Unlink, Records!ReadRecord,
     Records!machine
<1>3. \A s \in Stamped : /\ StampFits(s)' <=> StampFits(s)
                         /\ TokenTells(s)' <=> TokenTells(s)
                         /\ IsRunning(s.by)' <=> IsRunning(s.by)
  BY <1>2 DEF StampFits, TokenTells, IsRunning, Records!StartToken, Records!BootIdentity
<1>4. Runs' /\ CodeIsSaved'
  BY <1>1, <1>2 DEF Runs, CodeIsSaved
<1>5. RecordsFit'
  <2>1. loopCode # None => StampFits(loopCode)' /\ TokenTells(loopCode)'
    BY <1>1, <1>2, <1>3 DEF RecordsFit, RecordTypes, StampFits, TokenTells
  <2>2. loopPid' # None =>
          StampFits(loopPid)' /\ TokenTells(loopPid)' /\ (IsRunning(loopPid.by)' => supervisor'.at = "run")
    BY <1>1, <1>2, <1>3 DEF RecordsFit, RecordTypes, StampFits, TokenTells, IsRunning
  <2>3. QED
    BY <1>2, <2>1, <2>2 DEF RecordsFit, IsRunning
<1>6. CASE reader' = Records!Idle
  <2>1. reader'.at = "idle"
    BY <1>6 DEF Records!Idle
  <2>2. RecordTypes' /\ ReaderKnows'
    BY <1>1, <1>2, <2>1 DEF RecordTypes, ReaderKnows
  <2>3. QED
    BY <1>4, <1>5, <2>2 DEF RecordsInv
<1>7. CASE Records!ReadPid
  <2>1. /\ reader'.at = "probe" /\ reader'.seen = loopPid /\ loopPid \in Stamped
        /\ loopPid' = loopPid
    BY <1>1, <1>7 DEF Records!ReadPid, RecordTypes
  <2>2. StampFits(loopPid) /\ TokenTells(loopPid) /\ (IsRunning(loopPid.by) => supervisor.at = "run")
    BY <1>1, <1>7 DEF Records!ReadPid, RecordsFit
  <2>3. RecordTypes' /\ ReaderKnows'
    BY <1>1, <1>2, <1>3, <2>1, <2>2 DEF RecordTypes, ReaderKnows, StampFits, TokenTells, IsRunning
  <2>4. QED
    BY <1>4, <1>5, <2>3 DEF RecordsInv
<1>8. CASE Records!Probe
  <2>1. /\ reader.at = "probe" /\ reader.seen \in Stamped
        /\ StampFits(reader.seen) /\ TokenTells(reader.seen)
        /\ IsRunning(reader.seen.by) => supervisor.at = "run"
        /\ loopPid' = loopPid
    BY <1>1, <1>8 DEF Records!Probe, RecordTypes, ReaderKnows
  <2>2. PICK seen \in Stamped : seen = reader.seen
    BY <2>1
  <2>3. /\ reader'.seen = seen /\ reader'.at \in {"reread", "record"}
        /\ reader'.at = "record" => reader'.probed \in BOOLEAN
        /\ reader'.at = "record" => reader'.live \in Records!Tokens(seen.pid)
        /\ reader'.at = "reread" =>
             \/ ~recordProcs[seen.pid].up
             \/ \E live \in Records!Tokens(seen.pid), now \in Records!Boots :
                  Records!Reused(seen, live, now)
    <3>1. CASE ~recordProcs[seen.pid].up /\ reader' = [at |-> "reread", seen |-> seen]
      BY <3>1
    <3>2. ASSUME NEW live \in Records!Tokens(seen.pid), NEW now \in Records!Boots,
                 Records!Reused(seen, live, now), reader' = [at |-> "reread", seen |-> seen]
          PROVE  /\ reader'.seen = seen /\ reader'.at = "reread"
                 /\ \E l \in Records!Tokens(seen.pid), n \in Records!Boots : Records!Reused(seen, l, n)
      BY <3>2
    <3>3. ASSUME NEW live \in Records!Tokens(seen.pid),
                 reader' = [at |-> "record", seen |-> seen,
                            probed |-> seen.pid_start # None,
                            live   |-> IF seen.pid_start # None THEN live ELSE None]
          PROVE  /\ reader'.seen = seen /\ reader'.at = "record"
                 /\ reader'.probed \in BOOLEAN /\ reader'.live \in Records!Tokens(seen.pid)
      BY <3>3 DEF Records!Tokens
    <3>4. QED
      BY <1>8, <2>2, <3>1, <3>2, <3>3 DEF Records!Probe
  <2>4. IsRunning(seen.by) =>
          /\ reader'.at = "record"
          /\ reader'.live \in {None, Records!StartToken(supervisor.pid)}
    <3>1. ASSUME IsRunning(seen.by), NEW live \in Records!Tokens(seen.pid), NEW now \in Records!Boots
          PROVE  /\ recordProcs[seen.pid].up /\ ~Records!Reused(seen, live, now)
                 /\ live \in {None, Records!StartToken(supervisor.pid)}
      BY <1>1, <2>1, <2>2, <3>1, RunningIsNotReused
    <3>2. None \in Records!Tokens(seen.pid) /\ None \in Records!Boots
      BY DEF Records!Tokens, Records!Boots
    <3>3. QED
      BY <2>3, <3>1, <3>2
  <2>5. RecordTypes'
    BY <1>1, <1>2, <2>1, <2>3 DEF RecordTypes
  <2>6. Records!StartToken(supervisor.pid)' = Records!StartToken(supervisor.pid)
    BY <1>2 DEF Records!StartToken
  <2>7. StampFits(seen)' /\ TokenTells(seen)' /\ (IsRunning(seen.by)' => IsRunning(seen.by))
    BY <1>3, <2>1, <2>2
  <2>8. ReaderKnows'
    BY <1>2, <2>1, <2>2, <2>3, <2>4, <2>6, <2>7
    DEF ReaderKnows, StampFits, TokenTells, IsRunning
  <2>9. QED
    BY <1>4, <1>5, <2>5, <2>8 DEF RecordsInv
<1>9. CASE Records!ReRead /\ reader' # Records!Idle
  <2>1. /\ reader.at = "reread" /\ loopPid # None /\ Records!Says(loopPid) = Records!Says(reader.seen)
        /\ reader' = [at |-> "unlink", seen |-> reader.seen, again |-> loopPid.by]
        /\ loopPid' = loopPid
    BY <1>9 DEF Records!ReRead
  <2>2. /\ reader.seen \in Stamped /\ StampFits(reader.seen) /\ TokenTells(reader.seen)
        /\ ~IsRunning(reader.seen.by)
        /\ loopPid \in Stamped /\ StampFits(loopPid) /\ TokenTells(loopPid)
    BY <1>1, <2>1 DEF RecordTypes, RecordsFit, ReaderKnows
  <2>3. reader'.at = "unlink" /\ reader'.seen = reader.seen /\ reader'.again = loopPid.by
    BY <2>1
  <2>4. PICK seen \in Stamped, file \in Stamped :
          /\ seen = reader.seen /\ file = loopPid
          /\ file.pid_start = seen.pid_start /\ file.boot = seen.boot
    BY <2>1, <2>2 DEF Records!Says
  <2>5. ASSUME Records!TellsApart(seen)
        PROVE  ~IsRunning(file.by)
    <3> SUFFICES ASSUME IsRunning(file.by)
                 PROVE  seen.by = file.by
      BY <2>2, <2>4
    <3>1. /\ seen.by \in Nat /\ file.by \in Nat /\ recordBoot.at \in Nat
          /\ recordPlatform \in {"linux", "win"} /\ seen.pid_start # None
      BY <1>1, <2>5 DEF Stamped, RecordTypes, Records!TellsApart
    <3>2. CASE recordPlatform = "win"
      BY <2>2, <2>4, <3>1, <3>2 DEF TokenTells
    <3>3. CASE recordPlatform = "linux"
      <4>1. seen.boot # None
        BY <2>2, <2>4, <2>5, <3>1, <3>3 DEF TokenTells, Records!TellsApart, Records!BootRelative
      <4>2. file.boot = Records!BootIdentity(0)
        BY <2>2, <2>4, <4>1 DEF StampFits
      <4>3. seen.boot.value = recordBoot.count /\ file.boot.value = recordBoot.count
        BY <2>4, <3>3, <4>2 DEF Records!BootIdentity
      <4>4. /\ seen.pid_start.value = seen.by - recordBoot.at
            /\ file.pid_start.value = file.by - recordBoot.at
        BY <2>2, <2>4, <3>1, <3>3, <4>1, <4>3 DEF TokenTells
      <4>5. QED
        BY <2>4, <3>1, <4>4
    <3>4. QED
      BY <3>1, <3>2, <3>3
  <2>6. file.by \in Nat /\ file.by <= recordClock
    BY <2>2, <2>4 DEF StampFits, Stamped
  <2>7. RecordTypes'
    BY <1>1, <1>2, <2>2, <2>3, <2>4, <2>6 DEF RecordTypes
  <2>8. StampFits(seen)' /\ TokenTells(seen)' /\ ~IsRunning(seen.by)'
        /\ (IsRunning(file.by)' <=> IsRunning(file.by))
    BY <1>3, <2>2, <2>4
  <2>9. ReaderKnows'
    <3>1. /\ StampFits(reader.seen)' /\ TokenTells(reader.seen)' /\ ~IsRunning(reader.seen.by)'
          /\ reader'.again <= recordClock'
      BY <1>2, <2>3, <2>4, <2>6, <2>8 DEF StampFits, TokenTells, IsRunning
    <3>2. Records!TellsApart(reader.seen)' => ~IsRunning(reader.again)'
      BY <2>3, <2>4, <2>5, <2>8 DEF Records!TellsApart, Records!BootRelative, IsRunning
    <3>3. QED
      BY <2>3, <3>1, <3>2 DEF ReaderKnows
  <2>10. QED
    BY <1>4, <1>5, <2>7, <2>9 DEF RecordsInv
<1>10. QED
  BY <1>6, <1>7, <1>8, <1>9 DEF Records!ReRead, Records!Unlink, Records!ReadRecord

LEMMA RecordsStay ==
  ASSUME RecordsInv, NoneIsNoRecord, [Records!Next]_Records!vars
  PROVE  RecordsInv'
<1>1. CASE UNCHANGED Records!vars
  BY <1>1 DEF Records!vars, RecordsInv, RecordTypes, Runs, RecordsFit, CodeIsSaved, ReaderKnows,
     StampFits, TokenTells, IsRunning, Records!StartToken, Records!BootIdentity,
     Records!TellsApart, Records!BootRelative
<1>2. CASE Records!Next
  BY <1>2, StartKeepsRecords, WritesKeep, GoneKeepsRecords, ReaderKeeps DEF Records!Next
<1>3. QED
  BY <1>1, <1>2

(* What a reader that has come as far as the code record concludes of a    *)
(* supervisor that runs.                                                   *)
LEMMA VerdictFits ==
  ASSUME RecordsInv
  PROVE  Records!VerdictIsItsOwn
<1> SUFFICES ASSUME reader.at = "record", IsRunning(reader.seen.by),
                    NEW live \in Records!LiveTokens, NEW now \in Records!Boots
             PROVE  /\ supervisor.run \notin unsaved => Records!Described(live, now)
                    /\ (/\ Records!Described(live, now)
                        /\ live # None /\ Records!TellsApart(loopCode)
                        /\ Records!BootRelative(loopCode.pid_start) => now # None) =>
                         loopCode.by = supervisor.run
  BY DEF Records!VerdictIsItsOwn, IsRunning
<1>1. RecordTypes /\ Runs /\ RecordsFit /\ CodeIsSaved /\ ReaderKnows
  BY DEF RecordsInv
<1>2. /\ reader.seen \in Stamped /\ StampFits(reader.seen) /\ supervisor.at = "run"
      /\ supervisor # None /\ supervisor.run = reader.seen.by
      /\ reader.probed => reader.live \in {None, Records!StartToken(supervisor.pid)}
  BY <1>1 DEF RecordTypes, ReaderKnows, IsRunning
<1>3. PICK pid \in Pids : pid = supervisor.pid /\ reader.seen.pid = pid
  BY <1>2 DEF StampFits, IsRunning, Stamped
<1>4. recordProcs[pid].up /\ recordProcs[pid].born = supervisor.run
  BY <1>1, <1>2, <1>3 DEF Runs
<1>5. live \in {None, Records!StartToken(pid)}
  BY <1>2, <1>3, <1>4 DEF Records!LiveTokens, Records!Tokens
<1>6. ASSUME supervisor.run \notin unsaved
      PROVE  Records!Described(live, now)
  <2>1. /\ loopCode # None /\ loopCode.by = supervisor.run
        /\ StampFits(loopCode)
    BY <1>1, <1>2, <1>6 DEF CodeIsSaved, RecordsFit
  <2>2. /\ loopCode.pid = pid
        /\ loopCode.pid_start \in {None, Records!StartToken(pid)}
        /\ loopCode.boot \in {None, Records!BootIdentity(0)}
    BY <1>2, <1>3, <2>1 DEF StampFits, IsRunning
  <2>3. /\ Records!SameStartToken(loopCode.pid_start, live) # Records!No
        /\ Records!SameBoot(loopCode.boot, now) # Records!No
    BY <1>1, <1>5, <2>2, NothingDiffers
  <2>4. QED
    BY <1>3, <2>1, <2>2, <2>3 DEF Records!Described, Records!Describes
<1>7. ASSUME Records!Described(live, now), live # None, Records!TellsApart(loopCode),
             Records!BootRelative(loopCode.pid_start) => now # None
      PROVE  loopCode.by = supervisor.run
  <2>1. loopCode \in Stamped /\ loopCode # None /\ TokenTells(loopCode)
    BY <1>1, <1>7 DEF Records!Described, RecordTypes, RecordsFit
  <2>2. /\ Records!SameBoot(loopCode.boot, now) # Records!No
        /\ Records!SameStartToken(loopCode.pid_start, live) # Records!No
    BY <1>7 DEF Records!Described, Records!Describes
  <2>3. /\ loopCode.pid_start # None
        /\ loopCode.pid_start \in StartTokens /\ live \in StartTokens
        /\ live = Records!StartToken(pid) /\ live.kind = recordPlatform
    BY <1>1, <1>5, <1>7, <2>1, AnswerTypes DEF Stamped, Records!TellsApart
  <2>4. Records!IsStartToken(loopCode.pid_start) /\ Records!IsStartToken(live)
    BY <2>3, NothingIsNoAnswer
  <2>5. /\ loopCode.by \in Nat /\ supervisor.run \in Nat /\ recordBoot.at \in Nat /\ recordBoot.count \in Nat
        /\ recordPlatform \in {"linux", "win"}
    BY <1>1, <1>2, <2>1 DEF RecordTypes, Stamped, Supervisors
  <2>6. CASE recordPlatform = "linux"
    <3>0. loopCode.boot # None /\ now # None
      BY <1>7, <2>1, <2>3, <2>6 DEF TokenTells, Records!TellsApart, Records!BootRelative
    <3>1. live.value = supervisor.run - recordBoot.at
      BY <1>4, <2>3, <2>6 DEF Records!StartToken
    <3>2. now = [kind |-> "uuid", value |-> recordBoot.count]
      BY <2>6, <3>0 DEF Records!Boots, Records!BootIdentity
    <3>3. /\ loopCode.boot \in BootIds /\ loopCode.boot.kind = "uuid"
          /\ loopCode.boot.value = recordBoot.count => loopCode.pid_start.value = loopCode.by - recordBoot.at
      BY <2>1, <2>3, <2>6, <3>0 DEF TokenTells, Stamped
    <3>4. loopCode.boot # None /\ loopCode.boot.value # Damaged /\ recordBoot.count # Damaged
      BY <2>5, <3>3, NothingIsNoAnswer, ValuesAssumption
    <3>5. loopCode.boot.value = recordBoot.count
      BY <2>2, <3>0, <3>2, <3>3, <3>4 DEF Records!SameBoot, Records!Same, Records!No
    <3>6. loopCode.pid_start = live \/ loopCode.pid_start.kind # live.kind
      BY <2>2, <2>4 DEF Records!SameStartToken, Records!Same, Records!No
    <3>7. loopCode.pid_start.kind = live.kind
      BY <1>7, <2>1, <2>3 DEF TokenTells
    <3>8. QED
      BY <2>5, <3>1, <3>3, <3>5, <3>6, <3>7
  <2>7. CASE recordPlatform = "win"
    <3>1. live.value = supervisor.run
      BY <1>4, <2>3, <2>5, <2>7 DEF Records!StartToken
    <3>2. loopCode.pid_start.value = loopCode.by /\ loopCode.pid_start.kind = live.kind
      BY <1>7, <2>1, <2>3, <2>7 DEF TokenTells
    <3>3. loopCode.pid_start = live
      BY <2>2, <2>4, <3>2 DEF Records!SameStartToken, Records!Same, Records!No
    <3>4. QED
      BY <3>1, <3>2, <3>3
  <2>8. QED
    BY <2>5, <2>6, <2>7
<1>8. QED
  BY <1>6, <1>7

(* _loop_pid_reused(): of a supervisor that runs, the pid file is not      *)
(* removed, for any number of starts, boots and corrections within the     *)
(* tolerance, and for pids that are used again: neither of the supervisor  *)
(* judged, nor, where the file has its stamps, of the one read again.      *)
THEOREM RunningIsNotPruned ==
  ASSUME NoneIsNoRecord
  PROVE  Records!Spec => []PrunedHasEnded
<1>1. Records!Init => RecordsInv
  BY RecordsInit
<1>2. RecordsInv /\ [Records!Next]_Records!vars => RecordsInv'
  BY RecordsStay
<1>3. RecordsInv => PrunedHasEnded
  BY DEF RecordsInv, ReaderKnows, IsRunning, PrunedHasEnded, Records!PrunedHasEnded, Records!Ended
<1>4. QED
  BY <1>1, <1>2, <1>3, PTL DEF Records!Spec

(* loop_code_state(): no verdict about the wrong process, likewise.        *)
THEOREM VerdictsAreTheirOwn ==
  ASSUME NoneIsNoRecord
  PROVE  Records!Spec => []VerdictIsItsOwn
<1>1. Records!Init => RecordsInv
  BY RecordsInit
<1>2. RecordsInv /\ [Records!Next]_Records!vars => RecordsInv'
  BY RecordsStay
<1>3. RecordsInv => VerdictIsItsOwn
  BY VerdictFits DEF VerdictIsItsOwn
<1>4. QED
  BY <1>1, <1>2, <1>3, PTL DEF Records!Spec

-----------------------------------------------------------------------------
(***************************************************************************)
(* The conventions while they are retired, for any number of projects,     *)
(* texts and faults: what licenses the removal (a copy, and every listed   *)
(* project with the block) is established over many steps, and what others *)
(* do meanwhile takes none of it back.                                     *)
(***************************************************************************)

(* Assumed of the constants: there is a text, the one that was shipped,    *)
(* and "no copy" is not a copy.                                            *)
RetireConstants == MaxTexts \in Nat \ {0} /\ None # "whole"

RetireSteps == {"idle", "snapshot", "project", "write", "preserve", "unlink", "stage"}

AgentsFile == [own : Nat, block : Nat]

Retirings ==
  [at : RetireSteps, listed : SUBSET Projects, todo : SUBSET Projects,
   source : Nat, snapshot : SUBSET Projects, current : SUBSET Projects,
   blocked : BOOLEAN, project : Projects \union {None}, seen : AgentsFile]

RetireTypes ==
  /\ catalog \subseteq Projects
  /\ global \in 0 .. MaxTexts /\ texts \in Retirement!Texts
  /\ archive \in [Retirement!Texts -> {None, "whole", "torn"}]
  /\ agents \in [Projects -> AgentsFile]
  /\ retiring \in Retirings
  /\ ~Retirement!At("idle") => retiring.source # 0
  /\ Retirement!At("write") => retiring.project \in Projects
  /\ reached \subseteq Projects

(* The last text has a whole copy once its file may go, or is gone.        *)
CopyIsMade ==
  /\ global # 0 => global = texts
  /\ Retirement!At("unlink") \/ global = 0 => archive[texts] = "whole" \/ texts \in late

(* Whoever had a turn holds the block, unless something blocks the removal.*)
TurnsPlaced ==
  /\ retiring.at \in {"project", "write", "preserve", "unlink"} =>
       retiring.blocked \/ \A p \in retiring.listed \ retiring.todo : agents[p].block # 0
  /\ retiring.at \in {"preserve", "unlink"} => ~retiring.blocked /\ retiring.todo = {}

ReachedHold == \A p \in reached : agents[p].block # 0

RetireInv == RetireTypes /\ CopyIsMade /\ TurnsPlaced /\ ReachedHold

-----------------------------------------------------------------------------
LEMMA RetireInit ==
  ASSUME RetireConstants, Retirement!Init
  PROVE  RetireInv
<1>1. Retirement!Idle \in Retirings /\ Retirement!Idle.at = "idle"
  BY DEF Retirement!Idle, Retirement!NoFile, AgentsFile, Retirings, RetireSteps
<1>2. Retirement!NoFile \in AgentsFile
  BY DEF Retirement!NoFile, AgentsFile
<1>3. RetireTypes
  BY <1>1, <1>2 DEF RetireConstants, Retirement!Init, RetireTypes, RetireSteps, Retirement!Texts,
     Retirement!At
<1>4. QED
  BY <1>1, <1>3 DEF RetireInv, Retirement!Init, CopyIsMade, TurnsPlaced, ReachedHold, Retirement!At

(* A step of the command that writes to no project.                        *)
LEMMA CommandKeeps ==
  ASSUME RetireConstants, RetireInv,
         \/ Retirement!List \/ Retirement!Snapshot \/ Retirement!Recheck
         \/ Retirement!Stage \/ Retirement!Killed
  PROVE  RetireInv'
<1>1. RetireTypes /\ CopyIsMade /\ TurnsPlaced /\ ReachedHold
  BY DEF RetireInv
<1>2. UNCHANGED <<catalog, global, texts, archive, agents, reached, late>>
  BY DEF Retirement!List, Retirement!Snapshot, Retirement!Recheck, Retirement!Stage,
     Retirement!Killed
<1>3. /\ retiring' \in Retirings
      /\ retiring'.at \in {"idle", "snapshot", "project", "preserve", "stage"}
      /\ retiring'.at # "idle" => retiring'.source # 0
      /\ retiring'.at = "project" => retiring'.todo = retiring'.listed
      /\ retiring'.at = "preserve" =>
           /\ Retirement!At("project") /\ retiring.todo = {} /\ ~retiring.blocked
           /\ retiring'.blocked = retiring.blocked /\ retiring'.todo = retiring.todo
           /\ retiring'.listed = retiring.listed
  <2>1. Retirement!Idle \in Retirings /\ Retirement!Idle.at = "idle"
    BY DEF Retirement!Idle, Retirement!NoFile, AgentsFile, Retirings, RetireSteps
  <2>2. CASE Retirement!List
    <3>1. PICK source \in Nat \ {0} :
            retiring' = [Retirement!Idle EXCEPT !.at = "snapshot", !.listed = catalog, !.source = source]
      <4>1. \A readable \in BOOLEAN : Retirement!ResolveSource(readable) \in Nat \ {0}
        BY <1>1 DEF Retirement!ResolveSource, RetireTypes, RetireConstants
      <4>2. QED
        BY <2>2, <4>1 DEF Retirement!List
    <3>2. QED
      BY <1>1, <2>1, <3>1 DEF RetireTypes, Retirings, RetireSteps
  <2>3. CASE Retirement!Snapshot
    <3>1. Retirement!At("snapshot")
          /\ \/ retiring' = Retirement!Idle
             \/ retiring' = [retiring EXCEPT !.at = "project", !.todo = retiring.listed,
                                              !.snapshot = catalog]
      BY <2>3 DEF Retirement!Snapshot
    <3>2. QED
      BY <1>1, <2>1, <3>1 DEF RetireTypes, Retirings, RetireSteps, Retirement!At
  <2>4. CASE Retirement!Recheck
    <3>1. PICK step \in {"preserve", "stage"} :
            /\ retiring' = [retiring EXCEPT !.current = catalog, !.at = step]
            /\ Retirement!At("project") /\ retiring.todo = {}
            /\ step = "preserve" => ~retiring.blocked
      BY <2>4 DEF Retirement!Recheck, Retirement!Placed
    <3>2. QED
      BY <1>1, <3>1 DEF RetireTypes, Retirings, RetireSteps, Retirement!At
  <2>5. CASE Retirement!Stage \/ Retirement!Killed
    BY <2>1, <2>5 DEF Retirement!Stage, Retirement!Killed
  <2>6. QED
    BY <2>2, <2>3, <2>4, <2>5
<1>4. RetireTypes'
  BY <1>1, <1>2, <1>3 DEF RetireTypes, Retirement!At
<1>5. CopyIsMade' /\ ReachedHold'
  BY <1>1, <1>2, <1>3 DEF CopyIsMade, ReachedHold, Retirement!At
<1>6. TurnsPlaced'
  BY <1>1, <1>2, <1>3 DEF TurnsPlaced, Retirement!At
<1>7. QED
  BY <1>4, <1>5, <1>6 DEF RetireInv

LEMMA PlaceKeeps ==
  ASSUME RetireConstants, RetireInv, Retirement!WriteAgents \/ \E p \in Projects : Retirement!LookAt(p)
  PROVE  RetireInv'
<1>1. RetireTypes /\ CopyIsMade /\ TurnsPlaced /\ ReachedHold
  BY DEF RetireInv
<1>2. UNCHANGED <<catalog, global, texts, archive, reached, late>>
  BY DEF Retirement!WriteAgents, Retirement!LookAt
<1>3. /\ retiring.at \in {"project", "write"} /\ retiring.source \in Nat \ {0}
      /\ retiring.seen \in AgentsFile
  BY <1>1 DEF Retirement!WriteAgents, Retirement!LookAt, RetireTypes, Retirings, Retirement!At
<1>4. CASE Retirement!WriteAgents
  <2>1. PICK p \in Projects : p = retiring.project
    BY <1>1, <1>4 DEF Retirement!WriteAgents, RetireTypes
  <2>2. /\ retiring.at = "write"
        /\ \/ Retirement!WriteText(p) /\ retiring' = [retiring EXCEPT !.at = "project", !.todo = @ \ {p}]
           \/ (Retirement!WriteText(p) \/ UNCHANGED agents) /\ Retirement!Blocked(p)
    BY <1>4, <2>1 DEF Retirement!WriteAgents, Retirement!At
  <2>3. /\ Retirement!WriteText(p) => /\ agents' \in [Projects -> AgentsFile] /\ agents'[p].block # 0
                                      /\ \A q \in Projects \ {p} : agents'[q] = agents[q]
        /\ agents' \in [Projects -> AgentsFile]
        /\ \A q \in Projects : agents[q].block # 0 => agents'[q].block # 0
    BY <1>1, <1>3, <2>2 DEF Retirement!WriteText, Retirement!Compose, RetireTypes, AgentsFile
  <2>4. /\ retiring'.at = "project" /\ retiring'.todo = retiring.todo \ {p}
        /\ retiring'.listed = retiring.listed /\ retiring'.source = retiring.source
        /\ retiring'.blocked \/ (Retirement!WriteText(p) /\ retiring'.blocked = retiring.blocked)
        /\ retiring' \in Retirings
    <3>1. CASE Retirement!WriteText(p) /\ retiring' = [retiring EXCEPT !.at = "project", !.todo = @ \ {p}]
      BY <1>1, <3>1 DEF RetireTypes, Retirings, RetireSteps
    <3>2. CASE Retirement!Blocked(p)
      BY <1>1, <3>2 DEF Retirement!Blocked, RetireTypes, Retirings, RetireSteps
    <3>3. QED
      BY <2>2, <3>1, <3>2
  <2>5. RetireTypes'
    BY <1>1, <1>2, <1>3, <2>3, <2>4 DEF RetireTypes, Retirement!At
  <2>6. TurnsPlaced'
    BY <1>1, <1>3, <2>3, <2>4 DEF TurnsPlaced, Retirement!At, RetireTypes, Retirings
  <2>7. CopyIsMade' /\ ReachedHold'
    BY <1>1, <1>2, <2>3, <2>4 DEF CopyIsMade, ReachedHold, Retirement!At, RetireTypes
  <2>8. QED
    BY <2>5, <2>6, <2>7 DEF RetireInv
<1>5. ASSUME NEW p \in Projects, Retirement!LookAt(p)
      PROVE  RetireInv'
  <2>1. /\ agents' = agents /\ retiring.at = "project" /\ p \in retiring.todo
        /\ \/ agents[p].block = retiring.source
              /\ retiring' = [retiring EXCEPT !.todo = @ \ {p}]
           \/ retiring' = [retiring EXCEPT !.at = "write", !.project = p, !.seen = agents[p]]
           \/ Retirement!Blocked(p)
    BY <1>5 DEF Retirement!LookAt, Retirement!At
  <2>2. /\ retiring'.at \in {"project", "write"}
        /\ retiring'.at = "write" => retiring'.project = p /\ retiring'.todo = retiring.todo
                                       /\ retiring'.blocked = retiring.blocked
        /\ retiring'.at = "project" =>
             /\ retiring'.todo = retiring.todo \ {p}
             /\ retiring'.blocked \/ (agents[p].block # 0 /\ retiring'.blocked = retiring.blocked)
        /\ retiring'.listed = retiring.listed /\ retiring'.source = retiring.source
        /\ retiring' \in Retirings
    <3>1. CASE /\ agents[p].block = retiring.source
               /\ retiring' = [retiring EXCEPT !.todo = @ \ {p}]
      BY <1>1, <1>3, <2>1, <3>1 DEF RetireTypes, Retirings, RetireSteps
    <3>2. CASE retiring' = [retiring EXCEPT !.at = "write", !.project = p, !.seen = agents[p]]
      BY <1>1, <3>2 DEF RetireTypes, Retirings, RetireSteps
    <3>3. CASE Retirement!Blocked(p)
      BY <1>1, <3>3 DEF Retirement!Blocked, RetireTypes, Retirings, RetireSteps
    <3>4. QED
      BY <2>1, <3>1, <3>2, <3>3
  <2>3. RetireTypes'
    BY <1>1, <1>2, <1>3, <2>1, <2>2 DEF RetireTypes, Retirement!At
  <2>4. TurnsPlaced'
    BY <1>1, <2>1, <2>2 DEF TurnsPlaced, Retirement!At
  <2>5. CopyIsMade' /\ ReachedHold'
    BY <1>1, <1>2, <2>1, <2>2 DEF CopyIsMade, ReachedHold, Retirement!At
  <2>6. QED
    BY <2>3, <2>4, <2>5 DEF RetireInv
<1>6. QED
  BY <1>4, <1>5

LEMMA RemovalKeeps ==
  ASSUME RetireConstants, RetireInv, Retirement!Preserve \/ Retirement!Unlink
  PROVE  RetireInv'
<1>1. RetireTypes /\ CopyIsMade /\ TurnsPlaced /\ ReachedHold
  BY DEF RetireInv
<1>2. /\ UNCHANGED <<catalog, texts, agents, late>>
      /\ retiring.at \in {"preserve", "unlink"}
      /\ ~retiring.blocked /\ retiring.todo = {}
  BY <1>1 DEF Retirement!Preserve, Retirement!Unlink, TurnsPlaced, Retirement!At
<1>3. PICK step \in {"stage", "unlink"} :
        /\ Retirement!Go(step)
        /\ step = "unlink" => Retirement!At("preserve") /\ global # 0 /\ archive'[global] = "whole"
  <2>1. CASE Retirement!Preserve
    <3>1. global # 0 => global \in Retirement!Texts
      BY <1>1 DEF RetireTypes, Retirement!Texts
    <3>2. QED
      BY <1>1, <2>1, <3>1 DEF Retirement!Preserve, RetireTypes, Retirement!Go
  <2>2. CASE Retirement!Unlink
    BY <2>2 DEF Retirement!Unlink
  <2>3. QED
    BY <2>1, <2>2
<1>4. /\ retiring' \in Retirings /\ retiring'.at = step /\ retiring'.todo = {}
      /\ retiring'.blocked = retiring.blocked /\ retiring'.listed = retiring.listed
      /\ retiring'.source = retiring.source
  BY <1>1, <1>2, <1>3 DEF Retirement!Go, RetireTypes, Retirings, RetireSteps
<1>5. \A p \in retiring.listed : agents[p].block # 0
  BY <1>1, <1>2 DEF TurnsPlaced
<1>6. /\ archive' \in [Retirement!Texts -> {None, "whole", "torn"}]
      /\ \A t \in Retirement!Texts : archive[t] = "whole" => archive'[t] = "whole"
  BY <1>1 DEF Retirement!Preserve, Retirement!Unlink, RetireTypes, Retirement!Texts, RetireConstants
<1>7. /\ global' = global /\ reached' = reached
      \/ /\ global' = 0 /\ reached' = reached \union retiring.listed /\ Retirement!At("unlink")
  BY DEF Retirement!Preserve, Retirement!Unlink
<1>8. RetireTypes'
  BY <1>1, <1>2, <1>4, <1>6, <1>7 DEF RetireConstants, RetireTypes, Retirings, Retirement!At
<1>9. CopyIsMade'
  BY <1>1, <1>2, <1>3, <1>4, <1>6, <1>7 DEF CopyIsMade, RetireTypes, Retirement!At
<1>10. TurnsPlaced'
  BY <1>2, <1>4, <1>5 DEF TurnsPlaced, Retirement!At
<1>11. ReachedHold'
  BY <1>1, <1>2, <1>5, <1>7 DEF ReachedHold
<1>12. QED
  BY <1>8, <1>9, <1>10, <1>11 DEF RetireInv

(* Everybody else.                                                         *)
LEMMA OthersKeep ==
  ASSUME RetireConstants, RetireInv,
         Retirement!EditGlobal \/ \E p \in Projects : Retirement!Register(p) \/ Retirement!EditAgents(p)
  PROVE  RetireInv'
<1>1. RetireTypes /\ CopyIsMade /\ TurnsPlaced /\ ReachedHold
  BY DEF RetireInv
<1>2. CASE Retirement!EditGlobal
  <2>1. /\ texts' \in Retirement!Texts /\ global' = texts' /\ global' # 0 /\ global' \in 0 .. MaxTexts
        /\ Retirement!At("unlink") => texts' \in late'
        /\ UNCHANGED <<catalog, archive, agents, retiring, reached>>
    BY <1>1, <1>2 DEF Retirement!EditGlobal, RetireTypes, Retirement!Texts, RetireConstants
  <2>2. QED
    BY <1>1, <2>1 DEF RetireInv, RetireTypes, CopyIsMade, TurnsPlaced, ReachedHold, Retirement!At
<1>3. ASSUME NEW p \in Projects, Retirement!Register(p) \/ Retirement!EditAgents(p)
      PROVE  RetireInv'
  <2>1. /\ UNCHANGED <<global, texts, archive, retiring, reached, late>>
        /\ catalog' \subseteq Projects
        /\ agents' \in [Projects -> AgentsFile]
        /\ \A q \in Projects : agents'[q].block = agents[q].block
    BY <1>1, <1>3 DEF Retirement!Register, Retirement!EditAgents, RetireTypes, AgentsFile
  <2>2. RetireTypes' /\ CopyIsMade'
    BY <1>1, <2>1 DEF RetireTypes, CopyIsMade, Retirement!At
  <2>3. TurnsPlaced' /\ ReachedHold'
    BY <1>1, <2>1 DEF RetireTypes, Retirings, TurnsPlaced, ReachedHold
  <2>4. QED
    BY <2>2, <2>3 DEF RetireInv
<1>4. QED
  BY <1>2, <1>3

LEMMA RetireStays ==
  ASSUME RetireConstants, RetireInv, [Retirement!Next]_Retirement!vars
  PROVE  RetireInv'
<1>1. CASE UNCHANGED Retirement!vars
  BY <1>1 DEF Retirement!vars, RetireInv, RetireTypes, CopyIsMade, TurnsPlaced, ReachedHold,
     Retirement!At
<1>2. CASE Retirement!Next
  BY <1>2, CommandKeeps, PlaceKeeps, RemovalKeeps, OthersKeep DEF Retirement!Next
<1>3. QED
  BY <1>1, <1>2

(* "Never one with them in none", for any number of projects, texts, edits *)
(* and faults: where the user-scope file is gone, a whole copy of its last *)
(* text was made or the text came after it, and every project the removal  *)
(* counted on still holds the managed block.                               *)
THEOREM ConventionsSurvive ==
  ASSUME RetireConstants
  PROVE  Retirement!Spec => []NeverInNone
<1>1. Retirement!Init => RetireInv
  BY RetireInit
<1>2. RetireInv /\ [Retirement!Next]_Retirement!vars => RetireInv'
  BY RetireStays
<1>3. RetireInv => NeverInNone
  BY DEF RetireInv, CopyIsMade, ReachedHold, NeverInNone, Retirement!NeverInNone
<1>4. QED
  BY <1>1, <1>2, <1>3, PTL DEF Retirement!Spec

-----------------------------------------------------------------------------
(***************************************************************************)
(* An item that is closed was approved, or names an id that was, for any   *)
(* number of users, ids and titles. A command judges the item and rewrites *)
(* it later, with no lock between. What carries the judgement over: an     *)
(* approval is not taken back, a file does not go away, and what an item   *)
(* blocks is never rewritten.                                              *)
(***************************************************************************)

(* Assumed of the constants: None is no item, ids are numbers, and of any  *)
(* slugs one comes first.                                                  *)
SlugsAreOrdered ==
  /\ None \notin Tickets!Item /\ MaxId \in Nat
  /\ Slugs \subseteq Nat
  /\ \A S \in SUBSET Slugs : S # {} => \E s \in S : \A t \in S : s <= t

Rewritings ==
  {Tickets!Idle} \union [at : {"write new"}, name : Tickets!Names, blocks : 0 .. MaxId]
         \union [at : {"rewrite"}, name : Tickets!Names, status : {"open", "closed", "rejected"}]

Granted(n) == n \in approved \/ \E m \in approved : m[1] = items[n].blocks

(* What a command is about to write stays justified until it does.         *)
Justified(u) ==
  command[u].at = "rewrite" =>
    /\ command[u].name \in Tickets!Files
    /\ command[u].status = "closed" => Granted(command[u].name)

BacklogInv ==
  /\ Tickets!TypeOK /\ command \in [Users -> Rewritings]
  /\ \A n \in Tickets!Files : /\ items[n].status = "open"   => n \in approved
                              /\ items[n].status = "closed" => Granted(n)
  /\ \A u \in Users : Justified(u)

-----------------------------------------------------------------------------
(* The first file of an id is a file of that id.                           *)
LEMMA FirstIsOfItsId ==
  ASSUME SlugsAreOrdered, NEW id, Tickets!First(id) # None
  PROVE  Tickets!First(id) \in Tickets!Files /\ Tickets!First(id)[1] = id
<1> DEFINE named == {n \in Tickets!Files : n[1] = id}
<1>1. named # {} /\ Tickets!First(id) = CHOOSE n \in named : \A m \in named : n[2] <= m[2]
  BY DEF Tickets!First
<1>2. \A n \in named : n \in Tickets!Ids \X Slugs
  BY DEF Tickets!Files, Tickets!Names
<1>3. \E n \in named : \A m \in named : n[2] <= m[2]
  <2> DEFINE S == {n[2] : n \in named}
  <2>1. S \in SUBSET Slugs /\ S # {}
    BY <1>1, <1>2
  <2>2. PICK s \in S : \A t \in S : s <= t
    BY <2>1 DEF SlugsAreOrdered
  <2>3. PICK n \in named : n[2] = s
    BY <2>2
  <2>4. QED
    BY <2>2, <2>3
<1>4. Tickets!First(id) \in named
  <2> HIDE DEF named
  <2>1. QED
    BY <1>1, <1>3
<1>5. QED
  BY <1>4

(* What a command that is to write has to write.                           *)
LEMMA CommandKinds ==
  ASSUME NEW c \in Rewritings
  PROVE  /\ c.at = "write new" => c.name \in Tickets!Names /\ c.blocks \in 0 .. MaxId
         /\ c.at = "rewrite" => /\ c.name \in Tickets!Names
                                /\ c.status \in {"open", "closed", "rejected"}
<1>1. CASE c = Tickets!Idle
  BY <1>1 DEF Tickets!Idle
<1>2. CASE c \in [at : {"write new"}, name : Tickets!Names, blocks : 0 .. MaxId]
  BY <1>2
<1>3. CASE c \in [at : {"rewrite"}, name : Tickets!Names, status : {"open", "closed", "rejected"}]
  BY <1>3
<1>4. QED
  BY <1>1, <1>2, <1>3 DEF Rewritings

LEMMA FilesAreItems ==
  ASSUME Tickets!TypeOK, SlugsAreOrdered
  PROVE  \A n \in Tickets!Names : n \in Tickets!Files <=> items[n] \in Tickets!Item
  BY DEF Tickets!TypeOK, SlugsAreOrdered, Tickets!Files

(* A workable item has what its closing needs.                             *)
LEMMA WorkableIsGranted ==
  ASSUME SlugsAreOrdered, BacklogInv, NEW n \in Tickets!Files, Tickets!Workable(items[n])
  PROVE  Granted(n)
<1>1. CASE items[n].status = "open"
  BY <1>1 DEF BacklogInv, Granted
<1>2. CASE /\ Tickets!First(items[n].blocks) # None
           /\ items[Tickets!First(items[n].blocks)].status = "open"
  <2>1. Tickets!First(items[n].blocks) \in Tickets!Files /\ Tickets!First(items[n].blocks)[1] = items[n].blocks
    BY <1>2, FirstIsOfItsId
  <2>2. Tickets!First(items[n].blocks) \in approved
    BY <1>2, <2>1 DEF BacklogInv
  <2>3. QED
    BY <2>1, <2>2 DEF Granted
<1>3. QED
  BY <1>1, <1>2 DEF Tickets!Workable

(* Files that stay keep what was granted to them, and so do commands.      *)
LEMMA GrantsLast ==
  ASSUME BacklogInv, approved \subseteq approved',
         \A n \in Tickets!Files : n \in Tickets!Files' /\ items'[n].blocks = items[n].blocks
  PROVE  /\ \A n \in Tickets!Files : Granted(n) => Granted(n)'
         /\ \A u \in Users : command'[u] = command[u] => Justified(u)'
<1>1. \A n \in Tickets!Files : Granted(n) => Granted(n)'
  BY DEF Granted
<1>2. ASSUME NEW u \in Users, command'[u] = command[u]
      PROVE  Justified(u)'
  <2>1. Justified(u)
    BY DEF BacklogInv
  <2>2. command[u].at = "rewrite" =>
          /\ items'[command[u].name] # None /\ command[u].name \in Tickets!Names
          /\ command[u].status = "closed" =>
               \/ command[u].name \in approved'
               \/ \E m \in approved' : m[1] = items'[command[u].name].blocks
    BY <1>1, <2>1 DEF Justified, Granted, Tickets!Files
  <2>3. QED
    BY <1>2, <2>2 DEF Justified, Granted, Tickets!Files
<1>3. QED
  BY <1>1, <1>2

(* A command that reads and decides, and writes nothing yet.               *)
LEMMA DecideKeeps ==
  ASSUME BacklogInv, NEW u \in Users, NEW c \in Rewritings, Tickets!Do(u, c),
         UNCHANGED <<items, approved>>,
         c.at = "rewrite" => /\ c.name \in Tickets!Files
                             /\ c.status = "closed" => Granted(c.name)
  PROVE  BacklogInv'
<1>1. command' = [command EXCEPT ![u] = c] /\ items' = items /\ approved' = approved
      /\ command \in [Users -> Rewritings]
  BY DEF Tickets!Do, BacklogInv
<1>2. command' \in [Users -> Rewritings] /\ command'[u] = c
  BY <1>1
<1>3. Tickets!Files' = Tickets!Files /\ \A n : Granted(n)' <=> Granted(n)
  BY <1>1 DEF Tickets!Files, Granted
<1>4. Justified(u)'
  BY <1>1, <1>2 DEF Justified, Granted, Tickets!Files
<1>5. \A v \in Users \ {u} : command'[v] = command[v]
  BY <1>1
<1>6. \A v \in Users \ {u} : Justified(v)'
  BY <1>1, <1>3, <1>5, GrantsLast
<1>7. Tickets!TypeOK'
  BY <1>1 DEF BacklogInv, Tickets!TypeOK
<1>8. \A n \in Tickets!Files' : /\ items'[n].status = "open"   => n \in approved'
                                /\ items'[n].status = "closed" => Granted(n)'
  BY <1>1, <1>3 DEF BacklogInv
<1>9. QED
  BY <1>2, <1>4, <1>6, <1>7, <1>8 DEF BacklogInv

(* A file that is made comes beside the others.                            *)
LEMMA NewFileKeeps ==
  ASSUME SlugsAreOrdered, BacklogInv, NEW n \in Tickets!Names \ Tickets!Files, NEW item \in Tickets!Item,
         items' = [items EXCEPT ![n] = item],
         approved' \in SUBSET Tickets!Names, approved \subseteq approved',
         item.status = "open" => n \in approved', item.status # "closed",
         command' \in [Users -> Rewritings],
         \A v \in Users : command'[v] = command[v] \/ command'[v] = Tickets!Idle
  PROVE  BacklogInv'
<1>1. items \in [Tickets!Names -> Tickets!Item \union {None}] /\ item # None
  BY DEF BacklogInv, Tickets!TypeOK, SlugsAreOrdered
<1>2. Tickets!TypeOK'
  BY <1>1 DEF Tickets!TypeOK
<1>3. Tickets!Files' = Tickets!Files \union {n} /\ items'[n] = item
      /\ \A m \in Tickets!Files : items'[m] = items[m]
  BY <1>1 DEF Tickets!Files
<1>4. \A m \in Tickets!Files : Granted(m) => Granted(m)'
  BY <1>3, GrantsLast
<1>5. \A m \in Tickets!Files' : /\ items'[m].status = "open"   => m \in approved'
                                /\ items'[m].status = "closed" => Granted(m)'
  BY <1>3, <1>4 DEF BacklogInv
<1>6. ASSUME NEW v \in Users
      PROVE  Justified(v)'
  <2>1. CASE command'[v] = command[v]
    BY <1>3, <2>1, GrantsLast
  <2>2. CASE command'[v] = Tickets!Idle
    BY <2>2 DEF Justified, Tickets!Idle
  <2>3. QED
    BY <2>1, <2>2
<1>7. QED
  BY <1>2, <1>5, <1>6 DEF BacklogInv

LEMMA RewriteKeeps ==
  ASSUME SlugsAreOrdered, BacklogInv, NEW u \in Users, Tickets!SetFrontMatter(u)
  PROVE  BacklogInv'
<1> DEFINE n == command[u].name
           status == command[u].status
<1>1. /\ command[u].at = "rewrite" /\ command \in [Users -> Rewritings] /\ Tickets!TypeOK
      /\ items' = [items EXCEPT ![n].status = status]
      /\ approved' = approved \union (IF status = "open" THEN {n} ELSE {})
      /\ command' = [command EXCEPT ![u] = Tickets!Idle]
  BY DEF Tickets!SetFrontMatter, Tickets!Do, BacklogInv
<1>2. n \in Tickets!Names /\ status \in {"open", "closed", "rejected"}
  <2>1. command[u] \in Rewritings
    BY <1>1
  <2>2. QED
    BY <1>1, <2>1, CommandKinds
<1>3. n \in Tickets!Files /\ (status = "closed" => Granted(n))
  BY <1>1 DEF BacklogInv, Justified
<1>4. items[n] \in Tickets!Item /\ items \in [Tickets!Names -> Tickets!Item \union {None}]
  BY <1>1, <1>2, <1>3, FilesAreItems DEF Tickets!TypeOK
<1> HIDE DEF n, status
<1>5. /\ items'[n] = [items[n] EXCEPT !.status = status]
      /\ \A m \in Tickets!Names \ {n} : items'[m] = items[m]
  BY <1>1, <1>2, <1>4
<1>6. items'[n] \in Tickets!Item /\ items'[n].status = status /\ items'[n].blocks = items[n].blocks
  BY <1>2, <1>4, <1>5 DEF Tickets!Item, Tickets!Active, Tickets!Terminal
<1>7. Tickets!TypeOK'
  <2>1. items' \in [Tickets!Names -> Tickets!Item \union {None}]
    BY <1>1, <1>2, <1>4, <1>5, <1>6
  <2>2. approved' \subseteq Tickets!Names
    BY <1>1, <1>2 DEF Tickets!TypeOK
  <2>3. QED
    BY <2>1, <2>2 DEF Tickets!TypeOK
<1>8. Tickets!Files' = Tickets!Files
  BY <1>3, <1>5, <1>6 DEF Tickets!Files, SlugsAreOrdered
<1>9. \A m \in Tickets!Files : m \in Tickets!Files' /\ items'[m].blocks = items[m].blocks
  BY <1>5, <1>6, <1>8 DEF Tickets!Files
<1>10. \A m \in Tickets!Files : Granted(m) => Granted(m)'
  BY <1>1, <1>9, GrantsLast
<1>11. \A m \in Tickets!Files' : /\ items'[m].status = "open"   => m \in approved'
                                 /\ items'[m].status = "closed" => Granted(m)'
  <2>1. \A m \in Tickets!Files \ {n} : items'[m].status = items[m].status
    BY <1>5 DEF Tickets!Files
  <2>2. QED
    BY <1>1, <1>3, <1>6, <1>8, <1>10, <2>1 DEF BacklogInv
<1>12. command' \in [Users -> Rewritings] /\ command'[u] = Tickets!Idle
  BY <1>1 DEF Rewritings
<1>13. \A v \in Users \ {u} : command'[v] = command[v]
  BY <1>1
<1>14. \A v \in Users \ {u} : Justified(v)'
  BY <1>1, <1>9, <1>13, GrantsLast
<1>15. Justified(u)'
  BY <1>12 DEF Justified, Tickets!Idle
<1>16. QED
  BY <1>7, <1>11, <1>12, <1>14, <1>15 DEF BacklogInv

-----------------------------------------------------------------------------
LEMMA BacklogInit ==
  ASSUME SlugsAreOrdered, Tickets!Init
  PROVE  BacklogInv
  BY DEF Tickets!Init, BacklogInv, Tickets!TypeOK, Tickets!Files, Rewritings, Justified, Tickets!Idle

LEMMA BacklogStep ==
  ASSUME SlugsAreOrdered, BacklogInv, [Tickets!Next]_Tickets!vars
  PROVE  BacklogInv'
<1>1. /\ Tickets!TypeOK /\ command \in [Users -> Rewritings]
      /\ \A n \in Tickets!Files : items[n] \in Tickets!Item /\ n \in Tickets!Names
  BY FilesAreItems DEF BacklogInv, Tickets!Files
<1>2. ASSUME NEW u \in Users, Tickets!AllocateId(u)
      PROVE  BacklogInv'
  <2>1. Tickets!NextId \in Tickets!Ids /\ UNCHANGED <<items, approved>>
    BY <1>2 DEF Tickets!AllocateId
  <2>2. PICK slug \in Slugs, blocks \in {0} \union {n[1] : n \in Tickets!Files} :
          Tickets!Do(u, [at |-> "write new", name |-> <<Tickets!NextId, slug>>, blocks |-> blocks])
    BY <1>2 DEF Tickets!AllocateId
  <2>3. blocks \in 0 .. MaxId /\ <<Tickets!NextId, slug>> \in Tickets!Names
    <3>1. \A n \in Tickets!Files : n[1] \in 1 .. MaxId
      BY <1>1 DEF Tickets!Names, Tickets!Ids
    <3>2. 0 \in 0 .. MaxId /\ 1 .. MaxId \subseteq 0 .. MaxId
      BY DEF SlugsAreOrdered
    <3>3. \A n \in Tickets!Files : n[1] \in 0 .. MaxId
      BY <3>1, <3>2
    <3>4. blocks \in 0 .. MaxId
      <4>1. CASE blocks = 0
        BY <3>2, <4>1
      <4>2. CASE \E n \in Tickets!Files : blocks = n[1]
        BY <3>3, <4>2
      <4>3. QED
        BY <4>1, <4>2
    <3>5. QED
      BY <2>1, <3>4 DEF Tickets!Names
  <2> DEFINE c == [at |-> "write new", name |-> <<Tickets!NextId, slug>>, blocks |-> blocks]
  <2>4. c \in Rewritings /\ c.at # "rewrite"
    BY <2>3 DEF Rewritings
  <2>5. QED
    BY <2>1, <2>2, <2>4, DecideKeeps
<1>3. ASSUME NEW u \in Users, Tickets!WriteNew(u)
      PROVE  BacklogInv'
  <2>1. /\ command[u].at = "write new" /\ approved' = approved
        /\ command' = [command EXCEPT ![u] = Tickets!Idle]
        /\ items' = IF command[u].name \in Tickets!Files THEN items
                    ELSE [items EXCEPT ![command[u].name] = Tickets!NewItem(command[u].blocks)]
    BY <1>3 DEF Tickets!WriteNew, Tickets!Do
  <2>2. command[u].name \in Tickets!Names /\ command[u].blocks \in 0 .. MaxId
    <3>1. command[u] \in Rewritings
      BY <1>1
    <3>2. QED
      BY <2>1, <3>1, CommandKinds
  <2>3. CASE command[u].name \in Tickets!Files
    <3>1. Tickets!Idle \in Rewritings /\ Tickets!Idle.at # "rewrite" /\ Tickets!Do(u, Tickets!Idle) /\ items' = items
      BY <2>1, <2>3 DEF Rewritings, Tickets!Idle, Tickets!Do
    <3>2. QED
      BY <2>1, <3>1, DecideKeeps
  <2>4. CASE command[u].name \notin Tickets!Files
    <3> DEFINE item == Tickets!NewItem(command[u].blocks)
    <3>1. item \in Tickets!Item /\ item.status = "proposed"
      BY <2>2 DEF Tickets!NewItem, Tickets!Item, Tickets!Active, Tickets!Terminal
    <3>2. items' = [items EXCEPT ![command[u].name] = item]
      BY <2>1, <2>4
    <3>3. /\ command' \in [Users -> Rewritings]
          /\ \A v \in Users : command'[v] = command[v] \/ command'[v] = Tickets!Idle
      BY <1>1, <2>1 DEF Rewritings
    <3>4. approved' \in SUBSET Tickets!Names
      BY <1>1, <2>1 DEF Tickets!TypeOK
    <3> HIDE DEF item
    <3>5. QED
      BY <2>1, <2>2, <2>4, <3>1, <3>2, <3>3, <3>4, NewFileKeeps
  <2>5. QED
    BY <2>3, <2>4
<1>4. ASSUME NEW u \in Users, Tickets!SetFrontMatter(u)
      PROVE  BacklogInv'
  BY <1>4, RewriteKeeps
<1>5. ASSUME NEW u \in Users, NEW id \in Tickets!Ids, NEW status \in {"open", "closed", "rejected"},
             Tickets!First(id) # None, Tickets!Rewrite(u, Tickets!First(id), status), UNCHANGED <<items, approved>>,
             status = "closed" => Tickets!Workable(items[Tickets!First(id)])
      PROVE  BacklogInv'
  <2> DEFINE c == [at |-> "rewrite", name |-> Tickets!First(id), status |-> status]
  <2>1. Tickets!First(id) \in Tickets!Files
    BY <1>5, FirstIsOfItsId
  <2>2. c \in Rewritings /\ c.name = Tickets!First(id) /\ c.status = status
    BY <1>1, <2>1 DEF Rewritings
  <2>3. Tickets!Do(u, c) /\ (status = "closed" => Granted(Tickets!First(id)))
    BY <1>5, <2>1, WorkableIsGranted DEF Tickets!Rewrite
  <2>4. QED
    BY <1>5, <2>1, <2>2, <2>3, DecideKeeps
<1>6. ASSUME NEW u \in Users, NEW id \in Tickets!Ids, Tickets!Approve(u, id) \/ Tickets!Close(u, id) \/ Tickets!Reject(u, id)
      PROVE  BacklogInv'
  BY <1>5, <1>6 DEF Tickets!Approve, Tickets!Close, Tickets!Reject
<1>7. ASSUME Tickets!Merge
      PROVE  BacklogInv'
  <2>1. command' = command
    BY <1>7 DEF Tickets!Merge
  <2>2. PICK n \in Tickets!Names \ Tickets!Files, status \in Tickets!Active :
          /\ items' = [items EXCEPT ![n] = [status |-> status, blocks |-> 0]]
          /\ approved' = approved \union (IF status = "open" THEN {n} ELSE {})
    BY <1>7 DEF Tickets!Merge
  <2> DEFINE item == [status |-> status, blocks |-> 0]
  <2>3. 0 \in 0 .. MaxId
    BY DEF SlugsAreOrdered
  <2>4. item \in Tickets!Item /\ item.status = status /\ status # "closed"
    BY <2>3 DEF Tickets!Item, Tickets!Active, Tickets!Terminal
  <2>5. approved' \in SUBSET Tickets!Names /\ approved \subseteq approved'
        /\ (status = "open" => n \in approved')
    BY <1>1, <2>2 DEF Tickets!TypeOK
  <2>6. items' = [items EXCEPT ![n] = item]
    BY <2>2
  <2> HIDE DEF item
  <2>7. QED
    BY <1>1, <2>1, <2>4, <2>5, <2>6, NewFileKeeps
<1>8. CASE UNCHANGED Tickets!vars
  BY <1>8 DEF Tickets!vars, BacklogInv, Tickets!TypeOK, Tickets!Files, Justified, Granted
<1>9. QED
  BY <1>2, <1>3, <1>4, <1>6, <1>7, <1>8 DEF Tickets!Next

-----------------------------------------------------------------------------
(* close_item(): a closed item was approved by the owner, or names an id   *)
(* that was, whatever commands and merges overlap.                         *)
THEOREM ClosedWasApproved ==
  ASSUME SlugsAreOrdered
  PROVE  Tickets!Spec => []ClosedWasWorkable
<1>1. Tickets!Init => BacklogInv
  BY BacklogInit
<1>2. BacklogInv /\ [Tickets!Next]_Tickets!vars => BacklogInv'
  BY BacklogStep
<1>3. BacklogInv => ClosedWasWorkable
  BY DEF BacklogInv, ClosedWasWorkable, Tickets!ClosedWasWorkable, Granted
<1>4. QED
  BY <1>1, <1>2, <1>3, PTL DEF Tickets!Spec
=============================================================================
