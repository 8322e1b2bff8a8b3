--------------------------- MODULE HandoffProofs ---------------------------
(***************************************************************************)
(* The handoff files for any number of instances, handoffs and archive     *)
(* entries, where a migration does not fail on a file that is there.       *)
(*                                                                         *)
(* Why a late move does no harm though it acts on an old look: a file that *)
(* a migration moves never comes back, so of all who chose to move it one  *)
(* does; and an instance writes only after its own migration, when         *)
(* next-session.md is gone, so nobody delivers over what it wrote.         *)
(***************************************************************************)
EXTENDS Handoff, TLAPS

(* The steps of instance i's command after it has dealt with               *)
(* next-session.md.                                                        *)
PastOld(i) ==
  \/ at[i] \in {"list", "entry", "look", "bank", "write"}
  \/ at[i] \in {"park", "move"} /\ mem[i].src # Old

MovedAway(i) == (PastOld(i) \/ written[i] > 0) => ~There(Old)

(* Where a look found nothing nothing is, as long as there is something to *)
(* move there.                                                             *)
BoxFree(i) ==
  (at[i] = "deliver" /\ There(Old)) => ~There(Box(mem[i].author))

NameFree(i) ==
  at[i] = "move" =>
    /\ \E k \in 0 .. MaxParked : mem[i].dest = Parked(mem[i].src, k)
    /\ There(mem[i].src) => ~There(mem[i].dest)

Stamped(i) ==
  at[i] \in {"target", "deliver"} =>
    /\ mem[i].author \in Instances /\ mem[i].src = Old
    /\ There(Old) => disk[Old].by = mem[i].author

(* Nobody else takes from an instance's box, or fills it while it writes.  *)
BoxAsRead(i)  == at[i] = "read" => There(Box(i)) /\ disk[Box(i)] = mem[i].read
BoxToWrite(i) == at[i] = "write" => ~There(Box(i))

Fits(i) ==
  /\ MovedAway(i) /\ BoxFree(i) /\ NameFree(i) /\ Stamped(i)
  /\ BoxAsRead(i) /\ BoxToWrite(i)

HInv == TypeOK /\ NewestInBox /\ \A i \in Instances : Fits(i)

-----------------------------------------------------------------------------
(* Paths are distinct, and a move's destination is none of its sources.    *)
LEMMA PathsApart ==
  /\ \A i, j \in Instances : /\ Box(i) = Box(j) => i = j
                             /\ Box(i) # Prev(j)
  /\ \A i \in Instances : /\ Box(i) # Old /\ Prev(i) # Old
                          /\ \A e \in Archived : Box(i) # Entry(e) /\ Prev(i) # Entry(e)
                          /\ \A f \in Sources, k \in 0 .. MaxParked :
                               Box(i) # Parked(f, k) /\ Prev(i) # Parked(f, k)
  /\ \A f, g \in Sources, k, l \in 0 .. MaxParked :
       /\ Parked(f, k) = Parked(g, l) => f = g /\ k = l
       /\ g # Parked(f, k)
  /\ \A e \in Archived : Old # Entry(e)
<1> USE DEF Box, Prev, Old, Entry, Parked
<1>1. \A i, j \in Instances : (Box(i) = Box(j) => i = j) /\ Box(i) # Prev(j)
  OBVIOUS
<1>2. \A i \in Instances : Box(i) # Old /\ Prev(i) # Old
  OBVIOUS
<1>3. \A i \in Instances, e \in Archived : Box(i) # Entry(e) /\ Prev(i) # Entry(e)
  OBVIOUS
<1>4. \A i \in Instances, f \in Sources, k \in 0 .. MaxParked :
        Box(i) # Parked(f, k) /\ Prev(i) # Parked(f, k)
  OBVIOUS
<1>5. \A f, g \in Sources, k, l \in 0 .. MaxParked :
        Parked(f, k) = Parked(g, l) => f = g /\ k = l
  OBVIOUS
<1>6. \A f, g \in Sources, k \in 0 .. MaxParked : g # Parked(f, k)
  BY DEF Sources
<1>7. \A e \in Archived : Old # Entry(e)
  OBVIOUS
<1> HIDE DEF Box, Prev, Old, Entry, Parked
<1>8. QED
  BY <1>1, <1>2, <1>3, <1>4, <1>5, <1>6, <1>7

LEMMA PathsAre ==
  /\ \A i \in Instances : Box(i) \in Paths /\ Prev(i) \in Paths
  /\ \A f \in Sources : f \in Paths /\ \A k \in 0 .. MaxParked : Parked(f, k) \in Paths
  /\ Old \in Sources /\ \A e \in Archived : Entry(e) \in Sources
  BY DEF Paths, Boxes, Sources

-----------------------------------------------------------------------------
(* Types. *)

LEMMA NothingIsMem ==
  /\ Nothing \in [author : Instances \union {None}, src : Sources, dest : Paths,
                  todo : SUBSET Archived, read : Documents \union {None}]
  BY PathsAre DEF Nothing

(* A file moved or removed leaves documents on paths. *)
LEMMA ReplaceTypes ==
  ASSUME TypeOK, NEW src \in Paths, NEW dest \in Paths
  PROVE  /\ Replace(src, dest) => disk' \in [Paths -> Documents \union {None}]
         /\ [disk EXCEPT ![src] = None] \in [Paths -> Documents \union {None}]
  BY DEF TypeOK, Replace

LEMMA TypeStep ==
  ASSUME TypeOK, NEW i \in Instances, Step(i),
         at[i] \in {"target", "deliver"} => mem[i].author \in Instances
  PROVE  TypeOK'
<1> DEFINE Mems == [author : Instances \union {None}, src : Sources, dest : Paths,
                    todo : SUBSET Archived, read : Documents \union {None}]
<1> USE DEF Steps
<1>1. ASSUME NEW m \in Mems, NEW step \in Steps, Recall(i, m, step)
      PROVE  TypeOK'
  BY <1>1 DEF TypeOK, Recall, Keep, Goto
<1>2. ASSUME NEW step \in Steps, Then(i, step)
      PROVE  TypeOK'
  BY <1>2 DEF TypeOK, Then, Goto
<1>3. mem[i] \in Mems /\ Nothing \in Mems
  BY NothingIsMem DEF TypeOK
<1>4. CASE ReadBox(i)
  <2>1. [Nothing EXCEPT !.read = disk[Box(i)]] \in Mems
    BY <1>3, PathsAre DEF TypeOK
  <2>2. QED
    BY <1>1, <1>4, <2>1 DEF ReadBox
<1>5. CASE End(i) \/ Handoff(i)
  BY <1>1, <1>3, <1>5 DEF End, Handoff
<1>6. CASE LookOld(i)
  BY <1>2, <1>6 DEF LookOld
<1>7. CASE ReadStamp(i)
  <2>1. PICK author \in {None, IF There(Old) THEN disk[Old].by ELSE None} :
          Recall(i, [Nothing EXCEPT !.author = author],
                 IF author = None THEN "park" ELSE "target")
    BY <1>7 DEF ReadStamp
  <2>2. author \in Instances \union {None}
    BY PathsAre DEF TypeOK, Documents, There
  <2>3. [Nothing EXCEPT !.author = author] \in Mems
    BY <1>3, <2>2
  <2>4. QED
    BY <1>1, <2>1, <2>3
<1>8. CASE LookTarget(i) \/ DeliverFails(i) \/ ArchiveDone(i) \/ LookBox(i)
           \/ BankFails(i) \/ WriteFails(i)
  BY <1>2, <1>8 DEF LookTarget, DeliverFails, ArchiveDone, LookBox, BankFails, WriteFails
<1>9. CASE ParkName(i)
  <2>1. PICK k \in 0 .. MaxParked :
          Recall(i, [mem[i] EXCEPT !.dest = Parked(mem[i].src, k)], "move")
    BY <1>9 DEF ParkName
  <2>2. [mem[i] EXCEPT !.dest = Parked(mem[i].src, k)] \in Mems
    BY <1>3, PathsAre
  <2>3. QED
    BY <1>1, <2>1, <2>2
<1>10. [Nothing EXCEPT !.todo = mem[i].todo] \in Mems
  BY <1>3
<1>11. CASE ParkFails(i)
  BY <1>10, <1>11 DEF TypeOK, ParkFails, AfterMove, Keep, Goto
<1>12. CASE ListArchive(i)
  <2>1. [Nothing EXCEPT !.todo = {e \in Archived : There(Entry(e))}] \in Mems
    BY <1>3
  <2>2. QED
    BY <1>1, <1>3, <1>12, <2>1 DEF ListArchive
<1>13. CASE TakeEntry(i)
  <2>1. PICK e \in mem[i].todo : \E seen \in Seen(Entry(e)) :
          Recall(i, [mem[i] EXCEPT !.todo = @ \ {e}, !.src = Entry(e)],
                 IF seen THEN "park" ELSE "entry")
    BY <1>13 DEF TakeEntry
  <2>2. e \in Archived /\ mem[i].todo \ {e} \in SUBSET Archived
    BY <1>3
  <2>3. [mem[i] EXCEPT !.todo = @ \ {e}, !.src = Entry(e)] \in Mems
    BY <1>3, <2>2, PathsAre
  <2>4. QED
    BY <1>1, <2>1, <2>3
<1>14. CASE DeleteBox(i)
  BY <1>3, <1>14, PathsAre DEF TypeOK, DeleteBox, Keep, Goto
<1>15. CASE Deliver(i)
  <2>1. disk' \in [Paths -> Documents \union {None}]
    BY <1>15, PathsAre, ReplaceTypes DEF Deliver
  <2>2. QED
    BY <1>3, <1>15, <2>1 DEF TypeOK, Deliver, Keep, Goto
<1>16. CASE Park(i)
  <2>1. disk' \in [Paths -> Documents \union {None}]
    BY <1>3, <1>16, PathsAre, ReplaceTypes DEF Park
  <2>2. QED
    BY <1>10, <1>16, <2>1 DEF TypeOK, Park, AfterMove, Keep, Goto
<1>17. CASE Bank(i)
  <2>1. disk' \in [Paths -> Documents \union {None}]
    BY <1>17, PathsAre, ReplaceTypes DEF Bank, TypeOK
  <2>2. QED
    BY <1>17, <2>1 DEF TypeOK, Bank, Goto
<1>18. CASE Write(i)
  <2>1. Doc(i, written[i] + 1) \in Documents /\ written[i] + 1 \in Nat
    BY DEF TypeOK, Doc, Documents
  <2>2. QED
    BY <1>18, <2>1, PathsAre DEF TypeOK, Write, Goto
<1>19. QED
  BY <1>4, <1>5, <1>6, <1>7, <1>8, <1>9, <1>11, <1>12, <1>13, <1>14, <1>15,
     <1>16, <1>17, <1>18 DEF Step

-----------------------------------------------------------------------------
(* What another instance's step leaves true of instance j: sources only    *)
(* disappear, and a box or a name that was free is filled only by what     *)
(* makes the source disappear.                                             *)
LEMMA OthersFit ==
  ASSUME TypeOK, NEW j \in Instances, Fits(j),
         at'[j] = at[j], mem'[j] = mem[j], written'[j] = written[j],
         \A f \in Sources : disk'[f] = disk[f] \/ disk'[f] = None,
         \A a \in Instances : There(Box(a))' /\ There(Old)' => There(Box(a)),
         \A f \in Sources, k \in 0 .. MaxParked :
           There(Parked(f, k))' /\ There(f)' => There(Parked(f, k)),
         disk'[Box(j)] = disk[Box(j)] \/ at[j] \notin {"read", "write"}
  PROVE  Fits(j)'
<1>1. There(Old)' => There(Old) /\ disk'[Old] = disk[Old]
  BY PathsAre DEF There
<1>2. MovedAway(j)'
  BY <1>1 DEF Fits, MovedAway, PastOld
<1>3. BoxFree(j)' /\ Stamped(j)'
  BY <1>1 DEF Fits, BoxFree, Stamped
<1>4. NameFree(j)'
  <2>1. mem[j].src \in Sources
    BY DEF TypeOK
  <2>2. ASSUME at[j] = "move"
        PROVE  /\ \E k \in 0 .. MaxParked : mem[j].dest = Parked(mem[j].src, k)
               /\ There(mem[j].src)' => ~There(mem[j].dest)'
    <3>1. PICK k \in 0 .. MaxParked : mem[j].dest = Parked(mem[j].src, k)
      BY <2>2 DEF Fits, NameFree
    <3>2. There(mem[j].src) => ~There(mem[j].dest)
      BY <2>2 DEF Fits, NameFree
    <3>3. There(mem[j].src)' => There(mem[j].src)
      BY <2>1 DEF There
    <3>4. QED
      BY <2>1, <3>1, <3>2, <3>3 DEF There
  <2>3. There(mem[j].src)' = (disk'[mem[j].src] # None)
        /\ There(mem[j].dest)' = (disk'[mem[j].dest] # None)
    BY DEF There
  <2>4. QED
    BY <2>2, <2>3 DEF NameFree, There
<1>5. BoxAsRead(j)' /\ BoxToWrite(j)'
  BY DEF Fits, BoxAsRead, BoxToWrite, There
<1>6. QED
  BY <1>2, <1>3, <1>4, <1>5 DEF Fits

-----------------------------------------------------------------------------
(* A step keeps to its own instance's registers. *)
LEMMA OwnRegisters ==
  ASSUME TypeOK, NEW i \in Instances, Step(i), NEW j \in Instances, j # i
  PROVE  at'[j] = at[j] /\ mem'[j] = mem[j] /\ written'[j] = written[j]
<1> USE DEF TypeOK, Recall, Then, Keep, Goto, AfterMove
<1>1. CASE ReadBox(i) \/ DeleteBox(i) \/ End(i) \/ Handoff(i) \/ LookOld(i)
           \/ ReadStamp(i) \/ LookTarget(i)
  BY <1>1 DEF ReadBox, DeleteBox, End, Handoff, LookOld, ReadStamp, LookTarget
<1>2. CASE Deliver(i) \/ DeliverFails(i) \/ ParkName(i) \/ Park(i) \/ ParkFails(i)
  BY <1>2 DEF Deliver, DeliverFails, ParkName, Park, ParkFails
<1>3. CASE ListArchive(i) \/ TakeEntry(i) \/ ArchiveDone(i)
           \/ LookBox(i) \/ Bank(i) \/ BankFails(i) \/ Write(i) \/ WriteFails(i)
  BY <1>3 DEF ListArchive, TakeEntry, ArchiveDone, LookBox, Bank, BankFails,
              Write, WriteFails
<1>4. QED
  BY <1>1, <1>2, <1>3 DEF Step

(* The steps that only look, choose and remember.                          *)
Quiet(i) ==
  \/ ReadBox(i) \/ End(i) \/ Handoff(i) \/ LookOld(i) \/ ReadStamp(i)
  \/ LookTarget(i) \/ DeliverFails(i) \/ ParkName(i) \/ ParkFails(i)
  \/ ListArchive(i) \/ TakeEntry(i) \/ ArchiveDone(i) \/ LookBox(i)
  \/ BankFails(i) \/ WriteFails(i)

LEMMA QuietStep ==
  ASSUME ~MayFail, HInv, NEW i \in Instances, Quiet(i)
  PROVE  Fits(i)' /\ disk' = disk /\ written' = written
<1> USE DEF Recall, Then, Keep, Goto
<1>1. TypeOK /\ Fits(i)
  BY DEF HInv
<1>2. disk' = disk /\ written' = written
  BY DEF Quiet, ReadBox, End, Handoff, LookOld, ReadStamp, LookTarget,
         DeliverFails, ParkName, ParkFails, AfterMove, ListArchive, TakeEntry,
         ArchiveDone, LookBox, BankFails, WriteFails
<1> DEFINE Mine(step, m) == at'[i] = step /\ mem'[i] = m
<1>3. \A path : There(path)' = There(path)
  BY <1>2 DEF There
<1>4. ASSUME at'[i] \in {"fresh", "working", "old", "stamp"}
      PROVE  Fits(i)'
  BY <1>1, <1>2, <1>4 DEF Fits, MovedAway, PastOld, BoxFree, NameFree, Stamped,
     BoxAsRead, BoxToWrite, There
<1>5. ASSUME at'[i] \in {"list", "entry", "look", "bank"}, ~There(Old)
      PROVE  Fits(i)'
  BY <1>1, <1>2, <1>5 DEF Fits, MovedAway, PastOld, BoxFree, NameFree, Stamped,
     BoxAsRead, BoxToWrite, There
<1>6. CASE ReadBox(i)
  <2>1. Mine("read", [Nothing EXCEPT !.read = disk[Box(i)]]) /\ There(Box(i))
    BY <1>1, <1>6 DEF ReadBox, TypeOK
  <2>2. mem'[i].read = disk[Box(i)]
    BY <2>1 DEF Nothing
  <2>3. QED
    BY <1>1, <1>2, <2>1, <2>2 DEF Fits, MovedAway, PastOld, BoxFree, NameFree,
       Stamped, BoxAsRead, BoxToWrite, There
<1>7. CASE End(i) \/ Handoff(i) \/ BankFails(i) \/ WriteFails(i)
  BY <1>1, <1>4, <1>7 DEF End, Handoff, BankFails, WriteFails, TypeOK
<1>8. CASE LookOld(i)
  BY <1>1, <1>4, <1>5, <1>8 DEF LookOld, Seen, TypeOK
<1>9. CASE ReadStamp(i)
  <2>1. PICK author \in {None, IF There(Old) THEN disk[Old].by ELSE None} :
          Mine(IF author = None THEN "park" ELSE "target",
               [Nothing EXCEPT !.author = author])
    BY <1>1, <1>9 DEF ReadStamp, TypeOK
  <2>2. mem'[i].author = author /\ mem'[i].src = Old
    BY <2>1 DEF Nothing
  <2>3. author \in Instances \union {None}
    BY <1>1, PathsAre DEF TypeOK, Documents, There
  <2>4. written[i] > 0 => ~There(Old)
    BY <1>1 DEF Fits, MovedAway
  <2>5. CASE author = None
    BY <1>2, <2>1, <2>2, <2>4, <2>5 DEF Fits, MovedAway, PastOld, BoxFree,
       NameFree, Stamped, BoxAsRead, BoxToWrite, There
  <2>6. CASE author # None
    BY <1>2, <2>1, <2>2, <2>3, <2>4, <2>6 DEF Fits, MovedAway, PastOld, BoxFree,
       NameFree, Stamped, BoxAsRead, BoxToWrite, There
  <2>7. QED
    BY <2>5, <2>6
<1>10. CASE LookTarget(i) \/ DeliverFails(i)
  <2>1. mem'[i] = mem[i] /\ at'[i] \in {"park", "deliver"}
        /\ at[i] \in {"target", "deliver"}
    BY <1>1, <1>10 DEF LookTarget, DeliverFails, TypeOK
  <2>2. at'[i] = "deliver" => ~There(Box(mem[i].author))
    BY <1>1, <1>10 DEF LookTarget, DeliverFails, TypeOK
  <2>3. mem[i].src = Old
    BY <1>1, <2>1 DEF Fits, Stamped
  <2>4. QED
    BY <1>1, <1>2, <2>1, <2>2, <2>3 DEF Fits, MovedAway, PastOld, BoxFree,
       NameFree, Stamped, BoxAsRead, BoxToWrite, There
<1>11. CASE ParkName(i)
  <2>1. PICK k \in 0 .. MaxParked :
          /\ ~There(Parked(mem[i].src, k))
          /\ Mine("move", [mem[i] EXCEPT !.dest = Parked(mem[i].src, k)])
    BY <1>1, <1>11 DEF ParkName, TypeOK
  <2>2. mem'[i].dest = Parked(mem[i].src, k) /\ mem'[i].src = mem[i].src
    BY <1>1, <2>1 DEF TypeOK
  <2>3. at[i] = "park"
    BY <1>11 DEF ParkName
  <2>4. NameFree(i)'
    BY <1>2, <2>1, <2>2 DEF NameFree, There
  <2>5. QED
    BY <1>1, <1>2, <2>1, <2>2, <2>3, <2>4 DEF Fits, MovedAway, PastOld, BoxFree,
       Stamped, BoxAsRead, BoxToWrite, There
<1>12. CASE ParkFails(i)
  <2>1. at[i] = "move" /\ ~There(mem[i].src) /\ at'[i] \in {"list", "entry"}
    BY <1>1, <1>12 DEF ParkFails, AfterMove, TypeOK
  <2>2. ~There(Old)
    BY <1>1, <2>1 DEF Fits, MovedAway, PastOld
  <2>3. QED
    BY <1>2, <1>5, <2>1, <2>2
<1>13. CASE ListArchive(i) \/ ArchiveDone(i)
  <2>1. at[i] \in {"list", "entry"} /\ at'[i] \in {"entry", "look"}
    BY <1>1, <1>13 DEF ListArchive, ArchiveDone, TypeOK
  <2>2. QED
    BY <1>1, <1>2, <1>5, <2>1 DEF Fits, MovedAway, PastOld
<1>14. CASE TakeEntry(i)
  <2>1. PICK e \in mem[i].todo : \E seen \in Seen(Entry(e)) :
          Mine(IF seen THEN "park" ELSE "entry",
               [mem[i] EXCEPT !.todo = @ \ {e}, !.src = Entry(e)])
    BY <1>1, <1>14 DEF TakeEntry, TypeOK
  <2>2. e \in Archived /\ mem'[i].src = Entry(e) /\ Entry(e) # Old
    BY <1>1, <2>1, PathsApart DEF TypeOK
  <2>3. at[i] = "entry" /\ at'[i] \in {"park", "entry"}
    BY <1>14, <2>1 DEF TakeEntry
  <2>4. ~There(Old)
    BY <1>1, <2>3 DEF Fits, MovedAway, PastOld
  <2>5. QED
    BY <1>2, <2>3, <2>4 DEF Fits, MovedAway, PastOld, BoxFree, NameFree, Stamped,
       BoxAsRead, BoxToWrite, There
<1>15. CASE LookBox(i)
  <2>1. at[i] = "look" /\ at'[i] \in {"bank", "write"}
        /\ (at'[i] = "write" => ~There(Box(i)))
    BY <1>1, <1>15 DEF LookBox, TypeOK
  <2>2. ~There(Old)
    BY <1>1, <2>1 DEF Fits, MovedAway, PastOld
  <2>3. QED
    BY <1>2, <2>1, <2>2 DEF Fits, MovedAway, PastOld, BoxFree, NameFree, Stamped,
       BoxAsRead, BoxToWrite, There
<1>16. QED
  BY <1>6, <1>7, <1>8, <1>9, <1>10, <1>11, <1>12, <1>13, <1>14, <1>15 DEF Quiet

-----------------------------------------------------------------------------
(* The five steps that change the disk. Each leaves its own instance       *)
(* fitting, takes a source away or leaves it, and fills a free place.      *)

(* What such a step must give for the invariant to hold after it.          *)
LEMMA DiskStep ==
  ASSUME HInv, NEW i \in Instances, Step(i), TypeOK', Fits(i)', NewestInBox',
         \A f \in Sources : disk'[f] = disk[f] \/ disk'[f] = None,
         \A a \in Instances : There(Box(a))' /\ There(Old)' => There(Box(a)),
         \A f \in Sources, k \in 0 .. MaxParked :
           There(Parked(f, k))' /\ There(f)' => There(Parked(f, k)),
         \A j \in Instances :
           j # i => disk'[Box(j)] = disk[Box(j)] \/ at[j] \notin {"read", "write"}
  PROVE  HInv'
<1>1. ASSUME NEW j \in Instances, j # i
      PROVE  Fits(j)'
  BY <1>1, OwnRegisters, OthersFit DEF HInv
<1>2. QED
  BY <1>1 DEF HInv

LEMMA DeleteBoxStep ==
  ASSUME HInv, NEW i \in Instances, DeleteBox(i), TypeOK' PROVE HInv'
<1>1. /\ disk' = [disk EXCEPT ![Box(i)] = None]
      /\ at'[i] = "working" /\ written' = written
  BY DEF DeleteBox, Goto, HInv, TypeOK
<1>2. \A path \in Paths : disk'[path] = IF path = Box(i) THEN None ELSE disk[path]
  BY <1>1 DEF HInv, TypeOK
<1>3. \A f \in Sources : disk'[f] = disk[f]
  BY <1>2, PathsAre, PathsApart DEF Sources
<1>4. Fits(i)'
  BY <1>1, <1>3, PathsAre DEF HInv, Fits, MovedAway, PastOld, BoxFree, NameFree,
     Stamped, BoxAsRead, BoxToWrite, There
<1>5. NewestInBox'
  BY <1>1, <1>2, PathsAre DEF HInv, NewestInBox, There
<1>6. \A j \in Instances : j # i => disk'[Box(j)] = disk[Box(j)]
  BY <1>2, PathsAre, PathsApart
<1>7. \A a \in Instances : There(Box(a))' => There(Box(a))
  BY <1>2, PathsAre DEF There
<1>8. \A f \in Sources, k \in 0 .. MaxParked : There(Parked(f, k))' => There(Parked(f, k))
  BY <1>2, PathsAre DEF There
<1>9. QED
  BY <1>3, <1>4, <1>5, <1>6, <1>7, <1>8, DiskStep DEF Step

LEMMA DeliverStep ==
  ASSUME HInv, NEW i \in Instances, Deliver(i), TypeOK' PROVE HInv'
<1> DEFINE a == mem[i].author
<1>1. /\ a \in Instances /\ There(Old) /\ ~There(Box(a))
      /\ disk[Old].by = a /\ at[i] = "deliver"
  BY DEF Deliver, HInv, Fits, Stamped, BoxFree
<1>2. /\ disk' = [disk EXCEPT ![Box(a)] = disk[Old], ![Old] = None]
      /\ at'[i] = "list" /\ written' = written
  BY DEF Deliver, Replace, Goto, HInv, TypeOK
<1>3. \A path \in Paths : disk'[path] = IF path = Old THEN None
                                        ELSE IF path = Box(a) THEN disk[Old]
                                        ELSE disk[path]
  BY <1>2 DEF HInv, TypeOK
<1>4. ~There(Old)'
  BY <1>3, PathsAre DEF There
<1>5. \A f \in Sources : disk'[f] = disk[f] \/ disk'[f] = None
  BY <1>1, <1>3, PathsAre, PathsApart DEF Sources
<1>6. Fits(i)'
  BY <1>2, <1>4 DEF Fits, MovedAway, PastOld, BoxFree, NameFree, Stamped,
     BoxAsRead, BoxToWrite
<1>7. written[a] = 0
  BY <1>1 DEF HInv, Fits, MovedAway, TypeOK
<1>8. NewestInBox'
  <2>1. ASSUME NEW j \in Instances, There(Box(j))'
        PROVE  disk'[Box(j)].by = j /\ (written'[j] > 0 => disk'[Box(j)].n = written'[j])
    <3>1. CASE j = a
      <4>1. disk'[Box(j)] = disk[Old]
        BY <1>1, <1>3, <3>1, PathsAre, PathsApart
      <4>2. written'[j] = 0
        BY <1>2, <1>7, <3>1
      <4>3. QED
        BY <1>1, <3>1, <4>1, <4>2
    <3>2. CASE j # a
      <4>1. disk'[Box(j)] = disk[Box(j)]
        BY <1>1, <1>3, <3>2, PathsAre, PathsApart
      <4>2. QED
        BY <1>2, <2>1, <4>1 DEF HInv, NewestInBox, There
    <3>3. QED
      BY <3>1, <3>2
  <2>2. QED
    BY <2>1 DEF NewestInBox
<1>9. \A j \in Instances :
        j # i => disk'[Box(j)] = disk[Box(j)] \/ at[j] \notin {"read", "write"}
  <2>1. at[a] \notin {"read", "write"}
    BY <1>1 DEF HInv, Fits, BoxAsRead, MovedAway, PastOld
  <2>2. \A j \in Instances : j # a => disk'[Box(j)] = disk[Box(j)]
    BY <1>1, <1>3, PathsAre, PathsApart
  <2>3. QED
    BY <2>1, <2>2
<1>10. \A f \in Sources, k \in 0 .. MaxParked : There(Parked(f, k))' => There(Parked(f, k))
  BY <1>1, <1>3, PathsAre, PathsApart DEF There
<1>11. QED
  BY <1>4, <1>5, <1>6, <1>8, <1>9, <1>10, DiskStep DEF Step

LEMMA ParkStep ==
  ASSUME HInv, NEW i \in Instances, Park(i), TypeOK' PROVE HInv'
<1> DEFINE src == mem[i].src
<1>1. PICK k \in 0 .. MaxParked : mem[i].dest = Parked(src, k)
  BY DEF Park, HInv, Fits, NameFree
<1>2. src \in Sources /\ There(src) /\ ~There(Parked(src, k)) /\ at[i] = "move"
  BY <1>1 DEF Park, HInv, Fits, NameFree, TypeOK
<1>3. /\ disk' = [disk EXCEPT ![Parked(src, k)] = disk[src], ![src] = None]
      /\ at'[i] = IF src = Old THEN "list" ELSE "entry"
      /\ written' = written
  BY <1>1 DEF Park, Replace, AfterMove, Goto, HInv, TypeOK
<1>4. \A path \in Paths : disk'[path] = IF path = src THEN None
                                        ELSE IF path = Parked(src, k) THEN disk[src]
                                        ELSE disk[path]
  BY <1>3 DEF HInv, TypeOK
<1>5. \A f \in Sources : disk'[f] = disk[f] \/ disk'[f] = None
  BY <1>2, <1>4, PathsAre, PathsApart
<1>6. disk'[src] = None
  BY <1>2, <1>4, PathsAre DEF There
<1>7. ~There(Old)'
  <2>1. CASE src = Old
    BY <1>6, <2>1 DEF There
  <2>2. CASE src # Old
    BY <1>2, <1>5, <2>2, PathsAre DEF HInv, Fits, MovedAway, PastOld, There
  <2>3. QED
    BY <2>1, <2>2
<1>8. Fits(i)'
  BY <1>3, <1>7 DEF Fits, MovedAway, PastOld, BoxFree, NameFree, Stamped,
     BoxAsRead, BoxToWrite
<1>9. \A j \in Instances : disk'[Box(j)] = disk[Box(j)]
  <2>1. ASSUME NEW j \in Instances
        PROVE  Box(j) # src /\ Box(j) # Parked(src, k)
    BY <1>2, PathsApart DEF Sources
  <2>2. QED
    BY <1>4, <2>1, PathsAre
<1>10. NewestInBox'
  BY <1>3, <1>9 DEF HInv, NewestInBox, There
<1>11. ASSUME NEW f \in Sources, NEW l \in 0 .. MaxParked,
              There(Parked(f, l))', There(f)'
       PROVE  There(Parked(f, l))
  <2>1. f # src
    BY <1>6, <1>11 DEF There
  <2>2. Parked(f, l) # Parked(src, k) /\ Parked(f, l) # src
    BY <1>2, <2>1, PathsApart
  <2>3. QED
    BY <1>4, <1>11, <2>2, PathsAre DEF There
<1>12. QED
  BY <1>5, <1>7, <1>8, <1>9, <1>10, <1>11, DiskStep DEF Step

(* A handoff that is banked leaves its box; nobody can have come to its    *)
(* box since.                                                              *)
LEMMA BankStep ==
  ASSUME HInv, NEW i \in Instances, Bank(i), TypeOK' PROVE HInv'
<1>1. /\ at[i] = "bank" /\ at'[i] = "write" /\ written' = written
      /\ IF There(Box(i)) THEN Replace(Box(i), Prev(i)) ELSE UNCHANGED disk
  BY DEF Bank, Goto, HInv, TypeOK
<1>2. \A path \in Paths :
        /\ path \notin {Box(i), Prev(i)} => disk'[path] = disk[path]
        /\ path = Box(i) => disk'[path] = None
  BY <1>1 DEF Replace, HInv, TypeOK, There
<1>3. \A f \in Sources : disk'[f] = disk[f]
  BY <1>2, PathsAre, PathsApart DEF Sources
<1>4. ~There(Old)' /\ ~There(Box(i))'
  BY <1>1, <1>2, <1>3, PathsAre DEF HInv, Fits, MovedAway, PastOld, There
<1>5. Fits(i)'
  BY <1>1, <1>4 DEF Fits, MovedAway, PastOld, BoxFree, NameFree, Stamped,
     BoxAsRead, BoxToWrite
<1>6. \A j \in Instances : j # i => disk'[Box(j)] = disk[Box(j)]
  BY <1>2, PathsAre, PathsApart
<1>7. NewestInBox'
  BY <1>1, <1>4, <1>6 DEF HInv, NewestInBox, There
<1>8. \A f \in Sources, k \in 0 .. MaxParked : There(Parked(f, k))' => There(Parked(f, k))
  BY <1>2, PathsAre, PathsApart DEF There
<1>9. QED
  BY <1>3, <1>4, <1>5, <1>6, <1>7, <1>8, DiskStep DEF Step

LEMMA WriteStep ==
  ASSUME HInv, NEW i \in Instances, Write(i), TypeOK' PROVE HInv'
<1>1. /\ disk' = [disk EXCEPT ![Box(i)] = Doc(i, written[i] + 1)]
      /\ at[i] = "write" /\ at'[i] = "working"
      /\ written' = [written EXCEPT ![i] = @ + 1]
  BY DEF Write, Goto, HInv, TypeOK
<1>2. \A path \in Paths :
        disk'[path] = IF path = Box(i) THEN Doc(i, written[i] + 1) ELSE disk[path]
  BY <1>1 DEF HInv, TypeOK
<1>3. \A f \in Sources : disk'[f] = disk[f]
  BY <1>2, PathsAre, PathsApart DEF Sources
<1>4. ~There(Old)'
  BY <1>1, <1>3, PathsAre DEF HInv, Fits, MovedAway, PastOld, There
<1>5. Fits(i)'
  BY <1>1, <1>4 DEF Fits, MovedAway, PastOld, BoxFree, NameFree, Stamped,
     BoxAsRead, BoxToWrite
<1>6. \A j \in Instances : j # i => disk'[Box(j)] = disk[Box(j)] /\ written'[j] = written[j]
  BY <1>1, <1>2, PathsAre, PathsApart DEF HInv, TypeOK
<1>7. disk'[Box(i)].by = i /\ disk'[Box(i)].n = written'[i]
  BY <1>1, <1>2, PathsAre DEF Doc, HInv, TypeOK
<1>8. NewestInBox'
  BY <1>6, <1>7 DEF HInv, NewestInBox, There
<1>9. \A f \in Sources, k \in 0 .. MaxParked : There(Parked(f, k))' => There(Parked(f, k))
  BY <1>2, PathsAre, PathsApart DEF There
<1>10. QED
  BY <1>3, <1>4, <1>5, <1>6, <1>8, <1>9, DiskStep DEF Step

-----------------------------------------------------------------------------
LEMMA InitHInv == Init => HInv
<1> SUFFICES ASSUME Init PROVE HInv
  OBVIOUS
<1>1. PICK by \in Instances \union {None}, old, entries, parked, waiting \in BOOLEAN :
        disk = [path \in Paths |->
          CASE old /\ path = Old -> Doc(by, 0)
            [] waiting /\ by # None /\ path = Box(by) -> Doc(by, -1)
            [] parked /\ path = Parked(Old, 0) -> Doc(None, -2)
            [] entries /\ path \in {Entry(e) : e \in Archived} -> Doc(None, -2 - path[2])
            [] OTHER -> None]
  BY DEF Init
<1>2. /\ written = [i \in Instances |-> 0]
      /\ at = [i \in Instances |-> "fresh"]
      /\ mem = [i \in Instances |-> Nothing]
  BY DEF Init
<1>3. ASSUME NEW path \in Paths PROVE disk[path] \in Documents \union {None}
  <2>1. Doc(by, 0) \in Documents /\ Doc(by, -1) \in Documents /\ Doc(None, -2) \in Documents
    BY DEF Doc, Documents
  <2>2. ASSUME path \in {Entry(e) : e \in Archived}
        PROVE  Doc(None, -2 - path[2]) \in Documents
    <3>1. PICK e \in Archived : path = Entry(e)
      BY <2>2
    <3>2. e \in Int /\ path[2] = e
      BY <3>1, HandoffAssumption DEF Entry
    <3>3. QED
      BY <3>2 DEF Doc, Documents
  <2>3. QED
    BY <1>1, <2>1, <2>2
<1>4. TypeOK
  BY <1>1, <1>2, <1>3, NothingIsMem DEF TypeOK, Steps
<1>5. ASSUME NEW i \in Instances, There(Box(i))
      PROVE  disk[Box(i)].by = i
  <2>1. /\ Box(i) # Old /\ Box(i) \notin {Entry(e) : e \in Archived}
        /\ Box(i) # Parked(Old, 0) /\ Box(i) \in Paths
    BY HandoffAssumption, PathsAre, PathsApart
  <2>2. by # None /\ Box(i) = Box(by) /\ disk[Box(i)] = Doc(by, -1)
    BY <1>1, <1>5, <2>1 DEF There
  <2>3. QED
    BY <2>2, PathsApart DEF Doc
<1>6. NewestInBox
  BY <1>2, <1>5 DEF NewestInBox
<1>7. \A i \in Instances : Fits(i)
  BY <1>2 DEF Fits, MovedAway, PastOld, BoxFree, NameFree, Stamped, BoxAsRead,
     BoxToWrite
<1>8. QED
  BY <1>4, <1>6, <1>7 DEF HInv

LEMMA StepHInv == ASSUME ~MayFail, HInv, NEW i \in Instances, Step(i) PROVE HInv'
<1>1. TypeOK'
  BY TypeStep DEF HInv, Fits, Stamped
<1>2. CASE Quiet(i)
  <2>1. Fits(i)' /\ disk' = disk /\ written' = written
    BY <1>2, QuietStep
  <2>2. NewestInBox'
    BY <2>1 DEF HInv, NewestInBox, There
  <2>3. QED
    BY <1>1, <2>1, <2>2, DiskStep DEF There
<1>3. QED
  BY <1>1, <1>2, DeleteBoxStep, DeliverStep, ParkStep, BankStep, WriteStep
  DEF Step, Quiet

LEMMA NextHInv == ASSUME ~MayFail PROVE HInv /\ [Next]_vars => HInv'
<1> SUFFICES ASSUME HInv, [Next]_vars PROVE HInv'
  OBVIOUS
<1>1. CASE UNCHANGED vars
  BY <1>1 DEF vars, HInv, TypeOK, NewestInBox, Fits, MovedAway, PastOld, BoxFree,
     NameFree, Stamped, BoxAsRead, BoxToWrite, There
<1>2. QED
  BY <1>1, StepHInv DEF Next

(* Each step that changes the disk keeps every document but the one it is  *)
(* meant to remove: the places it fills are free (BoxFree, NameFree,       *)
(* BoxToWrite), and what a reader deletes is what it read (BoxAsRead).     *)
LEMMA StepKeeps ==
  ASSUME ~MayFail, HInv, NEW i \in Instances, Step(i),
         NEW path \in Paths, Vanishes(path)
  PROVE  ReadThenDeleted(path) \/ PushedOut(path)
<1>1. There(path) /\ \A dest \in Paths : disk'[dest] # disk[path]
  BY DEF Vanishes
<1>2. CASE Quiet(i)
  <2>1. disk' = disk
    BY <1>2, QuietStep
  <2>2. QED
    BY <1>1, <2>1
<1>3. CASE DeleteBox(i)
  <2>1. path = Box(i)
    BY <1>1, <1>3 DEF DeleteBox, HInv, TypeOK
  <2>2. disk[path] = mem[i].read
    BY <1>3, <2>1 DEF DeleteBox, HInv, Fits, BoxAsRead
  <2>3. QED
    BY <2>1, <2>2 DEF ReadThenDeleted
<1>4. ASSUME NEW src \in Paths, NEW dest \in Paths, Replace(src, dest), src # dest
      PROVE  path = dest
  <2>1. disk'[dest] = disk[src]
    BY <1>4 DEF Replace, HInv, TypeOK
  <2>2. path # src
    BY <1>1, <2>1
  <2>3. path = dest \/ disk'[path] = disk[path]
    BY <1>4, <2>2 DEF Replace, HInv, TypeOK
  <2>4. QED
    BY <1>1, <2>3
<1>5. CASE Deliver(i)
  <2>1. /\ mem[i].author \in Instances /\ ~There(Box(mem[i].author))
        /\ Replace(Old, Box(mem[i].author))
    BY <1>5 DEF Deliver, HInv, Fits, Stamped, BoxFree
  <2>2. path = Box(mem[i].author)
    BY <1>4, <2>1, PathsAre, PathsApart
  <2>3. QED
    BY <1>1, <2>1, <2>2
<1>6. CASE Park(i)
  <2>1. PICK k \in 0 .. MaxParked : mem[i].dest = Parked(mem[i].src, k)
    BY <1>6 DEF Park, HInv, Fits, NameFree
  <2>2. mem[i].src \in Sources /\ ~There(mem[i].dest) /\ Replace(mem[i].src, mem[i].dest)
    BY <1>6 DEF Park, HInv, Fits, NameFree, TypeOK
  <2>3. path = mem[i].dest
    BY <1>4, <2>1, <2>2, PathsAre, PathsApart
  <2>4. QED
    BY <1>1, <2>2, <2>3
<1>7. CASE Bank(i)
  <2>1. There(Box(i)) /\ Replace(Box(i), Prev(i))
    BY <1>1, <1>7 DEF Bank
  <2>2. path = Prev(i)
    BY <1>4, <2>1, PathsAre, PathsApart
  <2>3. disk'[Prev(i)] = disk[Box(i)]
    BY <2>1, PathsAre, PathsApart DEF Replace, HInv, TypeOK
  <2>4. QED
    BY <2>1, <2>2, <2>3 DEF PushedOut
<1>8. CASE Write(i)
  <2>1. path = Box(i)
    BY <1>1, <1>8 DEF Write, HInv, TypeOK
  <2>2. ~There(Box(i))
    BY <1>8 DEF Write, HInv, Fits, BoxToWrite
  <2>3. QED
    BY <1>1, <2>1, <2>2
<1>9. QED
  BY <1>2, <1>3, <1>5, <1>6, <1>7, <1>8 DEF Step, Quiet
-----------------------------------------------------------------------------
(* However many instances migrate, deliver, read and write at once, what a *)
(* session finds in its box is its own instance's, and its latest.         *)
THEOREM BoxHoldsTheLatest == ASSUME ~MayFail PROVE Spec => []NewestInBox
<1>1. HInv => NewestInBox
  BY DEF HInv
<1>2. HInv /\ [Next]_vars => HInv'
  BY NextHInv
<1>3. QED
  BY <1>1, <1>2, InitHInv, PTL DEF Spec

(* No document is overwritten or deleted unread, but for the one that a    *)
(* later unread handoff pushes out of the slot.                            *)
THEOREM UnreadIsKept == ASSUME ~MayFail PROVE Spec => NothingVanishes
<1>1. HInv /\ [Next]_vars => HInv'
  BY NextHInv
<1>2. ASSUME HInv, [Next]_vars, NEW path \in Paths, Vanishes(path)
      PROVE  ReadThenDeleted(path) \/ PushedOut(path)
  <2>1. CASE UNCHANGED vars
    BY <1>2, <2>1 DEF vars, Vanishes
  <2>2. QED
    BY <1>2, <2>1, StepKeeps DEF Next
<1>3. HInv /\ [Next]_vars =>
        [\A path \in Paths :
           Vanishes(path) => ReadThenDeleted(path) \/ PushedOut(path)]_vars
  BY <1>2
<1>4. QED
  BY <1>1, <1>3, InitHInv, PTL DEF Spec, NothingVanishes
=============================================================================
