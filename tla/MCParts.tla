------------------------------ MODULE MCParts ------------------------------
(* TLC instance of the parts of the system that share no state with one    *)
(* another: the initial state picks a part, the others stand still. The    *)
(* claim store is module WorkClaims itself; its items and its identities    *)
(* are interchangeable: no operation and no property tells one from        *)
(* another, and no other part knows them.                                  *)
EXTENDS WorkClaims, TLC

CONSTANTS
  None,
  Logs, Basename, Facts, Unstamped, Clock, Pruned, PruneAge, MaxSecond,
  MaxTurns, MaxDays,
  MaxVersion, MaxEdits, MaxMishaps,
  Recipients, Numbered, Reports

VARIABLES
  part,
  logs, rows, jobs, pruner, second,                              \* Ingest
  turn, kinds, spool, day, sessions, messages, run, taken,       \* ConversationLog
  kind, source, dest, previous, staged, manifest, setup, edits,  \* Install
  free, replaced, owned, mishaps,
  files, shelves, written, stored, pass, read                     \* Seeding

Metrics == INSTANCE Ingest
Talk    == INSTANCE ConversationLog
Deploy  == INSTANCE Install WITH taken <- replaced, faults <- mishaps, MaxFaults <- MaxMishaps
Seeds   == INSTANCE Seeding

metricsVars == <<logs, rows, jobs, pruner, second>>
talkVars    == <<turn, kinds, spool, day, sessions, messages, run, taken>>
deployVars  == <<kind, source, dest, previous, staged, manifest, setup, edits,
                 free, replaced, owned, mishaps>>
seedsVars   == <<files, shelves, written, stored, pass, read>>

partsVars ==
  <<part, claimVars, metricsVars, talkVars, deployVars, seedsVars>>

Symmetry == Permutations(Items) \union Permutations(Identities)

-----------------------------------------------------------------------------
PartsInit ==
  /\ part \in {"claims", "metrics", "talk", "deploy", "seeds"}
  /\ Init /\ Metrics!Init /\ Talk!Init /\ Deploy!Init /\ Seeds!Init

PartsNext ==
  /\ UNCHANGED part
  /\ IF part = "claims"  THEN Next         ELSE UNCHANGED claimVars
  /\ IF part = "metrics" THEN Metrics!Next ELSE UNCHANGED metricsVars
  /\ IF part = "talk"    THEN Talk!Next    ELSE UNCHANGED talkVars
  /\ IF part = "deploy"  THEN Deploy!Next  ELSE UNCHANGED deployVars
  /\ IF part = "seeds"   THEN Seeds!Next   ELSE UNCHANGED seedsVars

PartsSpec == PartsInit /\ [][PartsNext]_partsVars

-----------------------------------------------------------------------------
(* The properties of the other parts, each under its own name.             *)

(* A recorded session keeps its own row: see module Ingest.                *)
HistoryKept == Metrics!HistoryKept

(* What a skipped log may lack: see module Ingest.                         *)
SkipLosesOneSecond == Metrics!SkipLosesOneSecond

(* A message both sources saw is filed once, and what the other sources    *)
(* hold has one row each: see modules ConversationLog and Seeding.         *)
FiledOnce == Talk!FiledOnce /\ Seeds!OneRowEach

(* What peers say is not the human's view: see module ConversationLog.     *)
PeersKeptApart == Talk!PeersKeptApart

(* What only the user has needs the user's answer: see module Install.     *)
EditsNeedAnAnswer == Deploy!EditsNeedAnAnswer

(* A skill is never gone altogether: see module Install.                   *)
NeverNeither == Deploy!NeverNeither
=============================================================================
