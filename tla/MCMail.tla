------------------------------- MODULE MCMail -------------------------------
(* TLC instance of what the loop does around a session: it finds out how   *)
(* the session ended, which is module Runner itself; it delivers the mail  *)
(* (two messages stored or to be sent, two readers); and it counts the     *)
(* sessions that come to nothing. The initial state picks one of the       *)
(* three, the others stand still.                                          *)
EXTENDS Runner

CONSTANTS
  Names, Readers, Loops, NoId, BadId, Junk, Foreign, MaxMishaps,
  MaxNochange, MaxUnaccounted, MaxWork, MaxSwaps, MaxFailures

VARIABLES
  part,
  inbox, archived, says, mail, reader, session, shown, taken, stuck, mishaps, \* Mail
  work, sup, files, loopSession, stopped, truth, stale, swaps, failures  \* LoopBreakers

Post == INSTANCE Mail WITH faults <- mishaps, MaxFaults <- MaxMishaps

Breakers == INSTANCE LoopBreakers WITH
  session <- loopSession, faults <- failures, MaxFaults <- MaxFailures

postVars == <<inbox, archived, says, mail, reader, session, shown, taken, stuck, mishaps>>

breakersVars == <<work, sup, files, loopSession, stopped, truth, stale, swaps, failures>>

partsVars == <<part, vars, postVars, breakersVars>>

-----------------------------------------------------------------------------
PartsInit ==
  /\ part \in {"endings", "mail", "breakers"}
  /\ Init /\ Post!Init /\ Breakers!Init
  /\ part # "mail" => inbox = {}

PartsNext ==
  /\ UNCHANGED part
  /\ IF part = "endings"  THEN Next          ELSE UNCHANGED vars
  /\ IF part = "mail"     THEN Post!Next     ELSE UNCHANGED postVars
  /\ IF part = "breakers" THEN Breakers!Next ELSE UNCHANGED breakersVars

(* The fairness of each part that has one, where that is the one that runs.*)
PartsSpec ==
  /\ PartsInit /\ [][PartsNext]_partsVars
  /\ \A r \in Readers : WF_postVars(part = "mail" /\ Post!Reading(r))
  /\ WF_postVars(part = "mail" /\ Post!AgentExits)
  /\ WF_postVars(part = "mail" /\ \E r \in Readers : Post!Pending(r))
  /\ WF_breakersVars(part = "breakers" /\ Breakers!LoopStep)

-----------------------------------------------------------------------------
(* A message is delivered or said not to be: see module Mail.              *)
QueuedIsDelivered == Post!QueuedIsDelivered

(* What an agent was shown leaves the mailbox: see module Mail.            *)
ShownIsArchived == Post!ShownIsArchived

(* No breaker stops a loop that changes things: see module LoopBreakers.   *)
StopsNoHealthyLoop == Breakers!StopsNoHealthyLoop

(* A loop that changes nothing is stopped: see module LoopBreakers.        *)
StalledLoopStops == Breakers!StalledLoopStops
=============================================================================
