--------------------------- MODULE ConversationLog ---------------------------
(***************************************************************************)
(* The conversation store (conversation_log.py). What is said in a session *)
(* reaches it twice: a hook appends every prompt and every reply to a      *)
(* spool file of the day, and Copilot writes the turn to its own session   *)
(* store. `operator conversations` folds both into one table, again and    *)
(* again, while sessions go on. Messages of peers are held as mail and are *)
(* not filed as conversation; some of them reach an agent inside the       *)
(* prompt it is launched with.                                             *)
(*                                                                         *)
(* One session, whose turns follow one another. A line of the spool is     *)
(* named by its turn and direction, which stand for its id; the ids of the *)
(* two sources have nothing in common. No two messages have the same text. *)
(***************************************************************************)
EXTENDS Naturals, Sequences

CONSTANTS
  None,
  MaxTurns,   \* bound: turns of the session
  MaxDays     \* bound: days it lasts, a spool file each

VARIABLES
  turn,     \* the current turn, its kind, and what is left of it
  kinds,    \* per turn, who spoke: "human", "peer", "machine", or "mailed",
            \*   which is a machine's launch prompt with mail appended to it
  spool,    \* the lines of each day's file
  day,
  sessions, \* the turns in Copilot's session store
  messages, \* the table: per source, turn and direction
  run,      \* the run that is folding, and the lines of the spool it missed
  taken     \* messages a run took from the session store although they were
            \*   in the spool, in lines it had missed

vars == <<turn, kinds, spool, day, sessions, messages, run, taken>>

Turns      == 1 .. MaxTurns
Days       == 1 .. MaxDays
Kinds      == {"human", "peer", "machine", "mailed"}
Actors     == {"human", "machine", "agent"}
Directions == {"in", "out"}
Sources    == {"hook", "store"}
Said       == Turns \X Directions
Keys       == Sources \X Turns \X Directions

NoRun == [at |-> "idle", missed |-> {}]

Ids(s) == {s[k] : k \in DOMAIN s}

Latest(S) == CHOOSE n \in S : \A m \in S : m <= n

-----------------------------------------------------------------------------
(* Filing a message.                                                       *)

(* classify(): a peer's message belongs to mail.                           *)
Channel(t) == IF kinds[t] = "peer" THEN "agent-agent" ELSE "human-agent"

Row == [actor : Actors, channel : {"human-agent", "agent-agent"}]

PromptRow(t) ==
  [actor   |-> IF kinds[t] = "human" THEN "human" ELSE "machine",
   channel |-> "human-agent"]
ReplyRow(channel)  == [actor |-> "agent", channel |-> channel]

(* record(): insert, or apply today's classification to what is there.     *)
Recorded(table, new) == [k \in Keys |-> IF k \in DOMAIN new THEN new[k] ELSE table[k]]

(* _prior_channel(): a peer's prompt has no row, so the answer is always   *)
(* the human channel.                                                      *)
PriorChannel == "human-agent"

(* Mutant of Answering: a reply carries no sender, so it is the human's. *)
AnsweringHuman(lines, k) == "human-agent"

(* The channel of the last prompt before line k of one file.               *)
Answering(lines, k) ==
  LET prompts == {i \in 1 .. k : lines[i][2] = "in"}
  IN IF prompts = {} THEN PriorChannel
     ELSE Channel(lines[Latest(prompts)][1])

(* The rows a file stands for; a peer's prompt is held by mail.            *)
FileRows(lines) ==
  LET kept == {k \in DOMAIN lines : lines[k][2] = "out" \/ kinds[lines[k][1]] # "peer"}
  IN [key \in {<<"hook", lines[k][1], lines[k][2]>> : k \in kept} |->
        LET k == CHOOSE i \in kept : lines[i] = <<key[2], key[3]>>
        IN IF key[3] = "in" THEN PromptRow(key[2]) ELSE ReplyRow(Answering(lines, k))]

(* Mutant of Covered: the natural key of the row is taken to notice. *)
CoveredByKey(t, d) == messages[<<"store", t, d>>] # None

(* strip_appended_mail(): of a launch prompt, the mail is cut off before   *)
(* it is looked for. The hook's row has it whole.                          *)
Stripped(t, d) == d = "in" /\ kinds[t] = "mailed"

(* What the hook has, under the text that is looked for.                   *)
Covered(t, d) == messages[<<"hook", t, d>>] # None /\ ~Stripped(t, d)

StoreRows ==
  [key \in {<<"store", said[1], said[2]>> : said \in
              {m \in sessions \X Directions :
                 /\ ~Covered(m[1], m[2])
                 /\ m[2] = "out" \/ kinds[m[1]] # "peer"}} |->
     IF key[3] = "in" THEN PromptRow(key[2]) ELSE ReplyRow(Channel(key[2]))]

-----------------------------------------------------------------------------
(* seed_all().                                                             *)

Begin ==
  /\ run = NoRun
  /\ run' = [at |-> "spool", missed |-> {}]
  /\ UNCHANGED <<turn, kinds, spool, day, sessions, messages, taken>>

(* Of some files, those that have a line.                                  *)
Filing(key, days) == {d \in days : key \in DOMAIN FileRows(spool[d])}

(* All files that can be read, the oldest first, in one transaction. The   *)
(* others, or the directory, are an error in the report. Files are kept.   *)
IngestSpool ==
  /\ run.at = "spool"
  /\ \E opened \in SUBSET Days :
       /\ messages' = [k \in Keys |->
                         IF Filing(k, opened) = {} THEN messages[k]
                         ELSE FileRows(spool[Latest(Filing(k, opened))])[k]]
       /\ run' = [at |-> "store", missed |-> UNION {Ids(spool[d]) : d \in Days \ opened}]
  /\ UNCHANGED <<turn, kinds, spool, day, sessions, taken>>

(* What the hook has is skipped; mail and handoffs came in between.        *)
SeedSessionStore ==
  /\ run.at = "store"
  /\ messages' = Recorded(messages, StoreRows)
  /\ taken' = taken \union {m \in run.missed : <<"store", m[1], m[2]>> \in DOMAIN StoreRows}
  /\ run' = NoRun
  /\ UNCHANGED <<turn, kinds, spool, day, sessions>>

(* The run is killed; or the session store cannot be read, which is the    *)
(* last of the sources.                                                    *)
Killed ==
  /\ run # NoRun
  /\ run' = NoRun
  /\ UNCHANGED <<turn, kinds, spool, day, sessions, messages, taken>>

-----------------------------------------------------------------------------
(* The session and its hook. An append that fails is a lost line.          *)

Hook(t, d) ==
  \/ /\ spool' = [spool EXCEPT ![day] = Append(@, <<t, d>>)]
     /\ run' = IF run.at = "store" THEN [run EXCEPT !.missed = @ \union {<<t, d>>}] ELSE run
  \/ UNCHANGED <<spool, run>>

Prompt ==
  /\ turn.left = {} /\ turn.n < MaxTurns
  /\ turn' = [n |-> turn.n + 1, left |-> {"reply"}]
  /\ \E kind \in Kinds : kinds' = [kinds EXCEPT ![turn.n + 1] = kind]
  /\ Hook(turn.n + 1, "in")
  /\ UNCHANGED <<day, sessions, messages, taken>>

Reply ==
  /\ "reply" \in turn.left
  /\ turn' = [turn EXCEPT !.left = {"turn"}]
  /\ Hook(turn.n, "out")
  /\ UNCHANGED <<kinds, day, sessions, messages, taken>>

(* Copilot writes the turn to its session store.                           *)
WriteTurn ==
  /\ "turn" \in turn.left
  /\ turn' = [turn EXCEPT !.left = {}]
  /\ sessions' = sessions \union {turn.n}
  /\ UNCHANGED <<kinds, spool, day, messages, run, taken>>

Midnight ==
  /\ day < MaxDays
  /\ day' = day + 1
  /\ UNCHANGED <<turn, kinds, spool, sessions, messages, run, taken>>

-----------------------------------------------------------------------------
Init ==
  /\ turn = [n |-> 0, left |-> {}]
  /\ kinds = [t \in Turns |-> None]
  /\ spool = [d \in Days |-> <<>>] /\ day = 1
  /\ sessions = {} 
  /\ messages = [k \in Keys |-> None]
  /\ run = NoRun /\ taken = {}

Next ==
  \/ Begin \/ IngestSpool \/ SeedSessionStore \/ Killed
  \/ Prompt \/ Reply \/ WriteTurn \/ Midnight

Spec == Init /\ [][Next]_vars

-----------------------------------------------------------------------------
(* Properties.                                                             *)

TypeOK ==
  /\ turn.n \in 0 .. MaxTurns /\ turn.left \in SUBSET {"reply", "turn"}
  /\ kinds \in [Turns -> Kinds \union {None}]
  /\ \A d \in Days : Ids(spool[d]) \subseteq Said
  /\ sessions \subseteq Turns /\ day \in Days
  /\ messages \in [Keys -> Row \union {None}]
  /\ run.at \in {"idle", "spool", "store"}

(* seed_all(): "Order is load-bearing". A message the hook and the session *)
(* store both saw is filed once, through runs that are killed, lines that  *)
(* are lost and files that one run reads and the next does not. Two rows   *)
(* mean that a run took it from the session store while its line was       *)
(* there, in a file that could not be read or behind what had been read;   *)
(* or that it is a launch prompt, which the two sources have with and      *)
(* without the mail.                                                       *)
FiledOnce ==
  \A m \in Said :
    (messages[<<"hook", m[1], m[2]>>] # None /\ messages[<<"store", m[1], m[2]>>] # None) =>
      m \in taken \/ Stripped(m[1], m[2])

(* A line and its prompt are in one file.                                  *)
WithPrompt(t) ==
  \E d \in Days : {<<t, "in">>, <<t, "out">>} \subseteq Ids(spool[d])

(* ingest_spool(): "the one view the human asked to keep separate". No     *)
(* message of a peer is filed as conversation, and an answer to one is in  *)
(* the human's view only if its prompt is not in its spool file.           *)
PeersKeptApart ==
  \A t \in Turns : kinds[t] = "peer" =>
    /\ \A s \in Sources : messages[<<s, t, "in">>] = None
    /\ \A s \in Sources :
         LET row == messages[<<s, t, "out">>]
         IN row # None /\ row.channel = "human-agent" => s = "hook" /\ ~WithPrompt(t)
=============================================================================
