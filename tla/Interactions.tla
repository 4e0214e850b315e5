----------------------------- MODULE Interactions -----------------------------
(***************************************************************************)
(* Prompts to the agent of one pane and the waiting for their answers:          *)
(* InteractionStore (packages/server/src/interaction.ts), typeAndSubmit           *)
(* (submit.ts), the hooks by which Claude Code tells that a turn opens and stops   *)
(* and the sweep that finds turns cut short without a hook (server.ts,            *)
(* agent-hooks.ts).  The agent and its hooks are the environment: one turn at a    *)
(* time, prompts queued meanwhile, hooks delivered in their order.             *)
(*                                                                         *)
(* A person types at the same pane; a turn is named by its prompt, Person for    *)
(* theirs.  The clock orders what the code compares by Date.now().             *)
(***************************************************************************)
EXTENDS Integers, Sequences

CONSTANTS Prompts,     \* prompts sent through the API, each once
          MaxTyped     \* bound: prompts typed by the person

ASSUME InteractionAssumption == Prompts \subseteq Nat \ {0} /\ MaxTyped \in Nat

VARIABLES
  rec,         \* the records
  slot,        \* pendingBySession: the prompt in flight, 0 without one
  req,         \* the requests: "none", "types", "waits", or "told" (answered)
  inbox, turn, \* the agent: prompts queued, and <<prompt>> of the running turn
  post,        \* hooks on their way
  meta,        \* claudeTurnOpen and agentActiveAt of the pane's meta
  idleAt,      \* when the agent's status file went idle, 0 while it is busy
  reading,     \* a stop handler reads the transcript: <<the record, the turn>>
  sweep,       \* the sweep: what it has read, <<>> between sweeps
  lives,       \* the session
  typed, clock,        \* typed is bounded by MaxTyped
  cut, alone           \* what happened: turns without a Stop; prompts nothing crossed

interactionVars == <<rec, slot, req, inbox, turn, post, meta, idleAt, reading, sweep, lives, typed, clock, cut, alone>>
agent == <<inbox, turn, idleAt, cut>>
tracker == <<rec, slot, req, reading, sweep>>

Person == 0
Unsent == [status |-> "none", created |-> 0, how |-> "none", reply |-> 0]

InteractionInit ==
  /\ rec = [p \in Prompts |-> Unsent] /\ slot = 0 /\ req = [p \in Prompts |-> "none"]
  /\ inbox = <<>> /\ turn = <<>> /\ post = <<>> /\ meta = [open |-> FALSE, activeAt |-> 0]
  /\ idleAt = 1 /\ reading = <<>> /\ sweep = <<>> /\ lives = TRUE
  /\ typed = 0 /\ clock = 1 /\ cut = {} /\ alone = {}

(* Mutant: the slot is free whoever it is for.                                  *)
SettledFrees(r, s, p, status, how, reply) ==
  [rec |-> [r EXCEPT ![p].status = status, ![p].how = how, ![p].reply = reply], slot |-> 0]

(* settle: the record's end, and the slot free if it was its own.               *)
Settled(r, s, p, status, how, reply) ==
  [rec |-> [r EXCEPT ![p].status = status, ![p].how = how, ![p].reply = reply],
   slot |-> IF s = p THEN 0 ELSE s]

EndsRecord(p, status, how, reply) ==
  IF p = 0 THEN UNCHANGED <<rec, slot>>
  ELSE LET done == Settled(rec, slot, p, status, how, reply)
       IN  rec' = done.rec /\ slot' = done.slot

(* Prompts whose fate another turn or prompt can touch from now on.             *)
Crosses == alone' = alone \ {p \in Prompts : rec[p].status = "pending"}

-----------------------------------------------------------------------------
(* POST /interactions: start() fails the one in flight, then the text is typed.  *)
Start(p) ==
  /\ lives /\ req[p] = "none" /\ req' = [req EXCEPT ![p] = "types"]
  /\ LET before == IF slot = 0 THEN rec ELSE Settled(rec, slot, slot, "failed", "superseded", 0).rec
     IN  rec' = [before EXCEPT ![p] = [status |-> "pending", created |-> clock + 1, how |-> "none", reply |-> 0]]
  /\ slot' = p /\ clock' = clock + 1
  /\ alone' = IF slot = 0 /\ turn = <<>> /\ inbox = <<>> /\ post = <<>> /\ reading = <<>>
                 /\ \A o \in Prompts : req[o] # "types"
              THEN alone \cup {p} ELSE alone \ {slot}
  /\ UNCHANGED <<agent, post, meta, reading, sweep, lives, typed>>

(* wait(): an answer at once when the record has ended.                        *)
WaitsFor(p) == req' = [req EXCEPT ![p] = IF rec'[p].status = "pending" THEN "waits" ELSE "told"]

Types(p) ==
  /\ req[p] = "types" /\ UNCHANGED <<rec, slot>> /\ WaitsFor(p)
  /\ inbox' = IF lives THEN Append(inbox, p) ELSE inbox
  /\ UNCHANGED <<turn, idleAt, cut, post, meta, reading, sweep, lives, typed, clock, alone>>

(* The text stays in the composer even after the retry: finish() fails what is    *)
(* in flight for the session, which need not be this prompt.                  *)
Sticks(p) ==
  /\ lives /\ req[p] = "types" /\ EndsRecord(slot, "failed", "stuck", p) /\ WaitsFor(p)
  /\ UNCHANGED <<agent, post, meta, reading, sweep, lives, typed, clock, alone>>

(* A waiter is woken by the end of its record, or by its timeout, which leaves    *)
(* the record pending.                                                      *)
Answered(p) ==
  /\ req[p] = "waits" /\ req' = [req EXCEPT ![p] = "told"]
  /\ UNCHANGED <<rec, slot, agent, post, meta, reading, sweep, lives, typed, clock, alone>>

-----------------------------------------------------------------------------
(* The agent.                                                               *)
PersonTypes ==
  /\ lives /\ typed < MaxTyped /\ typed' = typed + 1
  /\ inbox' = Append(inbox, Person) /\ Crosses
  /\ UNCHANGED <<tracker, turn, idleAt, cut, post, meta, lives, clock>>

TurnStarts ==
  /\ lives /\ turn = <<>> /\ inbox # <<>>
  /\ turn' = <<Head(inbox)>> /\ inbox' = Tail(inbox) /\ idleAt' = 0
  /\ post' = Append(post, [hook |-> "UserPromptSubmit", of |-> Head(inbox)])
  /\ UNCHANGED <<tracker, cut, meta, lives, typed, clock, alone>>

(* A turn ends with a Stop, with a StopFailure, or with neither: Esc, a denied   *)
(* prompt, a hook that is lost.                                             *)
TurnEnds ==
  /\ lives /\ turn # <<>> /\ \A i \in DOMAIN post : post[i].hook # "UserPromptSubmit"
  /\ turn' = <<>> /\ idleAt' = clock + 1 /\ clock' = clock + 1
  /\ \/ \E hook \in {"Stop", "StopFailure"} : post' = Append(post, [hook |-> hook, of |-> turn[1]]) /\ UNCHANGED cut
     \/ cut' = cut \cup {turn[1]} /\ UNCHANGED post
  /\ UNCHANGED <<tracker, inbox, meta, lives, typed, alone>>

(* UserPromptSubmit: the turn is open, and stamped.                            *)
HookOpens ==
  /\ lives /\ post # <<>> /\ Head(post).hook = "UserPromptSubmit" /\ reading = <<>>
  /\ meta' = [open |-> TRUE, activeAt |-> clock + 1] /\ clock' = clock + 1 /\ post' = Tail(post)
  /\ UNCHANGED <<tracker, agent, lives, typed, alone>>

(* finish() takes the record in flight and reads the transcript for it.          *)
Takes(p) == IF slot = 0 THEN <<>> ELSE <<slot, p>>

HookStops ==
  /\ lives /\ post # <<>> /\ Head(post).hook # "UserPromptSubmit" /\ reading = <<>>
  /\ meta' = [meta EXCEPT !.open = FALSE] /\ post' = Tail(post)
  /\ \/ /\ Head(post).hook = "Stop" /\ reading' = Takes(Head(post).of)
        /\ UNCHANGED <<rec, slot>>
     \/ /\ Head(post).hook = "StopFailure" /\ EndsRecord(slot, "failed", "error", Head(post).of)
        /\ UNCHANGED reading
  /\ UNCHANGED <<req, sweep, agent, lives, typed, clock, alone>>

(* The transcript has been read, and the record the reading was begun for is      *)
(* settled, ended or not.                                                   *)
StopSettles ==
  /\ reading # <<>> /\ reading' = <<>>
  /\ EndsRecord(reading[1], "completed", "answered", reading[2])
  /\ UNCHANGED <<req, sweep, agent, post, meta, lives, typed, clock, alone>>

-----------------------------------------------------------------------------
(* The waiting sweep.  It takes the status file of an agent idle for longer than   *)
(* STOP_HOOK_GRACE_MS: hooks of the turn before have arrived.                  *)
SweepReads ==
  /\ lives /\ sweep = <<>> /\ idleAt > 0 /\ post = <<>> /\ meta.open
  /\ sweep' = <<"status", idleAt>>
  /\ UNCHANGED <<rec, slot, req, reading, agent, post, meta, lives, typed, clock, alone>>

(* staleTurnOutcome on the meta as it is now: open, and no activity since.       *)
SweepJudges ==
  /\ sweep # <<>> /\ sweep[1] = "status"
  /\ \/ /\ meta.open /\ meta.activeAt < sweep[2]
        /\ meta' = [meta EXCEPT !.open = FALSE] /\ sweep' = <<"ended", meta.activeAt>>
     \/ /\ ~(meta.open /\ meta.activeAt < sweep[2])
        /\ sweep' = <<>> /\ UNCHANGED meta
  /\ UNCHANGED <<rec, slot, req, reading, agent, post, lives, typed, clock, alone>>

(* Mutant: whatever waits is failed with the turn.                             *)
TurnWasWhatever(p, activeAt) == TRUE

(* A prompt sent after the last activity is still queued.                       *)
TurnWasOf(p, activeAt) == rec[p].created <= activeAt

(* settleInterrupted, once the meta is written.                                *)
SweepSettles ==
  /\ sweep # <<>> /\ sweep[1] = "ended" /\ sweep' = <<>>
  /\ IF lives /\ slot # 0 /\ TurnWasOf(slot, sweep[2])
     THEN EndsRecord(slot, "failed", "interrupted", 0) ELSE UNCHANGED <<rec, slot>>
  /\ UNCHANGED <<req, reading, agent, post, meta, lives, typed, clock, alone>>

(* The program exits, and what is in flight is abandoned; or the session is        *)
(* destroyed, which calls nobody back (Session.kill).                         *)
SessionEnds ==
  /\ lives /\ lives' = FALSE /\ turn' = <<>> /\ inbox' = <<>> /\ post' = <<>>
  /\ \/ EndsRecord(slot, "failed", "exited", 0)
     \/ UNCHANGED <<rec, slot>>
  /\ UNCHANGED <<req, reading, sweep, idleAt, cut, meta, typed, clock, alone>>

-----------------------------------------------------------------------------
InteractionNext ==
  \/ \E p \in Prompts : Start(p) \/ Types(p) \/ Sticks(p) \/ Answered(p)
  \/ PersonTypes \/ TurnStarts \/ TurnEnds \/ HookOpens \/ HookStops \/ StopSettles
  \/ SweepReads \/ SweepJudges \/ SweepSettles \/ SessionEnds

InteractionSpec == InteractionInit /\ [][InteractionNext]_interactionVars

-----------------------------------------------------------------------------
(* A prompt sent to an agent at rest, and not crossed by another, gets the answer  *)
(* of its own turn, and is called interrupted only when its own turn was.        *)
EndsAreOwn ==
  \A p \in alone :
    /\ rec[p].status = "completed" => rec[p].reply = p
    /\ rec[p].how = "interrupted" => p \in cut
    /\ rec[p].how = "stuck" => rec[p].reply = p

(* Nobody waits for an agent at rest: once nothing is queued, running or on its    *)
(* way, and no turn is open, every prompt that was typed has ended, though Stops   *)
(* get lost and turns are cut short.                                         *)
RestEndsWaits ==
  (lives /\ turn = <<>> /\ inbox = <<>> /\ post = <<>> /\ reading = <<>> /\ sweep = <<>> /\ ~meta.open)
    => \A p \in Prompts : req[p] \in {"waits", "told"} => rec[p].status # "pending"

(* interaction.ts:88-90: a second prompt fails the first, since "leaving it         *)
(* pending would let a later Stop complete the wrong one".  The Stop of the first   *)
(* then completes the second.                                                *)
StopCompletesItsOwn == \A p \in Prompts : rec[p].status = "completed" => rec[p].reply = p
=============================================================================
