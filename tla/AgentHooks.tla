------------------------------ MODULE AgentHooks ------------------------------
(***************************************************************************)
(* What people are shown of an agent: at work or at rest, waiting for a permission, or     *)
(* stopped without an answer.  Claude Code's hooks tell some of it (agent-hooks.ts,       *)
(* server.ts:658-722), the sweep finds the rest in Claude's status file or on the         *)
(* screen (server.ts:1834-1910), and each change of the pane's meta is broadcast when it    *)
(* has been written.                                                        *)
(*                                                                         *)
(* The agent is the environment, as measured in agent-hooks.ts:16-20: a main thread and a   *)
(* subagent, one dialog at a time, an approval without a hook until the tool has run, a     *)
(* denial and an Esc without any.  A tick is a second; every margin of the code is a        *)
(* number of them.                                                          *)
(***************************************************************************)
EXTENDS Integers, Sequences, SequencesExt

CONSTANTS MaxNow, MaxActs, MaxHooks        \* bounds of the model: seconds, acts of the agent, hooks on their way

ASSUME HooksAssumption == {MaxNow, MaxActs, MaxHooks} \subseteq Nat

VARIABLES
  now,
  found,         \* the agent's process, and so its status file, can be found
  threads,       \* [main, sub], each "rest", "works" or "asks"
  statusFile,        \* status and updatedAt
  turnEnded,     \* how the last turn ended, "runs" while one does
  escAt,         \* when an Esc was typed last
  hooks,         \* on their way, in their order
  runtime,       \* the pane's meta
  agentWaiting,        \* the sweep has seen a prompt
  saves,         \* metas being written, to be broadcast then
  announced,     \* what the last broadcast said
  sweeping,      \* what a sweep has read so far
  quietSince, calm,        \* the last that happened; a whole sweep has found nothing new since
  disturbed,     \* ghost: see Disturbs
  acts           \* bounded by MaxActs

claudeVars == <<threads, statusFile, turnEnded, escAt, hooks, acts>>
paneVars == <<runtime, agentWaiting, saves, announced>>
hookVars == <<now, found, claudeVars, paneVars, sweeping, quietSince, calm, disturbed>>

(* STALE_TURN_MARGIN_MS and WAITING_SETTLE_MARGIN_MS, STOP_HOOK_GRACE_MS and WAITING_SWEEP_MS. *)
Margin == 1
Grace == 2
SweepPeriod == 3

NoSweep == [at |-> "none"]
HooksInit ==
  /\ now = 1 /\ found \in BOOLEAN
  /\ threads = [main |-> "rest", sub |-> "rest"] /\ statusFile = [status |-> "idle", updatedAt |-> 1]
  /\ turnEnded = "answered" /\ escAt = 0 /\ hooks = <<>> /\ acts = 0
  /\ runtime = [active |-> FALSE, open |-> FALSE, turnAt |-> 0, waiting |-> <<>>, interrupted |-> FALSE]
  /\ agentWaiting = FALSE /\ saves = <<>>
  /\ announced = [active |-> FALSE, waiting |-> FALSE, interrupted |-> FALSE]
  /\ sweeping = NoSweep /\ quietSince = 1 /\ calm = FALSE /\ disturbed = FALSE

-----------------------------------------------------------------------------
(* Something happens, which a sweep under way may have missed.                      *)
Happens ==
  /\ quietSince' = now /\ calm' = FALSE
  /\ sweeping' = IF sweeping = NoSweep THEN NoSweep ELSE [sweeping EXCEPT !.quiet = FALSE]
  /\ UNCHANGED <<now, found>>

Asking(ts) == "asks" \in {ts.main, ts.sub}
StatusOf(ts) == IF Asking(ts) THEN "waiting" ELSE IF ts.main = "works" THEN "busy" ELSE "idle"

(* The agent goes on with threads ts, and says so by these hooks.                      *)
Goes(ts, said) ==
  /\ acts < MaxActs /\ acts' = acts + 1 /\ Len(hooks) + Len(said) <= MaxHooks
  /\ threads' = ts /\ hooks' = hooks \o said
  /\ statusFile' = IF StatusOf(ts) = statusFile.status THEN statusFile ELSE [status |-> StatusOf(ts), updatedAt |-> now]
  /\ Happens /\ UNCHANGED paneVars

ByHook(event, by) == [event |-> event, by |-> by]

(* What ends within a second of the server's note of its beginning, or before that note,    *)
(* is not told from what was before: "a turn the person cuts short" at once stays open, a    *)
(* prompt denied at once stays up, and an Esc of the second of the prompt after it counts     *)
(* as that turn's (Submits).                                                  *)
Disturbs(begun, since) == \/ \E i \in DOMAIN hooks : hooks[i].event \in begun
                          \/ now <= since + Margin
PromptSince == IF runtime.waiting = <<>> THEN now ELSE runtime.waiting[1].at

Calm == UNCHANGED <<turnEnded, escAt, disturbed>>

Submits ==
  /\ threads.main = "rest" /\ Goes([threads EXCEPT !.main = "works"], <<ByHook("UserPromptSubmit", "main")>>)
  /\ turnEnded' = "runs" /\ disturbed' = (disturbed \/ escAt = now) /\ UNCHANGED escAt
Compacts == threads.main = "rest" /\ Goes(threads, <<ByHook("SessionStart", "main")>>) /\ Calm
Delegates == threads.main = "works" /\ threads.sub = "rest" /\ Goes([threads EXCEPT !.sub = "works"], <<>>) /\ Calm
UsesTool(t) == threads[t] = "works" /\ Goes(threads, <<ByHook("PostToolUse", t)>>) /\ Calm
SubEnds == threads.sub = "works" /\ Goes([threads EXCEPT !.sub = "rest"], <<ByHook("SubagentStop", "sub")>>) /\ Calm
AsksLeave(t) == threads[t] = "works" /\ ~Asking(threads) /\ Goes([threads EXCEPT ![t] = "asks"], <<ByHook("PermissionRequest", t)>>) /\ Calm

(* 6 s later; the note does not say whose prompt it is.                              *)
Notifies == Asking(threads) /\ Goes(threads, <<ByHook("Notification", "main")>>) /\ Calm

PromptHooks == {"PermissionRequest", "Notification"}
Approves(t) ==
  /\ threads[t] = "asks" /\ Goes([threads EXCEPT ![t] = "works"], <<>>)
  /\ disturbed' = (disturbed \/ Disturbs(PromptHooks, PromptSince)) /\ UNCHANGED <<turnEnded, escAt>>
Concludes ==
  /\ threads.main = "works" /\ \E how \in {"answered", "failed"} :
       /\ turnEnded' = how
       /\ Goes([threads EXCEPT !.main = "rest"], <<ByHook("active: false", "main"), ByHook(IF how = "answered" THEN "Stop" ELSE "StopFailure", "main")>>)
  /\ UNCHANGED <<escAt, disturbed>>

(* The main thread's prompt is denied, or Esc typed with no other up: here, or where the     *)
(* server does not see it.                                                  *)
IsCut ==
  /\ threads.main # "rest" /\ threads.sub # "asks" /\ Goes([threads EXCEPT !.main = "rest"], <<>>)
  /\ \/ turnEnded' = "cut" /\ UNCHANGED escAt
     \/ turnEnded' = "cancelled" /\ escAt' = now
  /\ disturbed' = \/ disturbed \/ Disturbs({"UserPromptSubmit"}, runtime.turnAt)
                  \/ threads.main = "asks" /\ Disturbs(PromptHooks, PromptSince)

(* A keystroke that ends nothing.                                              *)
SubDenied ==
  /\ threads.sub = "asks" /\ Goes([threads EXCEPT !.sub = "rest"], <<>>)
  /\ disturbed' = (disturbed \/ Disturbs(PromptHooks, PromptSince)) /\ UNCHANGED <<turnEnded, escAt>>

Claude ==
  \/ Submits \/ Compacts \/ Delegates \/ SubEnds \/ Notifies \/ Concludes \/ IsCut \/ SubDenied
  \/ \E t \in {"main", "sub"} : UsesTool(t) \/ AsksLeave(t) \/ Approves(t)

-----------------------------------------------------------------------------
(* Only who asked closes a prompt by going on.                                     *)
Closes(by) == runtime.waiting # <<>> /\ runtime.waiting[1].by = by

Opened(by) == <<[by |-> by, at |-> now]>>
Unasked(m, by) == IF Closes(by) THEN [m EXCEPT !.waiting = <<>>] ELSE m

(* hookPatch, stopPatch, and what the hooks of Stop and SessionStart write by themselves.      *)
Patched(h) ==
  LET m == runtime IN
  CASE h.event = "UserPromptSubmit" -> Unasked([m EXCEPT !.active = TRUE, !.open = TRUE, !.turnAt = now, !.interrupted = FALSE], "main")
    [] h.event = "PostToolUse" -> Unasked([m EXCEPT !.active = @ \/ m.open], h.by)
    [] h.event = "PermissionRequest" -> [m EXCEPT !.waiting = Opened(h.by)]
    [] h.event = "Notification" -> IF m.waiting = <<>> THEN [m EXCEPT !.waiting = Opened("main")] ELSE m
    [] h.event = "SubagentStop" -> Unasked(m, "sub")
    [] h.event = "SessionStart" -> [m EXCEPT !.active = TRUE]
    [] h.event = "active: false" -> [m EXCEPT !.active = FALSE, !.open = FALSE]
    [] h.event = "Stop" -> Unasked([m EXCEPT !.interrupted = FALSE], "main")
    [] h.event = "StopFailure" -> Unasked([m EXCEPT !.interrupted = TRUE], "main")

(* setMeta: at once in memory, then the file, and then the broadcast.                   *)
SetMeta(m) == runtime' = m /\ saves' = IF m = runtime THEN saves ELSE Append(saves, m)

Handles ==
  /\ hooks # <<>> /\ hooks' = Tail(hooks) /\ SetMeta(Patched(Head(hooks))) /\ Happens
  /\ UNCHANGED <<threads, statusFile, turnEnded, escAt, acts, agentWaiting, announced, disturbed>>

(* Mutant: a session that has begun, or compacted itself, counts as a turn.                  *)
ActiveOnceStarted(m) == m.active

(* agentIsActive *)
AgentIsActive(m) == m.active /\ m.open

(* Files are written side by side, and may be done in another order: the older meta is      *)
(* then what is broadcast last.                                               *)
Announces(i) ==
  /\ announced' = [active |-> AgentIsActive(saves[i]), waiting |-> agentWaiting \/ saves[i].waiting # <<>>,
                   interrupted |-> saves[i].interrupted]
  /\ saves' = RemoveAt(saves, i) /\ disturbed' = (disturbed \/ i # 1)
  /\ UNCHANGED <<now, found, claudeVars, runtime, agentWaiting, sweeping, quietSince, calm>>

-----------------------------------------------------------------------------
(* The sweep reads the meta, then the processes and the status file, and judges.         *)
ReadsMeta ==
  /\ sweeping = NoSweep
  /\ sweeping' = [at |-> "looks", read |-> runtime, quiet |-> now > quietSince + SweepPeriod]
  /\ UNCHANGED <<now, found, claudeVars, paneVars, quietSince, calm, disturbed>>

ReadsStatus ==
  /\ sweeping.at = "looks" /\ sweeping' = [at |-> "judges", read |-> sweeping.read, quiet |-> sweeping.quiet, status |-> statusFile]
  /\ UNCHANGED <<now, found, claudeVars, paneVars, quietSince, calm, disturbed>>

(* turnIsStale: an idle after the turn began.                                       *)
TurnIsStale(m, s) == (m.active \/ m.open) /\ s.status = "idle" /\ s.updatedAt > m.turnAt + Margin

(* staleTurnOutcome: the turn is closed, quietly if a person stopped it or there was none.    *)
TurnClosed(m, patched) == [patched EXCEPT !.active = FALSE, !.open = FALSE, !.interrupted = @ \/ (m.open /\ escAt < m.turnAt)]

(* A prompt is over when Claude has moved on, or with no status file when the screen        *)
(* shows none.                                                             *)
PromptIsOver(m, s) ==
  m.waiting # <<>> /\
    IF found THEN s.status # "waiting" /\ s.updatedAt > m.waiting[1].at + Margin
    ELSE now > m.waiting[1].at + SweepPeriod /\ ~Asking(threads)

JudgesPane ==
  /\ sweeping.at = "judges"
  /\ LET s == sweeping.status
         graceOver == found /\ now > s.updatedAt + Grace
         m == IF graceOver THEN runtime ELSE sweeping.read
         closed == IF graceOver /\ TurnIsStale(m, s) THEN TurnClosed(m, runtime) ELSE runtime
         sees == IF found THEN s.status = "waiting" ELSE m.waiting = <<>> /\ m.open /\ Asking(threads)
         patched == IF PromptIsOver(m, s) THEN [closed EXCEPT !.waiting = <<>>] ELSE closed
     IN  /\ runtime' = patched /\ agentWaiting' = sees
         /\ saves' = saves \o (IF patched # runtime THEN <<patched>> ELSE <<>>) \o (IF sees # agentWaiting THEN <<patched>> ELSE <<>>)
  /\ sweeping' = NoSweep /\ calm' = (calm \/ sweeping.quiet)
  /\ UNCHANGED <<now, found, claudeVars, announced, quietSince, disturbed>>

(* Time passes by more than any margin, so that two things are within them or not; files     *)
(* are written meanwhile.                                                    *)
Later ==
  /\ saves = <<>> /\ now < MaxNow /\ now' = now + SweepPeriod + 1
  /\ UNCHANGED <<found, claudeVars, paneVars, sweeping, quietSince, calm, disturbed>>

HooksNext ==
  \/ Claude \/ Handles \/ ReadsMeta \/ ReadsStatus \/ JudgesPane \/ Later
  \/ \E i \in DOMAIN saves : Announces(i)

HooksSpec == HooksInit /\ [][HooksNext]_hookVars

-----------------------------------------------------------------------------
(* Once all hooks are handled and written, and a sweep has found a pane in which nothing     *)
(* has happened for longer than its period, people see what the agent does: whether it        *)
(* works, whether a prompt is up, be it a subagent's that outlives the turn, and whether      *)
(* its last turn was cut short by nobody here ("a hook can open a wait but not always close    *)
(* it; the sweep closes it", agent-hooks.ts:20).  Of turns cut short nothing is known while     *)
(* a subagent's prompt is up, or without a status file.                             *)
StateIsShown ==
  calm /\ hooks = <<>> /\ saves = <<>> /\ ~disturbed =>
    /\ announced.waiting <=> Asking(threads)
    /\ found /\ ~Asking(threads) =>
         /\ announced.active <=> threads.main # "rest"
         /\ announced.interrupted <=> turnEnded \in {"cut", "failed"}
=============================================================================
