----------------------------- MODULE AgentSleep -----------------------------
(***************************************************************************)
(* AgentSleeper (packages/server/src/agent-sleep.ts) for one pane: an idle   *)
(* agent is taken down and brought back on the first key.                  *)
(*                                                                         *)
(* sleep() and wake() are asynchronous functions on one event loop: a call    *)
(* runs from one await to the next in one step, and between its steps keys    *)
(* are typed, hooks arrive, other calls run, the agent and the pane come and  *)
(* go, and the server may stop and start again.                            *)
(***************************************************************************)
EXTENDS Naturals, Sequences

CONSTANTS
  Calls,        \* calls of sleep, wake and dismiss that may be under way
  Sleepers,     \* those of them that may be sleep()
  QueueMax,     \* QUEUE_MAX_BYTES, in keys
  Unkillable,   \* may an agent survive SIGKILL
  Hasty,        \* may a sleep begin while another call is under way
  SlowDisk,     \* may a write to the meta file outlast a timer (100 ms and more)
  MaxTyped,     \* bounds of the model: keys typed,
  MaxSleeps,    \* sleeps asked for,
  MaxAgents,    \* agents started,
  MaxBoots      \* and server restarts

ASSUME SleepAssumption ==
  /\ Sleepers \subseteq Calls
  /\ QueueMax \in Nat /\ Unkillable \in BOOLEAN /\ Hasty \in BOOLEAN /\ SlowDisk \in BOOLEAN
  /\ MaxTyped \in Nat /\ MaxSleeps \in Nat /\ MaxAgents \in Nat \ {0} /\ MaxBoots \in Nat

VARIABLES
  call,         \* each call's await, see Call
  live,         \* the pane's entry of AgentSleeper.live
  inFlight,     \* the pane is in AgentSleeper.inFlight
  gate,         \* session.inputGate is set
  frozen,       \* the session is frozen
  meta,         \* agentSleep of the session's meta: in memory,
  file,         \* and on disk
  restored,     \* the server has been through restore()
  alive,        \* the pane's terminal has not ended
  agent,        \* pid of the agent under the pane, 0 if none
  coming,       \* the shell is running the resume command
  hookDue,      \* the agent's SessionStart hook has not reached the server
  keys,         \* ghost: what became of the keys typed, see Keys
  used,         \* how much of the bounds is used up
  taken         \* ghost: a sleep has taken the agent down, no wake has ended since

memory == <<call, live, inFlight, gate, frozen, meta, restored>>
world == <<alive, agent, coming, hookDue>>
vars == <<call, live, inFlight, gate, frozen, meta, file, restored,
          alive, agent, coming, hookDue, keys, used, taken>>

Phases == {"awake", "sleeping", "waking", "failed"}

Live == [phase : Phases, queue : Seq(1 .. MaxTyped), started : BOOLEAN]

Awake == [phase |-> "awake", queue |-> <<>>, started |-> FALSE]

(* The await a call is at; saving is what it is writing to the meta file.     *)
Awaits == {"idle",
  "checking", "checked", "freezing", "recording", "waitGone", "undoing",     \* sleep
  "wakeRecording", "clearing", "waitReady",                                  \* wake
  "failing", "failRecording", "readying", "readyRecording", "draining",
  "noting" }                                                                 \* dismiss, noteAgentStart

Call == [at : Awaits, pid : Nat, tries : 0 .. 3, saving : Phases, drain : Seq(1 .. MaxTyped)]

Idle == [at |-> "idle", pid |-> 0, tries |-> 0, saving |-> "awake", drain |-> <<>>]

Keys == [typed : 0 .. MaxTyped, written : SUBSET (1 .. MaxTyped),
         givenUp : SUBSET (1 .. MaxTyped),     \* dropped, and shown to be
         undone : SUBSET (1 .. MaxTyped)]      \* dropped with the sleep that failed

Elements(s) == {s[i] : i \in 1 .. Len(s)}

Gated == live.phase \in {"sleeping", "waking"}

At(c, await) == call[c].at = await
Free(c) == At(c, "idle")
Go(c, await) == call' = [call EXCEPT ![c].at = await]

(* setMeta: memory at once, the file when the write is done.                 *)
Saves(c, phase, await) ==
  /\ meta' = phase
  /\ call' = [call EXCEPT ![c].at = await, ![c].saving = phase]

Writing(c) ==
  call[c].at \in {"recording", "undoing", "wakeRecording", "failRecording", "readyRecording", "noting"}

(* A timer of a call fires.                                                *)
Timer(c, await) == At(c, await) /\ (SlowDisk \/ \A d \in Calls : ~Writing(d))

-----------------------------------------------------------------------------
(* sleep()                                                                 *)

Sleep(c) ==
  /\ c \in Sleepers /\ Free(c) /\ restored /\ used.sleeps < MaxSleeps
  /\ Hasty \/ \A d \in Calls : Free(d)
  /\ ~Gated /\ ~inFlight /\ alive
  /\ live' = Awake
  /\ Go(c, "checking")
  /\ used' = [used EXCEPT !.sleeps = @ + 1]
  /\ UNCHANGED <<inFlight, gate, frozen, meta, file, restored, world, keys, taken>>

(* refusal, or whyBusy                                                     *)
Refused(c) ==
  /\ At(c, "checking") \/ At(c, "checked")
  /\ call' = [call EXCEPT ![c] = Idle]
  /\ UNCHANGED <<live, inFlight, gate, frozen, meta, file, restored, world, keys, used, taken>>

FindsAgent(c) ==
  /\ At(c, "checking") /\ agent /= 0
  /\ call' = [call EXCEPT ![c].at = "checked", ![c].pid = agent]
  /\ UNCHANGED <<live, inFlight, gate, frozen, meta, file, restored, world, keys, used, taken>>

Freezes(c) ==
  /\ At(c, "checked")
  /\ inFlight' = TRUE /\ frozen' = TRUE
  /\ Go(c, "freezing")
  /\ UNCHANGED <<live, gate, meta, file, restored, world, keys, used, taken>>

Installs(c) ==
  /\ At(c, "freezing")
  /\ live' = [Awake EXCEPT !.phase = "sleeping"] /\ gate' = TRUE
  /\ Saves(c, "sleeping", "recording")
  /\ UNCHANGED <<inFlight, frozen, file, restored, world, keys, used, taken>>

(* Mutant: the agent is told to go before the record of it is on disk.       *)
PressesUnrecorded(c) ==
  /\ At(c, "recording")
  /\ call' = [call EXCEPT ![c].at = "waitGone", ![c].tries = 1]
  /\ UNCHANGED <<live, inFlight, gate, frozen, meta, file, restored, world, keys, used, taken>>

(* The record is on disk; now Ctrl-C, three times.                          *)
Presses(c) ==
  /\ At(c, "recording")
  /\ file' = call[c].saving
  /\ call' = [call EXCEPT ![c].at = "waitGone", ![c].tries = 1]
  /\ UNCHANGED <<live, inFlight, gate, frozen, meta, restored, world, keys, used, taken>>

Gone(c) ==
  /\ Timer(c, "waitGone") /\ agent /= call[c].pid
  /\ inFlight' = FALSE
  /\ call' = [call EXCEPT ![c] = Idle]
  /\ UNCHANGED <<live, gate, frozen, meta, file, restored, world, keys, used, taken>>

(* SIGTERM, then SIGKILL                                                   *)
Kills(c) ==
  /\ Timer(c, "waitGone") /\ agent = call[c].pid /\ call[c].tries < 3
  /\ call' = [call EXCEPT ![c].tries = @ + 1]
  /\ UNCHANGED <<live, inFlight, gate, frozen, meta, file, restored, world, keys, used, taken>>

(* It would not go: uninstall and thaw.  What a wake has queued meanwhile is   *)
(* dropped with the entry.                                                 *)
Undo(c) ==
  /\ Unkillable /\ Timer(c, "waitGone") /\ agent = call[c].pid /\ call[c].tries = 3
  /\ live' = Awake /\ gate' = FALSE /\ frozen' = FALSE /\ taken' = FALSE
  /\ keys' = [keys EXCEPT !.undone = @ \cup Elements(live.queue)]
  /\ Saves(c, "awake", "undoing")
  /\ UNCHANGED <<inFlight, file, restored, world, used>>

-----------------------------------------------------------------------------
(* wake(), whose first segment runs within the call or the key that asks.     *)

WakeStarts(l, calls, d) ==
  /\ calls[d].at = "idle" /\ d \notin Sleepers
  /\ live' = [l EXCEPT !.phase = "waking", !.started = FALSE]
  /\ meta' = "waking"
  /\ call' = [calls EXCEPT ![d].at = "wakeRecording", ![d].saving = "waking"]

Wake(c) ==
  /\ restored /\ alive /\ live.phase = "sleeping"
  /\ WakeStarts(live, call, c)
  /\ UNCHANGED <<inFlight, gate, frozen, file, restored, world, keys, used, taken>>

(* Ctrl-U clears the shell's line.                                         *)
ClearsLine(c) ==
  /\ At(c, "wakeRecording")
  /\ file' = call[c].saving
  /\ Go(c, "clearing")
  /\ UNCHANGED <<live, inFlight, gate, frozen, meta, restored, world, keys, used, taken>>

TypesResume(c) ==
  /\ Timer(c, "clearing")
  /\ coming' = (coming \/ (alive /\ agent = 0))
  /\ Go(c, "waitReady")
  /\ UNCHANGED <<live, inFlight, gate, frozen, meta, file, restored, alive, agent, hookDue, keys, used, taken>>

(* waitReady finds the agent's process although no hook has come.            *)
SeesAgent(c) ==
  /\ Timer(c, "waitReady") /\ live /= Awake /\ ~live.started /\ agent /= 0
  /\ live' = [live EXCEPT !.started = TRUE]
  /\ UNCHANGED <<call, inFlight, gate, frozen, meta, file, restored, world, keys, used, taken>>

Removed(c) ==
  /\ Timer(c, "waitReady") /\ live = Awake
  /\ call' = [call EXCEPT ![c] = Idle]
  /\ UNCHANGED <<live, inFlight, gate, frozen, meta, file, restored, world, keys, used, taken>>

(* Mutant: waitReady has no deadline.                                       *)
NeverTimesOut(c) == At(c, "waitReady") /\ FALSE /\ UNCHANGED vars

(* Mutant: a wake that fails leaves the gate in place.                       *)
FailsGated(c) ==
  /\ Timer(c, "waitReady") /\ live /= Awake
  /\ live' = [live EXCEPT !.phase = "failed", !.queue = <<>>]
  /\ frozen' = FALSE /\ taken' = FALSE
  /\ Go(c, "failing")
  /\ UNCHANGED <<inFlight, gate, meta, file, restored, world, keys, used>>

(* No agent in 10 s, or none quiet in 45 s.                                 *)
Fails(c) ==
  /\ Timer(c, "waitReady") /\ live /= Awake
  /\ live' = [live EXCEPT !.phase = "failed", !.queue = <<>>]
  /\ gate' = FALSE /\ frozen' = FALSE /\ taken' = FALSE
  /\ keys' = [keys EXCEPT !.givenUp = @ \cup Elements(live.queue)]
  /\ Go(c, "failing")
  /\ UNCHANGED <<inFlight, meta, file, restored, world, used>>

(* The saved screen is unlinked, viewers are resynced.                      *)
RecordsFailure(c) ==
  /\ At(c, "failing")
  /\ Saves(c, "failed", "failRecording")
  /\ UNCHANGED <<live, inFlight, gate, frozen, file, restored, world, keys, used, taken>>

(* Mutant: the queue is deleted with the entry.                              *)
ReadyDropsQueue(c) ==
  /\ Timer(c, "waitReady") /\ live /= Awake /\ live.started
  /\ live' = Awake /\ gate' = FALSE /\ frozen' = FALSE /\ taken' = FALSE
  /\ Go(c, "readying")
  /\ UNCHANGED <<inFlight, meta, file, restored, world, keys, used>>

Ready(c) ==
  /\ Timer(c, "waitReady") /\ live /= Awake /\ live.started
  /\ live' = Awake /\ gate' = FALSE /\ frozen' = FALSE /\ taken' = FALSE
  /\ call' = [call EXCEPT ![c].at = "readying", ![c].drain = live.queue]
  /\ UNCHANGED <<inFlight, meta, file, restored, world, keys, used>>

(* Mutant: the record of the sleep is left as it is.                         *)
RecordsNothing(c) ==
  /\ At(c, "readying")
  /\ Go(c, "draining")
  /\ UNCHANGED <<live, inFlight, gate, frozen, meta, file, restored, world, keys, used, taken>>

RecordsReady(c) ==
  /\ At(c, "readying")
  /\ Saves(c, "awake", "readyRecording")
  /\ UNCHANGED <<live, inFlight, gate, frozen, file, restored, world, keys, used, taken>>

ReadyRecorded(c) ==
  /\ At(c, "readyRecording")
  /\ file' = call[c].saving
  /\ Go(c, "draining")
  /\ UNCHANGED <<live, inFlight, gate, frozen, meta, restored, world, keys, used, taken>>

(* Session.write(k) with the gate that install() sets; ks and calls are what   *)
(* the caller makes of keys and call.                                      *)
Write(k, ks, calls) ==
  \/ /\ ~alive
     /\ keys' = [ks EXCEPT !.givenUp = @ \cup {k}]
     /\ call' = calls /\ UNCHANGED <<live, meta>>
  \/ /\ alive /\ ~(gate /\ Gated)
     /\ keys' = [ks EXCEPT !.written = @ \cup {k}]
     /\ call' = calls /\ UNCHANGED <<live, meta>>
  \/ /\ alive /\ gate /\ Gated
     /\ LET fits == Len(live.queue) < QueueMax
            l == IF fits THEN [live EXCEPT !.queue = Append(@, k)] ELSE live
        IN  /\ keys' = IF fits THEN ks ELSE [ks EXCEPT !.givenUp = @ \cup {k}]
            /\ \/ live.phase = "sleeping" /\ \E d \in Calls : WakeStarts(l, calls, d)
               \/ live.phase = "waking" /\ live' = l /\ call' = calls /\ UNCHANGED meta

Drains(c) ==
  /\ At(c, "draining")
  /\ IF call[c].drain = <<>>
     THEN call' = [call EXCEPT ![c] = Idle] /\ UNCHANGED <<live, meta, keys>>
     ELSE Write(Head(call[c].drain), keys, [call EXCEPT ![c].drain = Tail(@)])
  /\ UNCHANGED <<inFlight, gate, frozen, file, restored, world, used, taken>>

-----------------------------------------------------------------------------
(* dismiss, noteAgentStart, and the ends of calls.                          *)

Dismiss(c) ==
  /\ Free(c) /\ c \notin Sleepers /\ restored /\ live.phase = "failed"
  /\ live' = Awake
  /\ Saves(c, "awake", "noting")
  /\ UNCHANGED <<inFlight, gate, frozen, file, restored, world, keys, used, taken>>

Hook(c) ==
  /\ hookDue /\ restored /\ Free(c) /\ c \notin Sleepers
  /\ hookDue' = FALSE
  /\ CASE live.phase = "waking" ->
            live' = [live EXCEPT !.started = TRUE] /\ UNCHANGED <<call, meta>>
       [] live.phase = "failed" -> live' = Awake /\ Saves(c, "awake", "noting")
       [] OTHER -> UNCHANGED <<live, call, meta>>
  /\ UNCHANGED <<inFlight, gate, frozen, file, restored, alive, agent, coming, keys, used, taken>>

Ends(c) ==
  /\ call[c].at \in {"undoing", "failRecording", "noting"}
  /\ file' = call[c].saving
  /\ inFlight' = (inFlight /\ ~At(c, "undoing"))
  /\ call' = [call EXCEPT ![c] = Idle]
  /\ UNCHANGED <<live, gate, frozen, meta, restored, world, keys, used, taken>>

-----------------------------------------------------------------------------
(* The user, the agent, the pane and the server.                           *)

Type ==
  /\ keys.typed < MaxTyped /\ alive
  /\ Write(keys.typed + 1, [keys EXCEPT !.typed = @ + 1], call)
  /\ UNCHANGED <<inFlight, gate, frozen, file, restored, world, used, taken>>

(* The agent comes up: resumed, or started by hand in a shell that is open.   *)
AgentStarts ==
  /\ alive /\ agent = 0 /\ used.agents < MaxAgents
  /\ coming \/ ~gate
  /\ agent' = used.agents + 1 /\ coming' = FALSE /\ hookDue' = TRUE
  /\ used' = [used EXCEPT !.agents = @ + 1]
  /\ UNCHANGED <<memory, file, alive, keys, taken>>

ResumeFails ==
  /\ coming /\ coming' = FALSE
  /\ UNCHANGED <<memory, file, alive, agent, hookDue, keys, used, taken>>

(* The agent exits: told to, or by itself.                                  *)
AgentExits ==
  /\ agent /= 0
  /\ agent' = 0 /\ hookDue' = FALSE
  /\ taken' = (taken \/ (Gated /\ \E c \in Sleepers : At(c, "waitGone")))
  /\ UNCHANGED <<memory, file, alive, coming, keys, used>>

(* The pane's terminal ends.  Nobody calls forget().                        *)
Dies ==
  /\ alive /\ alive' = FALSE
  /\ agent' = 0 /\ coming' = FALSE /\ hookDue' = FALSE
  /\ UNCHANGED <<memory, file, keys, used, taken>>

(* The server stops, and all it has not written down is gone.               *)
Crash ==
  /\ restored /\ used.boots < MaxBoots
  /\ used' = [used EXCEPT !.boots = @ + 1]
  /\ restored' = FALSE
  /\ call' = [c \in Calls |-> Idle] /\ live' = Awake /\ inFlight' = FALSE
  /\ gate' = FALSE /\ frozen' = FALSE /\ meta' = file
  /\ keys' = [keys EXCEPT !.givenUp = (1 .. keys.typed) \ keys.written]
  /\ UNCHANGED <<file, world, taken>>

(* restore(): the server listens already when it runs.                      *)
Restore ==
  /\ ~restored /\ restored' = TRUE
  /\ IF alive /\ meta \in {"sleeping", "waking"}
     THEN /\ live' = [Awake EXCEPT !.phase = "sleeping"]
          /\ gate' = TRUE /\ frozen' = TRUE /\ meta' = "sleeping" /\ file' = "sleeping"
     ELSE /\ live' = IF alive THEN [Awake EXCEPT !.phase = meta] ELSE Awake
          /\ UNCHANGED <<gate, frozen, meta, file>>
  /\ UNCHANGED <<call, inFlight, world, keys, used, taken>>

-----------------------------------------------------------------------------
Init ==
  /\ call = [c \in Calls |-> Idle]
  /\ live = Awake /\ inFlight = FALSE /\ gate = FALSE /\ frozen = FALSE
  /\ meta = "awake" /\ file = "awake" /\ restored = TRUE
  /\ alive = TRUE /\ agent = 1 /\ coming = FALSE /\ hookDue = FALSE
  /\ keys = [typed |-> 0, written |-> {}, givenUp |-> {}, undone |-> {}]
  /\ used = [sleeps |-> 0, agents |-> 1, boots |-> 0]
  /\ taken = FALSE

(* What a call does once it is under way.                                   *)
Step(c) ==
  \/ Refused(c) \/ FindsAgent(c) \/ Freezes(c) \/ Installs(c) \/ Presses(c)
  \/ Gone(c) \/ Kills(c) \/ Undo(c)
  \/ ClearsLine(c) \/ TypesResume(c) \/ SeesAgent(c) \/ Removed(c)
  \/ Fails(c) \/ RecordsFailure(c) \/ Ready(c) \/ RecordsReady(c) \/ ReadyRecorded(c)
  \/ Drains(c) \/ Ends(c)

Next ==
  \/ \E c \in Calls : Sleep(c) \/ Wake(c) \/ Dismiss(c) \/ Hook(c) \/ Step(c)
  \/ Type \/ AgentStarts \/ ResumeFails \/ AgentExits \/ Dies \/ Crash \/ Restore

Spec == Init /\ [][Next]_vars

(* Timers fire and writes end, so every call goes on; a server that starts     *)
(* runs restore.  Nothing is assumed of users, agents and panes.            *)
FairSpec == Spec /\ WF_vars(Restore) /\ \A c \in Calls : WF_vars(Step(c))

-----------------------------------------------------------------------------
SleepTypeOK ==
  /\ call \in [Calls -> Call] /\ live \in Live /\ Len(live.queue) <= QueueMax
  /\ {inFlight, gate, frozen, restored, alive, coming, hookDue, taken} \subseteq BOOLEAN
  /\ meta \in Phases /\ file \in Phases /\ agent \in Nat
  /\ keys \in Keys
  /\ used \in [sleeps : 0 .. MaxSleeps, agents : 1 .. MaxAgents, boots : 0 .. MaxBoots]

(* The pane's keys are held back exactly while its agent sleeps or wakes, and  *)
(* its screen is frozen all that time: no call leaves a gate that nothing opens,*)
(* nor an open gate over a pane it calls asleep (install, uninstall, wake).    *)
GateMatches ==
  /\ gate = Gated
  /\ gate => frozen
  /\ frozen => gate \/ \E c \in Calls : At(c, "freezing")

(* Keys wait only for a wake that is under way (the gate of install).       *)
QueueIsWoken ==
  live.queue /= <<>> =>
    /\ live.phase = "waking"
    /\ \E c \in Calls : call[c].at \in {"wakeRecording", "clearing", "waitReady"}

(* "a second key arriving meanwhile must see 'waking', not start another wake"  *)
(* (agent-sleep.ts:522): one call at a time wakes the agent.                *)
OneWake ==
  \A c, d \in Calls :
    /\ call[c].at \in {"wakeRecording", "clearing", "waitReady"}
    /\ call[d].at \in {"wakeRecording", "clearing", "waitReady"}
    => c = d

(* Once a sleep has taken the agent down the pane stays asleep until a wake     *)
(* ends, on disk too: a server that stops at any moment comes back with the    *)
(* pane frozen and its keys held (sleep writes the record before the first     *)
(* Ctrl-C; restore).                                                        *)
AsleepIsRecorded ==
  taken /\ alive => file \in {"sleeping", "waking"} /\ (restored => gate /\ frozen)

(* When no call is under way memory, disk and the sleeper agree on the pane,    *)
(* but for the mark of a failed wake that a refused sleep has dropped from      *)
(* memory alone (sleep, wake, dismiss, noteAgentStart).                     *)
RecordAgrees ==
  restored /\ alive /\ (\A c \in Calls : Free(c)) =>
    \A record \in {meta, file} : record = live.phase \/ (record = "failed" /\ live = Awake)

(* Every key typed gets out: it is written, or given up for a reason - the      *)
(* queue was full, the wake failed, the server stopped, the pane ended, the     *)
(* agent would not go to sleep.                                            *)
TypedGetsOut ==
  \A k \in 1 .. MaxTyped :
    keys.typed >= k ~> (k \in keys.written \cup keys.givenUp \cup keys.undone \/ ~alive)

(* A wake ends: the agent is back, or the pane is marked failed (waitReady).  *)
WakeEnds == live.phase = "waking" ~> (live.phase /= "waking" \/ ~alive)

(* "`ttym agent resume` runs in the shell" (agent-sleep.ts:13): never typed    *)
(* into an agent that is still there.  The code does not keep this: a key       *)
(* typed before the agent has gone starts the wake.                          *)
ResumeRunsInShell ==
  [][ \A c \in Calls : At(c, "clearing") /\ call'[c].at = "waitReady" /\ alive => agent = 0 ]_vars
=============================================================================
