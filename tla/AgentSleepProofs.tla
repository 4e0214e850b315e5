-------------------------- MODULE AgentSleepProofs --------------------------
(***************************************************************************)
(* Proofs about AgentSleep: its types for every value of the constants, and   *)
(* that gates, queues, wakes and records stay in step as long as no sleep     *)
(* begins while another call is under way (Hasty = FALSE).                  *)
(***************************************************************************)
EXTENDS AgentSleep, TLAPS

(* A sleep that has not installed the gate, and a wake that has not ended.     *)
Before == {"checking", "checked", "freezing"}
Waking == {"wakeRecording", "clearing", "waitReady"}

Recorded == {"sleeping", "waking"}

-----------------------------------------------------------------------------
(* The inductive invariant, in parts.                                       *)

(* Until a sleep installs its gate no other call is under way.                *)
SleepIsAlone ==
  \A c \in Calls : call[c].at \in Before =>
    /\ live = Awake
    /\ \A d \in Calls : d /= c => call[d].at = "idle"
    /\ call[c].at = "freezing" => frozen

(* A server that has just started has nothing in memory.                      *)
StartsEmpty ==
  ~restored =>
    /\ live = Awake /\ ~gate /\ ~frozen /\ meta = file
    /\ \A c \in Calls : call[c].at = "idle"

(* The phase says whether a call is waking the agent.                        *)
PhaseIsTrue ==
  /\ live.phase = "sleeping" => \A c \in Calls : call[c].at \notin Waking
  /\ live.phase = "waking" => \E c \in Calls : call[c].at \in Waking
  /\ live.queue /= <<>> => live.phase = "waking"

(* Behind a gate no call is at work but sleeps that wait and one wake.          *)
GateIsQuiet ==
  Gated => \A c \in Calls : call[c].at \in {"idle", "recording", "waitGone"} \cup Waking

(* What is on its way to the file, and what is there once a sleep presses.      *)
FileFollows ==
  /\ \A c \in Calls :
       /\ call[c].at = "recording" => call[c].saving = "sleeping"
       /\ call[c].at = "wakeRecording" => call[c].saving = "waking"
       /\ Gated /\ call[c].at = "waitGone" => file \in Recorded
  /\ taken /\ alive => file \in Recorded /\ (restored => Gated)

SleepInv ==
  /\ GateMatches /\ OneWake
  /\ SleepIsAlone /\ StartsEmpty /\ PhaseIsTrue /\ GateIsQuiet /\ FileFollows

-----------------------------------------------------------------------------
(* Types.                                                                  *)

USE DEF Free, At, Go

(* A call that is over is well typed. *)
LEMMA IdleIsCall == Idle \in Call
  BY DEF Idle, Call, Awaits, Phases

(* A call that goes on to another await stays well typed. *)
LEMMA CallMoves ==
  ASSUME call \in [Calls -> Call], NEW c \in Calls, NEW a \in Awaits
  PROVE  [call EXCEPT ![c].at = a] \in [Calls -> Call]
  BY DEF Call

(* So does one that starts to write the record. *)
LEMMA CallSaves ==
  ASSUME NEW f \in [Calls -> Call], NEW c \in Calls, NEW a \in Awaits, NEW p \in Phases
  PROVE  [f EXCEPT ![c].at = a, ![c].saving = p] \in [Calls -> Call]
  BY DEF Call

(* So does one that notes the agent it found, or how often it pressed. *)
LEMMA CallFinds ==
  ASSUME NEW f \in [Calls -> Call], NEW c \in Calls, NEW a \in Awaits, NEW n \in Nat
  PROVE  [f EXCEPT ![c].at = a, ![c].pid = n] \in [Calls -> Call]
  BY DEF Call

LEMMA CallTries ==
  ASSUME NEW f \in [Calls -> Call], NEW c \in Calls, NEW a \in Awaits, NEW n \in 0 .. 3
  PROVE  [f EXCEPT ![c].at = a, ![c].tries = n] \in [Calls -> Call]
  BY DEF Call

(* So does one that takes the keys to pass on. *)
LEMMA CallDrains ==
  ASSUME NEW f \in [Calls -> Call], NEW c \in Calls, NEW a \in Awaits, NEW q \in Seq(1 .. MaxTyped)
  PROVE  [f EXCEPT ![c].at = a, ![c].drain = q] \in [Calls -> Call]
  BY DEF Call

(* So does one that ends. *)
LEMMA CallIdles ==
  ASSUME call \in [Calls -> Call], NEW c \in Calls
  PROVE  [call EXCEPT ![c] = Idle] \in [Calls -> Call]
  BY IdleIsCall

(* The entry of an awake pane is well typed, with no key in its queue. *)
LEMMA AwakeIsLive == Awake \in Live /\ Len(Awake.queue) = 0
  BY DEF Awake, Live, Phases

(* The elements of a sequence over S are in S. *)
LEMMA ElementsIn ==
  ASSUME NEW S, NEW q \in Seq(S)
  PROVE  Elements(q) \subseteq S
<1>1. \A i \in 1 .. Len(q) : q[i] \in S
  OBVIOUS
<1>2. QED
  BY <1>1, Zenon DEF Elements

(* So is its head, and its tail is a sequence over S. *)
LEMMA HeadTailIn ==
  ASSUME NEW S, NEW q \in Seq(S), q /= <<>>
  PROVE  Head(q) \in S /\ Tail(q) \in Seq(S)
  OBVIOUS

(* The types in parts: calls, the pane's entry, keys, the bounds and the rest. *)
CallsOK == call \in [Calls -> Call]
LiveOK == live \in Live /\ Len(live.queue) <= QueueMax
UsedOK == used \in [sleeps : 0 .. MaxSleeps, agents : 1 .. MaxAgents, boots : 0 .. MaxBoots]
FlagsOK ==
  /\ {inFlight, gate, frozen, restored, alive, coming, hookDue, taken} \subseteq BOOLEAN
  /\ meta \in Phases /\ file \in Phases /\ agent \in Nat

(* The type invariant is the conjunction of its parts. *)
LEMMA TypeParts == SleepTypeOK <=> CallsOK /\ LiveOK /\ keys \in Keys /\ UsedOK /\ FlagsOK
  BY DEF SleepTypeOK, FlagsOK, CallsOK, LiveOK, UsedOK

(* A step of sleep() keeps the types.                                       *)
LEMMA SleepTypes ==
  ASSUME SleepTypeOK, NEW c \in Calls,
         Sleep(c) \/ Refused(c) \/ FindsAgent(c) \/ Freezes(c) \/
         Installs(c) \/ Presses(c) \/ Gone(c) \/ Kills(c) \/ Undo(c)
  PROVE  SleepTypeOK'
<1>a. CallsOK /\ LiveOK /\ keys \in Keys /\ UsedOK /\ FlagsOK
  BY TypeParts
<1>1. CASE Sleep(c)
  <2>1. CallsOK'
    BY <1>a, <1>1, CallMoves DEF Sleep, CallsOK, Awaits
  <2>2. LiveOK'
    BY <1>1, AwakeIsLive, SleepAssumption DEF Sleep, LiveOK
  <2>3. keys' \in Keys
    BY <1>a, <1>1 DEF Sleep
  <2>4. UsedOK'
    <3>1. used.sleeps \in Nat /\ used.sleeps < MaxSleeps
      BY <1>a, <1>1 DEF Sleep, UsedOK
    <3>2. used.sleeps + 1 \in 0 .. MaxSleeps
      BY <3>1, SleepAssumption
    <3>3. QED
      BY <1>a, <1>1, <3>2 DEF Sleep, UsedOK
  <2>5. FlagsOK'
    BY <1>a, <1>1 DEF Sleep, FlagsOK, world
  <2>6. QED
    BY <2>1, <2>2, <2>3, <2>4, <2>5, TypeParts DEF SleepTypeOK, CallsOK, LiveOK, UsedOK, FlagsOK
<1>2. CASE Refused(c)
  <2>1. CallsOK'
    BY <1>a, <1>2, CallIdles DEF Refused, CallsOK
  <2>2. LiveOK'
    BY <1>a, <1>2 DEF Refused, LiveOK
  <2>3. keys' \in Keys
    BY <1>a, <1>2 DEF Refused
  <2>4. UsedOK'
    BY <1>a, <1>2 DEF Refused, UsedOK
  <2>5. FlagsOK'
    BY <1>a, <1>2 DEF Refused, FlagsOK, world
  <2>6. QED
    BY <2>1, <2>2, <2>3, <2>4, <2>5, TypeParts DEF SleepTypeOK, CallsOK, LiveOK, UsedOK, FlagsOK
<1>3. CASE FindsAgent(c)
  <2>1. CallsOK'
    <3>1. agent \in Nat
      BY <1>a DEF FlagsOK
    <3>2. "checked" \in Awaits
      BY DEF Awaits
    <3>3. QED
      BY <1>a, <1>3, <3>1, <3>2, CallFinds DEF FindsAgent, CallsOK
  <2>2. LiveOK'
    BY <1>a, <1>3 DEF FindsAgent, LiveOK
  <2>3. keys' \in Keys
    BY <1>a, <1>3 DEF FindsAgent
  <2>4. UsedOK'
    BY <1>a, <1>3 DEF FindsAgent, UsedOK
  <2>5. FlagsOK'
    BY <1>a, <1>3 DEF FindsAgent, FlagsOK, world
  <2>6. QED
    BY <2>1, <2>2, <2>3, <2>4, <2>5, TypeParts DEF SleepTypeOK, CallsOK, LiveOK, UsedOK, FlagsOK
<1>4. CASE Freezes(c)
  <2>1. CallsOK'
    BY <1>a, <1>4, CallMoves DEF Freezes, CallsOK, Awaits
  <2>2. LiveOK'
    BY <1>a, <1>4 DEF Freezes, LiveOK
  <2>3. keys' \in Keys
    BY <1>a, <1>4 DEF Freezes
  <2>4. UsedOK'
    BY <1>a, <1>4 DEF Freezes, UsedOK
  <2>5. FlagsOK'
    BY <1>a, <1>4 DEF Freezes, FlagsOK, world
  <2>6. QED
    BY <2>1, <2>2, <2>3, <2>4, <2>5, TypeParts DEF SleepTypeOK, CallsOK, LiveOK, UsedOK, FlagsOK
<1>5. CASE Installs(c)
  <2>1. CallsOK'
    BY <1>a, <1>5, CallSaves DEF Installs, CallsOK, Saves, Awaits, Phases
  <2>2. LiveOK'
    <3>1. live' = [Awake EXCEPT !.phase = "sleeping"]
      BY <1>5 DEF Installs
    <3>2. live' \in Live /\ live'.queue = Awake.queue
      BY <3>1, AwakeIsLive DEF Live, Phases
    <3>3. QED
      BY <3>2, AwakeIsLive, SleepAssumption DEF LiveOK
  <2>3. keys' \in Keys
    BY <1>a, <1>5 DEF Installs
  <2>4. UsedOK'
    BY <1>a, <1>5 DEF Installs, UsedOK
  <2>5. FlagsOK'
    BY <1>a, <1>5 DEF Installs, FlagsOK, Saves, Phases, world
  <2>6. QED
    BY <2>1, <2>2, <2>3, <2>4, <2>5, TypeParts DEF SleepTypeOK, CallsOK, LiveOK, UsedOK, FlagsOK
<1>6. CASE Presses(c)
  <2>1. CallsOK'
    <3>1. call' = [call EXCEPT ![c].at = "waitGone", ![c].tries = 1] /\ 1 \in 0 .. 3
      BY <1>6 DEF Presses
    <3>2. "waitGone" \in Awaits
      BY DEF Awaits
    <3>3. QED
      BY <1>a, <3>1, <3>2, CallTries DEF CallsOK
  <2>2. LiveOK'
    BY <1>a, <1>6 DEF Presses, LiveOK
  <2>3. keys' \in Keys
    BY <1>a, <1>6 DEF Presses
  <2>4. UsedOK'
    BY <1>a, <1>6 DEF Presses, UsedOK
  <2>5. FlagsOK'
    BY <1>a, <1>6 DEF Presses, FlagsOK, CallsOK, Call, Phases, world
  <2>6. QED
    BY <2>1, <2>2, <2>3, <2>4, <2>5, TypeParts DEF SleepTypeOK, CallsOK, LiveOK, UsedOK, FlagsOK
<1>7. CASE Gone(c)
  <2>1. CallsOK'
    BY <1>a, <1>7, CallIdles DEF Gone, CallsOK
  <2>2. LiveOK'
    BY <1>a, <1>7 DEF Gone, LiveOK
  <2>3. keys' \in Keys
    BY <1>a, <1>7 DEF Gone
  <2>4. UsedOK'
    BY <1>a, <1>7 DEF Gone, UsedOK
  <2>5. FlagsOK'
    BY <1>a, <1>7 DEF Gone, FlagsOK, world
  <2>6. QED
    BY <2>1, <2>2, <2>3, <2>4, <2>5, TypeParts DEF SleepTypeOK, CallsOK, LiveOK, UsedOK, FlagsOK
<1>8. CASE Kills(c)
  <2>1. CallsOK'
    <3>1. call[c].tries \in 0 .. 3
      BY <1>a DEF CallsOK, Call
    <3>2. call[c].tries + 1 \in 0 .. 3
      BY <1>8, <3>1 DEF Kills
    <3>3. QED
      BY <1>a, <1>8, <3>2 DEF Kills, CallsOK, Call
  <2>2. LiveOK'
    BY <1>a, <1>8 DEF Kills, LiveOK
  <2>3. keys' \in Keys
    BY <1>a, <1>8 DEF Kills
  <2>4. UsedOK'
    BY <1>a, <1>8 DEF Kills, UsedOK
  <2>5. FlagsOK'
    BY <1>a, <1>8 DEF Kills, FlagsOK, world
  <2>6. QED
    BY <2>1, <2>2, <2>3, <2>4, <2>5, TypeParts DEF SleepTypeOK, CallsOK, LiveOK, UsedOK, FlagsOK
<1>9. CASE Undo(c)
  <2>1. CallsOK'
    BY <1>a, <1>9, CallSaves DEF Undo, CallsOK, Saves, Awaits, Phases
  <2>2. LiveOK'
    BY <1>9, AwakeIsLive, SleepAssumption DEF Undo, LiveOK
  <2>3. keys' \in Keys
    BY <1>a, <1>9, ElementsIn DEF Undo, LiveOK, Live, Keys
  <2>4. UsedOK'
    BY <1>a, <1>9 DEF Undo, UsedOK
  <2>5. FlagsOK'
    BY <1>a, <1>9 DEF Undo, FlagsOK, Saves, Phases, world
  <2>6. QED
    BY <2>1, <2>2, <2>3, <2>4, <2>5, TypeParts DEF SleepTypeOK, CallsOK, LiveOK, UsedOK, FlagsOK
<1>10. QED
  BY <1>1, <1>2, <1>3, <1>4, <1>5, <1>6, <1>7, <1>8, <1>9

(* A step of wake() keeps the types.                                        *)
LEMMA WakeTypes ==
  ASSUME SleepTypeOK, NEW c \in Calls,
         Wake(c) \/ ClearsLine(c) \/ TypesResume(c) \/ SeesAgent(c) \/
         Removed(c) \/ Fails(c) \/ RecordsFailure(c) \/ Ready(c) \/
         RecordsReady(c) \/ ReadyRecorded(c)
  PROVE  SleepTypeOK'
<1>a. CallsOK /\ LiveOK /\ keys \in Keys /\ UsedOK /\ FlagsOK
  BY TypeParts
<1>1. CASE Wake(c)
  <2>1. CallsOK'
    BY <1>a, <1>1, CallSaves DEF Wake, CallsOK, WakeStarts, Awaits, Phases
  <2>2. LiveOK'
    BY <1>a, <1>1 DEF Wake, LiveOK, Live, Phases, WakeStarts
  <2>3. keys' \in Keys
    BY <1>a, <1>1 DEF Wake
  <2>4. UsedOK'
    BY <1>a, <1>1 DEF Wake, UsedOK
  <2>5. FlagsOK'
    BY <1>a, <1>1 DEF Wake, FlagsOK, WakeStarts, Phases, world
  <2>6. QED
    BY <2>1, <2>2, <2>3, <2>4, <2>5, TypeParts DEF SleepTypeOK, CallsOK, LiveOK, UsedOK, FlagsOK
<1>2. CASE ClearsLine(c)
  <2>1. CallsOK'
    BY <1>a, <1>2, CallMoves DEF ClearsLine, CallsOK, Awaits
  <2>2. LiveOK'
    BY <1>a, <1>2 DEF ClearsLine, LiveOK
  <2>3. keys' \in Keys
    BY <1>a, <1>2 DEF ClearsLine
  <2>4. UsedOK'
    BY <1>a, <1>2 DEF ClearsLine, UsedOK
  <2>5. FlagsOK'
    BY <1>a, <1>2 DEF ClearsLine, FlagsOK, CallsOK, Call, Phases, world
  <2>6. QED
    BY <2>1, <2>2, <2>3, <2>4, <2>5, TypeParts DEF SleepTypeOK, CallsOK, LiveOK, UsedOK, FlagsOK
<1>3. CASE TypesResume(c)
  <2>1. CallsOK'
    BY <1>a, <1>3, CallMoves DEF TypesResume, CallsOK, Awaits
  <2>2. LiveOK'
    BY <1>a, <1>3 DEF TypesResume, LiveOK
  <2>3. keys' \in Keys
    BY <1>a, <1>3 DEF TypesResume
  <2>4. UsedOK'
    BY <1>a, <1>3 DEF TypesResume, UsedOK
  <2>5. FlagsOK'
    BY <1>a, <1>3 DEF TypesResume, FlagsOK
  <2>6. QED
    BY <2>1, <2>2, <2>3, <2>4, <2>5, TypeParts DEF SleepTypeOK, CallsOK, LiveOK, UsedOK, FlagsOK
<1>4. CASE SeesAgent(c)
  <2>1. CallsOK'
    BY <1>a, <1>4 DEF SeesAgent, CallsOK
  <2>2. LiveOK'
    BY <1>a, <1>4 DEF SeesAgent, LiveOK, Live, Phases
  <2>3. keys' \in Keys
    BY <1>a, <1>4 DEF SeesAgent
  <2>4. UsedOK'
    BY <1>a, <1>4 DEF SeesAgent, UsedOK
  <2>5. FlagsOK'
    BY <1>a, <1>4 DEF SeesAgent, FlagsOK, world
  <2>6. QED
    BY <2>1, <2>2, <2>3, <2>4, <2>5, TypeParts DEF SleepTypeOK, CallsOK, LiveOK, UsedOK, FlagsOK
<1>5. CASE Removed(c)
  <2>1. CallsOK'
    BY <1>a, <1>5, CallIdles DEF Removed, CallsOK
  <2>2. LiveOK'
    BY <1>a, <1>5 DEF Removed, LiveOK
  <2>3. keys' \in Keys
    BY <1>a, <1>5 DEF Removed
  <2>4. UsedOK'
    BY <1>a, <1>5 DEF Removed, UsedOK
  <2>5. FlagsOK'
    BY <1>a, <1>5 DEF Removed, FlagsOK, world
  <2>6. QED
    BY <2>1, <2>2, <2>3, <2>4, <2>5, TypeParts DEF SleepTypeOK, CallsOK, LiveOK, UsedOK, FlagsOK
<1>6. CASE Fails(c)
  <2>1. CallsOK'
    BY <1>a, <1>6, CallMoves DEF Fails, CallsOK, Awaits
  <2>2. LiveOK'
    <3>1. live' = [live EXCEPT !.phase = "failed", !.queue = <<>>]
      BY <1>6 DEF Fails
    <3>2. <<>> \in Seq(1 .. MaxTyped) /\ Len(<<>>) = 0
      OBVIOUS
    <3>3. live' \in Live /\ live'.queue = <<>>
      BY <1>a, <3>1, <3>2 DEF LiveOK, Live, Phases
    <3>4. QED
      BY <3>2, <3>3, SleepAssumption DEF LiveOK
  <2>3. keys' \in Keys
    BY <1>a, <1>6, ElementsIn DEF Fails, LiveOK, Live, Keys
  <2>4. UsedOK'
    BY <1>a, <1>6 DEF Fails, UsedOK
  <2>5. FlagsOK'
    BY <1>a, <1>6 DEF Fails, FlagsOK, world
  <2>6. QED
    BY <2>1, <2>2, <2>3, <2>4, <2>5, TypeParts DEF SleepTypeOK, CallsOK, LiveOK, UsedOK, FlagsOK
<1>7. CASE RecordsFailure(c)
  <2>1. CallsOK'
    BY <1>a, <1>7, CallSaves DEF RecordsFailure, CallsOK, Saves, Awaits, Phases
  <2>2. LiveOK'
    BY <1>a, <1>7 DEF RecordsFailure, LiveOK
  <2>3. keys' \in Keys
    BY <1>a, <1>7 DEF RecordsFailure
  <2>4. UsedOK'
    BY <1>a, <1>7 DEF RecordsFailure, UsedOK
  <2>5. FlagsOK'
    BY <1>a, <1>7 DEF RecordsFailure, FlagsOK, Saves, Phases, world
  <2>6. QED
    BY <2>1, <2>2, <2>3, <2>4, <2>5, TypeParts DEF SleepTypeOK, CallsOK, LiveOK, UsedOK, FlagsOK
<1>8. CASE Ready(c)
  <2>1. CallsOK'
    <3>1. live.queue \in Seq(1 .. MaxTyped)
      BY <1>a DEF LiveOK, Live
    <3>2. "readying" \in Awaits
      BY DEF Awaits
    <3>3. QED
      BY <1>a, <1>8, <3>1, <3>2, CallDrains DEF Ready, CallsOK
  <2>2. LiveOK'
    BY <1>8, AwakeIsLive, SleepAssumption DEF Ready, LiveOK
  <2>3. keys' \in Keys
    BY <1>a, <1>8 DEF Ready
  <2>4. UsedOK'
    BY <1>a, <1>8 DEF Ready, UsedOK
  <2>5. FlagsOK'
    BY <1>a, <1>8 DEF Ready, FlagsOK, world
  <2>6. QED
    BY <2>1, <2>2, <2>3, <2>4, <2>5, TypeParts DEF SleepTypeOK, CallsOK, LiveOK, UsedOK, FlagsOK
<1>9. CASE RecordsReady(c)
  <2>1. CallsOK'
    BY <1>a, <1>9, CallSaves DEF RecordsReady, CallsOK, Saves, Awaits, Phases
  <2>2. LiveOK'
    BY <1>a, <1>9 DEF RecordsReady, LiveOK
  <2>3. keys' \in Keys
    BY <1>a, <1>9 DEF RecordsReady
  <2>4. UsedOK'
    BY <1>a, <1>9 DEF RecordsReady, UsedOK
  <2>5. FlagsOK'
    BY <1>a, <1>9 DEF RecordsReady, FlagsOK, Saves, Phases, world
  <2>6. QED
    BY <2>1, <2>2, <2>3, <2>4, <2>5, TypeParts DEF SleepTypeOK, CallsOK, LiveOK, UsedOK, FlagsOK
<1>10. CASE ReadyRecorded(c)
  <2>1. CallsOK'
    BY <1>a, <1>10, CallMoves DEF ReadyRecorded, CallsOK, Awaits
  <2>2. LiveOK'
    BY <1>a, <1>10 DEF ReadyRecorded, LiveOK
  <2>3. keys' \in Keys
    BY <1>a, <1>10 DEF ReadyRecorded
  <2>4. UsedOK'
    BY <1>a, <1>10 DEF ReadyRecorded, UsedOK
  <2>5. FlagsOK'
    BY <1>a, <1>10 DEF ReadyRecorded, FlagsOK, CallsOK, Call, Phases, world
  <2>6. QED
    BY <2>1, <2>2, <2>3, <2>4, <2>5, TypeParts DEF SleepTypeOK, CallsOK, LiveOK, UsedOK, FlagsOK
<1>11. QED
  BY <1>1, <1>2, <1>3, <1>4, <1>5, <1>6, <1>7, <1>8, <1>9, <1>10

(* So do dismiss and the ends of calls.                                     *)
LEMMA EndTypes ==
  ASSUME SleepTypeOK, NEW c \in Calls,
         Dismiss(c) \/ Ends(c)
  PROVE  SleepTypeOK'
<1>a. CallsOK /\ LiveOK /\ keys \in Keys /\ UsedOK /\ FlagsOK
  BY TypeParts
<1>1. CASE Dismiss(c)
  <2>1. CallsOK'
    BY <1>a, <1>1, CallSaves DEF Dismiss, CallsOK, Saves, Awaits, Phases
  <2>2. LiveOK'
    BY <1>1, AwakeIsLive, SleepAssumption DEF Dismiss, LiveOK
  <2>3. keys' \in Keys
    BY <1>a, <1>1 DEF Dismiss
  <2>4. UsedOK'
    BY <1>a, <1>1 DEF Dismiss, UsedOK
  <2>5. FlagsOK'
    BY <1>a, <1>1 DEF Dismiss, FlagsOK, Saves, Phases, world
  <2>6. QED
    BY <2>1, <2>2, <2>3, <2>4, <2>5, TypeParts DEF SleepTypeOK, CallsOK, LiveOK, UsedOK, FlagsOK
<1>2. CASE Ends(c)
  <2>1. CallsOK'
    BY <1>a, <1>2, CallIdles DEF Ends, CallsOK
  <2>2. LiveOK'
    BY <1>a, <1>2 DEF Ends, LiveOK
  <2>3. keys' \in Keys
    BY <1>a, <1>2 DEF Ends
  <2>4. UsedOK'
    BY <1>a, <1>2 DEF Ends, UsedOK
  <2>5. FlagsOK'
    BY <1>a, <1>2 DEF Ends, FlagsOK, CallsOK, Call, Phases, world
  <2>6. QED
    BY <2>1, <2>2, <2>3, <2>4, <2>5, TypeParts DEF SleepTypeOK, CallsOK, LiveOK, UsedOK, FlagsOK
<1>3. QED
  BY <1>1, <1>2

(* A key written through the gate keeps the types, whatever the caller makes of  *)
(* keys and calls.                                                         *)
LEMMA WriteTypes ==
  ASSUME LiveOK, meta \in Phases, NEW k \in 1 .. MaxTyped, NEW ks \in Keys,
         NEW calls \in [Calls -> Call], Write(k, ks, calls)
  PROVE  CallsOK' /\ LiveOK' /\ keys' \in Keys /\ meta' \in Phases
<1>1. [ks EXCEPT !.written = @ \cup {k}] \in Keys /\ [ks EXCEPT !.givenUp = @ \cup {k}] \in Keys
  BY DEF Keys
<1>2. CASE ~(alive /\ gate /\ Gated)
  <2>1. call' = calls /\ live' = live /\ meta' = meta
    BY <1>2 DEF Write
  <2>2. keys' \in Keys
    BY <1>1, <1>2 DEF Write
  <2>3. QED
    BY <2>1, <2>2 DEF CallsOK, LiveOK
<1>3. CASE alive /\ gate /\ Gated
  <2> DEFINE fits == Len(live.queue) < QueueMax
             l == IF fits THEN [live EXCEPT !.queue = Append(@, k)] ELSE live
  <2>1. keys' \in Keys
    BY <1>1, <1>3 DEF Write
  <2>2. l \in Live /\ Len(l.queue) <= QueueMax
    <3>1. CASE fits
      <4>1. Append(live.queue, k) \in Seq(1 .. MaxTyped)
            /\ Len(Append(live.queue, k)) <= QueueMax
        BY <3>1, SleepAssumption DEF LiveOK, Live
      <4>2. QED
        BY <3>1, <4>1 DEF LiveOK, Live
    <3>2. CASE ~fits
      BY <3>2 DEF LiveOK
    <3>3. QED
      BY <3>1, <3>2
  <2>3. \/ \E d \in Calls : WakeStarts(l, calls, d)
        \/ live' = l /\ call' = calls /\ meta' = meta
    BY <1>3 DEF Write
  <2> HIDE DEF l
  <2>4. CASE \E d \in Calls : WakeStarts(l, calls, d)
    <3>1. PICK d \in Calls : WakeStarts(l, calls, d)
      BY <2>4
    <3>2. CallsOK'
      BY <3>1, CallSaves DEF WakeStarts, CallsOK, Awaits, Phases
    <3>3. LiveOK' /\ meta' \in Phases
      BY <2>2, <3>1 DEF WakeStarts, LiveOK, Live, Phases
    <3>4. QED
      BY <2>1, <3>2, <3>3
  <2>5. CASE live' = l /\ call' = calls /\ meta' = meta
    BY <2>1, <2>2, <2>5 DEF CallsOK, LiveOK
  <2>6. QED
    BY <2>3, <2>4, <2>5
<1>4. QED
  BY <1>2, <1>3

(* A queue that is drained into the agent keeps the types. *)
LEMMA DrainsTypes ==
  ASSUME SleepTypeOK, NEW c \in Calls, Drains(c)
  PROVE  SleepTypeOK'
<1>1. CallsOK /\ LiveOK /\ keys \in Keys /\ UsedOK /\ FlagsOK
  BY TypeParts
<1>2. call[c].drain \in Seq(1 .. MaxTyped)
  BY <1>1 DEF CallsOK, Call
<1>3. meta \in Phases
  BY <1>1 DEF FlagsOK
<1>4. CallsOK' /\ LiveOK' /\ keys' \in Keys /\ meta' \in Phases
  <2>1. CASE call[c].drain = <<>>
    BY <1>1, <1>3, <2>1, CallIdles DEF Drains, CallsOK, LiveOK
  <2>2. CASE call[c].drain /= <<>>
    <3>1. Head(call[c].drain) \in 1 .. MaxTyped /\ Tail(call[c].drain) \in Seq(1 .. MaxTyped)
      BY <1>2, <2>2, HeadTailIn
    <3>2. [call EXCEPT ![c].drain = Tail(@)] \in [Calls -> Call]
      BY <1>1, <3>1 DEF CallsOK, Call
    <3>3. Write(Head(call[c].drain), keys, [call EXCEPT ![c].drain = Tail(@)])
      BY <2>2 DEF Drains
    <3>4. QED
      BY <1>1, <1>3, <3>1, <3>2, <3>3, WriteTypes
  <2>3. QED
    BY <2>1, <2>2
<1>5. UsedOK' /\ FlagsOK'
  BY <1>1, <1>4 DEF Drains, UsedOK, FlagsOK, world
<1>6. QED
  BY <1>4, <1>5, TypeParts DEF SleepTypeOK, CallsOK, LiveOK, UsedOK, FlagsOK

(* A key the user types keeps the types. *)
LEMMA TypeTypes ==
  ASSUME SleepTypeOK, Type
  PROVE  SleepTypeOK'
<1>1. CallsOK /\ LiveOK /\ keys \in Keys /\ UsedOK /\ FlagsOK
  BY TypeParts
<1>2. keys.typed + 1 \in 1 .. MaxTyped
  BY <1>1, SleepAssumption DEF Type, Keys
<1>3. [keys EXCEPT !.typed = @ + 1] \in Keys
  BY <1>1, <1>2, SleepAssumption DEF Keys
<1>4. meta \in Phases
  BY <1>1 DEF FlagsOK
<1>5. CallsOK' /\ LiveOK' /\ keys' \in Keys /\ meta' \in Phases
  BY <1>1, <1>2, <1>3, <1>4, WriteTypes DEF Type, CallsOK
<1>6. UsedOK' /\ FlagsOK'
  BY <1>1, <1>5 DEF Type, UsedOK, FlagsOK, world
<1>7. QED
  BY <1>5, <1>6, TypeParts DEF SleepTypeOK, CallsOK, LiveOK, UsedOK, FlagsOK

(* The start hook keeps the types. *)
LEMMA HookTypes ==
  ASSUME SleepTypeOK, NEW c \in Calls, Hook(c)
  PROVE  SleepTypeOK'
<1>1. CallsOK /\ LiveOK /\ keys \in Keys /\ UsedOK /\ FlagsOK
  BY TypeParts
<1>2. CASE live.phase = "waking"
  <2>1. LiveOK' /\ call' = call /\ meta' = meta
    BY <1>1, <1>2 DEF Hook, LiveOK, Live
  <2>2. QED
    BY <1>1, <2>1, TypeParts DEF Hook, SleepTypeOK, CallsOK, LiveOK, UsedOK, FlagsOK
<1>3. CASE live.phase = "failed"
  <2>1. live' = Awake /\ Saves(c, "awake", "noting")
    BY <1>3 DEF Hook
  <2>2. CallsOK' /\ meta' \in Phases
    BY <1>1, <2>1, CallSaves DEF Saves, CallsOK, Awaits, Phases
  <2>3. LiveOK'
    BY <2>1, AwakeIsLive, SleepAssumption DEF LiveOK
  <2>4. QED
    BY <1>1, <2>2, <2>3, TypeParts DEF Hook, SleepTypeOK, CallsOK, LiveOK, UsedOK, FlagsOK
<1>4. CASE live.phase \notin {"waking", "failed"}
  <2>1. live' = live /\ call' = call /\ meta' = meta
    BY <1>4 DEF Hook
  <2>2. QED
    BY <1>1, <2>1, TypeParts DEF Hook, SleepTypeOK, CallsOK, LiveOK, UsedOK, FlagsOK
<1>5. QED
  BY <1>2, <1>3, <1>4

(* Agents that start and end, a crash and the restore after it keep the types. *)
LEMMA WorldTypes ==
  ASSUME SleepTypeOK, AgentStarts \/ ResumeFails \/ AgentExits \/ Dies \/ Crash \/ Restore
  PROVE  SleepTypeOK'
<1>a. CallsOK /\ LiveOK /\ keys \in Keys /\ UsedOK /\ FlagsOK
  BY TypeParts
<1>1. CASE AgentStarts
  <2>1. used.agents \in Nat /\ used.agents + 1 \in 1 .. MaxAgents
    BY <1>a, <1>1, SleepAssumption DEF AgentStarts, UsedOK
  <2>2. UsedOK' /\ agent' \in Nat
    BY <1>a, <1>1, <2>1 DEF AgentStarts, UsedOK
  <2>3. QED
    BY <1>a, <1>1, <2>2, TypeParts DEF AgentStarts, memory, SleepTypeOK, CallsOK, LiveOK, UsedOK, FlagsOK
<1>2. CASE ResumeFails
  BY <1>a, <1>2 DEF ResumeFails, memory, SleepTypeOK, CallsOK, LiveOK, UsedOK, FlagsOK
<1>3. CASE AgentExits
  <2>1. taken' \in BOOLEAN
    BY <1>3 DEF AgentExits
  <2>2. QED
    BY <1>a, <1>3, <2>1 DEF AgentExits, memory, SleepTypeOK, CallsOK, LiveOK, UsedOK, FlagsOK
<1>4. CASE Dies
  BY <1>a, <1>4 DEF Dies, memory, SleepTypeOK, CallsOK, LiveOK, UsedOK, FlagsOK
<1>5. CASE Crash
  <2>1. CallsOK'
    BY <1>5, IdleIsCall DEF Crash, CallsOK
  <2>2. LiveOK'
    BY <1>5, AwakeIsLive, SleepAssumption DEF Crash, LiveOK
  <2>3. keys' \in Keys
    <3>1. (1 .. keys.typed) \ keys.written \subseteq 1 .. MaxTyped
      BY <1>a, SleepAssumption DEF Keys
    <3>2. QED
      BY <1>a, <1>5, <3>1 DEF Crash, Keys
  <2>4. UsedOK'
    BY <1>a, <1>5, SleepAssumption DEF Crash, UsedOK
  <2>5. FlagsOK'
    BY <1>a, <1>5 DEF Crash, FlagsOK, world
  <2>6. QED
    BY <2>1, <2>2, <2>3, <2>4, <2>5 DEF SleepTypeOK, CallsOK, LiveOK, UsedOK, FlagsOK
<1>6. CASE Restore
  <2>1. LiveOK'
    <3>1. \A p \in Phases : [Awake EXCEPT !.phase = p] \in Live
                            /\ Len([Awake EXCEPT !.phase = p].queue) = 0
      BY AwakeIsLive DEF Live
    <3>2. PICK p \in Phases : live' = [Awake EXCEPT !.phase = p] \/ live' = Awake
      BY <1>a, <1>6 DEF Restore, FlagsOK, Phases
    <3>3. live' \in Live /\ Len(live'.queue) = 0
      <4>1. CASE live' = [Awake EXCEPT !.phase = p]
        BY <3>1, <4>1
      <4>2. CASE live' = Awake
        BY <4>2, AwakeIsLive
      <4>3. QED
        BY <3>2, <4>1, <4>2
    <3>4. QED
      BY <3>3, SleepAssumption DEF LiveOK
  <2>2. FlagsOK'
    BY <1>a, <1>6 DEF Restore, FlagsOK, Phases, world
  <2>3. QED
    BY <1>a, <1>6, <2>1, <2>2 DEF Restore, SleepTypeOK, CallsOK, LiveOK, UsedOK, FlagsOK
<1>7. QED
  BY <1>1, <1>2, <1>3, <1>4, <1>5, <1>6

(* The initial states are well typed. *)
LEMMA InitTypes == Init => SleepTypeOK
<1> SUFFICES ASSUME Init  PROVE SleepTypeOK
  OBVIOUS
<1>1. CallsOK
  BY IdleIsCall DEF Init, CallsOK
<1>2. LiveOK
  BY AwakeIsLive, SleepAssumption DEF Init, LiveOK
<1>3. keys \in Keys /\ UsedOK
  BY SleepAssumption DEF Init, Keys, UsedOK
<1>4. FlagsOK
  BY DEF Init, FlagsOK, Phases
<1>5. QED
  BY <1>1, <1>2, <1>3, <1>4, TypeParts

(* Every step keeps the types. *)
LEMMA NextTypes == SleepTypeOK /\ [Next]_vars => SleepTypeOK'
<1> SUFFICES ASSUME SleepTypeOK, [Next]_vars  PROVE SleepTypeOK'
  OBVIOUS
<1>1. ASSUME NEW c \in Calls, Sleep(c) \/ Wake(c) \/ Dismiss(c) \/ Hook(c) \/ Step(c)
      PROVE  SleepTypeOK'
  BY <1>1, SleepTypes, WakeTypes, EndTypes, HookTypes, DrainsTypes, Zenon DEF Step
<1>2. CASE UNCHANGED vars
  BY <1>2 DEF vars, SleepTypeOK
<1>3. QED
  BY <1>1, <1>2, TypeTypes, WorldTypes, Zenon DEF Next

(* Every behaviour keeps its types: in particular the queue never outgrows       *)
(* QUEUE_MAX_BYTES, for every number of calls and every bound.                *)
THEOREM SleepTypeCorrect == Spec => []SleepTypeOK
<1>1. QED
  BY InitTypes, NextTypes, PTL DEF Spec

-----------------------------------------------------------------------------
(* The invariant.  What an action does to the awaits, call by call.           *)

(* A call that goes on leaves the other calls where they are. *)
LEMMA AtMoves ==
  ASSUME CallsOK, NEW c \in Calls, NEW a, call' = [call EXCEPT ![c].at = a]
  PROVE  \A d \in Calls : /\ call'[d].at = IF d = c THEN a ELSE call[d].at
                          /\ call'[d].saving = call[d].saving
  BY DEF CallsOK, Call

(* So does a call that ends. *)
LEMMA AtIdles ==
  ASSUME CallsOK, NEW c \in Calls, call' = [call EXCEPT ![c] = Idle]
  PROVE  \A d \in Calls : /\ call'[d].at = IF d = c THEN "idle" ELSE call[d].at
                          /\ d /= c => call'[d].saving = call[d].saving
  BY DEF CallsOK, Call, Idle

(* What the entry of an awake pane says. *)
LEMMA AwakeIs == Awake.phase = "awake" /\ Awake.queue = <<>>
  BY DEF Awake

(* A step of sleep() keeps the invariant. *)
LEMMA SleepSteps ==
  ASSUME Hasty = FALSE, SleepTypeOK, SleepInv, NEW c \in Calls,
         Sleep(c) \/ Refused(c) \/ FindsAgent(c) \/ Freezes(c) \/ Installs(c) \/ Presses(c) \/ Gone(c) \/ Kills(c) \/ Undo(c)
  PROVE  SleepInv'
<1>a. /\ CallsOK /\ LiveOK /\ FlagsOK
      /\ GateMatches /\ OneWake /\ SleepIsAlone /\ StartsEmpty /\ PhaseIsTrue
      /\ GateIsQuiet /\ FileFollows
  BY TypeParts DEF SleepInv
<1>b. ~Hasty
  OBVIOUS
<1>1. CASE Sleep(c)
  <2>1. \A d \in Calls : /\ call'[d].at = IF d = c THEN "checking" ELSE call[d].at
                         /\ call'[d].saving = call[d].saving
    BY <1>a, <1>1, AtMoves DEF Sleep
  <2>2. live' = Awake /\ live'.phase = "awake" /\ live'.queue = <<>>
    BY <1>1, AwakeIs DEF Sleep
  <2>3. /\ restored /\ live.phase \notin {"sleeping", "waking"} /\ \A d \in Calls : call[d].at = "idle"
         /\ gate' = gate /\ frozen' = frozen /\ meta' = meta /\ file' = file
         /\ restored' = restored /\ alive' = alive /\ taken' = taken
    BY <1>b, <1>1 DEF Sleep, world, Gated
  <2>4. GateMatches'
    <3>1. ~Gated'
      BY <2>2, <2>3 DEF Gated
    <3>2. ~gate' /\ ~frozen'
      BY <1>a, <2>3 DEF GateMatches, Gated
    <3>3. gate' \in BOOLEAN
      BY <1>a, <2>3 DEF FlagsOK
    <3>4. gate' = Gated'
      BY <3>1, <3>2, <3>3 DEF Gated
    <3>5. QED
      BY <3>2, <3>4 DEF GateMatches
  <2>5. OneWake' /\ SleepIsAlone' /\ StartsEmpty'
    BY <1>a, <2>1, <2>2, <2>3, AwakeIs DEF OneWake, SleepIsAlone, Before, StartsEmpty
  <2>6. PhaseIsTrue' /\ GateIsQuiet' /\ FileFollows'
    BY <1>a, <2>1, <2>2, <2>3, AwakeIs
    DEF PhaseIsTrue, Waking, SleepIsAlone, Before, GateIsQuiet, Gated, FileFollows, Recorded
  <2>7. QED
    BY <2>4, <2>5, <2>6 DEF SleepInv
<1>2. CASE Refused(c)
  <2>1. \A d \in Calls : /\ call'[d].at = IF d = c THEN "idle" ELSE call[d].at
                         /\ d /= c => call'[d].saving = call[d].saving
    BY <1>a, <1>2, AtIdles DEF Refused
  <2>2. live' = live
    BY <1>2 DEF Refused
  <2>3. /\ call[c].at \in {"checking", "checked"}
         /\ gate' = gate /\ frozen' = frozen /\ meta' = meta /\ file' = file
         /\ restored' = restored /\ alive' = alive /\ taken' = taken
    BY <1>2 DEF Refused, world
  <2>4. QED
    BY <1>a, <2>1, <2>2, <2>3, AwakeIs
    DEF SleepInv, GateMatches, OneWake, SleepIsAlone, StartsEmpty, PhaseIsTrue, GateIsQuiet, FileFollows, Gated, Before, Waking, Recorded
<1>3. CASE FindsAgent(c)
  <2>1. \A d \in Calls : /\ call'[d].at = IF d = c THEN "checked" ELSE call[d].at
                         /\ call'[d].saving = call[d].saving
    BY <1>a, <1>3 DEF FindsAgent, CallsOK, Call
  <2>2. live' = live
    BY <1>3 DEF FindsAgent
  <2>3. /\ call[c].at = "checking"
         /\ gate' = gate /\ frozen' = frozen /\ meta' = meta /\ file' = file
         /\ restored' = restored /\ alive' = alive /\ taken' = taken
    BY <1>3 DEF FindsAgent, world
  <2>4. QED
    BY <1>a, <2>1, <2>2, <2>3, AwakeIs
    DEF SleepInv, GateMatches, OneWake, SleepIsAlone, StartsEmpty, PhaseIsTrue, GateIsQuiet, FileFollows, Gated, Before, Waking, Recorded
<1>4. CASE Freezes(c)
  <2>1. \A d \in Calls : /\ call'[d].at = IF d = c THEN "freezing" ELSE call[d].at
                         /\ call'[d].saving = call[d].saving
    BY <1>a, <1>4, AtMoves DEF Freezes
  <2>2. live' = live
    BY <1>4 DEF Freezes
  <2>3. /\ call[c].at = "checked"
         /\ gate' = gate /\ frozen' = TRUE /\ meta' = meta /\ file' = file
         /\ restored' = restored /\ alive' = alive /\ taken' = taken
    BY <1>4 DEF Freezes, world
  <2>4. QED
    BY <1>a, <2>1, <2>2, <2>3, AwakeIs
    DEF SleepInv, GateMatches, OneWake, SleepIsAlone, StartsEmpty, PhaseIsTrue, GateIsQuiet, FileFollows, Gated, Before, Waking, Recorded
<1>5. CASE Installs(c)
  <2>1. \A d \in Calls : /\ call'[d].at = IF d = c THEN "recording" ELSE call[d].at
                         /\ call'[d].saving = IF d = c THEN "sleeping" ELSE call[d].saving
    BY <1>a, <1>5 DEF Installs, Saves, CallsOK, Call
  <2>2. live'.phase = "sleeping" /\ live'.queue = <<>>
    BY <1>5 DEF Installs, Awake
  <2>3. /\ call[c].at = "freezing"
         /\ gate' = TRUE /\ frozen' = frozen /\ file' = file /\ restored' = restored
         /\ alive' = alive /\ taken' = taken
    BY <1>5 DEF Installs, Saves, world
  <2>4. GateMatches' /\ OneWake' /\ SleepIsAlone' /\ StartsEmpty'
    BY <1>a, <2>1, <2>2, <2>3, AwakeIs
    DEF GateMatches, OneWake, SleepIsAlone, StartsEmpty, Gated, Before
  <2>5. PhaseIsTrue' /\ GateIsQuiet' /\ FileFollows'
    BY <1>a, <2>1, <2>2, <2>3, AwakeIs
    DEF PhaseIsTrue, GateIsQuiet, FileFollows, SleepIsAlone, Gated, Before, Waking, Recorded
  <2>6. QED
    BY <2>4, <2>5 DEF SleepInv
<1>6. CASE Presses(c)
  <2>1. \A d \in Calls : /\ call'[d].at = IF d = c THEN "waitGone" ELSE call[d].at
                         /\ call'[d].saving = call[d].saving
    BY <1>a, <1>6 DEF Presses, CallsOK, Call
  <2>2. live' = live
    BY <1>6 DEF Presses
  <2>3. /\ call[c].at = "recording"
         /\ gate' = gate /\ frozen' = frozen /\ meta' = meta /\ file' = call[c].saving
         /\ restored' = restored /\ alive' = alive /\ taken' = taken
    BY <1>6 DEF Presses, world
  <2>4. QED
    BY <1>a, <2>1, <2>2, <2>3, AwakeIs
    DEF SleepInv, GateMatches, OneWake, SleepIsAlone, StartsEmpty, PhaseIsTrue, GateIsQuiet, FileFollows, Gated, Before, Waking, Recorded
<1>7. CASE Gone(c)
  <2>1. \A d \in Calls : /\ call'[d].at = IF d = c THEN "idle" ELSE call[d].at
                         /\ d /= c => call'[d].saving = call[d].saving
    BY <1>a, <1>7, AtIdles DEF Gone
  <2>2. live' = live
    BY <1>7 DEF Gone
  <2>3. /\ call[c].at = "waitGone"
         /\ gate' = gate /\ frozen' = frozen /\ meta' = meta /\ file' = file
         /\ restored' = restored /\ alive' = alive /\ taken' = taken
    BY <1>7 DEF Gone, Timer, world
  <2>4. QED
    BY <1>a, <2>1, <2>2, <2>3, AwakeIs
    DEF SleepInv, GateMatches, OneWake, SleepIsAlone, StartsEmpty, PhaseIsTrue, GateIsQuiet, FileFollows, Gated, Before, Waking, Recorded
<1>8. CASE Kills(c)
  <2>1. \A d \in Calls : /\ call'[d].at = IF d = c THEN call[c].at ELSE call[d].at
                         /\ call'[d].saving = call[d].saving
    BY <1>a, <1>8 DEF Kills, CallsOK, Call
  <2>2. live' = live
    BY <1>8 DEF Kills
  <2>3. /\ call[c].at = "waitGone"
         /\ gate' = gate /\ frozen' = frozen /\ meta' = meta /\ file' = file
         /\ restored' = restored /\ alive' = alive /\ taken' = taken
    BY <1>8 DEF Kills, Timer, world
  <2>4. QED
    BY <1>a, <2>1, <2>2, <2>3, AwakeIs
    DEF SleepInv, GateMatches, OneWake, SleepIsAlone, StartsEmpty, PhaseIsTrue, GateIsQuiet, FileFollows, Gated, Before, Waking, Recorded
<1>9. CASE Undo(c)
  <2>1. \A d \in Calls : /\ call'[d].at = IF d = c THEN "undoing" ELSE call[d].at
                         /\ call'[d].saving = IF d = c THEN "awake" ELSE call[d].saving
    BY <1>a, <1>9 DEF Undo, Saves, CallsOK, Call
  <2>2. live' = Awake /\ live'.phase = "awake" /\ live'.queue = <<>>
    BY <1>9, AwakeIs DEF Undo
  <2>3. /\ call[c].at = "waitGone"
         /\ gate' = FALSE /\ frozen' = FALSE /\ file' = file /\ restored' = restored
         /\ alive' = alive /\ taken' = FALSE
    BY <1>9 DEF Undo, Saves, Timer, world
  <2>4. GateMatches'
    <3>1. ~Gated'
      BY <2>2 DEF Gated
    <3>2. ~gate' /\ ~frozen'
      BY <2>3
    <3>3. gate' \in BOOLEAN
      BY <1>a, <2>3 DEF FlagsOK
    <3>4. gate' = Gated'
      BY <3>1, <3>2, <3>3 DEF Gated
    <3>5. QED
      BY <3>2, <3>4 DEF GateMatches
  <2>5. OneWake' /\ SleepIsAlone' /\ StartsEmpty'
    BY <1>a, <2>1, <2>2, <2>3, AwakeIs DEF OneWake, SleepIsAlone, Before, StartsEmpty
  <2>6. PhaseIsTrue' /\ GateIsQuiet' /\ FileFollows'
    BY <1>a, <2>1, <2>2, <2>3, AwakeIs
    DEF PhaseIsTrue, Waking, SleepIsAlone, Before, GateIsQuiet, Gated, FileFollows, Recorded
  <2>7. QED
    BY <2>4, <2>5, <2>6 DEF SleepInv
<1>10. QED
  BY <1>1, <1>2, <1>3, <1>4, <1>5, <1>6, <1>7, <1>8, <1>9

(* A step of wake() keeps the invariant. *)
LEMMA WakeSteps ==
  ASSUME Hasty = FALSE, SleepTypeOK, SleepInv, NEW c \in Calls,
         Wake(c) \/ ClearsLine(c) \/ TypesResume(c) \/ SeesAgent(c) \/ Removed(c) \/ Fails(c) \/ RecordsFailure(c) \/ Ready(c) \/ RecordsReady(c) \/ ReadyRecorded(c)
  PROVE  SleepInv'
<1>a. /\ CallsOK /\ LiveOK /\ FlagsOK
      /\ GateMatches /\ OneWake /\ SleepIsAlone /\ StartsEmpty /\ PhaseIsTrue
      /\ GateIsQuiet /\ FileFollows
  BY TypeParts DEF SleepInv
<1>1. CASE Wake(c)
  <2>1. \A d \in Calls : /\ call'[d].at = IF d = c THEN "wakeRecording" ELSE call[d].at
                         /\ call'[d].saving = IF d = c THEN "waking" ELSE call[d].saving
    BY <1>a, <1>1 DEF Wake, WakeStarts, CallsOK, Call
  <2>2. live'.phase = "waking" /\ live'.queue = live.queue
    BY <1>a, <1>1 DEF Wake, WakeStarts, LiveOK, Live
  <2>3. /\ call[c].at = "idle" /\ restored /\ live.phase = "sleeping"
         /\ gate' = gate /\ frozen' = frozen /\ file' = file /\ restored' = restored
         /\ alive' = alive /\ taken' = taken
    BY <1>1 DEF Wake, WakeStarts, world
  <2>4. QED
    BY <1>a, <2>1, <2>2, <2>3, AwakeIs
    DEF SleepInv, GateMatches, OneWake, SleepIsAlone, StartsEmpty, PhaseIsTrue, GateIsQuiet, FileFollows, Gated, Before, Waking, Recorded
<1>2. CASE ClearsLine(c)
  <2>1. \A d \in Calls : /\ call'[d].at = IF d = c THEN "clearing" ELSE call[d].at
                         /\ call'[d].saving = call[d].saving
    BY <1>a, <1>2, AtMoves DEF ClearsLine
  <2>2. live' = live
    BY <1>2 DEF ClearsLine
  <2>3. /\ call[c].at = "wakeRecording"
         /\ gate' = gate /\ frozen' = frozen /\ meta' = meta /\ file' = call[c].saving
         /\ restored' = restored /\ alive' = alive /\ taken' = taken
    BY <1>2 DEF ClearsLine, world
  <2>4. QED
    BY <1>a, <2>1, <2>2, <2>3, AwakeIs
    DEF SleepInv, GateMatches, OneWake, SleepIsAlone, StartsEmpty, PhaseIsTrue, GateIsQuiet, FileFollows, Gated, Before, Waking, Recorded
<1>3. CASE TypesResume(c)
  <2>1. \A d \in Calls : /\ call'[d].at = IF d = c THEN "waitReady" ELSE call[d].at
                         /\ call'[d].saving = call[d].saving
    BY <1>a, <1>3, AtMoves DEF TypesResume
  <2>2. live' = live
    BY <1>3 DEF TypesResume
  <2>3. /\ call[c].at = "clearing"
         /\ gate' = gate /\ frozen' = frozen /\ meta' = meta /\ file' = file
         /\ restored' = restored /\ alive' = alive /\ taken' = taken
    BY <1>3 DEF TypesResume, Timer
  <2>4. QED
    BY <1>a, <2>1, <2>2, <2>3, AwakeIs
    DEF SleepInv, GateMatches, OneWake, SleepIsAlone, StartsEmpty, PhaseIsTrue, GateIsQuiet, FileFollows, Gated, Before, Waking, Recorded
<1>4. CASE SeesAgent(c)
  <2>1. call' = call
    BY <1>4 DEF SeesAgent
  <2>2. live'.phase = live.phase /\ live'.queue = live.queue
    BY <1>a, <1>4 DEF SeesAgent, LiveOK, Live
  <2>3. /\ call[c].at = "waitReady"
         /\ gate' = gate /\ frozen' = frozen /\ meta' = meta /\ file' = file
         /\ restored' = restored /\ alive' = alive /\ taken' = taken
    BY <1>4 DEF SeesAgent, Timer, world
  <2>4. QED
    BY <1>a, <2>1, <2>2, <2>3, AwakeIs
    DEF SleepInv, GateMatches, OneWake, SleepIsAlone, StartsEmpty, PhaseIsTrue, GateIsQuiet, FileFollows, Gated, Before, Waking, Recorded
<1>5. CASE Removed(c)
  <2>1. \A d \in Calls : /\ call'[d].at = IF d = c THEN "idle" ELSE call[d].at
                         /\ d /= c => call'[d].saving = call[d].saving
    BY <1>a, <1>5, AtIdles DEF Removed
  <2>2. live' = live
    BY <1>5 DEF Removed
  <2>3. /\ call[c].at = "waitReady" /\ live = Awake
         /\ gate' = gate /\ frozen' = frozen /\ meta' = meta /\ file' = file
         /\ restored' = restored /\ alive' = alive /\ taken' = taken
    BY <1>5 DEF Removed, Timer, world
  <2>4. QED
    BY <1>a, <2>1, <2>2, <2>3, AwakeIs
    DEF SleepInv, GateMatches, OneWake, SleepIsAlone, StartsEmpty, PhaseIsTrue, GateIsQuiet, FileFollows, Gated, Before, Waking, Recorded
<1>6. CASE Fails(c)
  <2>1. \A d \in Calls : /\ call'[d].at = IF d = c THEN "failing" ELSE call[d].at
                         /\ call'[d].saving = call[d].saving
    BY <1>a, <1>6, AtMoves DEF Fails
  <2>2. live'.phase = "failed" /\ live'.queue = <<>>
    BY <1>a, <1>6 DEF Fails, LiveOK, Live
  <2>3. /\ call[c].at = "waitReady"
         /\ gate' = FALSE /\ frozen' = FALSE /\ meta' = meta /\ file' = file
         /\ restored' = restored /\ alive' = alive /\ taken' = FALSE
    BY <1>6 DEF Fails, Timer, world
  <2>4. GateMatches'
    <3>1. ~Gated'
      BY <2>2 DEF Gated
    <3>2. ~gate' /\ ~frozen'
      BY <2>3
    <3>3. gate' \in BOOLEAN
      BY <1>a, <2>3 DEF FlagsOK
    <3>4. gate' = Gated'
      BY <3>1, <3>2, <3>3 DEF Gated
    <3>5. QED
      BY <3>2, <3>4 DEF GateMatches
  <2>5. OneWake' /\ SleepIsAlone' /\ StartsEmpty'
    BY <1>a, <2>1, <2>2, <2>3, AwakeIs DEF OneWake, SleepIsAlone, Before, StartsEmpty
  <2>6. PhaseIsTrue' /\ GateIsQuiet' /\ FileFollows'
    BY <1>a, <2>1, <2>2, <2>3, AwakeIs
    DEF PhaseIsTrue, Waking, SleepIsAlone, Before, GateIsQuiet, Gated, FileFollows, Recorded
  <2>7. QED
    BY <2>4, <2>5, <2>6 DEF SleepInv
<1>7. CASE RecordsFailure(c)
  <2>1. \A d \in Calls : /\ call'[d].at = IF d = c THEN "failRecording" ELSE call[d].at
                         /\ call'[d].saving = IF d = c THEN "failed" ELSE call[d].saving
    BY <1>a, <1>7 DEF RecordsFailure, Saves, CallsOK, Call
  <2>2. live' = live
    BY <1>7 DEF RecordsFailure
  <2>3. /\ call[c].at = "failing"
         /\ gate' = gate /\ frozen' = frozen /\ file' = file /\ restored' = restored
         /\ alive' = alive /\ taken' = taken
    BY <1>7 DEF RecordsFailure, Saves, world
  <2>4. QED
    BY <1>a, <2>1, <2>2, <2>3, AwakeIs
    DEF SleepInv, GateMatches, OneWake, SleepIsAlone, StartsEmpty, PhaseIsTrue, GateIsQuiet, FileFollows, Gated, Before, Waking, Recorded
<1>8. CASE Ready(c)
  <2>1. \A d \in Calls : /\ call'[d].at = IF d = c THEN "readying" ELSE call[d].at
                         /\ call'[d].saving = call[d].saving
    BY <1>a, <1>8 DEF Ready, CallsOK, Call
  <2>2. live' = Awake /\ live'.phase = "awake" /\ live'.queue = <<>>
    BY <1>8, AwakeIs DEF Ready
  <2>3. /\ call[c].at = "waitReady"
         /\ gate' = FALSE /\ frozen' = FALSE /\ meta' = meta /\ file' = file
         /\ restored' = restored /\ alive' = alive /\ taken' = FALSE
    BY <1>8 DEF Ready, Timer, world
  <2>4. GateMatches'
    <3>1. ~Gated'
      BY <2>2 DEF Gated
    <3>2. ~gate' /\ ~frozen'
      BY <2>3
    <3>3. gate' \in BOOLEAN
      BY <1>a, <2>3 DEF FlagsOK
    <3>4. gate' = Gated'
      BY <3>1, <3>2, <3>3 DEF Gated
    <3>5. QED
      BY <3>2, <3>4 DEF GateMatches
  <2>5. OneWake' /\ SleepIsAlone' /\ StartsEmpty'
    BY <1>a, <2>1, <2>2, <2>3, AwakeIs DEF OneWake, SleepIsAlone, Before, StartsEmpty
  <2>6. PhaseIsTrue' /\ GateIsQuiet' /\ FileFollows'
    BY <1>a, <2>1, <2>2, <2>3, AwakeIs
    DEF PhaseIsTrue, Waking, SleepIsAlone, Before, GateIsQuiet, Gated, FileFollows, Recorded
  <2>7. QED
    BY <2>4, <2>5, <2>6 DEF SleepInv
<1>9. CASE RecordsReady(c)
  <2>1. \A d \in Calls : /\ call'[d].at = IF d = c THEN "readyRecording" ELSE call[d].at
                         /\ call'[d].saving = IF d = c THEN "awake" ELSE call[d].saving
    BY <1>a, <1>9 DEF RecordsReady, Saves, CallsOK, Call
  <2>2. live' = live
    BY <1>9 DEF RecordsReady
  <2>3. /\ call[c].at = "readying"
         /\ gate' = gate /\ frozen' = frozen /\ file' = file /\ restored' = restored
         /\ alive' = alive /\ taken' = taken
    BY <1>9 DEF RecordsReady, Saves, world
  <2>4. QED
    BY <1>a, <2>1, <2>2, <2>3, AwakeIs
    DEF SleepInv, GateMatches, OneWake, SleepIsAlone, StartsEmpty, PhaseIsTrue, GateIsQuiet, FileFollows, Gated, Before, Waking, Recorded
<1>10. CASE ReadyRecorded(c)
  <2>1. \A d \in Calls : /\ call'[d].at = IF d = c THEN "draining" ELSE call[d].at
                         /\ call'[d].saving = call[d].saving
    BY <1>a, <1>10, AtMoves DEF ReadyRecorded
  <2>2. live' = live
    BY <1>10 DEF ReadyRecorded
  <2>3. /\ call[c].at = "readyRecording"
         /\ gate' = gate /\ frozen' = frozen /\ meta' = meta /\ restored' = restored
         /\ alive' = alive /\ taken' = taken
    BY <1>10 DEF ReadyRecorded, world
  <2>4. QED
    BY <1>a, <2>1, <2>2, <2>3, AwakeIs
    DEF SleepInv, GateMatches, OneWake, SleepIsAlone, StartsEmpty, PhaseIsTrue, GateIsQuiet, FileFollows, Gated, Before, Waking, Recorded
<1>11. QED
  BY <1>1, <1>2, <1>3, <1>4, <1>5, <1>6, <1>7, <1>8, <1>9, <1>10

(* Dismiss and the ends of calls keep the invariant. *)
LEMMA EndSteps ==
  ASSUME Hasty = FALSE, SleepTypeOK, SleepInv, NEW c \in Calls,
         Dismiss(c) \/ Ends(c)
  PROVE  SleepInv'
<1>a. /\ CallsOK /\ LiveOK /\ FlagsOK
      /\ GateMatches /\ OneWake /\ SleepIsAlone /\ StartsEmpty /\ PhaseIsTrue
      /\ GateIsQuiet /\ FileFollows
  BY TypeParts DEF SleepInv
<1>1. CASE Dismiss(c)
  <2>1. \A d \in Calls : /\ call'[d].at = IF d = c THEN "noting" ELSE call[d].at
                         /\ call'[d].saving = IF d = c THEN "awake" ELSE call[d].saving
    BY <1>a, <1>1 DEF Dismiss, Saves, CallsOK, Call
  <2>2. live' = Awake /\ live'.phase = "awake" /\ live'.queue = <<>>
    BY <1>1, AwakeIs DEF Dismiss
  <2>3. /\ call[c].at = "idle" /\ restored /\ live.phase = "failed"
         /\ gate' = gate /\ frozen' = frozen /\ file' = file /\ restored' = restored
         /\ alive' = alive /\ taken' = taken
    BY <1>1 DEF Dismiss, Saves, world
  <2>4. QED
    BY <1>a, <2>1, <2>2, <2>3, AwakeIs
    DEF SleepInv, GateMatches, OneWake, SleepIsAlone, StartsEmpty, PhaseIsTrue, GateIsQuiet, FileFollows, Gated, Before, Waking, Recorded
<1>2. CASE Ends(c)
  <2>1. \A d \in Calls : /\ call'[d].at = IF d = c THEN "idle" ELSE call[d].at
                         /\ d /= c => call'[d].saving = call[d].saving
    BY <1>a, <1>2, AtIdles DEF Ends
  <2>2. live' = live
    BY <1>2 DEF Ends
  <2>3. /\ call[c].at \in {"undoing", "failRecording", "noting"}
         /\ gate' = gate /\ frozen' = frozen /\ meta' = meta /\ restored' = restored
         /\ alive' = alive /\ taken' = taken
    BY <1>2 DEF Ends, world
  <2>4. QED
    BY <1>a, <2>1, <2>2, <2>3, AwakeIs
    DEF SleepInv, GateMatches, OneWake, SleepIsAlone, StartsEmpty, PhaseIsTrue, GateIsQuiet, FileFollows, Gated, Before, Waking, Recorded
<1>3. QED
  BY <1>1, <1>2

(* A key written through the gate wakes the agent at most once.                *)
LEMMA WriteSteps ==
  ASSUME SleepTypeOK, SleepInv, NEW k, NEW ks, NEW calls \in [Calls -> Call],
         \A d \in Calls : calls[d].at = call[d].at /\ calls[d].saving = call[d].saving,
         Write(k, ks, calls),
         UNCHANGED <<gate, frozen, file, restored, alive, taken>>
  PROVE  SleepInv'
<1>a. /\ LiveOK
      /\ GateMatches /\ OneWake /\ SleepIsAlone /\ StartsEmpty /\ PhaseIsTrue
      /\ GateIsQuiet /\ FileFollows
  BY TypeParts DEF SleepInv
<1>b. /\ gate' = gate /\ frozen' = frozen /\ file' = file
      /\ restored' = restored /\ alive' = alive /\ taken' = taken
  OBVIOUS
<1>1. CASE ~(alive /\ gate /\ Gated)
  <2>1. call' = calls /\ live' = live /\ meta' = meta
    BY <1>1 DEF Write
  <2>2. \A d \in Calls : call'[d].at = call[d].at /\ call'[d].saving = call[d].saving
    BY <2>1
  <2>3. QED
    BY <1>a, <1>b, <2>1, <2>2 DEF SleepInv, GateMatches, OneWake, SleepIsAlone, StartsEmpty, PhaseIsTrue,
  GateIsQuiet, FileFollows, Gated, Before, Waking, Recorded
<1>2. CASE alive /\ gate /\ Gated
  <2> DEFINE l == IF Len(live.queue) < QueueMax THEN [live EXCEPT !.queue = Append(@, k)]
                                               ELSE live
  <2>1. live.phase \in {"sleeping", "waking"} /\ l.phase = live.phase
    BY <1>a, <1>2 DEF LiveOK, Live, Gated
  <2>2. \/ live.phase = "sleeping" /\ \E d \in Calls : WakeStarts(l, calls, d)
        \/ live.phase = "waking" /\ live' = l /\ call' = calls /\ meta' = meta
    BY <1>2 DEF Write
  <2>3. l \in [phase : Phases, queue : {l.queue}, started : BOOLEAN]
    BY <1>a DEF LiveOK, Live
  <2> HIDE DEF l
  <2>4. CASE live.phase = "sleeping" /\ \E d \in Calls : WakeStarts(l, calls, d)
    <3>1. PICK d \in Calls : WakeStarts(l, calls, d)
      BY <2>4
    <3>2. /\ call[d].at = "idle" /\ live'.phase = "waking"
          /\ \A e \in Calls :
               /\ call'[e].at = IF e = d THEN "wakeRecording" ELSE call[e].at
               /\ call'[e].saving = IF e = d THEN "waking" ELSE call[e].saving
      BY <2>3, <3>1 DEF WakeStarts, Call
    <3>3. QED
      BY <1>a, <1>b, <1>2, <2>4, <3>2, AwakeIs DEF SleepInv, GateMatches, OneWake, SleepIsAlone, StartsEmpty, PhaseIsTrue,
  GateIsQuiet, FileFollows, Gated, Before, Waking, Recorded
  <2>5. CASE live.phase = "waking" /\ live' = l /\ call' = calls /\ meta' = meta
    <3>1. /\ live'.phase = "waking"
          /\ \A e \in Calls : call'[e].at = call[e].at /\ call'[e].saving = call[e].saving
      BY <2>1, <2>5
    <3>2. QED
      BY <1>a, <1>b, <1>2, <2>5, <3>1, AwakeIs DEF SleepInv, GateMatches, OneWake, SleepIsAlone, StartsEmpty, PhaseIsTrue,
  GateIsQuiet, FileFollows, Gated, Before, Waking, Recorded
  <2>6. QED
    BY <2>2, <2>4, <2>5
<1>3. QED
  BY <1>1, <1>2

(* Draining the queue keeps the invariant. *)
LEMMA DrainsSteps ==
  ASSUME SleepTypeOK, SleepInv, NEW c \in Calls, Drains(c)
  PROVE  SleepInv'
<1>a. /\ CallsOK
      /\ GateMatches /\ OneWake /\ SleepIsAlone /\ StartsEmpty /\ PhaseIsTrue
      /\ GateIsQuiet /\ FileFollows
  BY TypeParts DEF SleepInv
<1>1. call[c].at = "draining"
  BY DEF Drains
<1>b. /\ gate' = gate /\ frozen' = frozen /\ file' = file
      /\ restored' = restored /\ alive' = alive /\ taken' = taken
  BY DEF Drains, world
<1>2. CASE call[c].drain = <<>>
  <2>1. call' = [call EXCEPT ![c] = Idle] /\ live' = live /\ meta' = meta
    BY <1>2 DEF Drains
  <2>2. \A d \in Calls : /\ call'[d].at = IF d = c THEN "idle" ELSE call[d].at
                         /\ d /= c => call'[d].saving = call[d].saving
    BY <1>a, <2>1, AtIdles
  <2>3. QED
    BY <1>a, <1>b, <1>1, <2>1, <2>2 DEF SleepInv, GateMatches, OneWake, SleepIsAlone, StartsEmpty, PhaseIsTrue,
  GateIsQuiet, FileFollows, Gated, Before, Waking, Recorded
<1>3. CASE call[c].drain /= <<>>
  <2>1. call[c].drain \in Seq(1 .. MaxTyped)
    BY <1>a DEF CallsOK, Call
  <2>2. Tail(call[c].drain) \in Seq(1 .. MaxTyped)
    BY <1>3, <2>1, HeadTailIn
  <2> DEFINE calls == [call EXCEPT ![c].drain = Tail(@)]
  <2>3. calls \in [Calls -> Call]
    BY <1>a, <2>2 DEF CallsOK, Call
  <2>4. \A d \in Calls : calls[d].at = call[d].at /\ calls[d].saving = call[d].saving
    BY <1>a DEF CallsOK, Call
  <2>5. Write(Head(call[c].drain), keys, calls)
    BY <1>3 DEF Drains
  <2> HIDE DEF calls
  <2>6. QED
    BY <1>b, <2>3, <2>4, <2>5, WriteSteps
<1>4. QED
  BY <1>2, <1>3

(* A key the user types keeps the invariant. *)
LEMMA TypeSteps ==
  ASSUME SleepTypeOK, SleepInv, Type
  PROVE  SleepInv'
<1>1. call \in [Calls -> Call]
  BY DEF SleepTypeOK
<1>2. /\ Write(keys.typed + 1, [keys EXCEPT !.typed = @ + 1], call)
      /\ UNCHANGED <<gate, frozen, file, restored, alive, taken>>
  BY DEF Type, world
<1>3. QED
  BY <1>1, <1>2, WriteSteps

(* The start hook keeps the invariant. *)
LEMMA HookSteps ==
  ASSUME SleepTypeOK, SleepInv, NEW c \in Calls, Hook(c)
  PROVE  SleepInv'
<1>a. /\ CallsOK /\ LiveOK
      /\ GateMatches /\ OneWake /\ SleepIsAlone /\ StartsEmpty /\ PhaseIsTrue
      /\ GateIsQuiet /\ FileFollows
  BY TypeParts DEF SleepInv
<1>b. /\ call[c].at = "idle" /\ restored
      /\ gate' = gate /\ frozen' = frozen /\ file' = file
      /\ restored' = restored /\ alive' = alive /\ taken' = taken
  BY DEF Hook
<1>1. CASE live.phase = "waking"
  <2>1. /\ call' = call /\ meta' = meta
        /\ live'.phase = live.phase /\ live'.queue = live.queue
    BY <1>a, <1>1 DEF Hook, LiveOK, Live
  <2>2. QED
    BY <1>a, <1>b, <1>1, <2>1, AwakeIs DEF SleepInv, GateMatches, OneWake, SleepIsAlone, StartsEmpty, PhaseIsTrue,
  GateIsQuiet, FileFollows, Gated, Before, Waking, Recorded
<1>2. CASE live.phase = "failed"
  <2>1. live' = Awake /\ live'.phase = "awake" /\ live'.queue = <<>>
    BY <1>2, AwakeIs DEF Hook
  <2>2. \A d \in Calls : /\ call'[d].at = IF d = c THEN "noting" ELSE call[d].at
                         /\ call'[d].saving = IF d = c THEN "awake" ELSE call[d].saving
    BY <1>a, <1>2 DEF Hook, Saves, CallsOK, Call
  <2>3. QED
    BY <1>a, <1>b, <1>2, <2>1, <2>2 DEF SleepInv, GateMatches, OneWake, SleepIsAlone, StartsEmpty, PhaseIsTrue,
  GateIsQuiet, FileFollows, Gated, Before, Waking, Recorded
<1>3. CASE live.phase \notin {"waking", "failed"}
  <2>1. call' = call /\ live' = live /\ meta' = meta
    BY <1>3 DEF Hook
  <2>2. QED
    BY <1>a, <1>b, <2>1 DEF SleepInv, GateMatches, OneWake, SleepIsAlone, StartsEmpty, PhaseIsTrue,
  GateIsQuiet, FileFollows, Gated, Before, Waking, Recorded
<1>4. QED
  BY <1>1, <1>2, <1>3

(* Agents that start and end, a crash and the restore keep the invariant. *)
LEMMA WorldSteps ==
  ASSUME SleepTypeOK, SleepInv,
         AgentStarts \/ ResumeFails \/ AgentExits \/ Dies \/ Crash \/ Restore
  PROVE  SleepInv'
<1>a. /\ FlagsOK
      /\ GateMatches /\ OneWake /\ SleepIsAlone /\ StartsEmpty /\ PhaseIsTrue
      /\ GateIsQuiet /\ FileFollows
  BY TypeParts DEF SleepInv
<1>1. CASE AgentStarts \/ ResumeFails \/ Dies
  <2>1. /\ call' = call /\ live' = live /\ gate' = gate /\ frozen' = frozen /\ meta' = meta
        /\ file' = file /\ restored' = restored /\ taken' = taken /\ (alive' => alive)
    BY <1>1 DEF AgentStarts, ResumeFails, Dies, memory
  <2>2. QED
    BY <1>a, <2>1 DEF SleepInv, GateMatches, OneWake, SleepIsAlone, StartsEmpty, PhaseIsTrue,
  GateIsQuiet, FileFollows, Gated, Before, Waking, Recorded
<1>2. CASE AgentExits
  <2>1. /\ call' = call /\ live' = live /\ gate' = gate /\ frozen' = frozen /\ meta' = meta
        /\ file' = file /\ restored' = restored /\ alive' = alive
        /\ taken' => taken \/ (Gated /\ \E d \in Calls : call[d].at = "waitGone")
    BY <1>2, SleepAssumption DEF AgentExits, memory
  <2>2. QED
    BY <1>a, <2>1 DEF SleepInv, GateMatches, OneWake, SleepIsAlone, StartsEmpty, PhaseIsTrue,
  GateIsQuiet, FileFollows, Gated, Before, Waking, Recorded
<1>3. CASE Crash
  <2>1. /\ \A d \in Calls : call'[d].at = "idle"
        /\ live' = Awake /\ live'.phase = "awake" /\ live'.queue = <<>>
    BY <1>3, AwakeIs DEF Crash, Idle
  <2>2. /\ gate' = FALSE /\ frozen' = FALSE /\ meta' = file /\ file' = file
        /\ restored' = FALSE /\ alive' = alive /\ taken' = taken
    BY <1>3 DEF Crash, world
  <2>3. ~Gated'
    BY <2>1 DEF Gated
  <2>4. ~gate' /\ gate' \in BOOLEAN /\ ~frozen'
    BY <2>2
  <2>5. gate' = Gated'
    BY <2>3, <2>4 DEF Gated
  <2>6. GateMatches'
    BY <2>4, <2>5 DEF GateMatches
  <2>7. QED
    BY <1>a, <2>1, <2>2, <2>3, <2>6 DEF SleepInv, GateMatches, OneWake, SleepIsAlone, StartsEmpty, PhaseIsTrue,
  GateIsQuiet, FileFollows, Gated, Before, Waking, Recorded
<1>4. CASE Restore
  <2>1. /\ call' = call /\ \A d \in Calls : call[d].at = "idle"
        /\ live = Awake /\ ~gate /\ ~frozen /\ meta = file
        /\ restored' = TRUE /\ alive' = alive /\ taken' = taken
    BY <1>a, <1>4 DEF Restore, StartsEmpty, world
  <2>2. CASE alive /\ meta \in {"sleeping", "waking"}
    <3>1. live'.phase = "sleeping" /\ live'.queue = <<>>
      BY <1>4, <2>2 DEF Restore, Awake
    <3>2. gate' = TRUE /\ frozen' = TRUE /\ file' = "sleeping"
      BY <1>4, <2>2 DEF Restore
    <3>3. QED
      BY <1>a, <2>1, <3>1, <3>2 DEF SleepInv, GateMatches, OneWake, SleepIsAlone, StartsEmpty, PhaseIsTrue,
  GateIsQuiet, FileFollows, Gated, Before, Waking, Recorded
  <2>3. CASE ~(alive /\ meta \in {"sleeping", "waking"})
    <3>1. live'.phase \notin {"sleeping", "waking"} /\ live'.queue = <<>>
      BY <1>4, <2>3 DEF Restore, Awake
    <3>2. gate' = gate /\ frozen' = frozen /\ file' = file
      BY <1>4, <2>3 DEF Restore
    <3>3. ~Gated'
      BY <3>1 DEF Gated
    <3>4. ~gate' /\ gate' \in BOOLEAN /\ ~frozen'
      BY <1>a, <2>1, <3>2 DEF FlagsOK
    <3>5. gate' = Gated'
      BY <3>3, <3>4 DEF Gated
    <3>6. GateMatches'
      BY <3>4, <3>5 DEF GateMatches
    <3>7. QED
      BY <1>a, <2>1, <2>3, <3>1, <3>2, <3>3, <3>6 DEF SleepInv, OneWake, SleepIsAlone, StartsEmpty, PhaseIsTrue,
  GateIsQuiet, FileFollows, Gated, Before, Waking, Recorded
  <2>4. QED
    BY <2>2, <2>3
<1>5. QED
  BY <1>1, <1>2, <1>3, <1>4

(* The invariant holds at first. *)
LEMMA InitInv == Init => SleepInv
<1> SUFFICES ASSUME Init  PROVE SleepInv
  OBVIOUS
<1>1. \A c \in Calls : call[c].at = "idle"
  BY DEF Init, Idle
<1>2. /\ live.phase = "awake" /\ live.queue = <<>> /\ gate = FALSE /\ frozen = FALSE
      /\ restored = TRUE /\ taken = FALSE
  BY AwakeIs DEF Init
<1>3. ~Gated
  BY <1>2 DEF Gated
<1>4. ~gate /\ gate \in BOOLEAN /\ ~frozen
  BY <1>2
<1>5. gate = Gated
  BY <1>3, <1>4 DEF Gated
<1>6. GateMatches
  BY <1>4, <1>5 DEF GateMatches
<1>7. QED
  BY <1>1, <1>2, <1>3, <1>6 DEF SleepInv, OneWake, SleepIsAlone, StartsEmpty, PhaseIsTrue,
  GateIsQuiet, FileFollows, Gated, Before, Waking, Recorded

(* Every step keeps it, if no sleep begins while another call is under way. *)
LEMMA NextInv ==
  ASSUME Hasty = FALSE
  PROVE  SleepTypeOK /\ SleepInv /\ [Next]_vars => SleepInv'
<1> SUFFICES ASSUME SleepTypeOK, SleepInv, [Next]_vars  PROVE SleepInv'
  OBVIOUS
<1>1. ASSUME NEW c \in Calls, Sleep(c) \/ Wake(c) \/ Dismiss(c) \/ Hook(c) \/ Step(c)
      PROVE  SleepInv'
  BY <1>1, SleepSteps, WakeSteps, EndSteps, HookSteps, DrainsSteps, Zenon DEF Step
<1>2. CASE UNCHANGED vars
  BY <1>2 DEF vars, SleepInv, GateMatches, OneWake, SleepIsAlone, StartsEmpty, PhaseIsTrue,
  GateIsQuiet, FileFollows, Gated, Before, Waking, Recorded
<1>3. QED
  BY <1>1, <1>2, TypeSteps, WorldSteps, Zenon DEF Next

(* The types and the invariant hold throughout. *)
LEMMA SleepInvHolds ==
  ASSUME Hasty = FALSE
  PROVE  Spec => [](SleepTypeOK /\ SleepInv)
<1>1. SleepTypeOK /\ SleepInv /\ [Next]_vars => SleepTypeOK' /\ SleepInv'
  BY NextTypes, NextInv
<1>2. QED
  BY <1>1, InitTypes, InitInv, PTL DEF Spec

-----------------------------------------------------------------------------
(* If no sleep begins while another call is under way, the gate is there        *)
(* exactly while the pane sleeps or wakes, with its screen frozen, for any      *)
(* number of calls, keys and restarts (install, uninstall, wake, restore).      *)
THEOREM SleepGateMatches ==
  ASSUME Hasty = FALSE
  PROVE  Spec => []GateMatches
<1>1. SleepInv => GateMatches
  BY DEF SleepInv
<1>2. QED
  BY <1>1, SleepInvHolds, PTL

(* One call at a time wakes the agent, however many keys and calls ask for it    *)
(* (wake's flip before its first await, agent-sleep.ts:522).                 *)
THEOREM SleepOneWake ==
  ASSUME Hasty = FALSE
  PROVE  Spec => []OneWake
<1>1. SleepInv => OneWake
  BY DEF SleepInv
<1>2. QED
  BY <1>1, SleepInvHolds, PTL

(* Keys wait only for a wake that is under way (the gate of install).          *)
THEOREM SleepQueueIsWoken ==
  ASSUME Hasty = FALSE
  PROVE  Spec => []QueueIsWoken
<1>1. SleepInv => QueueIsWoken
  BY DEF SleepInv, PhaseIsTrue, QueueIsWoken, Waking
<1>2. QED
  BY <1>1, SleepInvHolds, PTL

(* A pane whose agent a sleep has taken down is recorded as asleep and comes     *)
(* back frozen and gated, wherever the server stops (sleep, wake, restore).      *)
THEOREM SleepAsleepIsRecorded ==
  ASSUME Hasty = FALSE
  PROVE  Spec => []AsleepIsRecorded
<1>1. SleepTypeOK /\ SleepInv => AsleepIsRecorded
  <2> SUFFICES ASSUME SleepTypeOK, SleepInv  PROVE AsleepIsRecorded
    OBVIOUS
  <2>1. taken /\ alive => file \in {"sleeping", "waking"} /\ (restored => Gated)
    BY DEF SleepInv, FileFollows, Recorded
  <2>2. gate = Gated /\ (gate => frozen)
    BY DEF SleepInv, GateMatches
  <2>3. QED
    BY <2>1, <2>2 DEF AsleepIsRecorded
<1>2. QED
  BY <1>1, SleepInvHolds, PTL

-----------------------------------------------------------------------------
(* What the record says of the pane, call by call.                           *)

(* The writes that end in a record of the pane as it is: an awake pane is       *)
(* recorded so, a failed one too, by one of these.                          *)
Mends == {"readyRecording", "undoing", "noting", "failing", "failRecording"}

(* All awaits the record is told anything at.                                *)
Telling == Mends \cup {"recording", "wakeRecording", "readying"}

(* An awake pane has an entry with nothing in it.                            *)
AwakeIsBlank == live.phase = "awake" => live = Awake

(* What each write brings to the file.                                       *)
WritesMean ==
  \A c \in Calls :
    /\ call[c].at \in {"undoing", "readyRecording", "noting"} => call[c].saving = "awake"
    /\ call[c].at = "failRecording" => call[c].saving = "failed"

(* No sleep and no wake is still recorded once the pane is neither.            *)
NoLateWrite ==
  ~Gated => \A c \in Calls : call[c].at \notin {"recording", "wakeRecording"}

SleepingIsRecorded ==
  live.phase = "sleeping" =>
    /\ meta = "sleeping"
    /\ file = "sleeping" \/ \E c \in Calls : call[c].at = "recording"

(* Memory and disk know that the pane is awake, or a call will tell them.      *)
AwakeIsRecorded ==
  live.phase = "awake" =>
    /\ meta \in {"awake", "failed"} \/ \E c \in Calls : call[c].at = "readying"
    /\ file \in {"awake", "failed"} \/ \E c \in Calls : call[c].at \in Mends \cup {"readying"}

FailedIsRecorded ==
  live.phase = "failed" =>
    /\ \A c \in Calls : call[c].at \in {"idle", "waitGone", "failing", "failRecording"}
    /\ meta = "failed" \/ \E c \in Calls : call[c].at = "failing"
    /\ file = "failed" \/ \E c \in Calls : call[c].at \in {"failing", "failRecording"}

RecordFollows ==
  restored /\ alive => NoLateWrite /\ SleepingIsRecorded /\ AwakeIsRecorded /\ FailedIsRecorded

RecordInv == AwakeIsBlank /\ WritesMean /\ RecordFollows

(* A call that neither starts nor ends a write leaves the record as it is.     *)
LEMMA RecordKept ==
  ASSUME RecordInv, NEW c \in Calls,
         \A d \in Calls : d /= c => /\ call'[d].at = call[d].at
                                    /\ call'[d].saving = call[d].saving,
         call[c].at \notin Telling, call'[c].at \notin Telling,
         live.phase = "failed" => call'[c].at \in {"idle", "waitGone"},
         live' = live, meta' = meta, file' = file, restored' = restored, alive' = alive
  PROVE  RecordInv'
<1>1. AwakeIsBlank'
  BY DEF RecordInv, AwakeIsBlank
<1>2. WritesMean'
  BY DEF RecordInv, WritesMean, Telling, Mends
<1>3. ASSUME restored, alive
      PROVE  NoLateWrite' /\ SleepingIsRecorded' /\ AwakeIsRecorded' /\ FailedIsRecorded'
  <2>1. NoLateWrite /\ SleepingIsRecorded /\ AwakeIsRecorded /\ FailedIsRecorded
    BY <1>3 DEF RecordInv, RecordFollows
  <2>2. NoLateWrite'
    BY <2>1 DEF NoLateWrite, Gated, Telling
  <2>3. SleepingIsRecorded'
    BY <2>1 DEF SleepingIsRecorded, Telling
  <2>4. AwakeIsRecorded'
    BY <2>1 DEF AwakeIsRecorded, Telling
  <2>5. FailedIsRecorded'
    BY <2>1 DEF FailedIsRecorded, Telling, Mends
  <2>6. QED
    BY <2>2, <2>3, <2>4, <2>5
<1>4. QED
  BY <1>1, <1>2, <1>3 DEF RecordInv, RecordFollows

(* When a timer fires no write is under way, if none outlasts a timer.          *)
LEMMA TimerIsAfterWrites ==
  ASSUME SlowDisk = FALSE, NEW c, NEW a, Timer(c, a)
  PROVE  /\ call[c].at = a
         /\ \A d \in Calls : call[d].at \notin
              {"recording", "undoing", "wakeRecording", "failRecording", "readyRecording", "noting"}
<1>1. ~SlowDisk
  OBVIOUS
<1>2. QED
  BY <1>1 DEF Timer, Writing

(* A step of sleep() keeps the record in step.                               *)
LEMMA SleepRecords ==
  ASSUME Hasty = FALSE, SlowDisk = FALSE, SleepTypeOK, SleepInv, RecordInv, NEW c \in Calls,
         \/ Sleep(c) \/ Refused(c) \/ FindsAgent(c) \/ Freezes(c) \/ Installs(c) \/ Presses(c)
         \/ Gone(c) \/ Kills(c) \/ Undo(c)
  PROVE  RecordInv'
<1>a. /\ CallsOK /\ LiveOK /\ SleepIsAlone /\ StartsEmpty /\ PhaseIsTrue /\ GateIsQuiet /\ FileFollows
      /\ AwakeIsBlank /\ WritesMean /\ RecordFollows
  BY TypeParts DEF SleepInv, RecordInv
<1>b. ~Hasty
  OBVIOUS
<1>1. CASE Sleep(c)
  <2>1. \A d \in Calls : /\ call'[d].at = IF d = c THEN "checking" ELSE call[d].at
                         /\ call'[d].saving = call[d].saving
    BY <1>a, <1>1, AtMoves DEF Sleep
  <2>2. live' = Awake /\ live'.phase = "awake"
    BY <1>1, AwakeIs DEF Sleep
  <2>3. /\ restored /\ alive /\ ~Gated /\ \A d \in Calls : call[d].at = "idle"
        /\ meta' = meta /\ file' = file
    BY <1>b, <1>1 DEF Sleep, world
  <2>4. live.phase \in {"awake", "failed"}
    BY <1>a, <2>3 DEF LiveOK, Live, Phases, Gated
  <2>5. meta \in {"awake", "failed"} /\ file \in {"awake", "failed"}
    BY <1>a, <2>3, <2>4 DEF RecordFollows, AwakeIsRecorded, FailedIsRecorded, Mends
  <2>6. \A d \in Calls : call'[d].at \in {"idle", "checking"}
    BY <2>1, <2>3
  <2>7. QED
    BY <2>2, <2>3, <2>5, <2>6
    DEF RecordInv, AwakeIsBlank, WritesMean, RecordFollows, NoLateWrite, SleepingIsRecorded,
        AwakeIsRecorded, FailedIsRecorded
<1>2. CASE Refused(c)
  <2>1. \A d \in Calls : /\ call'[d].at = IF d = c THEN "idle" ELSE call[d].at
                         /\ d /= c => call'[d].saving = call[d].saving
    BY <1>a, <1>2, AtIdles DEF Refused
  <2>2. /\ call[c].at \in {"checking", "checked"}
        /\ live' = live /\ meta' = meta /\ file' = file /\ restored' = restored /\ alive' = alive
    BY <1>2 DEF Refused, world
  <2>3. QED
    BY <2>1, <2>2, RecordKept DEF Telling, Mends
<1>3. CASE FindsAgent(c) \/ Freezes(c)
  <2>1. \A d \in Calls : /\ call'[d].at = IF d = c THEN call'[c].at ELSE call[d].at
                         /\ call'[d].saving = call[d].saving
    BY <1>a, <1>3 DEF FindsAgent, Freezes, CallsOK, Call
  <2>2. /\ call[c].at \in {"checking", "checked"} /\ call'[c].at \in {"checked", "freezing"}
        /\ live' = live /\ meta' = meta /\ file' = file /\ restored' = restored /\ alive' = alive
    BY <1>a, <1>3 DEF FindsAgent, Freezes, CallsOK, Call, world
  <2>3. live.phase = "awake"
    BY <1>a, <2>2, AwakeIs DEF SleepIsAlone, Before
  <2>4. QED
    BY <2>1, <2>2, <2>3, RecordKept DEF Telling, Mends
<1>4. CASE Installs(c)
  <2>1. \A d \in Calls : /\ call'[d].at = IF d = c THEN "recording" ELSE call[d].at
                         /\ call'[d].saving = IF d = c THEN "sleeping" ELSE call[d].saving
    BY <1>a, <1>4 DEF Installs, Saves, CallsOK, Call
  <2>2. live'.phase = "sleeping" /\ meta' = "sleeping" /\ call[c].at = "freezing"
    BY <1>4 DEF Installs, Awake, Saves
  <2>3. \A d \in Calls : d /= c => call'[d].at = "idle"
    BY <1>a, <2>1, <2>2 DEF SleepIsAlone, Before
  <2>4. QED
    BY <2>1, <2>2, <2>3
    DEF RecordInv, AwakeIsBlank, WritesMean, RecordFollows, NoLateWrite, SleepingIsRecorded,
        AwakeIsRecorded, FailedIsRecorded, Gated
<1>5. CASE Presses(c)
  <2>1. \A d \in Calls : /\ call'[d].at = IF d = c THEN "waitGone" ELSE call[d].at
                         /\ call'[d].saving = call[d].saving
    BY <1>a, <1>5 DEF Presses, CallsOK, Call
  <2>2. /\ call[c].at = "recording" /\ file' = call[c].saving
        /\ live' = live /\ meta' = meta /\ restored' = restored /\ alive' = alive
    BY <1>5 DEF Presses, world
  <2>3. file' = "sleeping"
    BY <1>a, <2>2 DEF FileFollows
  <2>4. AwakeIsBlank' /\ WritesMean'
    BY <1>a, <2>1, <2>2 DEF AwakeIsBlank, WritesMean
  <2>5. ASSUME restored, alive
        PROVE  NoLateWrite' /\ SleepingIsRecorded' /\ AwakeIsRecorded' /\ FailedIsRecorded'
    <3>1. NoLateWrite /\ SleepingIsRecorded
      BY <1>a, <2>5 DEF RecordFollows
    <3>2. Gated
      BY <2>2, <3>1 DEF NoLateWrite
    <3>3. QED
      BY <2>2, <2>3, <3>1, <3>2
      DEF NoLateWrite, SleepingIsRecorded, AwakeIsRecorded, FailedIsRecorded, Gated
  <2>6. QED
    BY <2>2, <2>4, <2>5 DEF RecordInv, RecordFollows
<1>6. CASE Gone(c) \/ Kills(c)
  <2>1. \A d \in Calls : d /= c => call'[d].at = call[d].at /\ call'[d].saving = call[d].saving
    BY <1>a, <1>6 DEF Gone, Kills, CallsOK, Call
  <2>2. /\ call[c].at = "waitGone" /\ call'[c].at \in {"waitGone", "idle"}
        /\ live' = live /\ meta' = meta /\ file' = file /\ restored' = restored /\ alive' = alive
    BY <1>a, <1>6 DEF Gone, Kills, Timer, CallsOK, Call, Idle, world
  <2>3. QED
    BY <2>1, <2>2, RecordKept DEF Telling, Mends
<1>7. CASE Undo(c)
  <2>1. \A d \in Calls : /\ call'[d].at = IF d = c THEN "undoing" ELSE call[d].at
                         /\ call'[d].saving = IF d = c THEN "awake" ELSE call[d].saving
    BY <1>a, <1>7 DEF Undo, Saves, CallsOK, Call
  <2>2. live' = Awake /\ live'.phase = "awake" /\ meta' = "awake"
    BY <1>7, AwakeIs DEF Undo, Saves
  <2>3. Timer(c, "waitGone")
    BY <1>7 DEF Undo
  <2>4. \A d \in Calls : call'[d].at \notin {"recording", "wakeRecording"}
    BY <2>1, <2>3, TimerIsAfterWrites
  <2>5. call'[c].at \in Mends
    BY <2>1 DEF Mends
  <2>6. WritesMean'
    BY <1>a, <2>1 DEF WritesMean
  <2>7. QED
    BY <2>2, <2>4, <2>5, <2>6
    DEF RecordInv, AwakeIsBlank, RecordFollows, NoLateWrite, SleepingIsRecorded,
        AwakeIsRecorded, FailedIsRecorded
<1>8. QED
  BY <1>1, <1>2, <1>3, <1>4, <1>5, <1>6, <1>7

(* A step of wake() keeps the record in step.                                *)
LEMMA WakeRecords ==
  ASSUME SlowDisk = FALSE, SleepTypeOK, SleepInv, RecordInv, NEW c \in Calls,
         \/ Wake(c) \/ ClearsLine(c) \/ TypesResume(c) \/ SeesAgent(c) \/ Removed(c) \/ Fails(c)
         \/ RecordsFailure(c) \/ Ready(c) \/ RecordsReady(c) \/ ReadyRecorded(c)
  PROVE  RecordInv'
<1>a. /\ CallsOK /\ LiveOK /\ SleepIsAlone /\ StartsEmpty /\ PhaseIsTrue /\ GateIsQuiet /\ FileFollows
      /\ AwakeIsBlank /\ WritesMean /\ RecordFollows
  BY TypeParts DEF SleepInv, RecordInv
<1>1. CASE Wake(c)
  <2>1. \A d \in Calls : /\ call'[d].at = IF d = c THEN "wakeRecording" ELSE call[d].at
                         /\ call'[d].saving = IF d = c THEN "waking" ELSE call[d].saving
    BY <1>a, <1>1 DEF Wake, WakeStarts, CallsOK, Call
  <2>2. live'.phase = "waking"
    BY <1>a, <1>1 DEF Wake, WakeStarts, LiveOK, Live
  <2>3. QED
    BY <1>a, <2>1, <2>2
    DEF RecordInv, AwakeIsBlank, WritesMean, RecordFollows, NoLateWrite, SleepingIsRecorded,
        AwakeIsRecorded, FailedIsRecorded, Gated
<1>2. CASE ClearsLine(c)
  <2>1. \A d \in Calls : /\ call'[d].at = IF d = c THEN "clearing" ELSE call[d].at
                         /\ call'[d].saving = call[d].saving
    BY <1>a, <1>2, AtMoves DEF ClearsLine
  <2>2. /\ call[c].at = "wakeRecording"
        /\ live' = live /\ restored' = restored /\ alive' = alive
    BY <1>2 DEF ClearsLine, world
  <2>3. AwakeIsBlank' /\ WritesMean'
    BY <1>a, <2>1, <2>2 DEF AwakeIsBlank, WritesMean
  <2>4. ASSUME restored, alive  PROVE live.phase = "waking"
    BY <1>a, <2>2, <2>4 DEF RecordFollows, NoLateWrite, Gated, PhaseIsTrue, Waking
  <2>5. QED
    BY <2>2, <2>3, <2>4
    DEF RecordInv, RecordFollows, NoLateWrite, SleepingIsRecorded, AwakeIsRecorded,
        FailedIsRecorded, Gated
<1>3. CASE TypesResume(c) \/ Removed(c)
  <2>1. \A d \in Calls : d /= c => call'[d].at = call[d].at /\ call'[d].saving = call[d].saving
    BY <1>a, <1>3 DEF TypesResume, Removed, CallsOK, Call
  <2>2. /\ call[c].at \in {"clearing", "waitReady"}
        /\ call'[c].at = IF Removed(c) THEN "idle" ELSE "waitReady"
        /\ live' = live /\ meta' = meta /\ file' = file /\ restored' = restored /\ alive' = alive
    BY <1>a, <1>3 DEF TypesResume, Removed, Timer, CallsOK, Call, Idle, world
  <2>3. CASE restored /\ alive /\ live.phase = "failed"
    BY <1>a, <2>2, <2>3 DEF RecordFollows, FailedIsRecorded
  <2>4. CASE live.phase /= "failed"
    BY <2>1, <2>2, <2>4, RecordKept DEF Telling, Mends
  <2>5. CASE ~(restored /\ alive)
    BY <1>a, <2>1, <2>2, <2>5 DEF RecordInv, AwakeIsBlank, WritesMean, RecordFollows
  <2>6. QED
    BY <2>3, <2>4, <2>5
<1>4. CASE SeesAgent(c)
  <2>1. call' = call /\ live'.phase = live.phase /\ live.phase /= "awake"
    BY <1>a, <1>4 DEF SeesAgent, LiveOK, Live, AwakeIsBlank
  <2>2. meta' = meta /\ file' = file /\ restored' = restored /\ alive' = alive
    BY <1>4 DEF SeesAgent, world
  <2>3. QED
    BY <1>a, <2>1, <2>2
    DEF RecordInv, AwakeIsBlank, WritesMean, RecordFollows, NoLateWrite, SleepingIsRecorded,
        AwakeIsRecorded, FailedIsRecorded, Gated
<1>5. CASE Fails(c)
  <2>1. \A d \in Calls : /\ call'[d].at = IF d = c THEN "failing" ELSE call[d].at
                         /\ call'[d].saving = call[d].saving
    BY <1>a, <1>5, AtMoves DEF Fails
  <2>2. /\ live'.phase = "failed" /\ restored' = restored /\ alive' = alive
        /\ call[c].at = "waitReady" /\ Timer(c, "waitReady") /\ live /= Awake
    BY <1>a, <1>5 DEF Fails, LiveOK, Live, Timer, world
  <2>3. WritesMean'
    BY <1>a, <2>1, <2>2 DEF WritesMean
  <2>4. ASSUME restored, alive  PROVE Gated
    BY <1>a, <2>2, <2>4 DEF RecordFollows, FailedIsRecorded, AwakeIsBlank, LiveOK, Live, Phases, Gated
  <2>5. \A d \in Calls : call[d].at \notin {"recording", "wakeRecording"}
    BY <2>2, TimerIsAfterWrites
  <2>6. ASSUME restored, alive
        PROVE  \A d \in Calls : d /= c => call[d].at \in {"idle", "waitGone"}
    BY <1>a, <2>2, <2>4, <2>5, <2>6 DEF GateIsQuiet, SleepInv, OneWake, Waking
  <2>7. ASSUME restored, alive  PROVE NoLateWrite' /\ FailedIsRecorded'
    BY <2>1, <2>2, <2>6, <2>7 DEF NoLateWrite, FailedIsRecorded
  <2>8. QED
    BY <2>2, <2>3, <2>7
    DEF RecordInv, AwakeIsBlank, RecordFollows, SleepingIsRecorded, AwakeIsRecorded
<1>6. CASE RecordsFailure(c)
  <2>1. \A d \in Calls : /\ call'[d].at = IF d = c THEN "failRecording" ELSE call[d].at
                         /\ call'[d].saving = IF d = c THEN "failed" ELSE call[d].saving
    BY <1>a, <1>6 DEF RecordsFailure, Saves, CallsOK, Call
  <2>2. /\ call[c].at = "failing" /\ meta' = "failed"
        /\ live' = live /\ file' = file /\ restored' = restored /\ alive' = alive
    BY <1>6 DEF RecordsFailure, Saves, world
  <2>3. ~Gated
    BY <1>a, <2>2 DEF GateIsQuiet, Waking
  <2>4. AwakeIsBlank' /\ WritesMean'
    BY <1>a, <2>1, <2>2 DEF AwakeIsBlank, WritesMean
  <2>5. QED
    BY <1>a, <2>1, <2>2, <2>3, <2>4
    DEF RecordInv, RecordFollows, NoLateWrite, SleepingIsRecorded, AwakeIsRecorded,
        FailedIsRecorded, Gated, Mends
<1>7. CASE Ready(c)
  <2>1. \A d \in Calls : /\ call'[d].at = IF d = c THEN "readying" ELSE call[d].at
                         /\ call'[d].saving = call[d].saving
    BY <1>a, <1>7 DEF Ready, CallsOK, Call
  <2>2. live' = Awake /\ live'.phase = "awake" /\ Timer(c, "waitReady")
    BY <1>7, AwakeIs DEF Ready
  <2>3. \A d \in Calls : call'[d].at \notin {"recording", "wakeRecording"}
    BY <2>1, <2>2, TimerIsAfterWrites
  <2>4. WritesMean'
    BY <1>a, <2>1 DEF WritesMean
  <2>5. QED
    BY <2>1, <2>2, <2>3, <2>4
    DEF RecordInv, AwakeIsBlank, RecordFollows, NoLateWrite, SleepingIsRecorded,
        AwakeIsRecorded, FailedIsRecorded
<1>8. CASE RecordsReady(c)
  <2>1. \A d \in Calls : /\ call'[d].at = IF d = c THEN "readyRecording" ELSE call[d].at
                         /\ call'[d].saving = IF d = c THEN "awake" ELSE call[d].saving
    BY <1>a, <1>8 DEF RecordsReady, Saves, CallsOK, Call
  <2>2. /\ call[c].at = "readying" /\ meta' = "awake"
        /\ live' = live /\ file' = file /\ restored' = restored /\ alive' = alive
    BY <1>8 DEF RecordsReady, Saves, world
  <2>3. ~Gated
    BY <1>a, <2>2 DEF GateIsQuiet, Waking
  <2>4. AwakeIsBlank' /\ WritesMean'
    BY <1>a, <2>1, <2>2 DEF AwakeIsBlank, WritesMean
  <2>5. QED
    BY <1>a, <2>1, <2>2, <2>3, <2>4
    DEF RecordInv, RecordFollows, NoLateWrite, SleepingIsRecorded, AwakeIsRecorded,
        FailedIsRecorded, Gated, Mends
<1>9. CASE ReadyRecorded(c)
  <2>1. \A d \in Calls : /\ call'[d].at = IF d = c THEN "draining" ELSE call[d].at
                         /\ call'[d].saving = call[d].saving
    BY <1>a, <1>9, AtMoves DEF ReadyRecorded
  <2>2. /\ call[c].at = "readyRecording" /\ file' = call[c].saving
        /\ live' = live /\ meta' = meta /\ restored' = restored /\ alive' = alive
    BY <1>9 DEF ReadyRecorded, world
  <2>3. ~Gated /\ file' = "awake"
    BY <1>a, <2>2 DEF GateIsQuiet, Waking, WritesMean
  <2>4. AwakeIsBlank' /\ WritesMean'
    BY <1>a, <2>1, <2>2 DEF AwakeIsBlank, WritesMean
  <2>5. QED
    BY <1>a, <2>1, <2>2, <2>3, <2>4
    DEF RecordInv, RecordFollows, NoLateWrite, SleepingIsRecorded, AwakeIsRecorded,
        FailedIsRecorded, Gated, Mends
<1>10. QED
  BY <1>1, <1>2, <1>3, <1>4, <1>5, <1>6, <1>7, <1>8, <1>9

(* Dismiss, the start hook and the ends of calls keep the record in step.       *)
LEMMA EndRecords ==
  ASSUME SleepTypeOK, SleepInv, RecordInv, NEW c \in Calls, Dismiss(c) \/ Hook(c) \/ Ends(c)
  PROVE  RecordInv'
<1>a. /\ CallsOK /\ LiveOK /\ SleepIsAlone /\ StartsEmpty /\ PhaseIsTrue /\ GateIsQuiet /\ FileFollows
      /\ AwakeIsBlank /\ WritesMean /\ RecordFollows
  BY TypeParts DEF SleepInv, RecordInv
<1>1. CASE Dismiss(c) \/ (Hook(c) /\ live.phase = "failed")
  <2>1. \A d \in Calls : /\ call'[d].at = IF d = c THEN "noting" ELSE call[d].at
                         /\ call'[d].saving = IF d = c THEN "awake" ELSE call[d].saving
    BY <1>a, <1>1 DEF Dismiss, Hook, Saves, CallsOK, Call
  <2>2. /\ live' = Awake /\ live'.phase = "awake" /\ meta' = "awake" /\ live.phase = "failed"
        /\ restored' = restored /\ alive' = alive
    BY <1>1, AwakeIs DEF Dismiss, Hook, Saves, world
  <2>3. ~Gated
    BY <2>2 DEF Gated
  <2>4. WritesMean' /\ "noting" \in Mends
    BY <1>a, <2>1 DEF WritesMean, Mends
  <2>5. QED
    BY <1>a, <2>1, <2>2, <2>3, <2>4
    DEF RecordInv, AwakeIsBlank, RecordFollows, NoLateWrite, SleepingIsRecorded,
        AwakeIsRecorded, FailedIsRecorded, Gated
<1>2. CASE Hook(c) /\ live.phase = "waking"
  <2>1. /\ call' = call /\ meta' = meta /\ file' = file /\ live'.phase = live.phase
        /\ restored' = restored /\ alive' = alive
    BY <1>a, <1>2 DEF Hook, LiveOK, Live
  <2>2. QED
    BY <1>a, <1>2, <2>1
    DEF RecordInv, AwakeIsBlank, WritesMean, RecordFollows, NoLateWrite, SleepingIsRecorded,
        AwakeIsRecorded, FailedIsRecorded, Gated
<1>3. CASE Hook(c) /\ live.phase \notin {"waking", "failed"}
  <2>1. /\ call' = call /\ live' = live /\ meta' = meta /\ file' = file
        /\ restored' = restored /\ alive' = alive
    BY <1>3 DEF Hook
  <2>2. QED
    BY <1>a, <2>1
    DEF RecordInv, AwakeIsBlank, WritesMean, RecordFollows, NoLateWrite, SleepingIsRecorded,
        AwakeIsRecorded, FailedIsRecorded, Gated
<1>4. CASE Ends(c)
  <2>1. \A d \in Calls : /\ call'[d].at = IF d = c THEN "idle" ELSE call[d].at
                         /\ d /= c => call'[d].saving = call[d].saving
    BY <1>a, <1>4, AtIdles DEF Ends
  <2>2. /\ call[c].at \in {"undoing", "failRecording", "noting"} /\ file' = call[c].saving
        /\ live' = live /\ meta' = meta /\ restored' = restored /\ alive' = alive
    BY <1>4 DEF Ends, world
  <2>3. ~Gated
    BY <1>a, <2>2 DEF GateIsQuiet, Waking
  <2>4. AwakeIsBlank' /\ WritesMean'
    BY <1>a, <2>1, <2>2 DEF AwakeIsBlank, WritesMean
  <2>5. file' = IF call[c].at = "failRecording" THEN "failed" ELSE "awake"
    BY <1>a, <2>2 DEF WritesMean
  <2>6. ASSUME restored, alive
        PROVE  NoLateWrite' /\ AwakeIsRecorded' /\ FailedIsRecorded'
    <3>1. NoLateWrite /\ AwakeIsRecorded /\ FailedIsRecorded
      BY <1>a, <2>6 DEF RecordFollows
    <3>2. NoLateWrite'
      BY <2>1, <2>2, <2>3, <3>1 DEF NoLateWrite, Gated
    <3>3. AwakeIsRecorded'
      BY <2>1, <2>2, <2>5, <3>1 DEF AwakeIsRecorded
    <3>4. FailedIsRecorded'
      BY <2>1, <2>2, <2>5, <3>1 DEF FailedIsRecorded
    <3>5. QED
      BY <3>2, <3>3, <3>4
  <2>7. QED
    BY <2>2, <2>3, <2>4, <2>6 DEF RecordInv, RecordFollows, SleepingIsRecorded, Gated
<1>5. QED
  BY <1>1, <1>2, <1>3, <1>4 DEF Hook

(* A key written through the gate keeps the record in step: if it wakes the      *)
(* agent, the wake will tell it.                                            *)
LEMMA WriteRecords ==
  ASSUME SleepTypeOK, SleepInv, RecordInv, NEW k, NEW ks, NEW calls \in [Calls -> Call],
         \A d \in Calls : calls[d].at = call[d].at /\ calls[d].saving = call[d].saving,
         Write(k, ks, calls),
         UNCHANGED <<file, restored, alive>>
  PROVE  RecordInv'
<1>a. LiveOK /\ AwakeIsBlank /\ WritesMean /\ RecordFollows
  BY TypeParts DEF RecordInv
<1>1. CASE call' = calls /\ live' = live /\ meta' = meta
  <2>1. \A d \in Calls : call'[d].at = call[d].at /\ call'[d].saving = call[d].saving
    BY <1>1
  <2>2. QED
    BY <1>a, <1>1, <2>1
    DEF RecordInv, AwakeIsBlank, WritesMean, RecordFollows, NoLateWrite, SleepingIsRecorded,
        AwakeIsRecorded, FailedIsRecorded, Gated
<1>2. CASE alive /\ gate /\ Gated
  <2> DEFINE l == IF Len(live.queue) < QueueMax THEN [live EXCEPT !.queue = Append(@, k)]
                                               ELSE live
  <2>1. \/ live.phase = "sleeping" /\ \E d \in Calls : WakeStarts(l, calls, d)
        \/ live.phase = "waking" /\ live' = l /\ call' = calls
    BY <1>2 DEF Write
  <2>2. l \in [phase : Phases, queue : {l.queue}, started : BOOLEAN] /\ l.phase = live.phase
    BY <1>a DEF LiveOK, Live
  <2> HIDE DEF l
  <2>3. live'.phase = "waking"
    BY <2>1, <2>2 DEF WakeStarts
  <2>4. \A e \in Calls :
          \/ call'[e].at = call[e].at /\ call'[e].saving = call[e].saving
          \/ call'[e].at = "wakeRecording"
    <3>1. CASE \E d \in Calls : WakeStarts(l, calls, d)
      <4>1. PICK d \in Calls : WakeStarts(l, calls, d)
        BY <3>1
      <4>2. \A e \in Calls : /\ call'[e].at = IF e = d THEN "wakeRecording" ELSE calls[e].at
                             /\ e /= d => call'[e].saving = calls[e].saving
        BY <4>1 DEF WakeStarts, Call
      <4>3. QED
        BY <4>2
    <3>2. QED
      BY <2>1, <3>1
  <2>5. WritesMean'
    BY <1>a, <2>4 DEF WritesMean
  <2>6. QED
    BY <2>3, <2>5
    DEF RecordInv, AwakeIsBlank, RecordFollows, NoLateWrite, SleepingIsRecorded,
        AwakeIsRecorded, FailedIsRecorded, Gated
<1>3. QED
  BY <1>1, <1>2 DEF Write

(* Draining the queue keeps the record in step.                              *)
LEMMA DrainsRecords ==
  ASSUME SleepTypeOK, SleepInv, RecordInv, NEW c \in Calls, Drains(c)
  PROVE  RecordInv'
<1>a. CallsOK /\ RecordFollows
  BY TypeParts DEF RecordInv
<1>1. /\ call[c].at = "draining"
      /\ file' = file /\ restored' = restored /\ alive' = alive
  BY DEF Drains, world
<1>2. CASE call[c].drain = <<>>
  <2>1. call' = [call EXCEPT ![c] = Idle] /\ live' = live /\ meta' = meta
    BY <1>2 DEF Drains
  <2>2. \A d \in Calls : /\ call'[d].at = IF d = c THEN "idle" ELSE call[d].at
                         /\ d /= c => call'[d].saving = call[d].saving
    BY <1>a, <2>1, AtIdles
  <2>3. QED
    BY <1>1, <2>1, <2>2, RecordKept DEF Telling, Mends
<1>3. CASE call[c].drain /= <<>>
  <2>1. call[c].drain \in Seq(1 .. MaxTyped)
    BY <1>a DEF CallsOK, Call
  <2>2. Tail(call[c].drain) \in Seq(1 .. MaxTyped)
    BY <1>3, <2>1, HeadTailIn
  <2> DEFINE calls == [call EXCEPT ![c].drain = Tail(@)]
  <2>3. calls \in [Calls -> Call]
    BY <1>a, <2>2 DEF CallsOK, Call
  <2>4. \A d \in Calls : calls[d].at = call[d].at /\ calls[d].saving = call[d].saving
    BY <1>a DEF CallsOK, Call
  <2>5. Write(Head(call[c].drain), keys, calls)
    BY <1>3 DEF Drains
  <2> HIDE DEF calls
  <2>6. QED
    BY <1>1, <2>3, <2>4, <2>5, WriteRecords
<1>4. QED
  BY <1>2, <1>3

(* So does a key the user types.                                            *)
LEMMA TypeRecords ==
  ASSUME SleepTypeOK, SleepInv, RecordInv, Type
  PROVE  RecordInv'
<1>1. call \in [Calls -> Call]
  BY DEF SleepTypeOK
<1>2. /\ Write(keys.typed + 1, [keys EXCEPT !.typed = @ + 1], call)
      /\ UNCHANGED <<file, restored, alive>>
  BY DEF Type, world
<1>3. QED
  BY <1>1, <1>2, WriteRecords

(* Agents and panes that come and go leave the record in step, and a server that *)
(* starts takes it as it is (restore).                                       *)
LEMMA WorldRecords ==
  ASSUME SleepTypeOK, SleepInv, RecordInv,
         AgentStarts \/ ResumeFails \/ AgentExits \/ Dies \/ Crash \/ Restore
  PROVE  RecordInv'
<1>a. FlagsOK /\ StartsEmpty /\ AwakeIsBlank /\ WritesMean /\ RecordFollows
  BY TypeParts DEF SleepInv, RecordInv
<1>1. CASE AgentStarts \/ ResumeFails \/ AgentExits \/ Dies
  <2>1. /\ call' = call /\ live' = live /\ meta' = meta /\ file' = file
        /\ restored' = restored /\ (alive' => alive)
    BY <1>1 DEF AgentStarts, ResumeFails, AgentExits, Dies, memory
  <2>2. QED
    BY <1>a, <2>1
    DEF RecordInv, AwakeIsBlank, WritesMean, RecordFollows, NoLateWrite, SleepingIsRecorded,
        AwakeIsRecorded, FailedIsRecorded, Gated
<1>2. CASE Crash
  <2>1. /\ \A d \in Calls : call'[d].at = "idle"
        /\ live' = Awake /\ restored' = FALSE
    BY <1>2 DEF Crash, Idle
  <2>2. QED
    BY <2>1 DEF RecordInv, AwakeIsBlank, WritesMean, RecordFollows
<1>3. CASE Restore
  <2>1. /\ call' = call /\ \A d \in Calls : call[d].at = "idle"
        /\ live = Awake /\ meta = file /\ alive' = alive
    BY <1>a, <1>3 DEF Restore, StartsEmpty, world
  <2>2. WritesMean'
    BY <2>1 DEF WritesMean
  <2>3. CASE alive /\ meta \in {"sleeping", "waking"}
    <3>1. live'.phase = "sleeping" /\ meta' = "sleeping" /\ file' = "sleeping"
      BY <1>3, <2>3 DEF Restore, Awake
    <3>2. QED
      BY <2>1, <2>2, <3>1
      DEF RecordInv, AwakeIsBlank, RecordFollows, NoLateWrite, SleepingIsRecorded,
          AwakeIsRecorded, FailedIsRecorded, Gated
  <2>4. CASE alive /\ meta \notin {"sleeping", "waking"}
    <3>1. /\ live' = [Awake EXCEPT !.phase = meta] /\ live'.phase = meta
          /\ meta' = meta /\ file' = file
      BY <1>3, <2>4 DEF Restore, Awake
    <3>2. meta \in {"awake", "failed"}
      BY <1>a, <2>4 DEF FlagsOK, Phases
    <3>3. AwakeIsBlank'
      BY <3>1 DEF AwakeIsBlank, Awake
    <3>4. QED
      BY <2>1, <2>2, <3>1, <3>2, <3>3
      DEF RecordInv, RecordFollows, NoLateWrite, SleepingIsRecorded, AwakeIsRecorded,
          FailedIsRecorded, Gated
  <2>5. CASE ~alive
    <3>1. live' = Awake /\ ~alive'
      BY <1>3, <2>1, <2>5 DEF Restore
    <3>2. QED
      BY <2>2, <3>1 DEF RecordInv, AwakeIsBlank, RecordFollows
  <2>6. QED
    BY <2>3, <2>4, <2>5
<1>4. QED
  BY <1>1, <1>2, <1>3

(* At first the pane is awake, and recorded so.                              *)
LEMMA InitRecords == Init => RecordInv
<1> SUFFICES ASSUME Init  PROVE RecordInv
  OBVIOUS
<1>1. /\ \A c \in Calls : call[c].at = "idle"
      /\ live = Awake /\ live.phase = "awake" /\ meta = "awake" /\ file = "awake"
  BY AwakeIs DEF Init, Idle
<1>2. QED
  BY <1>1
  DEF RecordInv, AwakeIsBlank, WritesMean, RecordFollows, NoLateWrite, SleepingIsRecorded,
      AwakeIsRecorded, FailedIsRecorded

(* Every step keeps the record in step.                                      *)
LEMMA NextRecords ==
  ASSUME Hasty = FALSE, SlowDisk = FALSE
  PROVE  SleepTypeOK /\ SleepInv /\ RecordInv /\ [Next]_vars => RecordInv'
<1> SUFFICES ASSUME SleepTypeOK, SleepInv, RecordInv, [Next]_vars  PROVE RecordInv'
  OBVIOUS
<1>1. ASSUME NEW c \in Calls, Sleep(c) \/ Wake(c) \/ Dismiss(c) \/ Hook(c) \/ Step(c)
      PROVE  RecordInv'
  BY <1>1, SleepRecords, WakeRecords, EndRecords, DrainsRecords, Zenon DEF Step
<1>2. CASE UNCHANGED vars
  BY <1>2
  DEF vars, RecordInv, AwakeIsBlank, WritesMean, RecordFollows, NoLateWrite, SleepingIsRecorded,
      AwakeIsRecorded, FailedIsRecorded, Gated
<1>3. QED
  BY <1>1, <1>2, TypeRecords, WorldRecords, Zenon DEF Next

(* When no call is under way memory, disk and the sleeper agree on the pane,     *)
(* for any number of calls, keys and restarts, as long as no sleep begins while  *)
(* another call is under way and no write outlasts a timer: a slow write of      *)
(* "sleeping" would land after the wake's "awake" (setMeta).                  *)
THEOREM SleepRecordAgrees ==
  ASSUME Hasty = FALSE, SlowDisk = FALSE
  PROVE  Spec => []RecordAgrees
<1>1. SleepTypeOK /\ SleepInv /\ RecordInv => RecordAgrees
  <2> SUFFICES ASSUME SleepTypeOK, SleepInv, RecordInv,
                      restored, alive, \A c \in Calls : call[c].at = "idle",
                      NEW record \in {meta, file}
               PROVE  record = live.phase \/ (record = "failed" /\ live = Awake)
    BY DEF RecordAgrees
  <2>1. live.phase \in Phases /\ live.phase /= "waking"
    BY DEF SleepTypeOK, Live, SleepInv, PhaseIsTrue, Waking
  <2>2. SleepingIsRecorded /\ AwakeIsRecorded /\ FailedIsRecorded /\ AwakeIsBlank
    BY DEF RecordInv, RecordFollows
  <2>3. QED
    BY <2>1, <2>2
    DEF SleepingIsRecorded, AwakeIsRecorded, FailedIsRecorded, AwakeIsBlank, Phases, Mends
<1>2. (SleepTypeOK /\ SleepInv) /\ RecordInv /\ [Next]_vars => RecordInv'
  BY NextRecords
<1>3. QED
  BY <1>1, <1>2, InitRecords, SleepInvHolds, PTL DEF Spec
=============================================================================
