---------------------------- MODULE HolderLink ----------------------------
(***************************************************************************)
(* One PTY holder (holder/src/main.rs) and the sessions of the servers that   *)
(* connect to it (packages/server/src/session.ts, session-manager.ts).       *)
(*                                                                         *)
(* The holder keeps the PTY and a ring of its last output, and lets one        *)
(* connection at a time control it.  A server claims that role, rebuilds the   *)
(* screen from the checkpoint on disk and the holder's replay, and from then   *)
(* on follows the output.  A connection stands for one Session object of one   *)
(* server process; a server that starts again is another connection.           *)
(***************************************************************************)
EXTENDS Integers, Sequences, SequencesExt

CONSTANTS
  Conns,        \* connections made in the holder's life
  None,         \* no connection
  Takers,       \* those that claim with takeover
  RingCap,      \* capacity of the holder's ring, in chunks
  MaxOut        \* bound of the model: chunks the PTY puts out

ASSUME LinkAssumption ==
  /\ None \notin Conns /\ Takers \subseteq Conns
  /\ RingCap \in Nat \ {0} /\ MaxOut \in Nat

VARIABLES
  holder,       \* the holder process, see Holder
  toHolder,     \* frames on the wire, per connection
  toServer,
  session,      \* what the server knows of each connection, see Session
  disk,         \* the manifest and the checkpoint
  disturbed     \* ghost: what has come between the steps, see Disturbances

vars == <<holder, toHolder, toServer, session, disk, disturbed>>

(* written counts the chunks put out; the ring holds the last RingCap of them. *)
Holder == [client : Conns \cup {None}, pending : Conns \cup {None}, backlog : SUBSET Conns,
           written : 0 .. MaxOut, alive : BOOLEAN, up : BOOLEAN]

Replies == {"state", "acquired", "denied", "evicted", "exit", "out", "dump", "replay", "close"}
Requests == {"acquire", "takeover", "dumpReq", "dumpSince", "kill", "close"}

(* A reply stands for the chunks after from, up to to; a request for those      *)
(* after from.  close is the end of the stream.                             *)
Reply == [cmd : Replies, from : 0 .. MaxOut, to : 0 .. MaxOut, gap : BOOLEAN]
Request == [cmd : Requests, from : 0 .. MaxOut + MaxOut]

Say(cmd) == [cmd |-> cmd, from |-> 0, to |-> 0, gap |-> FALSE]
Ask(cmd) == [cmd |-> cmd, from |-> 0]

Handshake == {"dialing", "claiming", "replaying", "dumping", "finishing"}
Stages == {"new", "driving", "denied", "failed", "gone"} \cup Handshake

Checkpoint == [offset : 0 .. MaxOut + MaxOut, screen : Seq(1 .. MaxOut)]
NoCheckpoint == [offset |-> 0, screen |-> <<>>]

(* queue is what xterm has not parsed yet, final the write whose callback ends  *)
(* the handshake; buffered the frames kept until then; exit why it closed.     *)
Session == [at : Stages, exit : {"none", "lost", "evicted", "ended"},
            applied : 0 .. MaxOut + MaxOut, seed : Checkpoint, gap : BOOLEAN,
            screen : Seq(1 .. MaxOut),
            queue : Seq([data : Seq(1 .. MaxOut), final : BOOLEAN]), buffered : Seq(Reply)]

NewSession == [at |-> "new", exit |-> "none", applied |-> 0, seed |-> NoCheckpoint, gap |-> FALSE,
               screen |-> <<>>, queue |-> <<>>, buffered |-> <<>>]

Disturbances == {"handshake",   \* output while a connection is between STATE and its replay
                 "save",        \* a checkpoint taken while xterm had bytes to parse
                 "late",        \* a claim that came after the holder's 1.5 s
                 "overtaken"}   \* a connection dropped for another before its handshake was over

Chunks(a, b) == [i \in 1 .. b - a |-> a + i]
Lowest(a, b) == IF a < b THEN a ELSE b

BaseOffset == IF holder.written > RingCap THEN holder.written - RingCap ELSE 0

At(c, stages) == session[c].at \in stages

-----------------------------------------------------------------------------
(* The holder.  What it writes to a connection whose server is gone is lost.   *)

Deaf(c) == At(c, {"gone", "failed", "denied"})

(* The replies in say[c] go out to every connection c.                       *)
Tell(say) ==
  toServer' = [c \in Conns |-> IF Deaf(c) THEN toServer[c] ELSE toServer[c] \o say[c]]

To(c, replies) == [d \in Conns |-> IF d = c THEN replies ELSE <<>>]

Accept(c) ==
  /\ holder.up /\ c \in holder.backlog
  /\ holder' = [holder EXCEPT !.backlog = @ \ {c}, !.pending = c]
  /\ Tell([d \in Conns |->
       CASE d = c -> <<[Say("state") EXCEPT !.to = holder.written]>>
                     \o (IF holder.alive THEN <<>> ELSE <<Say("exit")>>)
         [] d = holder.pending -> <<Say("close")>>
         [] OTHER -> <<>>])
  /\ toHolder' = [d \in Conns |-> IF d = holder.pending THEN <<>> ELSE toHolder[d]]
  /\ disturbed' = disturbed \cup (IF holder.pending = None THEN {} ELSE {"overtaken"})
  /\ UNCHANGED <<session, disk>>

Takes(c) == holder.client = None \/ Head(toHolder[c]).cmd = "takeover"

(* Mutant: the controller that loses the lease is not told so.                *)
EvictionInSilence == <<Say("close")>>

Eviction == <<Say("evicted"), Say("close")>>

(* The pending connection claims the lease, and gets it if nobody has it or it  *)
(* asks for takeover.                                                      *)
Claims(c) ==
  LET old == holder.client
      takes == Takes(c)
  IN
  /\ holder.pending = c
  /\ toHolder[c] /= <<>> /\ Head(toHolder[c]).cmd \in {"acquire", "takeover"}
  /\ Tell([d \in Conns |->
       CASE d = c -> IF takes THEN <<Say("acquired")>> ELSE <<Say("denied"), Say("close")>>
         [] d = old -> IF takes THEN Eviction ELSE <<>>
         [] OTHER -> <<>>])
  /\ toHolder' = [d \in Conns |->
       CASE d = c -> IF takes THEN Tail(toHolder[c]) ELSE <<>>
         [] d = old -> IF takes THEN <<>> ELSE toHolder[d]
         [] OTHER -> toHolder[d]]
  /\ holder' = [holder EXCEPT !.pending = None, !.client = IF takes THEN c ELSE @]
  /\ disturbed' = disturbed \cup (IF takes /\ old /= None /\ At(old, Handshake) THEN {"overtaken"} ELSE {})
  /\ UNCHANGED <<session, disk>>

(* Silence for 1.5 s: promoted as a legacy server.  The controller it replaces  *)
(* is dropped without a word.                                               *)
ClaimTimeout(c) ==
  /\ holder.pending = c /\ toHolder[c] = <<>>
  /\ holder' = [holder EXCEPT !.pending = None, !.client = c]
  /\ Tell(To(holder.client, <<Say("close")>>))
  /\ toHolder' = [d \in Conns |-> IF d = holder.client THEN <<>> ELSE toHolder[d]]
  /\ disturbed' = disturbed \cup {"late"}
  /\ UNCHANGED <<session, disk>>

HangsUp(c) ==
  /\ c \in {holder.pending, holder.client} /\ holder.up
  /\ toHolder[c] /= <<>> /\ Head(toHolder[c]).cmd = "close"
  /\ holder' = [holder EXCEPT !.pending = IF @ = c THEN None ELSE @, !.client = IF @ = c THEN None ELSE @]
  /\ toHolder' = [toHolder EXCEPT ![c] = <<>>]
  /\ UNCHANGED <<toServer, session, disk, disturbed>>

(* A head cut at the ring's edge is trimmed to a lexically safe offset, if one   *)
(* is left.                                                                *)
Trimmed(from) == IF from < BaseOffset THEN BaseOffset .. holder.written ELSE {Lowest(from, holder.written)}

(* Mutant: a replay starts one chunk after what was asked for.                *)
WantedNext(c) == Head(toHolder[c]).from + 1

Wanted(c) == Head(toHolder[c]).from

Replay(c) ==
  /\ holder.client = c /\ toHolder[c] /= <<>>
  /\ Head(toHolder[c]).cmd \in {"dumpReq", "dumpSince"}
  /\ \E from \in Trimmed(Wanted(c)) :
       Tell(To(c, <<[cmd |-> IF Head(toHolder[c]).cmd = "dumpReq" THEN "dump" ELSE "replay",
                     from |-> from, to |-> holder.written,
                     gap |-> Wanted(c) < BaseOffset]>>))
  /\ toHolder' = [toHolder EXCEPT ![c] = Tail(@)]
  /\ UNCHANGED <<holder, session, disk, disturbed>>

(* A claim that comes too late is no frame a controller sends.                *)
Ignores(c) ==
  /\ holder.client = c /\ toHolder[c] /= <<>>
  /\ Head(toHolder[c]).cmd \in {"acquire", "takeover"}
  /\ toHolder' = [toHolder EXCEPT ![c] = Tail(@)]
  /\ UNCHANGED <<holder, toServer, session, disk, disturbed>>

HolderReads(c) == Claims(c) \/ HangsUp(c) \/ Replay(c) \/ Ignores(c)

(* The controller kills the session, or its program ends.                     *)
PtyExits ==
  /\ holder.alive
  /\ \/ UNCHANGED toHolder
     \/ \E c \in Conns : /\ holder.client = c /\ toHolder[c] /= <<>> /\ Head(toHolder[c]).cmd = "kill"
                         /\ toHolder' = [toHolder EXCEPT ![c] = Tail(@)]
  /\ holder' = [holder EXCEPT !.alive = FALSE]
  /\ Tell(To(holder.client, <<Say("exit")>>))
  /\ UNCHANGED <<session, disk, disturbed>>

(* A write to a connection that has hung up drops it, what it sent before       *)
(* included.                                                               *)
Output ==
  LET c == holder.client
      drops == c /= None /\ Ask("close") \in ToSet(toHolder[c])
      n == holder.written + 1
  IN
  /\ holder.alive /\ holder.written < MaxOut
  /\ holder' = [holder EXCEPT !.written = n, !.client = IF drops THEN None ELSE c]
  /\ toHolder' = [d \in Conns |-> IF drops /\ d = c THEN <<>> ELSE toHolder[d]]
  /\ Tell(To(c, <<[Say("out") EXCEPT !.from = n - 1, !.to = n]>>))
  /\ disturbed' = disturbed \cup
       (IF holder.pending /= None \/ (c /= None /\ At(c, Handshake)) THEN {"handshake"} ELSE {})
  /\ UNCHANGED <<session, disk>>

(* 30 s after the end of the PTY.                                           *)
HolderExits ==
  /\ holder.up /\ ~holder.alive
  /\ holder' = [holder EXCEPT !.up = FALSE, !.client = None, !.pending = None, !.backlog = {}]
  /\ Tell([c \in Conns |->
       IF c \in {holder.client, holder.pending} \cup holder.backlog THEN <<Say("close")>> ELSE <<>>])
  /\ toHolder' = [c \in Conns |-> <<>>]
  /\ disk' = [disk EXCEPT !.manifest = FALSE]
  /\ UNCHANGED <<session, disturbed>>

-----------------------------------------------------------------------------
(* The session of a server.                                                *)

(* Frames to a holder that has closed the connection are lost.                *)
Connected(c) == c \in {holder.client, holder.pending} \cup holder.backlog

Send(c, requests) ==
  toHolder' = [toHolder EXCEPT ![c] = IF Connected(c) THEN @ \o requests ELSE @]

(* recoverOne: the checkpoint is read, then the socket is dialled.             *)
Connect(c) ==
  /\ At(c, {"new"}) /\ disk.manifest /\ holder.up
  /\ session' = [session EXCEPT ![c].at = "dialing", ![c].seed = disk.checkpoint]
  /\ holder' = [holder EXCEPT !.backlog = @ \cup {c}]
  /\ UNCHANGED <<toHolder, toServer, disk, disturbed>>

Closed(x) == [x EXCEPT !.exit = IF @ = "none" THEN "lost" ELSE @]

(* handleHolderFrame                                                       *)
HandleHolderFrame(x, f) ==
  CASE f.cmd = "out" /\ x.exit = "none" ->
         [x EXCEPT !.applied = @ + 1, !.queue = Append(@, [data |-> Chunks(f.from, f.to), final |-> FALSE])]
    [] f.cmd = "exit" -> [x EXCEPT !.exit = "ended"]
    [] f.cmd = "evicted" -> [x EXCEPT !.exit = "evicted"]
    [] OTHER -> x

(* finalize(): what was buffered is handled, in order.                         *)
Finalize(x) ==
  LET handled[i \in 0 .. Len(x.buffered)] ==
        IF i = 0 THEN [x EXCEPT !.at = "driving", !.buffered = <<>>]
        ELSE HandleHolderFrame(handled[i - 1], x.buffered[i])
  IN  handled[Len(x.buffered)]

CatchUp(x, f) ==
  IF f.from < f.to
  THEN [x EXCEPT !.at = "finishing", !.queue = Append(@, [data |-> Chunks(f.from, f.to), final |-> TRUE])]
  ELSE Finalize(x)

(* Mutant: the offset stays at the checkpoint's.                            *)
ReplayedUncounted(x, f) == CatchUp([x EXCEPT !.gap = f.gap], f)

Replayed(x, f) == CatchUp([x EXCEPT !.gap = f.gap, !.applied = f.to], f)

(* Mutant: a server that does not know DENIED keeps waiting.                  *)
DeniedUnknown(x) == x

(* ControllerHeldError: recoverOne leaves the manifest alone.                 *)
Denied(x) == [x EXCEPT !.at = "denied"]

(* What the session makes of a frame, by how far its handshake is.             *)
Received(c, x, f) ==
  CASE x.at = "dialing" /\ f.cmd = "state" -> [x EXCEPT !.at = "claiming", !.applied = f.to]
    [] x.at = "claiming" /\ f.cmd = "acquired" ->
         IF x.seed.offset > 0
         THEN [x EXCEPT !.at = "replaying", !.applied = x.seed.offset, !.screen = x.seed.screen]
         ELSE [x EXCEPT !.at = "dumping"]
    [] x.at = "claiming" /\ f.cmd = "denied" -> Denied(x)
    [] x.at = "replaying" /\ f.cmd = "replay" -> Replayed(x, f)
    [] x.at = "dumping" /\ f.cmd = "dump" -> CatchUp(x, f)
    [] f.cmd = "close" -> Closed(x)
    [] f.cmd /= "close" /\ x.at \in {"driving", "finishing"} -> HandleHolderFrame(x, f)
    [] OTHER -> [x EXCEPT !.buffered = Append(@, f)]

(* ACQUIRE answers STATE; DUMP_SINCE or DUMP_REQ answers ACQUIRED.             *)
Answer(c, x, f) ==
  CASE x.at = "dialing" /\ f.cmd = "state" ->
         <<Ask(IF c \in Takers THEN "takeover" ELSE "acquire")>>
    [] x.at = "claiming" /\ f.cmd = "acquired" ->
         IF x.seed.offset > 0 THEN <<[cmd |-> "dumpSince", from |-> x.seed.offset]>> ELSE <<Ask("dumpReq")>>
    [] OTHER -> <<>>

Receive(c) ==
  /\ toServer[c] /= <<>> /\ ~Deaf(c)
  /\ LET f == Head(toServer[c]) IN
       /\ session' = [session EXCEPT ![c] = Received(c, @, f)]
       /\ Send(c, Answer(c, session[c], f))
  /\ toServer' = [toServer EXCEPT ![c] = Tail(@)]
  /\ UNCHANGED <<holder, disk, disturbed>>

(* xterm parses the next write and calls back.                              *)
Parses(c) ==
  /\ session[c].queue /= <<>> /\ ~Deaf(c)
  /\ LET w == Head(session[c].queue)
         x == [session[c] EXCEPT !.screen = @ \o w.data, !.queue = Tail(@)]
     IN  session' = [session EXCEPT ![c] = IF w.final THEN Finalize(x) ELSE x]
  /\ UNCHANGED <<holder, toHolder, toServer, disk, disturbed>>

(* Mutant: the handshake has no deadline.                                    *)
WaitsForever(c) == FALSE /\ UNCHANGED vars

(* 10 s without an end of the handshake: recoverOne removes the manifest, and    *)
(* the socket stays open.  The timer fires when nothing it waits for is coming. *)
HandshakeTimeout(c) ==
  /\ At(c, Handshake \ {"finishing"})
  /\ toServer[c] = <<>> /\ toHolder[c] = <<>> /\ c \notin holder.backlog
  /\ session' = [session EXCEPT ![c].at = "failed"]
  /\ disk' = [disk EXCEPT !.manifest = FALSE]
  /\ UNCHANGED <<holder, toHolder, toServer, disturbed>>

Driving(c) == At(c, {"driving"}) /\ session[c].exit = "none"

(* persistSession: the offset counts what was received, the screen is what has  *)
(* been parsed.  A degraded screen is no base for the next recovery.            *)
Persist(c) ==
  /\ Driving(c)
  /\ disk' = [disk EXCEPT !.checkpoint =
                IF session[c].gap THEN NoCheckpoint
                ELSE [offset |-> session[c].applied, screen |-> session[c].screen]]
  /\ disk' /= disk
  /\ disturbed' = disturbed \cup (IF session[c].queue /= <<>> THEN {"save"} ELSE {})
  /\ UNCHANGED <<holder, toHolder, toServer, session>>

(* destroy(): the session is killed and its checkpoint removed.                *)
Kill(c) ==
  /\ Driving(c)
  /\ Send(c, <<Ask("kill"), Ask("close")>>)
  /\ session' = [session EXCEPT ![c] = [NewSession EXCEPT !.at = "gone"]]
  /\ toServer' = [toServer EXCEPT ![c] = <<>>]
  /\ disk' = [disk EXCEPT !.checkpoint = NoCheckpoint]
  /\ UNCHANGED <<holder, disturbed>>

(* The server stops, and every byte it had not parsed or written is gone.       *)
Crash(c) ==
  /\ ~At(c, {"new", "gone"})
  /\ Send(c, <<Ask("close")>>)
  /\ session' = [session EXCEPT ![c] = [NewSession EXCEPT !.at = "gone"]]
  /\ toServer' = [toServer EXCEPT ![c] = <<>>]
  /\ UNCHANGED <<holder, disk, disturbed>>

-----------------------------------------------------------------------------
Init ==
  /\ holder = [client |-> None, pending |-> None, backlog |-> {}, written |-> 0, alive |-> TRUE, up |-> TRUE]
  /\ toHolder = [c \in Conns |-> <<>>] /\ toServer = [c \in Conns |-> <<>>]
  /\ session = [c \in Conns |-> NewSession]
  /\ disk = [manifest |-> TRUE, checkpoint |-> NoCheckpoint]
  /\ disturbed = {}

HolderStep(c) == Accept(c) \/ HolderReads(c)
ServerStep(c) == Receive(c) \/ Parses(c) \/ HandshakeTimeout(c)

Next ==
  \/ \E c \in Conns : HolderStep(c) \/ ClaimTimeout(c) \/ ServerStep(c)
                      \/ Connect(c) \/ Persist(c) \/ Kill(c) \/ Crash(c)
  \/ Output \/ PtyExits \/ HolderExits

Spec == Init /\ [][Next]_vars

(* The event loops of the holder and of the servers go on: as long as one of       *)
(* them has something to do, something is done.                               *)
FairSpec == Spec /\ WF_vars(\E c \in Conns : HolderStep(c) \/ ServerStep(c))

-----------------------------------------------------------------------------
LinkTypeOK ==
  /\ holder \in Holder
  /\ toHolder \in [Conns -> Seq(Request)] /\ toServer \in [Conns -> Seq(Reply)]
  /\ session \in [Conns -> Session]
  /\ disk \in [manifest : BOOLEAN, checkpoint : Checkpoint]
  /\ disturbed \subseteq Disturbances

(* "so it can report that instead of guessing the PTY died" (main.rs:705): a      *)
(* session that was driving calls its program dead only when it is, unless a      *)
(* claim was late.                                                          *)
LossIsNotDeath ==
  \A c \in Conns : At(c, {"driving"}) /\ session[c].exit = "lost" =>
    ~holder.alive \/ "late" \in disturbed

(* "Its manifest is correct and must survive" (session-manager.ts:171): as long   *)
(* as no claim was late or overtaken, a holder that lives can be found.          *)
ManifestSurvivesClaims ==
  holder.alive /\ disturbed \cap {"late", "overtaken"} = {} => disk.manifest

(* A screen shows every chunk up to n but for those before its first.           *)
Whole(screen, n) ==
  screen /= <<>> => \A m \in 1 .. n : m \in ToSet(screen) \/ \A k \in ToSet(screen) : m < k

(* Output reaches the screen whatever else goes on: with nothing on the way the    *)
(* controller's screen has no hole and ends at the last chunk, unless the holder    *)
(* has reported a gap or the screen grew from a checkpoint that had a hole.        *)
NothingLost ==
  \A c \in Conns :
    Driving(c) /\ holder.client = c /\ toServer[c] = <<>> /\ session[c].queue = <<>>
    /\ ~session[c].gap /\ Whole(session[c].seed.screen, session[c].seed.offset)
    => Whole(session[c].screen, holder.written)

(* The chunks s are in order, without a hole, and end at n.                       *)
Run(s, n) == \A i \in DOMAIN s : s[i] = n - Len(s) + i

(* The screen is a run, and each write that xterm has not parsed goes on where the   *)
(* one before it ends; the last of them ends at the offset.                       *)
Exact(x) ==
  \E ends \in [0 .. Len(x.queue) -> 0 .. x.applied] :
    /\ Run(x.screen, ends[0]) /\ ends[Len(x.queue)] = x.applied
    /\ \A i \in DOMAIN x.queue :
         Run(x.queue[i].data, ends[i]) /\ ends[i] = ends[i - 1] + Len(x.queue[i].data)

(* The screen is what was put out, once and in order, and the offset says where   *)
(* it ends: in a session no output disturbed in its handshake (connectHolder,     *)
(* "starting from the offset it reported in STATE keeps the two in step",         *)
(* session.ts:694).                                                         *)
QuietIsExact ==
  disturbed \cap {"handshake", "save"} = {} =>
    \A c \in Conns : Driving(c) /\ ~session[c].gap => Exact(session[c])

(* "Buffer DATA_OUT during handshake to avoid double-write" (session.ts:660): no   *)
(* chunk is painted twice.  The code does not keep this: what is buffered came     *)
(* before the dump, and is in it.                                           *)
PaintedOnce == \A c \in Conns : Driving(c) => IsInjective(session[c].screen)

(* A claim is answered: granted, refused, or given up after 10 s.               *)
ClaimEnds == \A c \in Conns : At(c, {"dialing"}) ~> ~At(c, Handshake)
=============================================================================
