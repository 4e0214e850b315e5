---------------------------- MODULE ViewerStream ----------------------------
(***************************************************************************)
(* One session's output on its way to the connections that view it         *)
(* (packages/server/src/server.ts wsServer 'connection', session.ts).       *)
(*                                                                         *)
(* The session numbers each chunk, keeps it in the replay ring and hands it *)
(* to every viewer that is not paused.  Each connection has a batcher that  *)
(* merges chunks into DATA frames, counts what the client has not yet       *)
(* acknowledged, stalls the viewer when that grows too far, and brings it   *)
(* back with a delta from the ring or with a snapshot.  An agent put to     *)
(* sleep freezes the session: output goes to the ring only.                 *)
(*                                                                         *)
(* Every chunk has length 1, so all byte thresholds are counted in chunks.  *)
(* The network behind a connection is its environment: a client may send    *)
(* any request at any time, and whether the socket is congested is chosen   *)
(* freely.                                                                 *)
(***************************************************************************)
EXTENDS OutputRing, FiniteSets, Functions

CONSTANTS
  Viewers,      \* connections; one that closed never comes back
  MaxBatch,     \* MAX_BATCH_BYTES
  AckHigh,      \* ACK_HIGH_WATER
  AckLow,       \* ACK_LOW_WATER
  ReplayMax,    \* REPLAY_MAX_BYTES
  ReplayFrame,  \* REPLAY_FRAME_BYTES
  Claims,       \* bound of the model: the numbers a client may claim to have
  Forcings      \* bound of the model: may the server be forced to a snapshot

ASSUME ViewerAssumption ==
  /\ 1 \in Sizes
  /\ MaxBatch \in Nat \ {0} /\ ReplayFrame \in Nat \ {0} /\ ReplayMax \in Nat
  /\ AckLow \in Nat /\ AckHigh \in Nat /\ AckLow <= AckHigh /\ MaxBatch <= AckHigh
  /\ Claims \subseteq Nat /\ Forcings \subseteq BOOLEAN

VARIABLES
  view,         \* each connection's view of the session, see View
  frozen,       \* seq the frozen screen stands for (Session.frozen), or NotFrozen
  resyncDue,    \* a wake has thawed and not yet resnapshot (agent-sleep.ts:545-558)
  hidden        \* ghost: the chunks pushed while frozen

NotFrozen == 0

streamVars == <<view, frozen, resyncDue, hidden>>
vars == <<ringVars, dead, streamVars>>

Frame == [cmd : {"DATA", "SNAPSHOT", "DESTROY"}, seqs : Seq(Nat), seq : Nat]

(* What the server keeps for one connection.                               *)
View == [
  open : BOOLEAN,                   \* ws.readyState is OPEN
  joined : BOOLEAN,                 \* session.viewers has the connection ...
  paused : BOOLEAN,                 \* ... and its entry is paused
  wired : BOOLEAN,                  \* exitWired
  ack : Nat,                        \* viewerAcks entry, 0 if none
  batcher : BOOLEAN,                \* batchers has an entry; its fields:
  pending : Seq(Nat), timer : BOOLEAN,
  pausedForBackpressure : BOOLEAN, drainTimer : BOOLEAN, pausedView : BOOLEAN,
  acking : BOOLEAN,
  sentEntries : Seq(Nat),           \* the stamp of the frame each unacked chunk went in
  lastSentSeq : Nat,
  out : Seq(Frame),                 \* frames handed to the socket by the last step
  have : SUBSET Nat ]               \* ghost: chunks the stream has covered so far

NewConnection == [
  open |-> TRUE, joined |-> FALSE, paused |-> FALSE, wired |-> FALSE, ack |-> 0,
  batcher |-> FALSE, pending |-> <<>>, timer |-> FALSE,
  pausedForBackpressure |-> FALSE, drainTimer |-> FALSE, pausedView |-> FALSE,
  acking |-> FALSE, sentEntries |-> <<>>, lastSentSeq |-> 0,
  out |-> <<>>, have |-> {} ]

(* getBatcher: an absent batcher's fields already have their first values.  *)
WithBatcher(v) == [v EXCEPT !.batcher = TRUE]

(* cleanupBatcher                                                          *)
WithoutBatcher(v) ==
  [v EXCEPT !.batcher = FALSE, !.pending = <<>>, !.timer = FALSE,
            !.pausedForBackpressure = FALSE, !.drainTimer = FALSE,
            !.pausedView = FALSE, !.acking = FALSE,
            !.sentEntries = <<>>, !.lastSentSeq = 0]

-----------------------------------------------------------------------------
(* Sending.                                                                *)

(* A SNAPSHOT frame replaces the client's screen: everything through the    *)
(* watermark is covered and the ack window starts over (noteSnapshotSent).  *)
SendSnapshot(v, watermark) ==
  [v EXCEPT !.out = Append(@, [cmd |-> "SNAPSHOT", seqs |-> <<>>, seq |-> watermark]),
            !.sentEntries = <<>>,
            !.lastSentSeq = watermark,
            !.have = BaseSeq .. watermark]

(* The last chunk of the frame of size f that chunk i of n goes in.        *)
FrameEnd(i, n, f) ==
  LET e == ((i - 1) \div f + 1) * f IN IF e <= n THEN e ELSE n

(* Sends the chunks `seqs` in order as DATA frames of f chunks, the last    *)
(* one shorter, each stamped with the last seq it contains.                *)
SendData(v, seqs, f) ==
  LET n      == Len(seqs)
      frame(j) == LET first == (j - 1) * f + 1
                      last  == FrameEnd(first, n, f)
                  IN  [cmd |-> "DATA", seqs |-> SubSeq(seqs, first, last), seq |-> seqs[last]]
  IN  IF n = 0 THEN v
      ELSE [v EXCEPT !.out = @ \o [j \in 1 .. ((n + f - 1) \div f) |-> frame(j)],
                     !.sentEntries = @ \o [i \in 1 .. n |-> seqs[FrameEnd(i, n, f)]],
                     !.lastSentSeq = seqs[n],
                     !.have = @ \cup {seqs[i] : i \in 1 .. n}]

SinceSeqs(s) == [i \in 1 .. Len(Since(s)) |-> Since(s)[i].seq]

(* What the client's screen covers if it says it is at `from`: a number of   *)
(* another boot stands for nothing of this one.                            *)
Claimed(from) == IF from <= LastSeq THEN BaseSeq .. from ELSE {}

(* Mutant: a number ahead of the session is replayed from (server.ts:2148). *)
SendResyncFromAhead(v, from, forced) ==
  IF frozen /= NotFrozen THEN SendSnapshot(v, frozen)
  ELSE IF ~forced /\ from > 0 /\ CanReplaySince(from) /\ Len(Since(from)) <= ReplayMax
       THEN SendData([v EXCEPT !.have = Claimed(from)], SinceSeqs(from), ReplayFrame)
       ELSE SendSnapshot(v, LastSeq)

(* sendResync: brings a viewer that says it is at `from` to the head.  The  *)
(* frozen screen wins; then a delta if the server is not `forced` to a      *)
(* snapshot (an open sync block, damaged integrity) and the ring still has  *)
(* a small, honest one; else a snapshot.                                   *)
SendResync(v, from, forced) ==
  IF frozen /= NotFrozen THEN SendSnapshot(v, frozen)
  ELSE IF /\ ~forced /\ from > 0 /\ from <= LastSeq /\ CanReplaySince(from)
          /\ Len(Since(from)) <= ReplayMax
       THEN SendData([v EXCEPT !.have = Claimed(from)], SinceSeqs(from), ReplayFrame)
       ELSE SendSnapshot(v, LastSeq)

-----------------------------------------------------------------------------
(* The batcher.                                                            *)

(* Mutant: the batch outlives its timer.                                   *)
ResetKeepsPending(v) ==
  [v EXCEPT !.timer = FALSE, !.drainTimer = FALSE,
            !.sentEntries = <<>>, !.pausedForBackpressure = FALSE]

(* resetBatcherForResync: the viewer's stream accounting starts over.      *)
ResetBatcherForResync(v) ==
  [v EXCEPT !.timer = FALSE, !.drainTimer = FALSE, !.pending = <<>>,
            !.sentEntries = <<>>, !.pausedForBackpressure = FALSE]

(* Too much on the way: unacknowledged if this client acks, else stuck in   *)
(* the socket (`congested`).                                               *)
Stalls(v, congested) == IF v.acking THEN Len(v.sentEntries) > AckHigh ELSE congested

(* flush: everything pending leaves as one frame; a viewer that is now too  *)
(* far behind is paused.  Without acks a timer polls the socket.           *)
Flush(v, congested) ==
  IF v.pending = <<>> THEN [v EXCEPT !.timer = FALSE]
  ELSE LET s == SendData([v EXCEPT !.timer = FALSE, !.pending = <<>>], v.pending, Len(v.pending))
       IN  IF s.pausedForBackpressure \/ ~Stalls(s, congested) THEN s
           ELSE [s EXCEPT !.pausedForBackpressure = TRUE,
                          !.paused = s.joined,
                          !.drainTimer = s.drainTimer \/ ~s.acking]

(* enqueueData, the dataCb of an unpaused viewer.  `small`: the chunk is    *)
(* within IMMEDIATE_THRESHOLD, so with no timer running it leaves in the    *)
(* same turn of the event loop.                                            *)
Enqueue(v, n, small, congested) ==
  IF v.pausedView \/ v.pausedForBackpressure THEN v
  ELSE LET p == [v EXCEPT !.pending = Append(@, n)]
       IN  IF Len(p.pending) >= MaxBatch \/ (small /\ ~p.timer)
           THEN Flush(p, congested)
           ELSE [p EXCEPT !.timer = TRUE]

(* How many frame stamps at the front an ack of seq covers.                *)
Acked(v, seq) ==
  CHOOSE k \in 0 .. Len(v.sentEntries) :
    /\ \A i \in 1 .. k : v.sentEntries[i] <= seq
    /\ k < Len(v.sentEntries) => v.sentEntries[k + 1] > seq

(* Mutant: a stalled viewer is resumed without what it was not sent.       *)
AckResumesOnly(v, seq, forced) ==
  LET n == Len(v.sentEntries)
      a == [v EXCEPT !.ack = seq, !.acking = TRUE,
                     !.sentEntries = SubSeq(@, Acked(v, seq) + 1, n)]
  IN  IF ~a.pausedForBackpressure \/ Len(a.sentEntries) > AckLow THEN a
      ELSE [a EXCEPT !.pausedForBackpressure = FALSE, !.paused = FALSE]

(* handleViewerAck, after updateViewerAck: the window shrinks, and a stalled *)
(* viewer that is down to the low-water mark gets what it was not sent.     *)
HandleViewerAck(v, seq, forced) ==
  LET n == Len(v.sentEntries)
      a == [v EXCEPT !.ack = seq, !.acking = TRUE,
                     !.sentEntries = SubSeq(@, Acked(v, seq) + 1, n)]
      r == [a EXCEPT !.pausedForBackpressure = FALSE, !.paused = FALSE]
  IN  IF ~a.pausedForBackpressure \/ Len(a.sentEntries) > AckLow THEN a
      ELSE IF ~forced /\ CanReplaySince(r.lastSentSeq)
           THEN SendData(r, SinceSeqs(r.lastSentSeq), 1)
           ELSE SendSnapshot(r, LastSeq)

(* wireSession: the viewer is (re-)entered unpaused.                       *)
WireSession(v) == [WithBatcher(v) EXCEPT !.joined = TRUE, !.paused = FALSE, !.wired = TRUE]

-----------------------------------------------------------------------------
(* Steps.  Only the frames of the last step are kept in `out`.             *)

Quiet(v) == [v EXCEPT !.out = <<>>]

(* Connection c's view becomes v.                                          *)
Serve(c, v) == view' = [d \in Viewers |-> IF d = c THEN v ELSE Quiet(view[d])]

(* minAckTrim, over the acks after the step: the ring lets go of what every *)
(* acking viewer has.                                                      *)
MinAckTrim ==
  LET acks == {view'[c].ack : c \in Viewers} \ {0}
  IN  IF acks = {} THEN UNCHANGED ringVars
      ELSE \E a \in acks : (\A b \in acks : a <= b) /\ TrimTo(a)

Live(c) == ~dead /\ view[c].open

(* Mutant: a session that is gone still numbers its output.                *)
OutputAfterEnd(small, congested) ==
  /\ nextSeq <= MaxSeq
  /\ Push(1)
  /\ UNCHANGED <<dead, view, frozen, resyncDue, hidden>>

(* emitViewerChunk: into the ring, then to every viewer that is not paused,  *)
(* unless the session is frozen.                                           *)
Output(small, congested) ==
  /\ ~dead /\ nextSeq <= MaxSeq
  /\ Push(1)
  /\ view' = [c \in Viewers |->
       LET v == Quiet(view[c])
       IN  IF frozen = NotFrozen /\ v.joined /\ ~v.paused
           THEN Enqueue(v, nextSeq, small, c \in congested)
           ELSE v]
  /\ hidden' = IF frozen = NotFrozen THEN hidden ELSE hidden \cup {nextSeq}
  /\ UNCHANGED <<dead, frozen, resyncDue>>

(* The batch timer.                                                        *)
TimerFire(c, congested) ==
  /\ Live(c) /\ view[c].timer
  /\ Serve(c, Flush(Quiet(view[c]), congested))
  /\ UNCHANGED <<ringVars, dead, frozen, resyncDue, hidden>>

(* A tick of the drain timer that finds the socket below WS_LOW_WATER.      *)
DrainTick(c) ==
  /\ Live(c) /\ view[c].drainTimer
  /\ Serve(c, SendSnapshot([Quiet(view[c]) EXCEPT !.pausedForBackpressure = FALSE,
                                                  !.drainTimer = FALSE,
                                                  !.paused = FALSE], LastSeq))
  /\ UNCHANGED <<ringVars, dead, frozen, resyncDue, hidden>>

(* CMD.ATTACH (resync first, then wire).                                   *)
Attach(c, from, forced) ==
  /\ Live(c)
  /\ LET b == [ResetBatcherForResync(WithBatcher(Quiet(view[c]))) EXCEPT !.pausedView = FALSE]
     IN  Serve(c, WireSession(SendResync(b, from, forced)))
  /\ UNCHANGED <<ringVars, dead, frozen, resyncDue, hidden>>

(* CMD.DETACH                                                              *)
Detach(c) ==
  /\ Live(c)
  /\ Serve(c, [WithoutBatcher(Quiet(view[c])) EXCEPT !.joined = FALSE, !.paused = FALSE,
                                                     !.ack = 0, !.have = {}])
  /\ MinAckTrim
  /\ UNCHANGED <<dead, frozen, resyncDue, hidden>>

(* CMD.SNAPSHOT: a client asks for the screen and stays where it is.        *)
Snapshot(c) ==
  /\ Live(c)
  /\ Serve(c, SendSnapshot(WithBatcher(Quiet(view[c])),
                           IF frozen /= NotFrozen THEN frozen ELSE LastSeq))
  /\ UNCHANGED <<ringVars, dead, frozen, resyncDue, hidden>>

(* Mutant: an ack is taken for what it claims.                             *)
AckClaimAccepted(v, seq) == seq > 0 /\ v.batcher /\ seq >= v.ack

(* The claim an ack makes is checked before it reaches the ring.           *)
AckAccepted(v, seq) == seq > 0 /\ v.batcher /\ seq <= v.lastSentSeq /\ seq >= v.ack

(* CMD.ACK                                                                 *)
Ack(c, seq, forced) ==
  /\ Live(c) /\ AckAccepted(view[c], seq)
  /\ Serve(c, HandleViewerAck(Quiet(view[c]), seq, forced))
  /\ MinAckTrim
  /\ UNCHANGED <<dead, frozen, resyncDue, hidden>>

(* CMD.PAUSE_VIEW                                                          *)
PauseView(c) ==
  /\ Live(c)
  /\ LET v == Quiet(view[c])
     IN  Serve(c, [v EXCEPT !.paused = v.joined, !.pausedView = v.batcher])
  /\ UNCHANGED <<ringVars, dead, frozen, resyncDue, hidden>>

(* CMD.RESUME_VIEW                                                         *)
ResumeView(c, from, forced) ==
  /\ Live(c)
  /\ LET b == [ResetBatcherForResync(WithBatcher(Quiet(view[c]))) EXCEPT !.pausedView = FALSE]
     IN  Serve(c, [SendResync(b, from, forced) EXCEPT !.paused = FALSE])
  /\ UNCHANGED <<ringVars, dead, frozen, resyncDue, hidden>>

(* The socket closes: the viewer, its batcher and its ack floor go.        *)
Close(c) ==
  /\ view[c].open
  /\ Serve(c, [NewConnection EXCEPT !.open = FALSE])
  /\ IF dead THEN UNCHANGED ringVars ELSE MinAckTrim
  /\ UNCHANGED <<dead, frozen, resyncDue, hidden>>

-----------------------------------------------------------------------------
(* The session's life.                                                     *)

(* AgentSleeper.sleep: the screen is kept as it is now.                    *)
Freeze ==
  /\ ~dead /\ frozen = NotFrozen
  /\ frozen' = LastSeq
  /\ view' = [c \in Viewers |-> Quiet(view[c])]
  /\ UNCHANGED <<ringVars, dead, resyncDue, hidden>>

(* AgentSleeper.wake, the agent back or given up: thaw now, and resnapshot  *)
(* once the snapshot file is unlinked.                                     *)
Thaw ==
  /\ ~dead /\ frozen /= NotFrozen
  /\ frozen' = NotFrozen /\ resyncDue' = TRUE
  /\ view' = [c \in Viewers |-> Quiet(view[c])]
  /\ UNCHANGED <<ringVars, dead, hidden>>

(* AgentSleeper.sleep undone: the agent would not go.                      *)
SleepUndone ==
  /\ ~dead /\ frozen /= NotFrozen
  /\ frozen' = NotFrozen
  /\ view' = [c \in Viewers |-> Quiet(view[c])]
  /\ UNCHANGED <<ringVars, dead, resyncDue, hidden>>

(* Session.resyncAll                                                       *)
ResyncAll ==
  /\ ~dead /\ resyncDue
  /\ resyncDue' = FALSE
  /\ view' = [c \in Viewers |->
       LET v == Quiet(view[c])
       IN  IF v.joined THEN SendSnapshot(ResetBatcherForResync(v), LastSeq) ELSE v]
  /\ UNCHANGED <<ringVars, dead, frozen, hidden>>

Ended(v) == [WithoutBatcher(v) EXCEPT !.wired = FALSE, !.have = {}]

(* The process exits: what is batched still goes, then DESTROY.             *)
Exit ==
  /\ ~dead
  /\ dead' = TRUE
  /\ view' = [c \in Viewers |->
       LET v == Quiet(view[c])
           f == Flush([v EXCEPT !.drainTimer = FALSE], FALSE)
       IN  IF ~v.wired THEN v
           ELSE [Ended(f) EXCEPT !.out = Append(@, [cmd |-> "DESTROY", seqs |-> <<>>, seq |-> 0])]]
  /\ UNCHANGED <<ringVars, frozen, resyncDue, hidden>>

(* CMD.DESTROY (SessionManager.destroy, Session.kill): the session is gone  *)
(* at once, and no exit callback runs.                                     *)
Destroy(c) ==
  /\ Live(c)
  /\ dead' = TRUE
  /\ Clear
  /\ view' = [d \in Viewers |-> LET v == [Quiet(view[d]) EXCEPT !.joined = FALSE, !.paused = FALSE]
                                IN  IF d = c THEN WithoutBatcher(v) ELSE v]
  /\ UNCHANGED <<frozen, resyncDue, hidden>>

-----------------------------------------------------------------------------
(* CMD.CREATE: the creator is wired from the start, and gets a snapshot if    *)
(* the new terminal is not empty.  A session may also be created over HTTP,   *)
(* viewed by nobody.                                                       *)
Created == {WireSession(NewConnection), SendSnapshot(WireSession(NewConnection), LastSeq)}

Init ==
  /\ RingInit
  /\ \E creators \in {{}} \cup {{c} : c \in Viewers}, first \in Created :
       view = [c \in Viewers |-> IF c \in creators THEN first ELSE NewConnection]
  /\ frozen = NotFrozen /\ resyncDue = FALSE /\ hidden = {}

Next ==
  \/ \E small \in BOOLEAN, congested \in SUBSET Viewers : Output(small, congested)
  \/ \E c \in Viewers, b \in BOOLEAN : TimerFire(c, b)
  \/ \E c \in Viewers : DrainTick(c)
  \/ \E c \in Viewers, s \in Claims, b \in Forcings : Attach(c, s, b)
  \/ \E c \in Viewers : Detach(c)
  \/ \E c \in Viewers : Snapshot(c)
  \/ \E c \in Viewers, s \in Claims, b \in Forcings : Ack(c, s, b)
  \/ \E c \in Viewers : PauseView(c)
  \/ \E c \in Viewers, s \in Claims, b \in Forcings : ResumeView(c, s, b)
  \/ \E c \in Viewers : Close(c)
  \/ Freeze \/ Thaw \/ SleepUndone \/ ResyncAll \/ Exit
  \/ \E c \in Viewers : Destroy(c)

Spec == Init /\ [][Next]_vars

-----------------------------------------------------------------------------
TypeOK ==
  /\ RingTypeOK
  /\ view \in [Viewers -> View]
  /\ frozen \in Nat /\ resyncDue \in BOOLEAN /\ hidden \subseteq Nat

(* A viewer the server believes it is feeding.                             *)
Fed(v) == v.joined /\ ~v.paused /\ ~v.pausedForBackpressure /\ ~v.pausedView

(* What v's stream has neither covered nor batched.                        *)
Missing(v) == (BaseSeq .. LastSeq) \ (v.have \cup {v.pending[i] : i \in 1 .. Len(v.pending)})

(* No byte is dropped behind a viewer's back: whatever way the viewer got    *)
(* to be fed (attach, resume, ack catch-up, drained socket), its frames so   *)
(* far and its batch cover the whole stream, but for what was printed while  *)
(* the agent slept (sendResync, handleViewerAck, enqueueData).             *)
NoSilentDrop ==
  ~dead => \A c \in Viewers : Fed(view[c]) => Missing(view[c]) \subseteq hidden

(* A batch always leaves: it has a running timer, and a viewer stalled by    *)
(* backpressure batches nothing and is paused at the session too            *)
(* (enqueueData, flush, resetBatcherForResync).                            *)
BatchLeaves ==
  ~dead => \A c \in Viewers :
    /\ view[c].pending /= <<>> => view[c].timer
    /\ view[c].pausedForBackpressure => view[c].paused /\ view[c].pending = <<>>

(* A stall always has a way out: a drain timer, or a window that acking the  *)
(* last frame sent empties - and the server would accept that ack            *)
(* (server.ts:2471-2488 against 2201-2218).                                *)
StallHasWayOut ==
  ~dead => \A c \in Viewers :
    LET v == view[c] IN
    v.pausedForBackpressure =>
      \/ v.drainTimer
      \/ /\ v.acking /\ AckAccepted(v, v.lastSentSeq)
         /\ Acked(v, v.lastSentSeq) = Len(v.sentEntries)

(* As a producer and consumer of the ring this is the ring's own spec.      *)
Ring == RingSpec

-----------------------------------------------------------------------------
(* "resetBatcherForResync: whatever the batcher believed before - a          *)
(* backpressure stall - kept ruling AFTER the resync" (server.ts:2127): a     *)
(* resync leaves no viewer paused for a reason that is gone.  The code does    *)
(* not keep this: resyncAll clears the stall and not the pause it caused.      *)
PausedHasReason ==
  ~dead => \A c \in Viewers :
    view[c].paused => view[c].pausedView \/ view[c].pausedForBackpressure
=============================================================================
