--------------------------- MODULE TerminalStream ---------------------------
(***************************************************************************)
(* One pane of one page, end to end: the server side of ViewerStream, the    *)
(* WebSocket, the page's TerminalMux (packages/vt/src/mux.ts), its            *)
(* TerminalHost (packages/ui/src/terminal-host.ts) and xterm.               *)
(*                                                                         *)
(* A socket carries requests up and frames down, each in order, and is lost  *)
(* with whatever is in flight; the page then dials the next connection.      *)
(* The pane is shown, hidden, unmounted and mounted again as the user goes    *)
(* about (Terminal.tsx).  xterm parses what is written to it later, in order. *)
(***************************************************************************)
EXTENDS ViewerStream

CONSTANTS
  NoConnection,
  MaxRetries,   \* automatic attach retries (terminal-host.ts:482)
  Users,        \* what may happen to the page, per user: subsets of Happenings
  MaxHappened,  \* bound of the model: how often, in all
  WireMax       \* bound of the model: messages of one direction in flight

(* "slow": a reconnect may overtake what the page has yet to paint.  A pane    *)
(* on screen paints within a frame, a dial takes round trips; a tab in the    *)
(* background gets no animation frames at all.                             *)
Happenings == {"hide", "unmount", "drop", "timeout", "slow"}

ASSUME TerminalAssumption ==
  /\ NoConnection \notin Viewers
  /\ MaxRetries \in Nat /\ MaxHappened \in Nat /\ WireMax \in Nat
  /\ Users \subseteq SUBSET Happenings

VARIABLES
  toServer,     \* requests on their way, per connection
  toClient,     \* frames on their way, per connection
  page,         \* see Page
  happened      \* what may happen (`may`), and how much of MaxHappened is used up

netVars == <<toServer, toClient, page, happened>>
allVars == <<vars, netVars>>

Request == [cmd : {"ATTACH", "DETACH", "ACK", "PAUSE_VIEW", "RESUME_VIEW"}, seq : Nat]

(* A write handed to xterm and not parsed yet; seq is acked when it is.      *)
Write == [snapshot : BOOLEAN, seqs : Seq(Nat), seq : Nat]

Page == [
  (* TerminalMux *)
  connection : Viewers \cup {NoConnection},
  dialed : SUBSET Viewers,
  callbacks : BOOLEAN,              \* sessions has the session
  waiting : BOOLEAN,                \* pendingAttaches has the session
  orphans : Nat,                    \* timers of attaches another attach replaced
  watermark : Nat,                  \* _lastSeqs entry, 0 if none
  (* TerminalHost *)
  stream : {"idle", "queued", "attaching", "attached", "paused"},
  wants : BOOLEAN, mounted : BOOLEAN,
  retries : Nat, retryTimer : BOOLEAN,
  reactivate : BOOLEAN,             \* reconnected, reactivateHosts to come
  queue : Seq(Nat), pendingAckSeq : Nat,   \* writeChunks
  (* xterm *)
  writing : Seq(Write),
  painted : SUBSET Nat,             \* the chunks the screen was painted from
  exact : BOOLEAN,                  \* ... each of them once and in order
  crossed : BOOLEAN,                \* ghost: see Begins
  (* requests handed to the socket by this step *)
  sends : Seq(Request) ]

-----------------------------------------------------------------------------
(* TerminalMux.                                                            *)

Send(p, cmd, seq) ==
  IF p.connection = NoConnection THEN p
  ELSE [p EXCEPT !.sends = Append(@, [cmd |-> cmd, seq |-> seq])]

DetachSession(p) == [Send(p, "DETACH", 0) EXCEPT !.callbacks = FALSE]

(* ack: the only place the watermark moves.                                *)
AckParsed(p, seq) == [Send(p, "ACK", seq) EXCEPT !.watermark = seq]

-----------------------------------------------------------------------------
(* TerminalHost.                                                           *)

CancelPendingWrites(p) == [p EXCEPT !.queue = <<>>, !.pendingAckSeq = 0]

(* disconnect: an attach under way is left to its own then().              *)
Disconnect(p) ==
  IF p.stream = "idle" THEN p
  ELSE LET q == [p EXCEPT !.stream = "idle", !.retryTimer = FALSE, !.retries = 0]
       IN  IF p.stream \in {"attached", "paused"} THEN DetachSession(q) ELSE q

Activate(p) ==
  [p EXCEPT !.wants = TRUE, !.stream = IF @ = "idle" THEN "queued" ELSE @]

(* Mutant: a failed attach leaves the stream believing in it.               *)
AttachFailedStays(p) == p

(* The catch of doAttach.  (A retry timer that another one replaces still    *)
(* fires in the code; it only activates sooner.)                           *)
AttachFailed(p) ==
  IF p.stream /= "attaching" THEN p
  ELSE IF p.retries < MaxRetries
       THEN [p EXCEPT !.stream = "idle", !.retries = @ + 1, !.retryTimer = TRUE]
       ELSE [p EXCEPT !.stream = "idle"]

(* A stream of the pane is asked for.  Whatever of the one before is still     *)
(* under way, on either side, will come on top of it: nothing tells the         *)
(* frames of two streams of a session apart.                               *)
Begins(p) ==
  LET c == p.connection
      settled == /\ p.queue = <<>> /\ p.writing = <<>>
                 /\ toServer[c] = <<>> /\ toClient[c] = <<>>
                 /\ view[c].pending = <<>> /\ ~Fed(view[c])
  IN  [p EXCEPT !.crossed = @ \/ ~settled]

(* doAttach with attachSession: a second attach takes the place of the       *)
(* first in pendingAttaches, whose timer keeps running.                    *)
DoAttach(p) ==
  LET q == [p EXCEPT !.stream = "attaching"]
  IN  IF p.connection = NoConnection THEN AttachFailed(q)
      ELSE Send([Begins(q) EXCEPT !.callbacks = TRUE, !.waiting = TRUE,
                                  !.orphans = IF p.waiting THEN @ + 1 ELSE @],
                "ATTACH", p.watermark)

(* Mutant: the answer is believed whatever became of the stream.            *)
AttachAlwaysAnswered(p) ==
  IF ~p.waiting THEN p
  ELSE [p EXCEPT !.waiting = FALSE, !.stream = "attached", !.retries = 0]

(* The then() of doAttach, on the server's answer.                         *)
AttachAnswered(p) ==
  IF ~p.waiting THEN p
  ELSE LET q == [p EXCEPT !.waiting = FALSE]
       IN  IF p.stream /= "attaching" THEN DetachSession(q)
           ELSE [q EXCEPT !.stream = "attached", !.retries = 0]

(* pauseView: only an attached stream can pause.                           *)
HostPauseView(p) ==
  LET q == [p EXCEPT !.wants = FALSE]
  IN  IF p.stream /= "attached" THEN q
      ELSE Send([q EXCEPT !.stream = "paused"], "PAUSE_VIEW", 0)

(* resumeView: what is queued is dropped, the replay will bring it again.    *)
HostResumeView(p) ==
  LET q == [p EXCEPT !.wants = TRUE]
  IN  IF p.stream /= "paused" THEN q
      ELSE Send(Begins(CancelPendingWrites([q EXCEPT !.stream = "attached"])),
                "RESUME_VIEW", p.watermark)

(* Mutant: small output overtakes what waits for the animation frame.       *)
HandleDataOvertakes(p, seqs, seq, small) ==
  IF small
  THEN [p EXCEPT !.writing = Append(@, [snapshot |-> FALSE, seqs |-> seqs, seq |-> seq])]
  ELSE [p EXCEPT !.queue = @ \o seqs, !.pendingAckSeq = seq]

(* handleData: small output goes straight to xterm if nothing waits for the  *)
(* animation frame.                                                        *)
HandleData(p, seqs, seq, small) ==
  IF p.queue = <<>> /\ small
  THEN [p EXCEPT !.writing = Append(@, [snapshot |-> FALSE, seqs |-> seqs, seq |-> seq])]
  ELSE [p EXCEPT !.queue = @ \o seqs, !.pendingAckSeq = seq]

FlushWrites(p) ==
  [CancelPendingWrites(p) EXCEPT
     !.writing = Append(@, [snapshot |-> FALSE, seqs |-> p.queue, seq |-> p.pendingAckSeq])]

(* handleSnapshot: the snapshot clears the screen as it is painted.          *)
HandleSnapshot(p, seq) ==
  [CancelPendingWrites(p) EXCEPT
     !.writing = Append(@, [snapshot |-> TRUE, seqs |-> <<>>, seq |-> seq])]

(* xterm parses the oldest write and calls back.                           *)
Top(painted) == CHOOSE t \in painted \cup {BaseSeq - 1} : \A s \in painted : s <= t

Parse(p) ==
  LET w == Head(p.writing)
      q == [p EXCEPT !.writing = Tail(@)]
  IN  AckParsed(IF w.snapshot
                THEN [q EXCEPT !.painted = BaseSeq .. w.seq, !.exact = TRUE]
                ELSE [q EXCEPT
                       !.painted = @ \cup {w.seqs[i] : i \in 1 .. Len(w.seqs)},
                       !.exact = @ /\ \A i \in 1 .. Len(w.seqs) :
                                        w.seqs[i] = Top(p.painted) + i],
                w.seq)

-----------------------------------------------------------------------------
(* Steps of the page: p is its next state, what it sends goes on the wire.   *)

Becomes(p) ==
  /\ page' = [p EXCEPT !.sends = <<>>]
  /\ toServer' = IF p.connection = NoConnection THEN toServer
                 ELSE [toServer EXCEPT ![p.connection] = @ \o p.sends]

Connected == page.connection /= NoConnection

(* Bounds of the model: on steps that send unasked, on what happens.        *)
MaySend == Connected => Len(toServer[page.connection]) < WireMax

Happens(what) ==
  /\ what \in happened.may /\ happened.times < MaxHappened
  /\ happened' = [happened EXCEPT !.times = @ + 1]

Mount ==
  /\ ~page.mounted
  /\ Becomes([page EXCEPT !.mounted = TRUE])
  /\ UNCHANGED <<vars, toClient, happened>>

(* Terminal's cleanup                                                      *)
Unmount ==
  /\ Happens("unmount") /\ page.mounted /\ MaySend
  /\ Becomes(CancelPendingWrites(Disconnect([page EXCEPT !.mounted = FALSE])))
  /\ UNCHANGED <<vars, toClient>>

(* syncViewState: on screen, or not.                                       *)
Show ==
  /\ page.mounted /\ MaySend
  /\ Becomes(HostResumeView(Activate(page)))
  /\ UNCHANGED <<vars, toClient, happened>>

Hide ==
  /\ Happens("hide") /\ page.mounted /\ MaySend
  /\ Becomes(HostPauseView(page))
  /\ UNCHANGED <<vars, toClient>>

(* The activation queue gets to the host.                                  *)
RunQueued ==
  /\ page.stream = "queued" /\ MaySend
  /\ Becomes(DoAttach(page))
  /\ UNCHANGED <<vars, toClient, happened>>

RetryTimer ==
  /\ page.retryTimer
  /\ LET p == [page EXCEPT !.retryTimer = FALSE]
     IN  Becomes(IF p.stream = "idle" /\ p.mounted THEN Activate(p) ELSE p)
  /\ UNCHANGED <<vars, toClient, happened>>

(* An attach timer fires; the entry it deletes may be a later attach's.      *)
AttachTimeout ==
  /\ Happens("timeout")
  /\ \/ page.waiting /\ Becomes(AttachFailed([page EXCEPT !.waiting = FALSE]))
     \/ /\ page.orphans > 0
        /\ Becomes(AttachFailed([page EXCEPT !.waiting = FALSE,
                                             !.orphans = IF page.waiting THEN @ ELSE @ - 1]))
  /\ UNCHANGED <<vars, toClient>>

AnimationFrame ==
  /\ page.queue /= <<>>
  /\ Becomes(FlushWrites(page))
  /\ UNCHANGED <<vars, toClient, happened>>

XtermParses ==
  /\ page.writing /= <<>> /\ MaySend
  /\ Becomes(Parse(page))
  /\ UNCHANGED <<vars, toClient, happened>>

(* handleMessage                                                           *)
Receive(small) ==
  /\ Connected /\ toClient[page.connection] /= <<>>
  /\ LET f == Head(toClient[page.connection])
     IN  Becomes(CASE f.cmd = "ATTACH" -> AttachAnswered(page)
                   [] f.cmd = "DATA" /\ page.callbacks -> HandleData(page, f.seqs, f.seq, small)
                   [] f.cmd = "SNAPSHOT" /\ page.callbacks -> HandleSnapshot(page, f.seq)
                   [] OTHER -> page)
  /\ toClient' = [toClient EXCEPT ![page.connection] = Tail(@)]
  /\ UNCHANGED <<vars, happened>>

(* The page learns the socket is gone: cleanup, then resetAllHosts.         *)
Drop ==
  /\ Happens("drop") /\ Connected
  /\ Becomes(Disconnect([page EXCEPT !.connection = NoConnection, !.callbacks = FALSE,
                                     !.waiting = FALSE, !.reactivate = FALSE]))
  /\ toClient' = [toClient EXCEPT ![page.connection] = <<>>]
  /\ UNCHANGED vars

(* connect succeeds; reactivateHosts follows once the bundle is checked.     *)
Dial(c) ==
  /\ ~Connected /\ c \notin page.dialed
  /\ "slow" \in happened.may \/ (page.queue = <<>> /\ page.writing = <<>>)
  /\ Becomes([page EXCEPT !.connection = c, !.dialed = @ \cup {c}, !.reactivate = TRUE])
  /\ UNCHANGED <<vars, toClient, happened>>

ReactivateHosts ==
  /\ page.reactivate /\ Connected
  /\ LET p == [page EXCEPT !.reactivate = FALSE]
     IN  Becomes(IF p.mounted /\ p.wants THEN Activate(p) ELSE p)
  /\ UNCHANGED <<vars, toClient, happened>>

-----------------------------------------------------------------------------
(* Steps of the server: the frames of the step go on the wire.             *)

AttachReply == [cmd |-> "ATTACH", seqs |-> <<>>, seq |-> 0]

Delivers(reply) ==
  /\ toClient' = [c \in Viewers |->
       IF c = page.connection THEN toClient[c] \o reply[c] \o view'[c].out ELSE <<>>]
  /\ UNCHANGED <<page, happened>>

NoReply == [c \in Viewers |-> <<>>]

ServerOutput ==
  /\ \A c \in Viewers : Len(toClient[c]) < WireMax
  /\ \E small \in BOOLEAN : Output(small, {})
  /\ Delivers(NoReply)
  /\ UNCHANGED toServer

ServerTimer(c) ==
  /\ TimerFire(c, FALSE)
  /\ Delivers(NoReply)
  /\ UNCHANGED toServer

(* The server handles the oldest request of connection c.                  *)
ServerHandles(c, forced) ==
  /\ toServer[c] /= <<>> /\ Live(c) /\ Len(toClient[c]) <= WireMax
  /\ LET r == Head(toServer[c])
     IN  \/ r.cmd = "ATTACH" /\ Attach(c, r.seq, forced)
            /\ Delivers([NoReply EXCEPT ![c] = <<AttachReply>>])
         \/ r.cmd = "DETACH" /\ Detach(c) /\ Delivers(NoReply)
         \/ r.cmd = "PAUSE_VIEW" /\ PauseView(c) /\ Delivers(NoReply)
         \/ r.cmd = "RESUME_VIEW" /\ ResumeView(c, r.seq, forced) /\ Delivers(NoReply)
         \/ r.cmd = "ACK" /\ Ack(c, r.seq, forced) /\ Delivers(NoReply)
         \/ r.cmd = "ACK" /\ ~AckAccepted(view[c], r.seq) /\ UNCHANGED <<vars, toClient, page, happened>>
  /\ toServer' = [toServer EXCEPT ![c] = Tail(@)]

(* The server learns the socket is gone.                                   *)
ServerCloses(c) ==
  /\ c \in page.dialed /\ c /= page.connection
  /\ Close(c)
  /\ Delivers(NoReply)
  /\ toServer' = [toServer EXCEPT ![c] = <<>>]

-----------------------------------------------------------------------------
NewPage == [
  connection |-> NoConnection, dialed |-> {}, callbacks |-> FALSE,
  waiting |-> FALSE, orphans |-> 0, watermark |-> 0,
  stream |-> "idle", wants |-> FALSE, mounted |-> FALSE,
  retries |-> 0, retryTimer |-> FALSE, reactivate |-> FALSE,
  queue |-> <<>>, pendingAckSeq |-> 0,
  writing |-> <<>>, painted |-> {}, exact |-> TRUE, crossed |-> FALSE, sends |-> <<>> ]

TInit ==
  /\ Init /\ view = [c \in Viewers |-> NewConnection]
  /\ toServer = NoReply /\ toClient = NoReply
  /\ page = NewPage /\ happened \in [may : Users, times : {0}]

PageStep ==
  \/ RunQueued \/ RetryTimer \/ AnimationFrame \/ XtermParses \/ ReactivateHosts
  \/ \E small \in BOOLEAN : Receive(small)
  \/ \E c \in Viewers : Dial(c)

ServerStep ==
  \/ \E c \in Viewers : ServerTimer(c)
  \/ \E c \in Viewers, forced \in Forcings : ServerHandles(c, forced)

TNext ==
  \/ Mount \/ Unmount \/ Show \/ Hide \/ AttachTimeout \/ Drop
  \/ ServerOutput \/ \E c \in Viewers : ServerCloses(c)
  \/ PageStep \/ ServerStep

TSpec == TInit /\ [][TNext]_allVars

(* The page's and the server's event loops run what is due: as long as one of   *)
(* them has something to do, something is done.  The user, the program in the  *)
(* terminal and the network do as they like.                               *)
FairSpec == TSpec /\ WF_allVars(PageStep \/ ServerStep)

-----------------------------------------------------------------------------
TTypeOK ==
  /\ TypeOK
  /\ page \in Page
  /\ toServer \in [Viewers -> Seq(Request)]
  /\ \A c \in Viewers : \A i \in 1 .. Len(toClient[c]) :
       toClient[c][i] \in Frame \cup {AttachReply}

(* Everything either side knows has been said.                             *)
AllSaid ==
  /\ Connected /\ ~dead
  /\ toServer[page.connection] = <<>> /\ toClient[page.connection] = <<>>

(* Where an attach may be answered after its time-out, when nobody listens any   *)
(* more, a stream runs on without its pane (mux.ts:309).                     *)
InTime == "timeout" \notin happened.may

(* A pane that is attached and idle owes nothing: if no message is in flight,  *)
(* nothing is queued on either side and no batch is waiting, then all output   *)
(* has been sent and acknowledged and the window is open - whatever the        *)
(* hiding, showing, re-attaching and losing of connections before, but for      *)
(* streams that crossed (sendResync, handleViewerAck, resumeView).           *)
IdleMeansCurrent ==
  InTime /\ ~page.crossed /\ AllSaid /\ page.stream = "attached" /\ page.queue = <<>> /\ page.writing = <<>> =>
    LET v == view[page.connection] IN
    v.pending = <<>> => ~v.pausedForBackpressure /\ page.watermark = LastSeq

(* "so the watermark can never claim bytes the terminal has not actually       *)
(* rendered" (mux.ts:518): every chunk up to the watermark is on the screen.   *)
(* Else a resync from it leaves a hole for good.                           *)
WatermarkHonest == BaseSeq .. page.watermark \subseteq page.painted

(* "parsing them AND the replay would paint them twice" (terminal-host.ts:527): *)
(* every chunk is painted once and in order.                               *)
PaintedOnce == page.exact

(* Both at once: nothing acknowledged is missing, and nothing shown is shown    *)
(* twice (handleData, flushWrites, sendResync, cancelPendingWrites).          *)
PaintsFaithfully == InTime /\ ~page.crossed => WatermarkHonest /\ PaintedOnce

(* "'attaching' dies in its own then()" (terminal-host.ts:500): when no message *)
(* is in flight and no answer awaited, a pane that is not mounted has left no  *)
(* viewer behind on the server, whose output it would go on receiving.         *)
LeavesNoViewer ==
  InTime /\ AllSaid /\ ~page.mounted /\ ~page.waiting => ~view[page.connection].joined

(* A pane that stays mounted, wanted and connected ends up attached with        *)
(* everything received and acknowledged, whatever was dropped, hidden or timed *)
(* out before, unless its automatic retries are used up (reactivateHosts,      *)
(* doAttach's retries, sendResync); where streams crossed, at least attached.   *)
Converges ==
  <>[](Connected /\ page.mounted /\ page.wants /\ page.retries < MaxRetries) =>
    <>[](page.stream = "attached" /\ (page.crossed \/ page.watermark = LastSeq))
=============================================================================
