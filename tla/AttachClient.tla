----------------------------- MODULE AttachClient -----------------------------
(***************************************************************************)
(* `ttym attach` (cli/src/attach.ts): a terminal attached to a session through one     *)
(* connection at a time, with a prefix key, a picker of sessions, a help page and a    *)
(* key for the next member.  What the server does for a viewer is what ViewerStream     *)
(* promises of it: a replay or a snapshot for each ATTACH, then every chunk.          *)
(*                                                                         *)
(* A screen is of a session up to a chunk; of nothing (0) when the client has drawn     *)
(* on it itself, or has painted a chunk on another than the one it follows.          *)
(***************************************************************************)
EXTENDS Integers, Sequences, SequencesExt

CONSTANTS Sessions,            \* those of the workspaces
          MaxOutput,           \* bounds of the model: chunks a session prints,
          MaxPressed,          \* keys pressed that mean something to the client,
          MaxWire              \* frames in a connection

ASSUME AttachAssumption == Sessions # {} /\ {MaxOutput, MaxPressed, MaxWire} \subseteq Nat

VARIABLES
  output,      \* chunks each session has printed: session.lastSeq
  viewing,     \* the sessions that have this connection among their viewers
  sent, due,   \* frames to the server, and from it
  cli,         \* connected, uiMode, currentTarget, lastSeq, what is on the screen, and how many
               \* requests for the list of members are out: picking, cycling
  missed,      \* ghost: a frame came while the prefix was pressed, or the connection was lost
               \* with the number noted and its screen yet to come
  pressed      \* keys pressed

attachVars == <<output, viewing, sent, due, cli, missed, pressed>>

NoScreen == [of |-> 0, upto |-> 0]
Showing(s, n) == [of |-> s, upto |-> n]

AttachInit ==
  /\ output = [s \in Sessions |-> 1] /\ viewing = {} /\ sent = <<>> /\ due = <<>> /\ missed = FALSE /\ pressed = 0
  /\ cli = [connected |-> FALSE, uiMode |-> "attached", target |-> CHOOSE s \in Sessions : TRUE, lastSeq |-> 0,
            screen |-> NoScreen, ready |-> FALSE, picking |-> 0, cycling |-> 0]

-----------------------------------------------------------------------------
(* The server.                                                             *)
Room(frames) == Len(due) + Len(frames) <= MaxWire
DataOf(s, n) == [cmd |-> "DATA", of |-> s, seq |-> n]
SnapshotOf(s) == [cmd |-> "SNAPSHOT", of |-> s, seq |-> output[s]]

SessionPrints(s) ==
  /\ output[s] < MaxOutput /\ output' = [output EXCEPT ![s] = @ + 1]
  /\ LET frames == IF s \in viewing THEN <<DataOf(s, output'[s])>> ELSE <<>>
     IN  Room(frames) /\ due' = due \o frames
  /\ UNCHANGED <<viewing, sent, cli, missed, pressed>>

(* ATTACH: the session as it is, then a replay of what follows fromSeq or a snapshot,    *)
(* which it must be for 0; DETACH.                                              *)
ServerTakes(replays) ==
  /\ sent # <<>> /\ sent' = Tail(sent)
  /\ LET frame == Head(sent)
         s == frame.of
         painting == IF replays THEN [i \in 1 .. output[s] - frame.seq |-> DataOf(s, frame.seq + i)] ELSE <<SnapshotOf(s)>>
         frames == IF frame.cmd = "ATTACH"
                   THEN <<[cmd |-> "ATTACH", of |-> s, seq |-> output[s]]>> \o painting ELSE <<>>
     IN  /\ replays => frame.cmd = "ATTACH" /\ frame.seq > 0
         /\ Room(frames) /\ due' = due \o frames
         /\ viewing' = IF frame.cmd = "ATTACH" THEN viewing \cup {s} ELSE viewing \ {s}
  /\ UNCHANGED <<output, cli, missed, pressed>>

(* A resync of the server's own: an agent that slept or woke, a stall that is over.      *)
ServerResnaps(s) ==
  /\ s \in viewing /\ Room(<<SnapshotOf(s)>>) /\ due' = Append(due, SnapshotOf(s))
  /\ UNCHANGED <<output, viewing, sent, cli, missed, pressed>>

-----------------------------------------------------------------------------
(* sendFrame(): nothing is sent unless the connection is open.                     *)
Sends(c, frames) == sent' = (IF c.connected THEN sent \o frames ELSE sent)
AttachFrame(c) == [cmd |-> "ATTACH", of |-> c.target, seq |-> c.lastSeq]
DetachFrame(c) == [cmd |-> "DETACH", of |-> c.target, seq |-> 0]

(* Mutant: what is on the screen is asked for from the last number on.               *)
SwitchedFromHere(c, s) == [c EXCEPT !.target = s, !.lastSeq = IF s = c.target THEN @ ELSE 0]

(* switchTarget(), and the same for the session shown: leave it, and have all of it anew.  *)
Switched(c, s) == [c EXCEPT !.target = s, !.lastSeq = 0]

Switches(c, s) == cli' = Switched(c, s) /\ Sends(c, <<DetachFrame(c), AttachFrame(Switched(c, s))>>)

(* connect() and its open; close, which loses what is on the way.                     *)
Connects ==
  /\ ~cli.connected
  /\ cli' = [cli EXCEPT !.connected = TRUE] /\ sent' = <<AttachFrame(cli)>>
  /\ UNCHANGED <<output, viewing, due, missed, pressed>>

ConnectionLost ==
  /\ cli.connected
  /\ cli' = [cli EXCEPT !.connected = FALSE] /\ sent' = <<>> /\ due' = <<>> /\ viewing' = {}
  /\ missed' = (missed \/ (cli.lastSeq # 0 /\ cli.screen # Showing(cli.target, cli.lastSeq)))
  /\ UNCHANGED <<output, pressed>>

-----------------------------------------------------------------------------
(* What comes from the server.  Frames of another session than the one followed are      *)
(* dropped; the number is noted whatever is on the screen, the rest is painted on it     *)
(* only outside the prefix, the picker and help.                                     *)
Painted(c, frame) ==
  IF frame.cmd = "SNAPSHOT" THEN Showing(frame.of, frame.seq)
  ELSE IF c.screen = Showing(frame.of, frame.seq - 1) THEN Showing(frame.of, frame.seq) ELSE NoScreen

Takes(c, frame) ==
  IF frame.of # c.target THEN c
  ELSE LET noted == [c EXCEPT !.lastSeq = frame.seq]
       IN  IF frame.cmd = "ATTACH" \/ c.uiMode # "attached" THEN noted
           ELSE [noted EXCEPT !.screen = Painted(c, frame)]

ClientReceives ==
  /\ due # <<>> /\ due' = Tail(due)
  /\ LET frame == Head(due)
         paints == frame.of = cli.target /\ frame.cmd # "ATTACH"
     IN  /\ cli' = Takes(cli, frame)
         /\ missed' = CASE paints /\ cli.uiMode = "prefix" -> TRUE
                        [] paints /\ cli.uiMode = "attached" /\ frame.cmd = "SNAPSHOT" -> FALSE
                        [] OTHER -> missed
  /\ UNCHANGED <<output, viewing, sent, pressed>>

-----------------------------------------------------------------------------
(* Keys, as onInput() gives them to the mode.                                    *)
Presses(mode) == cli.uiMode = mode /\ pressed < MaxPressed /\ pressed' = pressed + 1

EntersPrefix ==
  /\ Presses("attached") /\ cli' = [cli EXCEPT !.uiMode = "prefix"]
  /\ UNCHANGED <<output, viewing, sent, due, missed>>

(* A key that means nothing, the prefix twice, or 1500 ms.                        *)
PrefixEnds ==
  /\ cli.uiMode = "prefix" /\ cli' = [cli EXCEPT !.uiMode = "attached"]
  /\ UNCHANGED <<output, viewing, sent, due, missed, pressed>>

EntersHelp ==
  /\ Presses("prefix") /\ cli' = [cli EXCEPT !.uiMode = "help", !.screen = NoScreen]
  /\ UNCHANGED <<output, viewing, sent, due, missed>>

ExitsHelp ==
  /\ Presses("help") /\ Switches([cli EXCEPT !.uiMode = "attached"], cli.target)
  /\ UNCHANGED <<output, viewing, due, missed>>

(* The picker and the next member ask for the members first.                         *)
EntersPicker ==
  /\ Presses("prefix")
  /\ cli' = [cli EXCEPT !.uiMode = "picker", !.screen = NoScreen, !.ready = FALSE, !.picking = @ + 1]
  /\ UNCHANGED <<output, viewing, sent, due, missed>>

AsksNext ==
  /\ Presses("prefix")
  /\ cli' = [cli EXCEPT !.uiMode = "attached", !.cycling = @ + 1]
  /\ UNCHANGED <<output, viewing, sent, due, missed>>

(* There may be none to pick from, and then the session is shown again.              *)
PickerFills(none) ==
  /\ cli.picking > 0
  /\ LET c == [cli EXCEPT !.picking = @ - 1]
     IN  IF c.uiMode # "picker" THEN ~none /\ cli' = c /\ sent' = sent
         ELSE IF none THEN Switches([c EXCEPT !.uiMode = "attached"], c.target)
         ELSE cli' = [c EXCEPT !.ready = TRUE] /\ sent' = sent
  /\ UNCHANGED <<output, viewing, due, missed, pressed>>

(* Cancelled, or with the members there one is chosen.                             *)
ExitsPicker(s) ==
  /\ Presses("picker") /\ (s # cli.target => cli.ready)
  /\ Switches([cli EXCEPT !.uiMode = "attached"], s)
  /\ UNCHANGED <<output, viewing, due, missed>>

(* The next member is that of the session followed when the members come, if there is     *)
(* another.                                                                  *)
Cycles(s) ==
  /\ cli.cycling > 0
  /\ LET c == [cli EXCEPT !.cycling = @ - 1]
     IN  IF s = c.target THEN cli' = c /\ sent' = sent ELSE Switches(c, s)
  /\ UNCHANGED <<output, viewing, due, missed, pressed>>

AttachNext ==
  \/ \E s \in Sessions : SessionPrints(s) \/ ServerResnaps(s) \/ ExitsPicker(s) \/ Cycles(s)
  \/ \E b \in BOOLEAN : ServerTakes(b) \/ PickerFills(b)
  \/ Connects \/ ConnectionLost \/ ClientReceives
  \/ EntersPrefix \/ PrefixEnds \/ EntersHelp \/ ExitsHelp \/ EntersPicker \/ AsksNext

AttachSpec == AttachInit /\ [][AttachNext]_attachVars

-----------------------------------------------------------------------------
(* With nothing on the way and no page of the client's own on top, the screen is the       *)
(* session followed, up to its last chunk: whatever was picked, cycled to, cancelled or    *)
(* helped with, over lost connections and answers to requests for members that come when   *)
(* another page is up - "resnap" is what each way back promises (attach.ts:219, 337).      *)
(* But two ways of losing output are left, until the next snapshot: what comes while      *)
(* the prefix waits for its key, and a connection lost just after ATTACH was answered.     *)
ScreenFollows ==
  cli.connected /\ cli.uiMode = "attached" /\ sent = <<>> /\ due = <<>> /\ ~missed =>
    cli.screen = Showing(cli.target, output[cli.target])
=============================================================================
