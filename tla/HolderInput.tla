----------------------------- MODULE HolderInput -----------------------------
(***************************************************************************)
(* The event loop of a PTY holder (holder/src/main.rs) as it reads: bytes of the    *)
(* connections, cut anywhere, back into frames; a connection that is parked until   *)
(* it claims the role of controller, or shows that it is of a server that does not   *)
(* know of claims; and the input that waits until the program takes it.           *)
(*                                                                         *)
(* poll() tells at the start of a turn what can be read, the turn reads later, and    *)
(* the connections it reads from may be others by then.  Sockets block.           *)
(* What the frames of a controller ask for is modelled in HolderLink.             *)
(***************************************************************************)
EXTENDS Integers, Sequences, FiniteSets

CONSTANTS Dialers,       \* connections made in the holder's life
          Nobody,
          MaxFrames      \* bound of the model: frames sent in all, but for first ones

ASSUME InputAssumption == Nobody \notin Dialers /\ MaxFrames \in Nat

VARIABLES
  sentOn,        \* the frames sent on each connection
  socket,        \* bytes sent and not yet read
  hungUp,        \* closed by the server
  waiting,       \* connected and not accepted
  at, ready,     \* the turn of the loop: its next phase, and what poll() said
  client, reader,        \* the controller, and the bytes of it that wait for the rest of a frame
  pending, pendingReader,        \* the same of the parked connection
  ptyAlive,
  pendingInput, taken    \* input for the program; what it has been given

inputVars == <<sentOn, socket, hungUp, waiting, at, ready, client, reader, pending, pendingReader, ptyAlive, pendingInput, taken>>
servers == <<sentOn, socket, hungUp, waiting>>

Phases == {"poll", "accept", "pending", "client", "frames"}
ClaimCmds == {"acquire", "takeover"}

(* Bytes: k counts within a frame, whose head (its length and command) is one byte     *)
(* here, and whose payload is two if it is input.                                *)
PayloadLength(cmd) == IF cmd = "dataIn" THEN 2 ELSE 1
Framed(c, i, cmd) == [k \in 1 .. 1 + PayloadLength(cmd) |-> [conn |-> c, i |-> i, k |-> k - 1, cmd |-> cmd]]

(* next_frame: only when all of it is there.                                    *)
HasFrame(buf) == buf # <<>> /\ Len(buf) > PayloadLength(Head(buf).cmd)
PayloadAt(buf) == SubSeq(buf, 2, 1 + PayloadLength(Head(buf).cmd))
Rest(buf) == SubSeq(buf, 2 + PayloadLength(Head(buf).cmd), Len(buf))

Readable(c) == c # Nobody /\ (socket[c] # <<>> \/ c \in hungUp)

-----------------------------------------------------------------------------
InputInit ==
  /\ sentOn = [c \in Dialers |-> <<>>] /\ socket = [c \in Dialers |-> <<>>] /\ hungUp = {} /\ waiting = {}
  /\ at = "poll" /\ ready = {} /\ client = Nobody /\ reader = <<>> /\ pending = Nobody /\ pendingReader = <<>>
  /\ ptyAlive = TRUE /\ pendingInput = <<>> /\ taken = <<>>

(* Servers: one that knows of claims waits until it controls; one that does not just   *)
(* sends.                                                                   *)
Dials(c) ==
  /\ c \notin waiting /\ sentOn[c] = <<>> /\ c \notin hungUp /\ c \notin {client, pending}
  /\ waiting' = waiting \cup {c}
  /\ \E cmd \in ClaimCmds \cup {"dataIn"} :
       sentOn' = [sentOn EXCEPT ![c] = <<cmd>>] /\ socket' = [socket EXCEPT ![c] = Framed(c, 1, cmd)]
  /\ UNCHANGED <<hungUp, at, ready, client, reader, pending, pendingReader, ptyAlive, pendingInput, taken>>

SendsOn(c) ==
  /\ sentOn[c] # <<>> /\ c \notin hungUp
  /\ Cardinality({f \in Dialers \X (1 .. MaxFrames) : f[2] \in DOMAIN sentOn[f[1]]}) < MaxFrames
  /\ sentOn[c][1] = "dataIn" \/ client = c
  /\ sentOn' = [sentOn EXCEPT ![c] = Append(@, "dataIn")]
  /\ socket' = [socket EXCEPT ![c] = @ \o Framed(c, Len(sentOn[c]) + 1, "dataIn")]
  /\ UNCHANGED <<hungUp, waiting, at, ready, client, reader, pending, pendingReader, ptyAlive, pendingInput, taken>>

HangsUpOn(c) ==
  /\ sentOn[c] # <<>> /\ c \notin hungUp /\ hungUp' = hungUp \cup {c}
  /\ UNCHANGED <<sentOn, socket, waiting, at, ready, client, reader, pending, pendingReader, ptyAlive, pendingInput, taken>>

-----------------------------------------------------------------------------
(* poll(), and output of the program, whose writing drops a controller that is gone.   *)
Polls ==
  /\ at = "poll" /\ at' = "accept"
  /\ ready' = {phase \in {"accept", "pending", "client"} :
                 CASE phase = "accept" -> waiting # {}
                   [] phase = "pending" -> Readable(pending)
                   [] phase = "client" -> Readable(client)}
             \cup (IF pending # Nobody THEN {"parked"} ELSE {})
  /\ \/ UNCHANGED <<client, reader>>
     \/ client \in hungUp /\ client' = Nobody /\ reader' = <<>>
  /\ UNCHANGED <<servers, pending, pendingReader, ptyAlive, pendingInput, taken>>

(* A connection is parked, in the place of one that was.                          *)
Accepts ==
  /\ at = "accept" /\ at' = "pending"
  /\ IF "accept" \in ready
     THEN \E c \in waiting : pending' = c /\ pendingReader' = <<>> /\ waiting' = waiting \ {c}
     ELSE UNCHANGED <<pending, pendingReader, waiting>>
  /\ UNCHANGED <<sentOn, socket, hungUp, ready, client, reader, ptyAlive, pendingInput, taken>>

(* read(): some of what is there, nothing at the end; and it waits until there is      *)
(* either.                                                                  *)
ReadsFrom(c) == {SubSeq(socket[c], 1, n) : n \in 1 .. Len(socket[c])} \cup (IF socket[c] = <<>> /\ c \in hungUp THEN {<<>>} ELSE {})
Consumes(c, data) == socket' = [socket EXCEPT ![c] = SubSeq(@, Len(data) + 1, Len(@))]

Unparks == pending' = Nobody /\ pendingReader' = <<>>

(* Mutant: the frame that showed it is lost.                                     *)
PutBackNothing(frame, buf) == Rest(buf)

(* push_back: the frame that showed an old server still counts.                    *)
PutBack(frame, buf) == frame \o Rest(buf)

(* The claim, or what stands for one: the controller there was is replaced, and what     *)
(* was read of the new one is carried over.                                     *)
Promotes(rest) == client' = pending /\ reader' = rest /\ Unparks

(* What has been read of the parked connection decides: a claim, granted or denied;      *)
(* another frame, or none within LEASE_CLAIM_TIMEOUT, an old server.                 *)
Resolves(buf) ==
  IF HasFrame(buf)
  THEN IF Head(buf).cmd \notin ClaimCmds
       THEN Promotes(PutBack(SubSeq(buf, 1, 1 + PayloadLength(Head(buf).cmd)), buf))
       ELSE IF client # Nobody /\ Head(buf).cmd # "takeover"
            THEN Unparks /\ UNCHANGED <<client, reader>>
            ELSE Promotes(Rest(buf))
  ELSE \/ Promotes(buf)
       \/ pendingReader' = buf /\ UNCHANGED <<client, reader, pending>>

ReadsPending ==
  /\ at = "pending" /\ at' = "client"
  /\ IF "parked" \notin ready THEN UNCHANGED <<socket, client, reader, pending, pendingReader>>
     ELSE IF "pending" \notin ready THEN Resolves(pendingReader) /\ UNCHANGED socket
     ELSE \E data \in ReadsFrom(pending) :
            /\ Consumes(pending, data)
            /\ IF data = <<>> THEN Unparks /\ UNCHANGED <<client, reader>> ELSE Resolves(pendingReader \o data)
  /\ UNCHANGED <<sentOn, hungUp, waiting, ready, ptyAlive, pendingInput, taken>>

(* The controller is read from if one was readable when the turn began.               *)
ReadsClient ==
  /\ at = "client" /\ at' = "frames"
  /\ IF "client" \notin ready \/ client = Nobody THEN UNCHANGED <<socket, client, reader>>
     ELSE \E data \in ReadsFrom(client) :
            /\ Consumes(client, data)
            /\ IF data = <<>> THEN client' = Nobody /\ reader' = <<>> ELSE reader' = reader \o data /\ UNCHANGED client
  /\ UNCHANGED <<sentOn, hungUp, waiting, ready, pending, pendingReader, ptyAlive, pendingInput, taken>>

(* flush_pending_input: the program's terminal takes as much as there is room for.      *)
FlushesInput(input, n) == taken' = taken \o SubSeq(input, 1, n) /\ pendingInput' = SubSeq(input, n + 1, Len(input))

(* One of the frames that are there; when there are no more, the next turn.           *)
HandlesFrames ==
  /\ at = "frames"
  /\ IF HasFrame(reader)
     THEN /\ reader' = Rest(reader) /\ UNCHANGED at
          /\ IF Head(reader).cmd = "dataIn" /\ ptyAlive
             THEN LET input == pendingInput \o PayloadAt(reader)
                  IN  \E n \in 0 .. Len(input) : FlushesInput(input, n)
             ELSE UNCHANGED <<pendingInput, taken>>
     ELSE at' = "poll" /\ UNCHANGED <<reader, pendingInput, taken>>
  /\ UNCHANGED <<servers, ready, client, pending, pendingReader, ptyAlive>>

(* POLLOUT.                                                                 *)
TakesMore ==
  /\ at = "poll" /\ ptyAlive /\ pendingInput # <<>>
  /\ \E n \in 1 .. Len(pendingInput) : FlushesInput(pendingInput, n)
  /\ UNCHANGED <<servers, at, ready, client, reader, pending, pendingReader, ptyAlive>>

ProgramEnds ==
  /\ at = "poll" /\ ptyAlive /\ ptyAlive' = FALSE
  /\ UNCHANGED <<servers, at, ready, client, reader, pending, pendingReader, pendingInput, taken>>

HolderInputNext ==
  \/ \E c \in Dialers : Dials(c) \/ SendsOn(c) \/ HangsUpOn(c)
  \/ Polls \/ Accepts \/ ReadsPending \/ ReadsClient \/ HandlesFrames \/ TakesMore \/ ProgramEnds

HolderInputSpec == InputInit /\ [][HolderInputNext]_inputVars

-----------------------------------------------------------------------------
(* What the program has been given and what waits for it.                          *)
given == taken \o pendingInput

(* The first frame of input on c: its first frame, but for a claim.                     *)
FirstInput(sent) == IF sent[1] = "dataIn" THEN 1 ELSE 2

(* Of c, whose frames are sent, was given after the first bytes: n frames of input, the     *)
(* first ones, in their order, each of them whole, with nothing between them.           *)
GivenOf(input, c, sent, after, n) ==
  /\ {l \in DOMAIN input : input[l].conn = c} = after + 1 .. after + n * PayloadLength("dataIn")
  /\ \A j \in 0 .. n - 1 : \A k \in 1 .. PayloadLength("dataIn") :
       LET i == FirstInput(sent) + j
       IN  /\ i \in DOMAIN sent /\ sent[i] = "dataIn"
           /\ input[after + j * PayloadLength("dataIn") + k] = Framed(c, i, "dataIn")[1 + k]

(* The program is given whole frames of input, of each controller the first ones it     *)
(* sent, in their order, the one by which an old server was known included ("a legacy   *)
(* server's first frame is not lost", main.rs:740), and nothing of one after the next     *)
(* took over: however reads cut the frames, and whoever is replaced in the middle of     *)
(* one.                                                                     *)
InputIsWhole ==
  \A c \in Dialers : \E after, n \in 0 .. Len(given) : GivenOf(given, c, sentOn[c], after, n)
=============================================================================
