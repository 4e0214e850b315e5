----------------------------- MODULE HolderProofs -----------------------------
(***************************************************************************)
(* What holds of a PTY holder and the servers that connect to it, for any number of    *)
(* connections, of chunks and of places in the holder's ring.                      *)
(***************************************************************************)
EXTENDS HolderLink, SequenceTheorems, WellFoundedInduction, TLAPS

-----------------------------------------------------------------------------
(* The types, without the bounds of the model.                                   *)

Truths == {TRUE, FALSE}

Frames == [cmd : Replies, from : Nat, to : Nat, gap : Truths]

Asks == [cmd : Requests, from : Nat]

Points == [offset : Nat, screen : Seq(Nat)]

Writes == [data : Seq(Nat), final : Truths]

Records == [at : Stages, exit : {"none", "lost", "evicted", "ended"}, applied : Nat, seed : Points, gap : Truths,
            screen : Seq(Nat), queue : Seq(Writes), buffered : Seq(Frames)]

Holders == [client : Conns \cup {None}, pending : Conns \cup {None}, backlog : SUBSET Conns,
            written : Nat, alive : Truths, up : Truths]

LinkTypes ==
  /\ holder \in Holders
  /\ toHolder \in [Conns -> Seq(Asks)] /\ toServer \in [Conns -> Seq(Frames)]
  /\ session \in [Conns -> Records]
  /\ disk \in [manifest : Truths, checkpoint : Points]

-----------------------------------------------------------------------------
(* What the numbers up to n share, the least of those that do not would.              *)
LEMMA Upward ==
  ASSUME NEW n \in Nat, NEW S, 0 \in S, \A i \in 0 .. n : i + 1 \in 0 .. n /\ i \in S => i + 1 \in S
  PROVE  \A i \in 0 .. n : i \in S
<1> DEFINE Less == {ss \in Nat \X Nat : ss[1] < ss[2]}
           T == {i \in 0 .. n : i \notin S}
<1>1. IsWellFoundedOn(Less, Nat)
  BY NatLessThanWellFounded, Zenon DEF OpToRel
<1>2. SUFFICES ASSUME T # {} PROVE FALSE
  OBVIOUS
<1>3. PICK x \in T : \A y \in T : ~(<<y, x>> \in Less)
  <2>1. T \subseteq Nat
    OBVIOUS
  <2> HIDE DEF Less, T
  <2>2. QED
    BY <1>1, <1>2, <2>1, WFMin, Zenon
<1>4. x \in 0 .. n /\ x \notin S /\ x # 0
  BY <1>3
<1>5. x - 1 \in 0 .. n /\ x - 1 + 1 = x /\ x - 1 < x /\ x - 1 \in Nat /\ x \in Nat
  BY <1>4
<1>6. x - 1 \in S
  BY <1>3, <1>5
<1>7. QED
  BY <1>4, <1>5, <1>6

(* A frame handled leaves a session a session.                                    *)
LEMMA ChunksTyped == \A a, b \in Nat : Chunks(a, b) \in Seq(Nat)
<1> SUFFICES ASSUME NEW a \in Nat, NEW b \in Nat PROVE Chunks(a, b) \in Seq(Nat)
  OBVIOUS
<1>1. CASE a <= b
  <2> DEFINE n == b - a
  <2>1. n \in Nat /\ \A i \in 1 .. n : a + i \in Nat
    BY <1>1
  <2>2. Chunks(a, b) = [i \in 1 .. n |-> a + i]
    BY DEF Chunks
  <2> HIDE DEF n
  <2>3. QED
    BY <2>1, <2>2
<1>2. CASE ~(a <= b)
  <2>1. 1 .. b - a = 1 .. 0
    BY <1>2
  <2>2. Chunks(a, b) = [i \in 1 .. 0 |-> a + i]
    BY <2>1 DEF Chunks
  <2>3. QED
    BY <2>2
<1>3. QED
  BY <1>1, <1>2

LEMMA HandledTyped ==
  ASSUME NEW x \in Records, NEW f \in Frames
  PROVE  HandleHolderFrame(x, f) \in Records
<1>1. CASE f.cmd = "out" /\ x.exit = "none"
  <2> DEFINE w == [data |-> Chunks(f.from, f.to), final |-> FALSE]
  <2>1. w \in Writes
    BY ChunksTyped DEF Writes, Truths, Frames
  <2>2. HandleHolderFrame(x, f) = [x EXCEPT !.applied = @ + 1, !.queue = Append(@, w)]
    BY <1>1 DEF HandleHolderFrame
  <2> HIDE DEF w
  <2>3. Append(x.queue, w) \in Seq(Writes) /\ x.applied + 1 \in Nat
    BY <2>1 DEF Records
  <2>4. QED
    BY <2>2, <2>3 DEF Records
<1>2. CASE ~(f.cmd = "out" /\ x.exit = "none")
  BY <1>2 DEF HandleHolderFrame, Records
<1>3. QED
  BY <1>1, <1>2

(* What finalize() goes through.                                                *)
Begun(x) == [x EXCEPT !.at = "driving", !.buffered = <<>>]

Handles(h, x, b, n) ==
  h = [i \in 0 .. n |-> IF i = 0 THEN Begun(x) ELSE HandleHolderFrame(h[i - 1], b[i])]

LEMMA HandlesExists ==
  ASSUME NEW x \in Records, NEW b, NEW n \in Nat
  PROVE  \E h : Handles(h, x, b, n)
<1> DEFINE S == {k \in 0 .. n : \E h : Handles(h, x, b, k)}
<1>1. 0 \in S
  <2>1. Handles([i \in 0 .. 0 |-> Begun(x)], x, b, 0)
    BY DEF Handles
  <2>2. QED
    BY <2>1
<1>2. ASSUME NEW k \in 0 .. n, k + 1 \in 0 .. n, k \in S
      PROVE  k + 1 \in S
  <2>1. PICK h : Handles(h, x, b, k)
    BY <1>2
  <2> DEFINE g == [i \in 0 .. k + 1 |-> IF i = k + 1 THEN HandleHolderFrame(h[k], b[k + 1]) ELSE h[i]]
  <2>2. ASSUME NEW i \in 0 .. k + 1
        PROVE  g[i] = IF i = 0 THEN Begun(x) ELSE HandleHolderFrame(g[i - 1], b[i])
    <3>1. CASE i = k + 1
      <4>1. g[i] = HandleHolderFrame(h[k], b[i]) /\ g[i - 1] = h[k] /\ i # 0
        BY <3>1
      <4>2. QED
        BY <4>1
    <3>2. CASE i # k + 1 /\ i # 0
      <4>1. g[i] = h[i] /\ g[i - 1] = h[i - 1] /\ i \in 0 .. k
        BY <3>2
      <4>2. h[i] = HandleHolderFrame(h[i - 1], b[i])
        BY <2>1, <3>2, <4>1 DEF Handles
      <4>3. QED
        BY <3>2, <4>1, <4>2
    <3>3. CASE i # k + 1 /\ i = 0
      <4>1. g[i] = h[i] /\ 0 \in 0 .. k
        BY <3>3
      <4>2. h[0] = Begun(x)
        BY <2>1, <4>1 DEF Handles
      <4>3. QED
        BY <3>3, <4>1, <4>2
    <3>4. QED
      BY <3>1, <3>2, <3>3
  <2>3. g = [i \in 0 .. k + 1 |-> g[i]]
    OBVIOUS
  <2> HIDE DEF g
  <2>4. Handles(g, x, b, k + 1)
    BY <2>2, <2>3 DEF Handles
  <2>5. QED
    BY <1>2, <2>4
<1> HIDE DEF S
<1>3. n \in S
  BY <1>1, <1>2, Upward
<1>4. QED
  BY <1>3 DEF S

LEMMA FinalizeHandles ==
  ASSUME NEW x \in Records
  PROVE  \E h : /\ h[0] = Begun(x) /\ Finalize(x) = h[Len(x.buffered)]
                /\ \A i \in 1 .. Len(x.buffered) : h[i] = HandleHolderFrame(h[i - 1], x.buffered[i])
<1> DEFINE b == x.buffered
           n == Len(b)
           F == CHOOSE h : Handles(h, x, b, n)
<1>1. n \in Nat
  BY DEF Records
<1>2. Handles(F, x, b, n)
  BY <1>1, HandlesExists
<1>3. Finalize(x) = F[n]
  BY DEF Finalize, Handles, Begun
<1> HIDE DEF F, n, b
<1>4. F[0] = Begun(x) /\ \A i \in 1 .. n : F[i] = HandleHolderFrame(F[i - 1], b[i])
  <2>1. F[0] = Begun(x)
    BY <1>1, <1>2 DEF Handles
  <2>2. ASSUME NEW i \in 1 .. n PROVE F[i] = HandleHolderFrame(F[i - 1], b[i])
    <3>1. i \in 0 .. n /\ i # 0
      BY <1>1
    <3>2. QED
      BY <1>2, <3>1 DEF Handles
  <2>3. QED
    BY <2>1, <2>2
<1>5. QED
  BY <1>3, <1>4 DEF n, b

-----------------------------------------------------------------------------
(* What is in a list of frames, and in the writes xterm has not parsed.                 *)
Comes(b, cmds) == \E i \in DOMAIN b : b[i].cmd \in cmds

InFrames(b, cmds, m) == \E i \in DOMAIN b : b[i].cmd \in cmds /\ b[i].from < m /\ m <= b[i].to

InQueue(q, m) == \E i \in DOMAIN q : \E j \in DOMAIN q[i].data : q[i].data[j] = m

LEMMA InChunks ==
  ASSUME NEW a \in Nat, NEW b \in Nat, NEW m \in Nat
  PROVE  (\E j \in DOMAIN Chunks(a, b) : Chunks(a, b)[j] = m) <=> a < m /\ m <= b
<1>1. DOMAIN Chunks(a, b) = 1 .. b - a /\ \A j \in 1 .. b - a : Chunks(a, b)[j] = a + j
  BY DEF Chunks
<1>2. a < m /\ m <= b => m - a \in 1 .. b - a /\ a + (m - a) = m
  OBVIOUS
<1> DEFINE s == Chunks(a, b)
<1> HIDE DEF s
<1>3. a < m /\ m <= b => \E j \in DOMAIN s : s[j] = m
  <2> SUFFICES ASSUME a < m /\ m <= b PROVE \E j \in DOMAIN s : s[j] = m
    OBVIOUS
  <2>1. m - a \in DOMAIN s /\ s[m - a] = m
    BY <1>1, <1>2 DEF s
  <2>2. QED
    BY <2>1
<1>4. (\E j \in DOMAIN s : s[j] = m) => a < m /\ m <= b
  BY <1>1 DEF s
<1>5. QED
  BY <1>3, <1>4 DEF s

LEMMA QueueGrows ==
  ASSUME NEW q \in Seq(Writes), NEW w \in Writes, NEW m
  PROVE  InQueue(Append(q, w), m) <=> InQueue(q, m) \/ \E j \in DOMAIN w.data : w.data[j] = m
<1> DEFINE n == Len(q)
           p == Append(q, w)
<1>1. n \in Nat /\ DOMAIN q = 1 .. n /\ DOMAIN p = 1 .. n + 1 /\ p[n + 1] = w /\ \A i \in 1 .. n : p[i] = q[i]
  OBVIOUS
<1> HIDE DEF n, p
<1>2. \A i \in 1 .. n + 1 : i \in 1 .. n \/ i = n + 1
  BY <1>1
<1>3. n + 1 \in 1 .. n + 1 /\ 1 .. n \subseteq 1 .. n + 1
  BY <1>1
<1>4. QED
  BY <1>1, <1>2, <1>3 DEF InQueue, p

(* A frame handled: what it leaves alone, and what it does.                          *)
LEMMA Handled ==
  ASSUME NEW x \in Records, NEW f \in Frames, NEW y, y = HandleHolderFrame(x, f)
  PROVE  /\ y \in Records /\ y.at = x.at /\ y.buffered = x.buffered /\ y.screen = x.screen /\ y.seed = x.seed
         /\ y.gap = x.gap
         /\ y.exit = "lost" => x.exit = "lost"
         /\ x.exit \in {"evicted", "ended"} => y.exit \in {"evicted", "ended"}
         /\ y.exit = "none" => x.exit = "none"
         /\ y.exit = "ended" => x.exit = "ended" \/ f.cmd = "exit"
         /\ f.cmd # "out" => y.queue = x.queue /\ y.applied = x.applied
         /\ y.exit = "none" => f.cmd \notin {"exit", "evicted"}
         /\ y.exit = "none" => \A m \in Nat :
              InQueue(y.queue, m) <=> InQueue(x.queue, m) \/ (f.cmd = "out" /\ f.from < m /\ m <= f.to)
<1>1. y \in Records
  BY HandledTyped
<1>2. CASE f.cmd = "out" /\ x.exit = "none"
  <2> DEFINE w == [data |-> Chunks(f.from, f.to), final |-> FALSE]
  <2>1. w \in Writes /\ f.from \in Nat /\ f.to \in Nat /\ x.queue \in Seq(Writes)
    BY ChunksTyped DEF Writes, Truths, Frames, Records
  <2>2. y = [x EXCEPT !.applied = @ + 1, !.queue = Append(@, w)]
    BY <1>2 DEF HandleHolderFrame
  <2>3. w.data = Chunks(f.from, f.to)
    OBVIOUS
  <2> HIDE DEF w
  <2>4. /\ y.at = x.at /\ y.buffered = x.buffered /\ y.screen = x.screen /\ y.seed = x.seed
        /\ y.gap = x.gap /\ y.exit = x.exit /\ y.queue = Append(x.queue, w)
    BY <2>2 DEF Records
  <2>5. \A m \in Nat : InQueue(y.queue, m) <=> InQueue(x.queue, m) \/ (f.from < m /\ m <= f.to)
    BY <2>1, <2>3, <2>4, QueueGrows, InChunks, SMTT(30)
  <2>6. QED
    BY <1>1, <1>2, <2>4, <2>5
<1>3. CASE ~(f.cmd = "out" /\ x.exit = "none")
  <2>1. /\ y.at = x.at /\ y.buffered = x.buffered /\ y.screen = x.screen /\ y.seed = x.seed
        /\ y.gap = x.gap /\ y.queue = x.queue /\ y.applied = x.applied
    BY <1>3 DEF HandleHolderFrame, Records
  <2>2. y.exit = IF f.cmd = "exit" THEN "ended" ELSE IF f.cmd = "evicted" THEN "evicted" ELSE x.exit
    BY <1>3 DEF HandleHolderFrame, Records
  <2>3. QED
    BY <1>1, <1>3, <2>1, <2>2
<1>4. QED
  BY <1>2, <1>3

(* finalize(): what was buffered is in the queue, unless the session has ended.         *)
LEMMA Finalized ==
  ASSUME NEW x \in Records, NEW y, y = Finalize(x)
  PROVE  /\ y \in Records /\ y.at = "driving" /\ y.buffered = <<>> /\ y.screen = x.screen /\ y.seed = x.seed
         /\ y.gap = x.gap
         /\ y.exit = "lost" => x.exit = "lost"
         /\ x.exit \in {"evicted", "ended"} => y.exit \in {"evicted", "ended"}
         /\ y.exit = "none" => x.exit = "none"
         /\ y.exit = "ended" => x.exit = "ended" \/ Comes(x.buffered, {"exit"})
         /\ ~Comes(x.buffered, {"out"}) => y.queue = x.queue /\ y.applied = x.applied
         /\ y.exit = "none" => \A m \in Nat :
              InQueue(y.queue, m) <=> InQueue(x.queue, m) \/ InFrames(x.buffered, {"out"}, m)
<1> DEFINE b == x.buffered
           n == Len(b)
<1>1. b \in Seq(Frames) /\ n \in Nat /\ DOMAIN b = 1 .. n
  BY DEF Records
<1>2. PICK h : h[0] = Begun(x) /\ y = h[n] /\ \A i \in 1 .. n : h[i] = HandleHolderFrame(h[i - 1], b[i])
  BY FinalizeHandles
<1> DEFINE Same(z) == /\ z \in Records /\ z.at = "driving" /\ z.buffered = <<>> /\ z.screen = x.screen /\ z.seed = x.seed
                      /\ z.gap = x.gap
                      /\ z.exit = "lost" => x.exit = "lost"
                      /\ x.exit \in {"evicted", "ended"} => z.exit \in {"evicted", "ended"}
                      /\ z.exit = "none" => x.exit = "none"
                      /\ z.exit = "ended" => x.exit = "ended" \/ Comes(b, {"exit"})
                      /\ ~Comes(b, {"out"}) => z.queue = x.queue /\ z.applied = x.applied
           Queued(z, i) == z.exit = "none" => \A m \in Nat :
             InQueue(z.queue, m) <=> InQueue(x.queue, m)
               \/ \E j \in 1 .. i : b[j].cmd = "out" /\ b[j].from < m /\ m <= b[j].to
           S == {i \in 0 .. n : Same(h[i]) /\ Queued(h[i], i)}
<1>3. 0 \in S
  <2>1. /\ h[0].at = "driving" /\ h[0].buffered = <<>> /\ h[0].screen = x.screen /\ h[0].seed = x.seed /\ h[0].gap = x.gap
        /\ h[0].exit = x.exit /\ h[0].queue = x.queue /\ h[0].applied = x.applied /\ h[0] \in Records
    <3>1. <<>> \in Seq(Frames) /\ "driving" \in Stages
      BY DEF Stages
    <3>2. QED
      BY <1>2, <3>1 DEF Begun, Records
  <2>2. Same(h[0]) /\ Queued(h[0], 0)
    BY <2>1
  <2> HIDE DEF Same, Queued
  <2>3. QED
    BY <1>1, <2>2
<1>4. ASSUME NEW i \in 0 .. n, i + 1 \in 0 .. n, i \in S
      PROVE  i + 1 \in S
  <2> DEFINE f == b[i + 1]
             z == h[i]
             u == h[i + 1]
  <2>1. i + 1 \in 1 .. n /\ i + 1 - 1 = i /\ f \in Frames
    BY <1>1, <1>4
  <2>2. u = HandleHolderFrame(z, f)
    BY <1>2, <2>1
  <2>3. Same(z) /\ Queued(z, i)
    BY <1>4
  <2>4. z \in Records
    BY <2>3
  <2>5. /\ u \in Records /\ u.at = z.at /\ u.buffered = z.buffered /\ u.screen = z.screen /\ u.seed = z.seed
        /\ u.gap = z.gap
        /\ u.exit = "lost" => z.exit = "lost"
        /\ z.exit \in {"evicted", "ended"} => u.exit \in {"evicted", "ended"}
        /\ u.exit = "none" => z.exit = "none"
        /\ u.exit = "ended" => z.exit = "ended" \/ f.cmd = "exit"
        /\ f.cmd # "out" => u.queue = z.queue /\ u.applied = z.applied
        /\ u.exit = "none" => \A m \in Nat :
             InQueue(u.queue, m) <=> InQueue(z.queue, m) \/ (f.cmd = "out" /\ f.from < m /\ m <= f.to)
    <3> HIDE DEF f, z, u
    <3>1. QED
      BY <2>1, <2>2, <2>4, Handled DEF f
  <2>6. (f.cmd = "exit" => Comes(b, {"exit"})) /\ (f.cmd = "out" => Comes(b, {"out"}))
    BY <1>1, <2>1 DEF Comes
  <2>7. Same(u)
    <3> HIDE DEF f, z, u
    <3>1. QED
      BY <2>3, <2>5, <2>6
  <2>8. Queued(u, i + 1)
    <3> SUFFICES ASSUME u.exit = "none", NEW m \in Nat
                 PROVE  InQueue(u.queue, m) <=> InQueue(x.queue, m)
                          \/ \E j \in 1 .. i + 1 : b[j].cmd = "out" /\ b[j].from < m /\ m <= b[j].to
      OBVIOUS
    <3> DEFINE Out(j) == b[j].cmd = "out" /\ b[j].from < m /\ m <= b[j].to
    <3>1. InQueue(u.queue, m) <=> InQueue(z.queue, m) \/ Out(i + 1)
      BY <2>5
    <3>2. InQueue(z.queue, m) <=> InQueue(x.queue, m) \/ \E j \in 1 .. i : Out(j)
      BY <2>3, <2>5
    <3> HIDE DEF Out, u, z, f
    <3>3. (\E j \in 1 .. i + 1 : Out(j)) <=> (\E j \in 1 .. i : Out(j)) \/ Out(i + 1)
      BY <2>1
    <3>4. InQueue(u.queue, m) <=> InQueue(x.queue, m) \/ \E j \in 1 .. i + 1 : Out(j)
      BY <3>1, <3>2, <3>3
    <3>5. QED
      BY <3>4 DEF Out
  <2> HIDE DEF Same, Queued
  <2>9. QED
    BY <1>4, <2>7, <2>8
<1> HIDE DEF S, n
<1>5. n \in S
  BY <1>1, <1>3, <1>4, Upward
<1>6. Same(y) /\ Queued(y, n)
  BY <1>2, <1>5 DEF S
<1>7. \A m : InFrames(b, {"out"}, m) <=> \E j \in 1 .. n : b[j].cmd = "out" /\ b[j].from < m /\ m <= b[j].to
  BY <1>1 DEF InFrames
<1>8. QED
  BY <1>6, <1>7 DEF n

-----------------------------------------------------------------------------
(* The inductive invariant: what is true of a connection c.                              *)

Answers == {"state", "acquired", "denied", "dump", "replay"}

StageFor(cmd) ==
  CASE cmd = "state" -> "dialing" [] cmd \in {"acquired", "denied"} -> "claiming"
    [] cmd = "dump" -> "dumping" [] cmd = "replay" -> "replaying"

Rebuilt == {"finishing", "driving"}

(* The roles of the holder go to different connections.                                *)
RolesApart ==
  /\ holder.pending \notin holder.backlog /\ holder.client \notin holder.backlog
  /\ holder.pending # None => holder.pending # holder.client

(* How far its handshake can be, by its role.                                       *)
InItsRole(c) ==
  /\ At(c, {"new"}) => ~Connected(c) /\ toServer[c] = <<>> /\ toHolder[c] = <<>> /\ session[c].exit = "none"
  /\ At(c, {"gone"}) => toServer[c] = <<>> /\ session[c].exit = "none"
  /\ c \in holder.backlog => At(c, {"dialing", "gone"}) /\ toServer[c] = <<>>
  /\ holder.pending = c => At(c, {"dialing", "claiming", "failed", "gone"}) /\ ~Comes(toServer[c], {"acquired", "denied"})

(* A server has one request out at a time, and what it may be depends on the stage.       *)
AsksInTurn(c) ==
  LET asks == toHolder[c] IN
  /\ asks # <<>> => Connected(c)
  /\ Comes(asks, {"close"}) => At(c, {"gone"})
  /\ asks # <<>> => At(c, {"claiming", "dumping", "replaying", "gone"})
  /\ At(c, {"claiming", "dumping", "replaying"}) => Len(asks) <= 1
  /\ At(c, {"claiming"}) /\ asks # <<>> => asks[1].cmd \in {"acquire", "takeover"}
  /\ At(c, {"dumping"}) /\ asks # <<>> => asks[1].cmd = "dumpReq" /\ asks[1].from = 0
  /\ At(c, {"replaying"}) /\ asks # <<>> => asks[1].cmd = "dumpSince" /\ asks[1].from = session[c].seed.offset

(* One answer at most is on the way, for the stage, and then no request is; nothing          *)
(* follows the end.                                                             *)
AnswersInTurn(c) ==
  LET wire == toServer[c] IN
  /\ \A i \in DOMAIN wire : wire[i].cmd \in Answers => session[c].at = StageFor(wire[i].cmd) /\ toHolder[c] = <<>>
  /\ \A i, j \in DOMAIN wire : wire[i].cmd \in Answers /\ wire[j].cmd \in Answers => i = j
  /\ \A i \in DOMAIN wire : wire[i].cmd = "close" => i = Len(wire)
  /\ Comes(wire, {"close", "evicted"}) => ~Connected(c)

(* What is parsed or kept belongs to a stage, and a session is lost when its wire has ended.  *)
KeptInTurn(c) ==
  LET x == session[c] IN
  /\ ~At(c, Rebuilt) => x.queue = <<>> /\ x.exit \in {"none", "lost"}
  /\ At(c, {"driving"}) => x.buffered = <<>>
  /\ At(c, {"dumping"}) => x.seed.offset = 0
  /\ x.exit = "lost" => toServer[c] = <<>> /\ ~Connected(c)

(* The wire of a rebuilt session ends without a word only if the program has ended or a claim  *)
(* came late; another's ends before it could be rebuilt.                               *)
EndsWithReason(c) ==
  LET wire == toServer[c]
      excused == ~holder.alive \/ "late" \in disturbed
  IN
  /\ Comes(wire, {"close"}) =>
       \/ excused
       \/ Len(wire) >= 2 /\ wire[Len(wire) - 1].cmd = "evicted"
       \/ session[c].exit \in {"evicted", "ended"}
       \/ ~At(c, Rebuilt) /\ ~Comes(wire, {"acquired", "dump", "replay"})
  /\ session[c].exit = "lost" /\ At(c, Rebuilt) => excused

Calm == holder.alive /\ "late" \notin disturbed /\ "overtaken" \notin disturbed

(* Each stage of a handshake has its answer on the way, or the request for it.                *)
AnswerIsComing(c) ==
  LET wire == toServer[c] IN
  Calm =>
    /\ At(c, {"dialing"}) => c \in holder.backlog \/ (holder.pending = c /\ wire # <<>> /\ wire[1].cmd = "state")
    /\ At(c, {"claiming"}) => \/ holder.pending = c /\ toHolder[c] # <<>>
                              \/ holder.client = c /\ Comes(wire, {"acquired"})
                              \/ Comes(wire, {"denied"})
    /\ At(c, {"dumping", "replaying"}) => holder.client = c /\ (toHolder[c] # <<>> \/ Comes(wire, {"dump", "replay"}))

(* Chunk m is on its way to the screen of c, or on it.                                    *)
Afloat(c, m) ==
  \/ InFrames(toServer[c], {"out", "dump", "replay"}, m)
  \/ InFrames(session[c].buffered, {"out"}, m)
  \/ InQueue(session[c].queue, m)

OnScreen(c, m) == \E i \in DOMAIN session[c].screen : session[c].screen[i] = m

There(c, m) == Afloat(c, m) \/ OnScreen(c, m)

(* Before its handshake is over, the controller is sent every chunk since it got the role, and   *)
(* then from what it asked for on; afterwards nothing between its first chunk and the last is     *)
(* missing.                                                                    *)
NothingMissing(c) ==
  LET x == session[c]
      wire == toServer[c]
  IN
  /\ (holder.pending = c \/ c \in holder.backlog \/ At(c, {"new"})) /\ ~At(c, {"gone", "failed"}) =>
       \A m \in Nat : ~Afloat(c, m)
  /\ At(c, {"new", "dialing", "claiming", "dumping"}) => x.screen = <<>>
  /\ At(c, {"replaying"}) => x.screen = x.seed.screen
  /\ holder.client = c /\ At(c, {"dialing", "claiming", "dumping", "replaying"}) =>
       \A m \in Nat, k \in 1 .. holder.written : Afloat(c, m) /\ m <= k => Afloat(c, k)
  /\ holder.client = c /\ At(c, {"replaying"}) =>
       \A i \in DOMAIN wire : wire[i].cmd = "replay" /\ ~wire[i].gap =>
         \A k \in 1 .. holder.written : x.seed.offset < k => Afloat(c, k)
  /\ holder.client = c /\ At(c, Rebuilt) /\ x.exit = "none" /\ ~x.gap /\ Whole(x.seed.screen, x.seed.offset) =>
       \A m \in 1 .. holder.written : There(c, m) \/ \A k \in Nat : There(c, k) => m < k

(* No frame is ahead of the holder, and an end is told of when there is one.                      *)
FramesAreTrue(c) ==
  /\ \A i \in DOMAIN toServer[c] : toServer[c][i].to <= holder.written
  /\ Comes(toServer[c], {"exit"}) \/ Comes(session[c].buffered, {"exit"}) \/ session[c].exit = "ended" => ~holder.alive

(* No output came in a handshake, and no checkpoint was taken ahead of the screen.                  *)
Undisturbed == "handshake" \notin disturbed /\ "save" \notin disturbed

Even(point) == Run(point.screen, point.offset) /\ point.offset <= holder.written

(* Then the offset of a session is the number of chunks there are, until it follows them one by one.  *)
OffsetInStep(c) ==
  LET x == session[c]
      wire == toServer[c]
  IN
  Undisturbed =>
    /\ At(c, Handshake) => ~Comes(wire, {"out"}) /\ ~Comes(x.buffered, {"out"})
    /\ At(c, {"new"}) => x.buffered = <<>>
    /\ c \in {holder.pending, holder.client} =>
         /\ At(c, {"dialing"}) => \A i \in DOMAIN wire : wire[i].cmd = "state" => wire[i].to = holder.written
         /\ At(c, {"claiming", "dumping"}) => x.applied = holder.written
         /\ \A i \in DOMAIN wire : wire[i].cmd = "replay" => wire[i].to = holder.written
    /\ \A i \in DOMAIN wire : wire[i].cmd = "dump" => wire[i].to = x.applied /\ wire[i].from <= wire[i].to
    /\ \A i \in DOMAIN wire : wire[i].cmd = "replay" =>
         wire[i].from <= wire[i].to /\ (~wire[i].gap => wire[i].from = x.seed.offset)
    /\ Even(x.seed)

(* And from then on the frames on the wire bring the chunks after it.                              *)
FollowsInStep(c) ==
  LET x == session[c]
      wire == toServer[c]
  IN
  Undisturbed /\ At(c, Rebuilt) /\ x.exit = "none" =>
    /\ ~x.gap => Exact(x)
    /\ x.applied <= holder.written
    /\ \A i \in DOMAIN wire : wire[i].cmd = "out" => wire[i].from = x.applied + i - 1 /\ wire[i].to = x.applied + i
    /\ holder.client = c /\ holder.alive => holder.written = x.applied + Len(wire)

Kept(c) ==
  /\ InItsRole(c) /\ AsksInTurn(c) /\ AnswersInTurn(c) /\ KeptInTurn(c)
  /\ EndsWithReason(c) /\ AnswerIsComing(c) /\ NothingMissing(c)
  /\ FramesAreTrue(c) /\ OffsetInStep(c) /\ FollowsInStep(c)

LinkInv ==
  /\ LinkTypes /\ RolesApart
  /\ Calm => disk.manifest
  /\ Undisturbed => Even(disk.checkpoint)
  /\ \A c \in Conns : Kept(c)

-----------------------------------------------------------------------------
(* A connection nothing happens to, whatever happens to others.                                *)
LEMMA Bystander ==
  ASSUME LinkInv, NEW c \in Conns,
         toServer'[c] = toServer[c], toHolder'[c] = toHolder[c], session'[c] = session[c],
         holder' \in Holders, holder'.pending = c <=> holder.pending = c, holder'.client = c <=> holder.client = c,
         c \in holder'.backlog <=> c \in holder.backlog, holder'.alive => holder.alive,
         disturbed \subseteq disturbed', holder.written <= holder'.written,
         holder'.written # holder.written => holder.client # c /\ (holder.pending # c \/ ~Undisturbed')
  PROVE  Kept(c)'
<1>1. /\ Kept(c) /\ session[c] \in Records /\ toServer[c] \in Seq(Frames) /\ toHolder[c] \in Seq(Asks)
      /\ holder \in Holders /\ holder.written \in Nat /\ holder'.written \in Nat
  BY DEF LinkInv, LinkTypes, Holders
<1>2. Connected(c)' <=> Connected(c)
  BY DEF Connected
<1>3. (\A s : At(c, s)' <=> At(c, s)) /\ (Calm' => Calm) /\ (Undisturbed' => Undisturbed)
  BY DEF At, Calm, Undisturbed
<1>4. InItsRole(c)' /\ AsksInTurn(c)'
  BY <1>1, <1>2, <1>3 DEF Kept, InItsRole, AsksInTurn
<1>5. AnswersInTurn(c)' /\ KeptInTurn(c)'
  BY <1>1, <1>2, <1>3 DEF Kept, AnswersInTurn, KeptInTurn
<1>6. EndsWithReason(c)' /\ AnswerIsComing(c)'
  BY <1>1, <1>2, <1>3 DEF Kept, EndsWithReason, AnswerIsComing
<1>7. (\A m : Afloat(c, m)' <=> Afloat(c, m)) /\ (\A m : There(c, m)' <=> There(c, m))
  BY DEF Afloat, There, OnScreen
<1>8. NothingMissing(c)'
  <2>1. CASE holder'.client = c
    <3>1. holder'.written = holder.written
      BY <2>1
    <3>2. QED
      BY <1>1, <1>2, <1>3, <1>7, <2>1, <3>1 DEF Kept, NothingMissing
  <2>2. CASE holder'.client # c
    BY <1>1, <1>2, <1>3, <1>7, <2>2 DEF Kept, NothingMissing
  <2>3. QED
    BY <2>1, <2>2
<1>9. FramesAreTrue(c)'
  <2>1. \A i \in DOMAIN toServer[c] : toServer[c][i].to \in Nat
    <3>1. ASSUME NEW i \in DOMAIN toServer[c] PROVE toServer[c][i].to \in Nat
      <4>1. toServer[c][i] \in Frames
        BY <1>1
      <4>2. QED
        BY <4>1 DEF Frames
    <3>2. QED
      BY <3>1
  <2>2. QED
    BY <1>1, <2>1 DEF Kept, FramesAreTrue
<1>10. OffsetInStep(c)'
  <2> SUFFICES ASSUME Undisturbed' PROVE OffsetInStep(c)'
    BY DEF OffsetInStep
  <2>1. Undisturbed /\ session[c].seed.offset \in Nat
    BY <1>1, <1>3 DEF Records, Points
  <2>2. c \in {holder'.pending, holder'.client} =>
          c \in {holder.pending, holder.client} /\ holder'.written = holder.written
    OBVIOUS
  <2>3. Even(session[c].seed)'
    BY <1>1, <2>1 DEF Kept, OffsetInStep, Even
  <2>4. QED
    BY <1>1, <1>3, <2>1, <2>2, <2>3 DEF Kept, OffsetInStep
<1>11. FollowsInStep(c)'
  <2>1. session[c].applied \in Nat
    BY <1>1 DEF Records
  <2>2. QED
    BY <1>1, <1>3, <2>1 DEF Kept, FollowsInStep
<1>12. QED
  BY <1>4, <1>5, <1>6, <1>8, <1>9, <1>10, <1>11 DEF Kept

(* A connection whose server has gone.                                                  *)
LEMMA Goes ==
  ASSUME LinkTypes', NEW c \in Conns, session'[c] = [NewSession EXCEPT !.at = "gone"], toServer'[c] = <<>>,
         toHolder'[c] # <<>> => Connected(c)',
         disturbed' = disturbed
  PROVE  Kept(c)'
<1>1. /\ session'[c].at = "gone" /\ session'[c].exit = "none" /\ session'[c].queue = <<>> /\ session'[c].buffered = <<>>
      /\ session'[c].seed = NoCheckpoint /\ session'[c].screen = <<>>
  BY DEF NewSession
<1>2. \A s : At(c, s)' <=> "gone" \in s
  BY <1>1 DEF At
<1>3. \A s : ~Comes(toServer'[c], s) /\ ~Comes(session'[c].buffered, s)
  BY <1>1 DEF Comes
<1>4. InItsRole(c)' /\ AsksInTurn(c)' /\ AnswersInTurn(c)' /\ KeptInTurn(c)'
  BY <1>1, <1>2, <1>3 DEF InItsRole, AsksInTurn, AnswersInTurn, KeptInTurn, Rebuilt
<1>5. EndsWithReason(c)' /\ AnswerIsComing(c)' /\ NothingMissing(c)' /\ FramesAreTrue(c)' /\ FollowsInStep(c)'
  BY <1>1, <1>2, <1>3 DEF EndsWithReason, AnswerIsComing, NothingMissing, FramesAreTrue, FollowsInStep, Rebuilt
<1>6. OffsetInStep(c)'
  <2>1. Even(session[c].seed)'
    BY <1>1 DEF Even, Run, NoCheckpoint, LinkTypes, Holders
  <2>2. QED
    BY <1>1, <1>2, <1>3, <2>1 DEF OffsetInStep, Handshake
<1>7. QED
  BY <1>4, <1>5, <1>6 DEF Kept


(* A connection whose server does not listen: nothing more goes to it.                         *)
LEMMA DeafStays ==
  ASSUME LinkInv, holder' \in Holders, NEW c \in Conns, Deaf(c), session'[c] = session[c], toServer'[c] = toServer[c],
         Comes(toHolder'[c], {"close"}) => At(c, {"gone"}),
         toHolder'[c] # <<>> => Connected(c)' /\ toHolder[c] # <<>>,
         Connected(c)' => Connected(c), c \in holder'.backlog => c \in holder.backlog,
         holder'.pending = c => holder.pending = c \/ c \in holder.backlog,
         holder'.alive => holder.alive, holder.written <= holder'.written, disturbed \subseteq disturbed'
  PROVE  Kept(c)'
<1>1. /\ Kept(c) /\ session[c] \in Records /\ toServer[c] \in Seq(Frames) /\ holder \in Holders
      /\ holder.written \in Nat /\ holder'.written \in Nat
  BY DEF LinkInv, LinkTypes, Holders
<1>2. session[c].at \in {"gone", "failed", "denied"} /\ session'[c].at = session[c].at
  BY DEF Deaf, At
<1>3. (\A s : At(c, s)' <=> session[c].at \in s) /\ (\A s : At(c, s) <=> session[c].at \in s) /\ (Undisturbed' => Undisturbed)
  BY DEF At, Undisturbed
<1>4. \A i \in DOMAIN toServer[c] : toServer[c][i].cmd \notin Answers
  BY <1>1, <1>2 DEF Kept, AnswersInTurn, StageFor, Answers
<1>5. InItsRole(c)'
  BY <1>1, <1>2, <1>3, <1>4 DEF Kept, InItsRole, Comes, Answers
<1>6. AsksInTurn(c)'
  BY <1>1, <1>2, <1>3 DEF Kept, AsksInTurn
<1>7. AnswersInTurn(c)'
  BY <1>1, <1>4 DEF Kept, AnswersInTurn
<1>8. KeptInTurn(c)'
  BY <1>1, <1>2, <1>3 DEF Kept, KeptInTurn, Rebuilt
<1>9. EndsWithReason(c)'
  BY <1>1, <1>2, <1>3, <1>4 DEF EndsWithReason, Rebuilt, Comes, Answers
<1>10. AnswerIsComing(c)' /\ FollowsInStep(c)'
  BY <1>2, <1>3 DEF AnswerIsComing, FollowsInStep, Rebuilt
<1>11. NothingMissing(c)'
  BY <1>1, <1>2, <1>3 DEF NothingMissing, Rebuilt, Kept, InItsRole
<1>12. FramesAreTrue(c)'
  <2>1. \A i \in DOMAIN toServer[c] : toServer[c][i].to \in Nat
    <3>1. ASSUME NEW i \in DOMAIN toServer[c] PROVE toServer[c][i].to \in Nat
      <4>1. toServer[c][i] \in Frames
        BY <1>1
      <4>2. QED
        BY <4>1 DEF Frames
    <3>2. QED
      BY <3>1
  <2>2. QED
    BY <1>1, <2>1 DEF Kept, FramesAreTrue
<1>13. OffsetInStep(c)'
  <2> SUFFICES ASSUME Undisturbed' PROVE OffsetInStep(c)'
    BY DEF OffsetInStep
  <2>1. Undisturbed /\ session[c].seed.offset \in Nat
    BY <1>1, <1>3 DEF Records, Points
  <2>2. Even(session[c].seed)'
    BY <1>1, <2>1 DEF Kept, OffsetInStep, Even
  <2>3. QED
    BY <1>2, <1>3, <1>4, <2>2 DEF OffsetInStep, Handshake, Answers
<1>14. QED
  BY <1>5, <1>6, <1>7, <1>8, <1>9, <1>10, <1>11, <1>12, <1>13 DEF Kept

(* A connection that is dropped: closed, after it was evicted or denied if it was.               *)
LEMMA Dropped ==
  ASSUME LinkInv, NEW c \in Conns, ~Deaf(c), Connected(c), ~Connected(c)', session'[c] = session[c], toHolder'[c] = <<>>,
         NEW n, n = Len(toServer[c]), NEW l \in {n + 1, n + 2}, toServer'[c] \in Seq(Frames), Len(toServer'[c]) = l,
         \A i \in 1 .. n : toServer'[c][i] = toServer[c][i],
         toServer'[c][l] = Say("close"), l = n + 2 => toServer'[c][n + 1] \in {Say("evicted"), Say("denied")},
         l = n + 2 /\ toServer'[c][n + 1] = Say("denied") => At(c, {"claiming"}) /\ toHolder[c] # <<>> /\ holder.pending = c,
         l = n + 1 => holder.pending = c \/ c \in holder.backlog \/ ~holder'.alive \/ "late" \in disturbed',
         At(c, Rebuilt) \/ ~Calm' \/ (l = n + 2 /\ toServer'[c][n + 1] = Say("denied")),
         holder'.written = holder.written, holder'.alive => holder.alive, disturbed \subseteq disturbed'
  PROVE  Kept(c)'
<1>1. /\ Kept(c) /\ session[c] \in Records /\ toServer[c] \in Seq(Frames) /\ holder \in Holders
      /\ holder.written \in Nat /\ n \in Nat /\ DOMAIN toServer[c] = 1 .. n
  BY DEF LinkInv, LinkTypes, Holders
<1> DEFINE wire == toServer[c]
           new == toServer'[c]
<1>2. DOMAIN new = 1 .. l /\ l \in Nat /\ \A i \in 1 .. l : i \in 1 .. n \/ i = l \/ (l = n + 2 /\ i = n + 1)
  BY <1>1
<1>3. (\A s : At(c, s)' <=> At(c, s)) /\ (Undisturbed' => Undisturbed)
  BY DEF At, Undisturbed
<1>4. holder'.pending # c /\ holder'.client # c /\ c \notin holder'.backlog
  BY DEF Connected
<1>5. Say("close").cmd = "close" /\ Say("evicted").cmd = "evicted" /\ Say("denied").cmd = "denied"
      /\ Say("close").to = 0 /\ Say("evicted").to = 0 /\ Say("denied").to = 0
  BY DEF Say
<1>6. ~Comes(wire, {"close", "evicted"})
  BY <1>1 DEF Kept, AnswersInTurn
<1>7. \A s : "close" \notin s /\ "evicted" \notin s /\ "denied" \notin s => (Comes(new, s) <=> Comes(wire, s))
  <2> SUFFICES ASSUME NEW s, "close" \notin s, "evicted" \notin s, "denied" \notin s
               PROVE  Comes(new, s) <=> Comes(wire, s)
    OBVIOUS
  <2>1. \A i \in 1 .. l : new[i].cmd \in s => i \in 1 .. n
    BY <1>2, <1>5
  <2>2. 1 .. n \subseteq 1 .. l
    BY <1>1
  <2>3. QED
    BY <1>1, <1>2, <2>1, <2>2 DEF Comes
<1>8. \A i \in 1 .. l : new[i].cmd \notin {"close", "evicted", "denied"} => i \in 1 .. n /\ new[i] = wire[i]
  BY <1>2, <1>5
<1>9. ~At(c, {"new", "gone", "failed", "denied"})
  BY <1>1 DEF Kept, InItsRole, Deaf, At
<1>10. InItsRole(c)' /\ AsksInTurn(c)'
  <2>1. ~Comes(toHolder'[c], {"close"})
    BY DEF Comes
  <2>2. QED
    BY <1>3, <1>4, <1>9, <2>1 DEF InItsRole, AsksInTurn, At
<1>11. AnswersInTurn(c)'
  <2>1. \A i \in 1 .. l : new[i].cmd \in Answers => session[c].at = StageFor(new[i].cmd)
    <3>1. CASE l = n + 2 /\ new[n + 1] = Say("denied")
      <4>1. session[c].at = "claiming"
        BY <3>1 DEF At
      <4>2. \A i \in 1 .. n : wire[i].cmd \notin Answers
        BY <1>1, <3>1 DEF Kept, AnswersInTurn
      <4>3. QED
        BY <1>2, <1>5, <3>1, <4>1, <4>2 DEF Answers, StageFor
    <3>2. CASE ~(l = n + 2 /\ new[n + 1] = Say("denied"))
      <4>1. \A i \in 1 .. l : new[i].cmd \in Answers => i \in 1 .. n
        BY <1>2, <1>5, <3>2, SMTT(30) DEF Answers
      <4>2. QED
        BY <1>1, <4>1, SMTT(30) DEF Kept, AnswersInTurn
    <3>3. QED
      BY <3>1, <3>2
  <2>2. \A i, j \in 1 .. l : new[i].cmd \in Answers /\ new[j].cmd \in Answers => i = j
    <3>1. CASE l = n + 2 /\ new[n + 1] = Say("denied")
      <4>1. \A i \in 1 .. n : wire[i].cmd \notin Answers
        BY <1>1, <3>1 DEF Kept, AnswersInTurn
      <4>2. \A i \in 1 .. l : new[i].cmd \in Answers => i = n + 1
        BY <1>2, <1>5, <4>1 DEF Answers
      <4>3. QED
        BY <4>2
    <3>2. CASE ~(l = n + 2 /\ new[n + 1] = Say("denied"))
      <4>1. \A i \in 1 .. l : new[i].cmd \in Answers => i \in 1 .. n
        BY <1>2, <1>5, <3>2 DEF Answers
      <4>2. QED
        BY <1>1, <4>1, ZenonT(60) DEF Kept, AnswersInTurn
    <3>3. QED
      BY <3>1, <3>2
  <2>3. \A i \in 1 .. l : new[i].cmd = "close" => i = l
    <3>1. \A i \in 1 .. n : wire[i].cmd # "close"
      BY <1>1, <1>6 DEF Comes
    <3>2. QED
      BY <1>2, <1>5, <3>1, SMTT(30)
  <2>4. QED
    BY <1>2, <2>1, <2>2, <2>3 DEF AnswersInTurn
<1>12. KeptInTurn(c)'
  BY <1>1, <1>3 DEF Kept, KeptInTurn
<1>13. EndsWithReason(c)'
  <2>1. session[c].exit # "lost"
    BY <1>1 DEF Kept, KeptInTurn
  <2>2. CASE l = n + 2 /\ new[n + 1] = Say("evicted")
    <3>1. Len(new) >= 2 /\ new[Len(new) - 1].cmd = "evicted"
      BY <1>1, <1>5, <2>2
    <3>2. QED
      BY <2>1, <3>1 DEF EndsWithReason
  <2>3. CASE ~holder'.alive \/ "late" \in disturbed'
    BY <2>3 DEF EndsWithReason
  <2>4. CASE holder.pending = c \/ c \in holder.backlog
    <3>1. ~At(c, Rebuilt) /\ ~Comes(wire, {"acquired", "dump", "replay"})
      BY <1>1, <2>4 DEF Kept, InItsRole, AnswersInTurn, Comes, StageFor, Answers, At, Rebuilt
    <3>2. QED
      BY <1>3, <1>7, <2>1, <3>1 DEF EndsWithReason
  <2>5. QED
    BY <2>2, <2>3, <2>4
<1>14. AnswerIsComing(c)'
  <2>1. CASE l = n + 2 /\ new[n + 1] = Say("denied")
    <3>1. Comes(new, {"denied"}) /\ session[c].at = "claiming"
      <4>1. session[c].at = "claiming"
        BY <2>1 DEF At
      <4>2. n + 1 \in DOMAIN new /\ new[n + 1].cmd = "denied"
        BY <1>1, <1>2, <1>5, <2>1
      <4>3. QED
        BY <4>1, <4>2 DEF Comes
    <3>2. QED
      BY <3>1 DEF AnswerIsComing, At
  <2>2. QED
    BY <1>3, <2>1 DEF AnswerIsComing, At, Rebuilt
<1>15. NothingMissing(c)'
  BY <1>1, <1>3, <1>4, <1>9 DEF NothingMissing, Kept, At
<1>16. FramesAreTrue(c)'
  <2>3. \A i \in 1 .. n : wire[i].to <= holder.written
    BY <1>1 DEF Kept, FramesAreTrue
  <2>4. 0 <= holder.written /\ new[l].to = 0 /\ (l = n + 2 => new[n + 1].to = 0)
    BY <1>1, <1>5
  <2>1. \A i \in 1 .. l : new[i].to <= holder.written
    BY <1>2, <2>3, <2>4, SMTT(30)
  <2>2. QED
    BY <1>1, <1>2, <1>7, <2>1 DEF Kept, FramesAreTrue
<1>17. OffsetInStep(c)'
  <2> SUFFICES ASSUME Undisturbed' PROVE OffsetInStep(c)'
    BY DEF OffsetInStep
  <2>1. Undisturbed /\ OffsetInStep(c)
    BY <1>1, <1>3 DEF Kept
  <2>2. At(c, Handshake) => ~Comes(new, {"out"}) /\ ~Comes(session[c].buffered, {"out"})
    BY <1>7, <2>1 DEF OffsetInStep
  <2>3. Even(session[c].seed)'
    BY <2>1 DEF OffsetInStep, Even
  <2>4. \A i \in 1 .. l : new[i].cmd = "dump" => new[i].to = session[c].applied /\ new[i].from <= new[i].to
    <3>1. \A i \in 1 .. n : wire[i].cmd = "dump" => wire[i].to = session[c].applied /\ wire[i].from <= wire[i].to
      BY <1>1, <2>1 DEF OffsetInStep
    <3> HIDE DEF wire, new
    <3>2. QED
      BY <1>8, <3>1
  <2>5. \A i \in 1 .. l : new[i].cmd = "replay" =>
          new[i].from <= new[i].to /\ (~new[i].gap => new[i].from = session[c].seed.offset)
    BY <1>1, <1>8, <2>1, ZenonT(60) DEF OffsetInStep
  <2>6. c \notin {holder'.pending, holder'.client} /\ ~At(c, {"new"})
    BY <1>4, <1>9 DEF At
  <2>7. QED
    BY <1>2, <1>3, <2>2, <2>3, <2>4, <2>5, <2>6 DEF OffsetInStep
<1>18. FollowsInStep(c)'
  <2> SUFFICES ASSUME Undisturbed', At(c, Rebuilt)', session[c].exit = "none" PROVE FollowsInStep(c)'
    BY DEF FollowsInStep
  <2>1. /\ ~session[c].gap => Exact(session[c])
        /\ session[c].applied <= holder.written
        /\ \A i \in 1 .. n : wire[i].cmd = "out" => wire[i].from = session[c].applied + i - 1 /\ wire[i].to = session[c].applied + i
    <3>1. Undisturbed /\ At(c, Rebuilt) /\ FollowsInStep(c)
      BY <1>1, <1>3 DEF Kept
    <3>2. QED
      BY <1>1, <3>1 DEF FollowsInStep
  <2>2. \A i \in 1 .. l : new[i].cmd = "out" => new[i].from = session[c].applied + i - 1 /\ new[i].to = session[c].applied + i
    <3>1. \A i \in 1 .. l : new[i].cmd = "out" => i \in 1 .. n /\ new[i] = wire[i]
      BY <1>8
    <3> HIDE DEF wire, new
    <3>2. QED
      BY <2>1, <3>1
  <2>3. QED
    BY <1>2, <1>4, <2>1, <2>2 DEF FollowsInStep
<1>19. QED
  BY <1>10, <1>11, <1>12, <1>13, <1>14, <1>15, <1>16, <1>17, <1>18 DEF Kept

-----------------------------------------------------------------------------
(* The steps of a server that the wires are not concerned with.                              *)
LEMMA NewSessionTyped == NewSession \in Records /\ [NewSession EXCEPT !.at = "gone"] \in Records /\ NoCheckpoint \in Points
<1>1. <<>> \in Seq(Nat) /\ <<>> \in Seq(Writes) /\ <<>> \in Seq(Frames)
  OBVIOUS
<1>2. NoCheckpoint \in Points
  BY <1>1 DEF NoCheckpoint, Points
<1>3. NewSession \in Records
  BY <1>1, <1>2 DEF NewSession, Records, Stages, Truths
<1>4. QED
  BY <1>2, <1>3 DEF Records, Stages

LEMMA PersistKeeps == ASSUME LinkInv, NEW c \in Conns, Persist(c) PROVE LinkInv'
<1> DEFINE x == session[c]
<1>1. /\ holder' = holder /\ toHolder' = toHolder /\ toServer' = toServer /\ session' = session
      /\ disturbed' = disturbed \cup (IF x.queue # <<>> THEN {"save"} ELSE {})
      /\ disk' = [disk EXCEPT !.checkpoint = IF x.gap THEN NoCheckpoint
                                             ELSE [offset |-> x.applied, screen |-> x.screen]]
      /\ Driving(c)
  BY DEF Persist
<1>2. LinkTypes /\ x \in Records /\ holder \in Holders /\ holder.written \in Nat
  BY DEF LinkInv, LinkTypes, Holders
<1>3. disk.manifest = disk'.manifest /\ disk' \in [manifest : Truths, checkpoint : Points]
  <2>1. [offset |-> x.applied, screen |-> x.screen] \in Points
    BY <1>2 DEF Records, Points
  <2>2. QED
    BY <1>1, <1>2, <2>1, NewSessionTyped DEF LinkTypes
<1>4. disturbed \subseteq disturbed'
  BY <1>1
<1>5. ASSUME NEW d \in Conns PROVE Kept(d)'
  BY <1>1, <1>2, <1>4, Bystander
<1>6. LinkTypes' /\ RolesApart' /\ (Calm' => disk'.manifest)
  BY <1>1, <1>2, <1>3, <1>4 DEF LinkInv, LinkTypes, RolesApart, Calm
<1>7. Undisturbed' => Even(disk.checkpoint)'
  <2> SUFFICES ASSUME Undisturbed' PROVE Even(disk.checkpoint)'
    OBVIOUS
  <2>1. x.queue = <<>> /\ Undisturbed
    BY <1>1 DEF Undisturbed
  <2>2. CASE x.gap
    BY <1>1, <1>2, <2>2 DEF Even, Run, NoCheckpoint, LinkTypes
  <2>3. CASE ~x.gap
    <3>1. Exact(x) /\ x.applied <= holder.written
      BY <1>1, <2>1, <2>3 DEF LinkInv, Kept, FollowsInStep, Driving, At, Rebuilt
    <3>2. Run(x.screen, x.applied)
      BY <2>1, <3>1 DEF Exact
    <3>3. disk'.checkpoint.screen = x.screen /\ disk'.checkpoint.offset = x.applied
      BY <1>1, <1>2, <2>3 DEF LinkTypes
    <3>4. QED
      BY <1>1, <3>1, <3>2, <3>3 DEF Even
  <2>4. QED
    BY <2>2, <2>3
<1>8. QED
  BY <1>5, <1>6, <1>7 DEF LinkInv

(* The requests of a server that goes.                                                    *)
LEMMA SendTyped ==
  ASSUME LinkTypes, NEW c \in Conns, NEW requests \in Seq(Asks), Send(c, requests)
  PROVE  /\ toHolder' \in [Conns -> Seq(Asks)] /\ \A d \in Conns : d # c => toHolder'[d] = toHolder[d]
         /\ toHolder'[c] = IF Connected(c) THEN toHolder[c] \o requests ELSE toHolder[c]
BY DEF LinkTypes, Send

LEMMA LeavesKeep ==
  ASSUME LinkInv, NEW c \in Conns, Kill(c) \/ Crash(c)
  PROVE  LinkInv'
<1>1. /\ holder' = holder /\ disturbed' = disturbed /\ toServer' = [toServer EXCEPT ![c] = <<>>]
      /\ session' = [session EXCEPT ![c] = [NewSession EXCEPT !.at = "gone"]]
      /\ disk' \in {disk, [disk EXCEPT !.checkpoint = NoCheckpoint]}
  BY DEF Kill, Crash
<1>2. LinkTypes
  BY DEF LinkInv
<1>3. PICK requests \in Seq(Asks) : Send(c, requests)
  <2>1. <<Ask("close")>> \in Seq(Asks) /\ <<Ask("kill"), Ask("close")>> \in Seq(Asks)
    BY DEF Ask, Asks, Requests
  <2>2. QED
    BY <2>1 DEF Kill, Crash
<1>4. /\ toHolder' \in [Conns -> Seq(Asks)] /\ \A d \in Conns : d # c => toHolder'[d] = toHolder[d]
      /\ toHolder'[c] = IF Connected(c) THEN toHolder[c] \o requests ELSE toHolder[c]
  BY <1>2, <1>3, SendTyped
<1>5. LinkTypes'
  <2>1. session' \in [Conns -> Records] /\ toServer' \in [Conns -> Seq(Frames)]
    <3>1. <<>> \in Seq(Frames)
      OBVIOUS
    <3>2. QED
      BY <1>1, <1>2, <3>1, NewSessionTyped DEF LinkTypes
  <2>2. disk' \in [manifest : Truths, checkpoint : Points]
    <3>1. CASE disk' = disk
      BY <1>2, <3>1 DEF LinkTypes
    <3>2. CASE disk' = [disk EXCEPT !.checkpoint = NoCheckpoint]
      BY <1>2, <3>2, NewSessionTyped DEF LinkTypes
    <3>3. QED
      BY <1>1, <3>1, <3>2
  <2>3. QED
    BY <1>1, <1>2, <1>4, <2>1, <2>2 DEF LinkTypes
<1>6. ASSUME NEW d \in Conns PROVE Kept(d)'
  <2>1. CASE d = c
    <3>1. toHolder'[c] # <<>> => Connected(c)'
      BY <1>1, <1>4 DEF LinkInv, Kept, AsksInTurn, Connected
    <3>2. session'[c] = [NewSession EXCEPT !.at = "gone"] /\ toServer'[c] = <<>>
      BY <1>1, <1>2 DEF LinkTypes
    <3>3. QED
      BY <1>1, <1>5, <2>1, <3>1, <3>2, Goes
  <2>2. CASE d # c
    <3>1. toServer'[d] = toServer[d] /\ toHolder'[d] = toHolder[d] /\ session'[d] = session[d]
      BY <1>1, <1>2, <1>4, <2>2 DEF LinkTypes
    <3>2. holder' \in Holders /\ disturbed \subseteq disturbed' /\ holder.written <= holder'.written
      BY <1>1, <1>2 DEF LinkTypes, Holders
    <3>3. QED
      BY <1>1, <3>1, <3>2, Bystander
  <2>3. QED
    BY <2>1, <2>2
<1>7. RolesApart' /\ (Calm' => disk'.manifest)
  BY <1>1, <1>2 DEF LinkInv, RolesApart, Calm, LinkTypes
<1>8. Undisturbed' => Even(disk.checkpoint)'
  <2>1. CASE disk' = disk
    BY <1>1, <2>1 DEF LinkInv, Even, Undisturbed
  <2>2. CASE disk' = [disk EXCEPT !.checkpoint = NoCheckpoint]
    BY <1>1, <1>2, <2>2 DEF Even, Run, NoCheckpoint, LinkTypes, Holders
  <2>3. QED
    BY <1>1, <2>1, <2>2
<1>9. QED
  BY <1>5, <1>6, <1>7, <1>8 DEF LinkInv

(* A handshake is given up: then no claim is answered as it should be.                          *)
LEMMA HandshakeTimeoutKeeps == ASSUME LinkInv, NEW c \in Conns, HandshakeTimeout(c) PROVE LinkInv'
<1>1. /\ holder' = holder /\ disturbed' = disturbed /\ toServer' = toServer /\ toHolder' = toHolder
      /\ session' = [session EXCEPT ![c].at = "failed"] /\ disk' = [disk EXCEPT !.manifest = FALSE]
      /\ toServer[c] = <<>> /\ toHolder[c] = <<>> /\ c \notin holder.backlog /\ At(c, Handshake \ {"finishing"})
  BY DEF HandshakeTimeout
<1>2. LinkTypes /\ session[c] \in Records /\ holder.written \in Nat /\ Kept(c)
  BY DEF LinkInv, LinkTypes, Holders
<1>3. session'[c] = [session[c] EXCEPT !.at = "failed"]
  BY <1>1, <1>2 DEF LinkTypes
<1>4. /\ session'[c].at = "failed" /\ session'[c].exit = session[c].exit /\ session'[c].queue = session[c].queue
      /\ session'[c].buffered = session[c].buffered /\ session'[c].seed = session[c].seed /\ session'[c] \in Records
  BY <1>2, <1>3 DEF Records, Stages
<1>5. LinkTypes'
  BY <1>1, <1>2, <1>4 DEF LinkTypes, Truths
<1>6. ~Calm
  BY <1>1, <1>2 DEF Kept, AnswerIsComing, At, Handshake, Comes
<1>7. ASSUME NEW d \in Conns PROVE Kept(d)'
  <2>1. CASE d = c
    <3>1. (\A s : At(c, s)' <=> "failed" \in s) /\ \A s : ~Comes(toServer'[c], s)
      BY <1>1, <1>4 DEF At, Comes
    <3>2. session[c].at \in Handshake \ {"finishing"} /\ session[c].at \notin Rebuilt
      BY <1>1 DEF At, Handshake, Rebuilt
    <3>3. InItsRole(c)' /\ AsksInTurn(c)' /\ AnswersInTurn(c)'
      BY <1>1, <3>1 DEF InItsRole, AsksInTurn, AnswersInTurn, Comes
    <3>4. KeptInTurn(c)'
      BY <1>1, <1>2, <1>4, <3>1, <3>2 DEF Kept, KeptInTurn, Rebuilt, At, Connected
    <3>5. EndsWithReason(c)' /\ AnswerIsComing(c)' /\ NothingMissing(c)' /\ FollowsInStep(c)'
      BY <1>1, <1>4, <3>1 DEF EndsWithReason, AnswerIsComing, NothingMissing, FollowsInStep, Rebuilt
    <3>6. FramesAreTrue(c)'
      BY <1>1, <1>2, <1>4, <3>1 DEF Kept, FramesAreTrue
    <3>7. OffsetInStep(c)'
      BY <1>1, <1>2, <1>4, <3>1 DEF Kept, OffsetInStep, Handshake, Even, Undisturbed
    <3>8. QED
      BY <2>1, <3>3, <3>4, <3>5, <3>6, <3>7 DEF Kept
  <2>2. CASE d # c
    <3>1. toServer'[d] = toServer[d] /\ toHolder'[d] = toHolder[d] /\ session'[d] = session[d]
      BY <1>1, <1>2, <2>2 DEF LinkTypes
    <3>2. holder' \in Holders /\ disturbed \subseteq disturbed' /\ holder.written <= holder'.written
      BY <1>1, <1>2 DEF LinkTypes, Holders
    <3>3. QED
      BY <1>1, <3>1, <3>2, Bystander
  <2>3. QED
    BY <2>1, <2>2
<1>8. RolesApart' /\ (Calm' => disk'.manifest)
  BY <1>1, <1>6 DEF LinkInv, RolesApart, Calm
<1>9. Undisturbed' => Even(disk.checkpoint)'
  BY <1>1, <1>2 DEF LinkInv, LinkTypes, Even, Undisturbed
<1>10. QED
  BY <1>5, <1>7, <1>8, <1>9 DEF LinkInv

(* A server reads the checkpoint and dials.                                                   *)
LEMMA ConnectKeeps == ASSUME LinkInv, NEW c \in Conns, Connect(c) PROVE LinkInv'
<1>1. /\ toHolder' = toHolder /\ disturbed' = disturbed /\ toServer' = toServer /\ disk' = disk
      /\ session' = [session EXCEPT ![c].at = "dialing", ![c].seed = disk.checkpoint]
      /\ holder' = [holder EXCEPT !.backlog = @ \cup {c}] /\ At(c, {"new"})
  BY DEF Connect
<1>2. LinkTypes /\ session[c] \in Records /\ holder \in Holders /\ holder.written \in Nat /\ Kept(c) /\ disk.checkpoint \in Points
  BY DEF LinkInv, LinkTypes, Holders
<1>3. /\ holder' \in Holders /\ holder'.client = holder.client /\ holder'.pending = holder.pending
      /\ holder'.written = holder.written /\ holder'.alive = holder.alive /\ holder'.backlog = holder.backlog \cup {c}
  BY <1>1, <1>2 DEF Holders
<1>4. session'[c] = [session[c] EXCEPT !.at = "dialing", !.seed = disk.checkpoint]
  BY <1>1, <1>2 DEF LinkTypes
<1>5. /\ session'[c].at = "dialing" /\ session'[c].exit = session[c].exit /\ session'[c].queue = session[c].queue
      /\ session'[c].buffered = session[c].buffered /\ session'[c].seed = disk.checkpoint
      /\ session'[c].screen = session[c].screen /\ session'[c].gap = session[c].gap
      /\ session'[c] \in Records
  BY <1>2, <1>4 DEF Records, Stages, Handshake
<1>6. LinkTypes'
  BY <1>1, <1>2, <1>3, <1>5 DEF LinkTypes
<1>7. ~Connected(c) /\ toServer[c] = <<>> /\ toHolder[c] = <<>> /\ session[c].exit = "none" /\ session[c].at = "new"
  BY <1>1, <1>2 DEF Kept, InItsRole, At
<1>8. ASSUME NEW d \in Conns PROVE Kept(d)'
  <2>1. CASE d = c
    <3>1. (\A s : At(c, s)' <=> "dialing" \in s) /\ (\A s : ~Comes(toServer'[c], s)) /\ (\A s : At(c, s) <=> "new" \in s)
      BY <1>1, <1>5, <1>7 DEF At, Comes
    <3>2. InItsRole(c)' /\ AsksInTurn(c)' /\ AnswersInTurn(c)'
      BY <1>1, <1>3, <1>7, <3>1 DEF InItsRole, AsksInTurn, AnswersInTurn, Comes
    <3>3. KeptInTurn(c)'
      BY <1>2, <1>5, <1>7, <3>1 DEF Kept, KeptInTurn, Rebuilt
    <3>4. EndsWithReason(c)' /\ AnswerIsComing(c)' /\ FollowsInStep(c)'
      BY <1>3, <3>1 DEF EndsWithReason, AnswerIsComing, FollowsInStep, Rebuilt
    <3>5. NothingMissing(c)'
      <4>1. \A m \in Nat : ~Afloat(c, m)
        BY <1>2, <3>1 DEF Kept, NothingMissing
      <4>2. \A m \in Nat : ~Afloat(c, m)'
        BY <1>1, <1>5, <4>1 DEF Afloat
      <4>3. session[c].screen = <<>>
        BY <1>2, <3>1 DEF Kept, NothingMissing
      <4>4. QED
        BY <1>3, <1>5, <1>7, <3>1, <4>2, <4>3 DEF NothingMissing, Rebuilt, Connected
    <3>6. FramesAreTrue(c)'
      BY <1>1, <1>2, <1>3, <1>5, <1>7 DEF Kept, FramesAreTrue
    <3>7. OffsetInStep(c)'
      <4>1. Undisturbed' => Even(session[c].seed)'
        BY <1>1, <1>3, <1>5 DEF LinkInv, Even, Undisturbed
      <4>2. c \notin {holder'.pending, holder'.client}
        BY <1>3, <1>7 DEF Connected
      <4>3. Undisturbed' => session'[c].buffered = <<>>
        BY <1>1, <1>2, <1>5, <3>1 DEF Kept, OffsetInStep, Undisturbed
      <4>4. QED
        BY <1>1, <1>7, <3>1, <4>1, <4>2, <4>3 DEF OffsetInStep, Comes
    <3>8. QED
      BY <2>1, <3>2, <3>3, <3>4, <3>5, <3>6, <3>7 DEF Kept
  <2>2. CASE d # c
    <3>1. toServer'[d] = toServer[d] /\ toHolder'[d] = toHolder[d] /\ session'[d] = session[d]
      BY <1>1, <1>2, <2>2 DEF LinkTypes
    <3>2. disturbed \subseteq disturbed' /\ holder.written <= holder'.written
      BY <1>1, <1>2, <1>3
    <3>3. d \in holder'.backlog <=> d \in holder.backlog
      BY <1>3, <2>2
    <3>4. QED
      BY <1>3, <3>1, <3>2, <3>3, Bystander
  <2>3. QED
    BY <2>1, <2>2
<1>9. RolesApart' /\ (Calm' => disk'.manifest)
  BY <1>1, <1>3, <1>7 DEF LinkInv, RolesApart, Calm, Connected
<1>10. Undisturbed' => Even(disk.checkpoint)'
  BY <1>1, <1>3 DEF LinkInv, Even, Undisturbed
<1>11. QED
  BY <1>6, <1>8, <1>9, <1>10 DEF LinkInv

-----------------------------------------------------------------------------
(* A server takes a frame from its wire.                                                  *)
LEMMA RestKept ==
  ASSUME NEW w \in Seq(Frames), w # <<>>, NEW r, r = Tail(w)
  PROVE  /\ w[1] \in Frames /\ Head(w) = w[1] /\ r \in Seq(Frames) /\ Len(w) \in Nat \ {0} /\ Len(r) = Len(w) - 1
         /\ DOMAIN w = 1 .. Len(w) /\ DOMAIN r = 1 .. Len(w) - 1
         /\ \A i \in 1 .. Len(w) - 1 : i + 1 \in 1 .. Len(w) /\ r[i] = w[i + 1]
         /\ \A s : Comes(w, s) <=> w[1].cmd \in s \/ Comes(r, s)
         /\ \A s : \A m \in Nat : InFrames(w, s, m) <=>
              (w[1].cmd \in s /\ w[1].from < m /\ m <= w[1].to) \/ InFrames(r, s, m)
<1> DEFINE n == Len(w) - 1
<1>1. /\ w[1] \in Frames /\ Head(w) = w[1] /\ r \in Seq(Frames) /\ n \in Nat /\ Len(w) = n + 1 /\ Len(r) = n
      /\ DOMAIN w = 1 .. n + 1 /\ DOMAIN r = 1 .. n /\ \A i \in 1 .. n : r[i] = w[i + 1]
  OBVIOUS
<1>2. \A i \in 1 .. n : i + 1 \in 1 .. n + 1
  BY <1>1
<1>3. \A i \in 1 .. n + 1 : i = 1 \/ (i - 1 \in 1 .. n /\ (i - 1) + 1 = i)
  BY <1>1
<1>4. 1 \in 1 .. n + 1
  BY <1>1
<1> HIDE DEF n
<1>6. ASSUME NEW s PROVE Comes(w, s) <=> w[1].cmd \in s \/ Comes(r, s)
  <2> DEFINE P(f) == f.cmd \in s
  <2>1. (\E i \in 1 .. n + 1 : P(w[i])) <=> P(w[1]) \/ \E i \in 1 .. n : P(r[i])
    <3> HIDE DEF P
    <3>1. QED
      BY <1>1, <1>2, <1>3, <1>4
  <2>2. QED
    BY <1>1, <2>1 DEF Comes
<1>7. ASSUME NEW s, NEW m \in Nat
      PROVE  InFrames(w, s, m) <=> (w[1].cmd \in s /\ w[1].from < m /\ m <= w[1].to) \/ InFrames(r, s, m)
  <2> DEFINE P(f) == f.cmd \in s /\ f.from < m /\ m <= f.to
  <2>1. (\E i \in 1 .. n + 1 : P(w[i])) <=> P(w[1]) \/ \E i \in 1 .. n : P(r[i])
    <3> HIDE DEF P
    <3>1. QED
      BY <1>1, <1>2, <1>3, <1>4
  <2>2. QED
    BY <1>1, <2>1 DEF InFrames
<1>8. QED
  BY <1>1, <1>2, <1>6, <1>7 DEF n

LEMMA BufferGrows ==
  ASSUME NEW b \in Seq(Frames), NEW f \in Frames, NEW a, a = Append(b, f)
  PROVE  /\ a \in Seq(Frames)
         /\ \A s : Comes(a, s) <=> f.cmd \in s \/ Comes(b, s)
         /\ \A s : \A m \in Nat : InFrames(a, s, m) <=> (f.cmd \in s /\ f.from < m /\ m <= f.to) \/ InFrames(b, s, m)
<1> DEFINE n == Len(b)
<1>1. /\ a \in Seq(Frames) /\ n \in Nat /\ DOMAIN b = 1 .. n /\ DOMAIN a = 1 .. n + 1 /\ a[n + 1] = f
      /\ \A i \in 1 .. n : a[i] = b[i]
  OBVIOUS
<1>2. (\A i \in 1 .. n + 1 : i \in 1 .. n \/ i = n + 1) /\ n + 1 \in 1 .. n + 1 /\ 1 .. n \subseteq 1 .. n + 1
  BY <1>1
<1> HIDE DEF n
<1>3. ASSUME NEW s PROVE Comes(a, s) <=> f.cmd \in s \/ Comes(b, s)
  BY <1>1, <1>2 DEF Comes
<1>4. ASSUME NEW s, NEW m \in Nat
      PROVE  InFrames(a, s, m) <=> (f.cmd \in s /\ f.from < m /\ m <= f.to) \/ InFrames(b, s, m)
  <2> DEFINE P(g) == g.cmd \in s /\ g.from < m /\ m <= g.to
  <2>1. (\E i \in 1 .. n + 1 : P(a[i])) <=> P(f) \/ \E i \in 1 .. n : P(b[i])
    <3> HIDE DEF P
    <3>1. QED
      BY <1>1, <1>2
  <2>2. QED
    BY <1>1, <2>1 DEF InFrames
<1>5. QED
  BY <1>1, <1>3, <1>4

(* What is so of every frame received: y is the session afterwards.                          *)
Hears(c, f, y) ==
  /\ holder' = holder /\ disk' = disk /\ disturbed' = disturbed
  /\ toServer[c] \in Seq(Frames) /\ toServer[c] # <<>> /\ toServer'[c] = Tail(toServer[c]) /\ f = toServer[c][1]
  /\ f \in Frames /\ session[c] \in Records /\ session'[c] = y /\ y = Received(c, session[c], f) /\ y \in Records
  /\ toHolder[c] \in Seq(Asks) /\ holder.written \in Nat /\ ~Deaf(c)
  /\ toHolder'[c] = IF Connected(c) THEN toHolder[c] \o Answer(c, session[c], f) ELSE toHolder[c]

LEMMA CatchUpTyped == ASSUME NEW x \in Records, NEW f \in Frames PROVE CatchUp(x, f) \in Records
<1>1. CASE f.from < f.to
  <2> DEFINE w == [data |-> Chunks(f.from, f.to), final |-> TRUE]
  <2>1. w \in Writes
    BY ChunksTyped DEF Writes, Truths, Frames
  <2>2. CatchUp(x, f) = [x EXCEPT !.at = "finishing", !.queue = Append(@, w)]
    BY <1>1 DEF CatchUp
  <2> HIDE DEF w
  <2>3. Append(x.queue, w) \in Seq(Writes) /\ "finishing" \in Stages
    BY <2>1 DEF Records, Stages, Handshake
  <2>4. QED
    BY <2>2, <2>3 DEF Records
<1>2. CASE ~(f.from < f.to)
  BY <1>2, Finalized DEF CatchUp
<1>3. QED
  BY <1>1, <1>2

LEMMA ReceivedTyped ==
  ASSUME NEW c \in Conns, NEW x \in Records, NEW f \in Frames
  PROVE  Received(c, x, f) \in Records /\ Answer(c, x, f) \in Seq(Asks)
<1>1. f.from \in Nat /\ f.to \in Nat /\ f.gap \in Truths /\ x.seed \in Points /\ x.seed.offset \in Nat /\ x.seed.screen \in Seq(Nat)
  BY DEF Frames, Records, Points
<1>2. Answer(c, x, f) \in Seq(Asks)
  <2>1. /\ <<Ask(IF c \in Takers THEN "takeover" ELSE "acquire")>> \in Seq(Asks)
        /\ <<[cmd |-> "dumpSince", from |-> x.seed.offset]>> \in Seq(Asks) /\ <<Ask("dumpReq")>> \in Seq(Asks)
        /\ <<>> \in Seq(Asks)
    <3>1. {Ask("takeover"), Ask("acquire"), Ask("dumpReq"), [cmd |-> "dumpSince", from |-> x.seed.offset]} \subseteq Asks
      BY <1>1 DEF Asks, Ask, Requests
    <3>2. \A a \in Asks : <<a>> \in Seq(Asks)
      OBVIOUS
    <3>3. QED
      BY <3>1, <3>2
  <2>2. Answer(c, x, f) \in {<<Ask(IF c \in Takers THEN "takeover" ELSE "acquire")>>,
                            <<[cmd |-> "dumpSince", from |-> x.seed.offset]>>, <<Ask("dumpReq")>>, <<>>}
    BY DEF Answer
  <2>3. QED
    BY <2>1, <2>2
<1>3. {"claiming", "replaying", "dumping", "denied"} \subseteq Stages
  BY DEF Stages, Handshake
<1>4. CASE x.at = "dialing" /\ f.cmd = "state"
  BY <1>1, <1>2, <1>3, <1>4 DEF Received, Records
<1>5. CASE x.at = "claiming" /\ f.cmd = "acquired"
  BY <1>1, <1>2, <1>3, <1>5 DEF Received, Records
<1>6. CASE x.at = "claiming" /\ f.cmd = "denied"
  BY <1>1, <1>2, <1>3, <1>6 DEF Received, Records, Denied
<1>7. CASE x.at = "replaying" /\ f.cmd = "replay"
  <2>1. [x EXCEPT !.gap = f.gap, !.applied = f.to] \in Records
    BY <1>1 DEF Records
  <2>2. QED
    BY <1>2, <1>7, <2>1, CatchUpTyped DEF Received, Replayed
<1>8. CASE x.at = "dumping" /\ f.cmd = "dump"
  BY <1>2, <1>8, CatchUpTyped DEF Received
<1>9. CASE f.cmd = "close"
  BY <1>2, <1>9 DEF Received, Closed, Records
<1>10. CASE f.cmd # "close" /\ x.at \in Rebuilt
  BY <1>2, <1>10, HandledTyped DEF Received, Rebuilt
<1>11. CASE /\ ~(x.at = "dialing" /\ f.cmd = "state") /\ ~(x.at = "claiming" /\ f.cmd \in {"acquired", "denied"})
            /\ ~(x.at = "replaying" /\ f.cmd = "replay") /\ ~(x.at = "dumping" /\ f.cmd = "dump")
            /\ f.cmd # "close" /\ x.at \notin Rebuilt
  <2>1. Received(c, x, f) = [x EXCEPT !.buffered = Append(@, f)]
    BY <1>11 DEF Received, Rebuilt
  <2>2. Append(x.buffered, f) \in Seq(Frames)
    BY DEF Records
  <2>3. QED
    BY <1>2, <2>1, <2>2 DEF Records
<1>12. QED
  BY <1>4, <1>5, <1>6, <1>7, <1>8, <1>9, <1>10, <1>11

LEMMA ReceiveHears ==
  ASSUME LinkInv, NEW c \in Conns, Receive(c)
  PROVE  /\ LinkTypes' /\ \A d \in Conns : d # c => Kept(d)'
         /\ \E f, y : Hears(c, f, y)
<1> DEFINE f == Head(toServer[c])
           y == Received(c, session[c], f)
<1>1. /\ LinkTypes /\ session[c] \in Records /\ toServer[c] \in Seq(Frames) /\ toHolder[c] \in Seq(Asks)
      /\ holder \in Holders /\ holder.written \in Nat
  BY DEF LinkInv, LinkTypes, Holders
<1>2. /\ toServer[c] # <<>> /\ holder' = holder /\ disk' = disk /\ disturbed' = disturbed /\ ~Deaf(c)
      /\ session' = [session EXCEPT ![c] = y] /\ Send(c, Answer(c, session[c], f))
      /\ toServer' = [toServer EXCEPT ![c] = Tail(@)]
  BY DEF Receive
<1>3. f = toServer[c][1] /\ f \in Frames /\ Tail(toServer[c]) \in Seq(Frames)
  BY <1>1, <1>2, RestKept
<1> HIDE DEF f
<1>4. y \in Records /\ Answer(c, session[c], f) \in Seq(Asks)
  BY <1>1, <1>3, ReceivedTyped
<1>5. /\ toHolder' \in [Conns -> Seq(Asks)] /\ \A d \in Conns : d # c => toHolder'[d] = toHolder[d]
      /\ toHolder'[c] = IF Connected(c) THEN toHolder[c] \o Answer(c, session[c], f) ELSE toHolder[c]
  BY <1>1, <1>2, <1>4, SendTyped
<1> HIDE DEF y
<1>6. LinkTypes' /\ session'[c] = y /\ toServer'[c] = Tail(toServer[c])
  BY <1>1, <1>2, <1>3, <1>4, <1>5 DEF LinkTypes
<1>7. Hears(c, f, y)
  BY <1>1, <1>2, <1>3, <1>4, <1>5, <1>6 DEF Hears, y
<1>8. ASSUME NEW d \in Conns, d # c PROVE Kept(d)'
  <2>1. toServer'[d] = toServer[d] /\ toHolder'[d] = toHolder[d] /\ session'[d] = session[d]
    BY <1>1, <1>2, <1>5, <1>8 DEF LinkTypes
  <2>2. holder' \in Holders /\ disturbed \subseteq disturbed' /\ holder.written <= holder'.written
    BY <1>1, <1>2
  <2>3. QED
    BY <1>2, <2>1, <2>2, Bystander
<1>9. QED
  BY <1>6, <1>7, <1>8

(* What the invariant says of a session that hears f, and of the rest r of its wire.             *)
Heard(c, f, y, r) ==
  LET x == session[c]
      w == toServer[c]
  IN
  /\ r \in Seq(Frames) /\ toServer'[c] = r /\ Len(w) \in Nat /\ Len(r) \in Nat /\ Len(w) = Len(r) + 1
  /\ DOMAIN r = 1 .. Len(r) /\ \A i \in 1 .. Len(r) : i + 1 \in DOMAIN w /\ r[i] = w[i + 1] /\ r[i] \in Frames
  /\ (\A s : Comes(w, s) <=> f.cmd \in s \/ Comes(r, s))
  /\ (\A s : \A m \in Nat : InFrames(w, s, m) <=> (f.cmd \in s /\ f.from < m /\ m <= f.to) \/ InFrames(r, s, m))
  /\ (\A s : At(c, s) <=> x.at \in s) /\ (\A s : At(c, s)' <=> y.at \in s)
  /\ (Connected(c)' <=> Connected(c)) /\ c \notin holder.backlog
  /\ x.exit # "lost" /\ x.at \in {"dialing", "claiming", "dumping", "replaying", "finishing", "driving"}
  /\ (f.cmd \in Answers => x.at = StageFor(f.cmd) /\ toHolder[c] = <<>> /\ ~Comes(r, Answers))
  /\ (f.cmd = "close" => r = <<>> /\ ~Connected(c))
  /\ f.to <= holder.written /\ (f.cmd = "exit" => ~holder.alive)

LEMMA Hearing ==
  ASSUME LinkInv, NEW c \in Conns, NEW f, NEW y, Hears(c, f, y), NEW r, r = Tail(toServer[c])
  PROVE  Kept(c) /\ Heard(c, f, y, r)
<1> DEFINE w == toServer[c]
           x == session[c]
           n == Len(w)
<1>1. Kept(c)
  BY DEF LinkInv
<1>2. w \in Seq(Frames) /\ w # <<>> /\ r = Tail(w) /\ f = w[1] /\ toServer'[c] = r /\ session'[c] = y /\ holder' = holder
  BY DEF Hears
<1>3. /\ r \in Seq(Frames) /\ Len(w) \in Nat /\ Len(r) \in Nat /\ Len(w) = Len(r) + 1 /\ 1 \in DOMAIN w
      /\ DOMAIN w = 1 .. Len(w) /\ DOMAIN r = 1 .. Len(r)
      /\ \A i \in 1 .. Len(r) : i + 1 \in DOMAIN w /\ r[i] = w[i + 1] /\ r[i] \in Frames
  BY <1>2
<1>4. /\ \A s : Comes(w, s) <=> f.cmd \in s \/ Comes(r, s)
      /\ \A s : \A m \in Nat : InFrames(w, s, m) <=> (f.cmd \in s /\ f.from < m /\ m <= f.to) \/ InFrames(r, s, m)
  <2> HIDE DEF w
  <2>1. QED
    BY <1>2, RestKept
<1>5. (\A s : At(c, s) <=> x.at \in s) /\ (\A s : At(c, s)' <=> y.at \in s) /\ (Connected(c)' <=> Connected(c))
  BY <1>2 DEF At, Connected
<1>6. c \notin holder.backlog
  BY <1>1, <1>2 DEF Kept, InItsRole
<1>7. x.exit # "lost"
  BY <1>1, <1>2 DEF Kept, KeptInTurn
<1>8. x.at \in {"dialing", "claiming", "dumping", "replaying", "finishing", "driving"}
  <2>1. x.at \in Stages /\ x.at \notin {"gone", "failed", "denied"}
    BY DEF Hears, Records, Deaf, At
  <2>2. x.at # "new"
    BY <1>1, <1>2 DEF Kept, InItsRole, At
  <2>3. QED
    BY <2>1, <2>2 DEF Stages, Handshake
<1>9. f.cmd \in Answers => x.at = StageFor(f.cmd) /\ toHolder[c] = <<>> /\ ~Comes(r, Answers)
  <2> SUFFICES ASSUME f.cmd \in Answers PROVE x.at = StageFor(f.cmd) /\ toHolder[c] = <<>> /\ ~Comes(r, Answers)
    OBVIOUS
  <2>1. x.at = StageFor(f.cmd) /\ toHolder[c] = <<>>
    BY <1>1, <1>2, <1>3 DEF Kept, AnswersInTurn
  <2>2. \A i, j \in DOMAIN w : w[i].cmd \in Answers /\ w[j].cmd \in Answers => i = j
    BY <1>1 DEF Kept, AnswersInTurn
  <2>3. ASSUME NEW i \in DOMAIN r, r[i].cmd \in Answers PROVE FALSE
    <3>1. i + 1 \in DOMAIN w /\ w[i + 1].cmd \in Answers /\ i + 1 # 1
      BY <1>3, <2>3
    <3>2. QED
      BY <1>2, <1>3, <2>2, <3>1
  <2>4. QED
    BY <2>1, <2>3 DEF Comes
<1>10. f.cmd = "close" => r = <<>> /\ ~Connected(c)
  <2> SUFFICES ASSUME f.cmd = "close" PROVE r = <<>> /\ ~Connected(c)
    OBVIOUS
  <2>1. 1 = Len(w)
    BY <1>1, <1>2, <1>3 DEF Kept, AnswersInTurn
  <2>2. ~Connected(c)
    BY <1>1, <1>4 DEF Kept, AnswersInTurn
  <2>3. QED
    BY <1>3, <2>1, <2>2
<1>11. f.to <= holder.written /\ (f.cmd = "exit" => ~holder.alive)
  <2>1. f.to <= holder.written
    BY <1>1, <1>2, <1>3 DEF Kept, FramesAreTrue
  <2>2. f.cmd = "exit" => Comes(w, {"exit"})
    BY <1>4
  <2>3. QED
    BY <1>1, <2>1, <2>2 DEF Kept, FramesAreTrue
<1>12. QED
  BY <1>1, <1>2, <1>3, <1>4, <1>5, <1>6, <1>7, <1>8, <1>9, <1>10, <1>11 DEF Heard

(* An answer is heard once, and the order of what follows is that of the wire.                  *)
LEMMA HeardInTurn ==
  ASSUME NEW c \in Conns, NEW f, NEW y, NEW r, Hears(c, f, y), Heard(c, f, y, r), Kept(c),
         f.cmd \in Answers \/ (y.at = session[c].at /\ toHolder'[c] = toHolder[c])
  PROVE  AnswersInTurn(c)'
<1> DEFINE w == toServer[c]
<1>1. /\ \A i \in DOMAIN w : w[i].cmd \in Answers => session[c].at = StageFor(w[i].cmd) /\ toHolder[c] = <<>>
      /\ \A i, j \in DOMAIN w : w[i].cmd \in Answers /\ w[j].cmd \in Answers => i = j
      /\ \A i \in DOMAIN w : w[i].cmd = "close" => i = Len(w)
      /\ Comes(w, {"close", "evicted"}) => ~Connected(c)
  BY DEF Kept, AnswersInTurn
<1>2. DOMAIN r = 1 .. Len(r) /\ Len(r) \in Nat /\ Len(w) = Len(r) + 1 /\ toServer'[c] = r /\ session'[c] = y
  BY DEF Heard, Hears
<1>3. \A i \in 1 .. Len(r) : i + 1 \in DOMAIN w /\ r[i] = w[i + 1]
  BY DEF Heard
<1>4. \A i \in DOMAIN r : r[i].cmd \in Answers => y.at = StageFor(r[i].cmd) /\ toHolder'[c] = <<>>
  <2>1. CASE f.cmd \in Answers
    BY <2>1 DEF Heard, Comes
  <2>2. CASE y.at = session[c].at /\ toHolder'[c] = toHolder[c]
    BY <1>1, <1>2, <1>3, <2>2
  <2>3. QED
    BY <2>1, <2>2
<1>5. \A i, j \in DOMAIN r : r[i].cmd \in Answers /\ r[j].cmd \in Answers => i = j
  <2> SUFFICES ASSUME NEW i \in DOMAIN r, NEW j \in DOMAIN r, r[i].cmd \in Answers, r[j].cmd \in Answers PROVE i = j
    OBVIOUS
  <2>1. i + 1 = j + 1
    BY <1>1, <1>2, <1>3
  <2>2. QED
    BY <1>2, <2>1
<1>6. \A i \in DOMAIN r : r[i].cmd = "close" => i = Len(r)
  BY <1>1, <1>2, <1>3
<1>7. Comes(r, {"close", "evicted"}) => ~Connected(c)'
  BY <1>1 DEF Heard
<1>8. QED
  BY <1>2, <1>4, <1>5, <1>6, <1>7 DEF AnswersInTurn

(* Why a wire ends stays so, while the session does not come to rest.                       *)
LEMMA HeardWithReason ==
  ASSUME NEW c \in Conns, NEW f, NEW y, NEW r, Hears(c, f, y), Heard(c, f, y, r), Kept(c),
         y.exit # "lost", session[c].exit \in {"evicted", "ended"} => y.exit \in {"evicted", "ended"},
         y.at \in Rebuilt => session[c].at \in Rebuilt \/ f.cmd \in {"dump", "replay"},
         f.cmd = "evicted" => y.at \notin Rebuilt \/ y.exit \in {"evicted", "ended"}
  PROVE  EndsWithReason(c)'
<1> DEFINE w == toServer[c]
           x == session[c]
           excused == ~holder.alive \/ "late" \in disturbed
<1>1. /\ toServer'[c] = r /\ session'[c] = y /\ holder' = holder /\ disturbed' = disturbed
      /\ (\A s : At(c, s) <=> x.at \in s) /\ (\A s : At(c, s)' <=> y.at \in s)
      /\ (\A s : Comes(w, s) <=> f.cmd \in s \/ Comes(r, s)) /\ f = w[1]
  BY DEF Heard, Hears
<1>2. /\ Len(r) \in Nat /\ Len(w) = Len(r) + 1 /\ DOMAIN r = 1 .. Len(r)
      /\ \A i \in 1 .. Len(r) : r[i] = w[i + 1] /\ i + 1 \in DOMAIN w
  BY DEF Heard
<1>3. SUFFICES ASSUME Comes(r, {"close"})
               PROVE  \/ excused
                      \/ Len(r) >= 2 /\ r[Len(r) - 1].cmd = "evicted"
                      \/ y.exit \in {"evicted", "ended"}
                      \/ ~At(c, Rebuilt)' /\ ~Comes(r, {"acquired", "dump", "replay"})
  BY <1>1 DEF EndsWithReason
<1>4. \/ excused
      \/ Len(w) >= 2 /\ w[Len(w) - 1].cmd = "evicted"
      \/ x.exit \in {"evicted", "ended"}
      \/ ~At(c, Rebuilt) /\ ~Comes(w, {"acquired", "dump", "replay"})
  BY <1>1, <1>3 DEF Kept, EndsWithReason
<1>5. CASE excused \/ x.exit \in {"evicted", "ended"}
  BY <1>5
<1>6. CASE ~At(c, Rebuilt) /\ ~Comes(w, {"acquired", "dump", "replay"})
  BY <1>1, <1>6
<1>7. CASE Len(w) >= 2 /\ w[Len(w) - 1].cmd = "evicted"
  <2>1. CASE Len(r) >= 2
    <3>1. Len(r) - 1 \in 1 .. Len(r) /\ Len(r) - 1 + 1 = Len(w) - 1
      BY <1>2, <2>1
    <3>2. QED
      BY <1>2, <1>7, <2>1, <3>1
  <2>2. CASE Len(r) < 2
    <3>1. Len(r) = 1 /\ Len(w) - 1 = 1 /\ DOMAIN r = {1}
      BY <1>2, <1>7, <2>2
    <3>2. f.cmd = "evicted" /\ r[1].cmd = "close"
      BY <1>1, <1>3, <1>7, <3>1 DEF Comes
    <3>3. ~Comes(r, {"acquired", "dump", "replay"})
      BY <3>1, <3>2 DEF Comes
    <3>4. QED
      BY <1>1, <3>2, <3>3
  <2>3. QED
    BY <1>2, <2>1, <2>2
<1>8. QED
  BY <1>4, <1>5, <1>6, <1>7

LEMMA HeardFrames ==
  ASSUME NEW c \in Conns, NEW f, NEW y, NEW r, Hears(c, f, y), Heard(c, f, y, r), Kept(c),
         y.exit = "ended" => session[c].exit = "ended" \/ f.cmd = "exit" \/ Comes(session[c].buffered, {"exit"}),
         Comes(y.buffered, {"exit"}) => f.cmd = "exit" \/ Comes(session[c].buffered, {"exit"})
  PROVE  FramesAreTrue(c)'
<1>1. toServer'[c] = r /\ session'[c] = y /\ holder' = holder
  BY DEF Heard, Hears
<1>2. \A i \in DOMAIN r : r[i].to <= holder.written
  BY DEF Heard, Kept, FramesAreTrue
<1>3. (\A s : Comes(toServer[c], s) <=> f.cmd \in s \/ Comes(r, s)) /\ (f.cmd = "exit" => ~holder.alive)
  BY DEF Heard
<1>4. QED
  BY <1>1, <1>2, <1>3 DEF Kept, FramesAreTrue

(* The first frame of a connection is the STATE of the holder, and is answered with the claim.      *)
LEMMA HearsState ==
  ASSUME LinkInv, NEW c \in Conns, NEW f, NEW y, Hears(c, f, y), session[c].at = "dialing", f.cmd = "state"
  PROVE  Kept(c)'
<1> DEFINE w == toServer[c]
           x == session[c]
           r == Tail(w)
<1>1. Kept(c) /\ Heard(c, f, y, r)
  BY Hearing
<1> HIDE DEF r
<1>2. /\ holder' = holder /\ disk' = disk /\ disturbed' = disturbed /\ toServer'[c] = r /\ session'[c] = y
      /\ f = w[1] /\ x \in Records /\ f \in Frames /\ w # <<>>
  BY <1>1 DEF Hears, Heard
<1>3. /\ (\A s : Comes(w, s) <=> f.cmd \in s \/ Comes(r, s)) /\ (\A s : At(c, s) <=> "dialing" \in s)
      /\ (Connected(c)' <=> Connected(c)) /\ c \notin holder.backlog /\ x.exit # "lost" /\ toHolder[c] = <<>> /\ ~Comes(r, Answers)
  BY <1>1 DEF Heard, Answers
<1>4. y = [x EXCEPT !.at = "claiming", !.applied = f.to]
  BY DEF Hears, Received
<1>5. /\ y.at = "claiming" /\ y.exit = x.exit /\ y.applied = f.to /\ y.seed = x.seed /\ y.gap = x.gap
      /\ y.screen = x.screen /\ y.queue = x.queue /\ y.buffered = x.buffered
  BY <1>2, <1>4 DEF Records
<1>6. \A s : At(c, s)' <=> "claiming" \in s
  BY <1>1, <1>5 DEF Heard
<1>7. ~Connected(c) => toHolder'[c] = <<>>
  BY <1>3 DEF Hears
<1>8. Connected(c) => /\ Len(toHolder'[c]) <= 1 /\ toHolder'[c] # <<>> /\ DOMAIN toHolder'[c] = {1}
                      /\ toHolder'[c][1].cmd \in {"acquire", "takeover"}
  <2>1. Answer(c, x, f) = <<Ask(IF c \in Takers THEN "takeover" ELSE "acquire")>>
    BY DEF Answer
  <2> DEFINE a == Ask(IF c \in Takers THEN "takeover" ELSE "acquire")
  <2>2. a.cmd \in {"acquire", "takeover"}
    BY DEF Ask
  <2> HIDE DEF a
  <2>3. Connected(c) => toHolder'[c] = <<a>>
    BY <1>3, <2>1 DEF Hears, a
  <2>4. <<a>> # <<>> /\ Len(<<a>>) <= 1 /\ <<a>>[1] = a /\ DOMAIN <<a>> = {1}
    OBVIOUS
  <2>5. QED
    BY <2>2, <2>3, <2>4
<1>9. InItsRole(c)'
  <2>1. holder.pending = c => ~Comes(r, {"acquired", "denied"})
    BY <1>1, <1>3 DEF Kept, InItsRole
  <2>2. QED
    BY <1>2, <1>3, <1>6, <2>1 DEF InItsRole
<1>10. AsksInTurn(c)'
  <2>1. toHolder'[c] # <<>> => Connected(c)'
    BY <1>3, <1>7
  <2>2. ~Comes(toHolder'[c], {"close"})
    <3>1. CASE Connected(c)
      BY <1>8, <3>1 DEF Comes
    <3>2. CASE ~Connected(c)
      BY <1>7, <3>2 DEF Comes
    <3>3. QED
      BY <3>1, <3>2
  <2>3. Len(toHolder'[c]) <= 1
    <3>1. CASE Connected(c)
      BY <1>8, <3>1
    <3>2. CASE ~Connected(c)
      <4>1. toHolder'[c] = <<>>
        BY <1>7, <3>2
      <4>2. QED
        BY <4>1
    <3>3. QED
      BY <3>1, <3>2
  <2>4. toHolder'[c] # <<>> => toHolder'[c][1].cmd \in {"acquire", "takeover"}
    BY <1>7, <1>8
  <2>5. QED
    BY <1>6, <2>1, <2>2, <2>3, <2>4 DEF AsksInTurn
<1>11. AnswersInTurn(c)'
  BY <1>1, HeardInTurn DEF Answers
<1>12. KeptInTurn(c)'
  BY <1>1, <1>2, <1>3, <1>5, <1>6 DEF Kept, KeptInTurn, Rebuilt
<1>13. EndsWithReason(c)'
  BY <1>1, <1>3, <1>5, HeardWithReason DEF Rebuilt
<1>14. AnswerIsComing(c)'
  <2>1. Calm' => Calm
    BY <1>2 DEF Calm
  <2>2. Calm => holder.pending = c
    BY <1>1, <1>3 DEF Kept, AnswerIsComing
  <2>3. holder.pending = c => toHolder'[c] # <<>>
    BY <1>8 DEF Connected
  <2>4. QED
    BY <1>2, <1>6, <2>1, <2>2, <2>3 DEF AnswerIsComing
<1>15. NothingMissing(c)'
  <2>1. \A m \in Nat : Afloat(c, m)' <=> Afloat(c, m)
    <3>1. \A m \in Nat : InFrames(w, {"out", "dump", "replay"}, m) <=> InFrames(r, {"out", "dump", "replay"}, m)
      BY <1>1 DEF Heard
    <3>2. QED
      BY <1>2, <1>5, <3>1 DEF Afloat
  <2>2. x.screen = <<>>
    BY <1>1, <1>3 DEF Kept, NothingMissing
  <2>3. holder.pending = c => \A m \in Nat : ~Afloat(c, m)
    BY <1>1, <1>3 DEF Kept, NothingMissing
  <2>4. holder.client = c => \A m \in Nat, k \in 1 .. holder.written : Afloat(c, m) /\ m <= k => Afloat(c, k)
    BY <1>1, <1>3 DEF Kept, NothingMissing
  <2>5. 1 .. holder.written \subseteq Nat
    BY DEF Hears
  <2>6. holder.client = c => \A m \in Nat, k \in 1 .. holder.written : Afloat(c, m)' /\ m <= k => Afloat(c, k)'
    BY <2>1, <2>4, <2>5
  <2>7. QED
    BY <1>2, <1>3, <1>5, <1>6, <2>1, <2>2, <2>3, <2>6 DEF NothingMissing, Rebuilt
<1>16. FramesAreTrue(c)'
  BY <1>1, <1>5, HeardFrames
<1>17. OffsetInStep(c)'
  <2> SUFFICES ASSUME Undisturbed PROVE OffsetInStep(c)'
    BY <1>2 DEF OffsetInStep, Undisturbed
  <2>1. ~Comes(w, {"out"}) /\ ~Comes(x.buffered, {"out"}) /\ Even(x.seed)
    BY <1>1, <1>3 DEF Kept, OffsetInStep, Handshake
  <2>2. c \in {holder.pending, holder.client} => \A i \in DOMAIN w : w[i].cmd = "state" => w[i].to = holder.written
    BY <1>1, <1>3 DEF Kept, OffsetInStep
  <2>3. c \in {holder.pending, holder.client} => f.to = holder.written
    BY <1>2, <2>2, RestKept DEF Hears
  <2>4. \A i \in DOMAIN r : r[i].cmd \notin {"state", "dump", "replay"}
    BY <1>3 DEF Comes, Answers
  <2>5. Even(y.seed)'
    BY <1>2, <1>5, <2>1 DEF Even
  <2>6. ~Comes(r, {"out"})
    BY <1>3, <2>1
  <2>7. QED
    BY <1>2, <1>5, <1>6, <2>1, <2>3, <2>4, <2>5, <2>6 DEF OffsetInStep
<1>18. FollowsInStep(c)'
  BY <1>6 DEF FollowsInStep, Rebuilt
<1>19. QED
  BY <1>9, <1>10, <1>11, <1>12, <1>13, <1>14, <1>15, <1>16, <1>17, <1>18 DEF Kept

(* A claim is granted: the server asks for what the holder has since its checkpoint, or for all.     *)
LEMMA HearsAcquired ==
  ASSUME LinkInv, NEW c \in Conns, NEW f, NEW y, Hears(c, f, y), session[c].at = "claiming", f.cmd = "acquired"
  PROVE  Kept(c)'
<1> DEFINE w == toServer[c]
           x == session[c]
           r == Tail(w)
<1>1. Kept(c) /\ Heard(c, f, y, r)
  BY Hearing
<1> HIDE DEF r
<1>2. /\ holder' = holder /\ disk' = disk /\ disturbed' = disturbed /\ toServer'[c] = r /\ session'[c] = y
      /\ f = w[1] /\ x \in Records /\ f \in Frames /\ w # <<>> /\ holder.written \in Nat
  BY <1>1 DEF Hears, Heard
<1>3. /\ (\A s : Comes(w, s) <=> f.cmd \in s \/ Comes(r, s)) /\ (\A s : At(c, s) <=> "claiming" \in s)
      /\ (Connected(c)' <=> Connected(c)) /\ c \notin holder.backlog /\ x.exit # "lost" /\ toHolder[c] = <<>> /\ ~Comes(r, Answers)
      /\ (\A s : At(c, s)' <=> y.at \in s)
  BY <1>1 DEF Heard, Answers
<1>4. x.seed \in Points /\ x.seed.offset \in Nat
  BY <1>2 DEF Records, Points
<1>5. /\ y.exit = x.exit /\ y.seed = x.seed /\ y.gap = x.gap /\ y.queue = x.queue /\ y.buffered = x.buffered
      /\ x.seed.offset > 0 => y.at = "replaying" /\ y.screen = x.seed.screen
      /\ ~(x.seed.offset > 0) => y.at = "dumping" /\ y.screen = x.screen /\ y.applied = x.applied
  <2>1. CASE x.seed.offset > 0
    <3>1. y = [x EXCEPT !.at = "replaying", !.applied = x.seed.offset, !.screen = x.seed.screen]
      BY <2>1 DEF Hears, Received
    <3>2. QED
      BY <1>2, <2>1, <3>1 DEF Records
  <2>2. CASE ~(x.seed.offset > 0)
    <3>1. y = [x EXCEPT !.at = "dumping"]
      BY <2>2 DEF Hears, Received
    <3>2. QED
      BY <1>2, <2>2, <3>1 DEF Records
  <2>3. QED
    BY <2>1, <2>2
<1>6. y.at \in {"replaying", "dumping"}
  BY <1>5
<1>7. ~Connected(c) => toHolder'[c] = <<>>
  BY <1>3 DEF Hears
<1>8. PICK a : /\ Connected(c) => toHolder'[c] = <<a>>
               /\ a.cmd # "close"
               /\ x.seed.offset > 0 => a.cmd = "dumpSince" /\ a.from = x.seed.offset
               /\ ~(x.seed.offset > 0) => a.cmd = "dumpReq" /\ a.from = 0
  <2>1. CASE x.seed.offset > 0
    <3> DEFINE a == [cmd |-> "dumpSince", from |-> x.seed.offset]
    <3>1. Answer(c, x, f) = <<a>>
      BY <2>1 DEF Answer
    <3>2. a.cmd = "dumpSince" /\ a.from = x.seed.offset
      OBVIOUS
    <3> HIDE DEF a
    <3>3. Connected(c) => toHolder'[c] = <<a>>
      BY <1>3, <3>1 DEF Hears
    <3>4. QED
      BY <2>1, <3>2, <3>3
  <2>2. CASE ~(x.seed.offset > 0)
    <3> DEFINE a == Ask("dumpReq")
    <3>1. Answer(c, x, f) = <<a>>
      BY <2>2 DEF Answer
    <3>2. a.cmd = "dumpReq" /\ a.from = 0
      BY DEF Ask
    <3> HIDE DEF a
    <3>3. Connected(c) => toHolder'[c] = <<a>>
      BY <1>3, <3>1 DEF Hears
    <3>4. QED
      BY <2>2, <3>2, <3>3
  <2>3. QED
    BY <2>1, <2>2
<1>9. holder.pending # c
  BY <1>1, <1>3 DEF Kept, InItsRole
<1>10. InItsRole(c)'
  BY <1>2, <1>3, <1>6, <1>9 DEF InItsRole
<1>11. AsksInTurn(c)'
  <2>1. CASE Connected(c)
    <3>1. <<a>> # <<>> /\ Len(<<a>>) <= 1 /\ <<a>>[1] = a /\ DOMAIN <<a>> = {1}
      OBVIOUS
    <3>2. toHolder'[c] = <<a>>
      BY <1>8, <2>1
    <3>3. ~Comes(toHolder'[c], {"close"})
      BY <1>8, <3>1, <3>2 DEF Comes
    <3>4. Len(toHolder'[c]) <= 1
      BY <3>1, <3>2
    <3>5. /\ y.at = "dumping" => toHolder'[c][1].cmd = "dumpReq" /\ toHolder'[c][1].from = 0
          /\ y.at = "replaying" => toHolder'[c][1].cmd = "dumpSince" /\ toHolder'[c][1].from = y.seed.offset
      BY <1>5, <1>8, <3>1, <3>2
    <3>6. QED
      BY <1>2, <1>3, <1>6, <2>1, <3>3, <3>4, <3>5 DEF AsksInTurn
  <2>2. CASE ~Connected(c)
    <3>1. toHolder'[c] = <<>> /\ Len(toHolder'[c]) = 0
      BY <1>7, <2>2
    <3>2. QED
      BY <3>1 DEF AsksInTurn, Comes
  <2>3. QED
    BY <2>1, <2>2
<1>12. AnswersInTurn(c)'
  BY <1>1, HeardInTurn DEF Answers
<1>13. KeptInTurn(c)'
  <2>1. y.at = "dumping" => y.seed.offset = 0
    BY <1>4, <1>5
  <2>2. y.at \notin Rebuilt
    BY <1>6 DEF Rebuilt
  <2>3. x.queue = <<>> /\ x.exit \in {"none", "lost"}
    BY <1>1, <1>3 DEF Kept, KeptInTurn, Rebuilt
  <2>4. QED
    BY <1>2, <1>3, <1>5, <1>6, <2>1, <2>2, <2>3 DEF KeptInTurn
<1>14. EndsWithReason(c)'
  BY <1>1, <1>3, <1>5, <1>6, HeardWithReason DEF Rebuilt
<1>15. AnswerIsComing(c)'
  <2>1. Calm' => Calm
    BY <1>2 DEF Calm
  <2>2. ~Comes(w, {"denied"})
    BY <1>3 DEF Comes, Answers
  <2>3. Calm => holder.client = c
    BY <1>1, <1>3, <1>9, <2>2 DEF Kept, AnswerIsComing
  <2>4. holder.client = c => toHolder'[c] # <<>>
    <3>1. <<a>> # <<>>
      OBVIOUS
    <3>2. QED
      BY <1>8, <3>1 DEF Connected
  <2>5. QED
    BY <1>2, <1>3, <1>6, <2>1, <2>3, <2>4 DEF AnswerIsComing
<1>16. NothingMissing(c)'
  <2>1. \A m \in Nat : Afloat(c, m)' <=> Afloat(c, m)
    <3>1. \A m \in Nat : InFrames(w, {"out", "dump", "replay"}, m) <=> InFrames(r, {"out", "dump", "replay"}, m)
      BY <1>1 DEF Heard
    <3>2. QED
      BY <1>2, <1>5, <3>1 DEF Afloat
  <2>2. x.screen = <<>>
    BY <1>1, <1>3 DEF Kept, NothingMissing
  <2>3. holder.client = c => \A m \in Nat, k \in 1 .. holder.written : Afloat(c, m) /\ m <= k => Afloat(c, k)
    BY <1>1, <1>3 DEF Kept, NothingMissing
  <2>4. 1 .. holder.written \subseteq Nat
    BY <1>2
  <2>5. holder.client = c => \A m \in Nat, k \in 1 .. holder.written : Afloat(c, m)' /\ m <= k => Afloat(c, k)'
    BY <2>1, <2>3, <2>4
  <2>6. \A i \in DOMAIN r : r[i].cmd # "replay"
    BY <1>3 DEF Comes, Answers
  <2>7. QED
    BY <1>2, <1>3, <1>5, <1>6, <1>9, <2>2, <2>5, <2>6 DEF NothingMissing, Rebuilt
<1>17. FramesAreTrue(c)'
  BY <1>1, <1>5, HeardFrames
<1>18. OffsetInStep(c)'
  <2> SUFFICES ASSUME Undisturbed PROVE OffsetInStep(c)'
    BY <1>2 DEF OffsetInStep, Undisturbed
  <2>1. ~Comes(w, {"out"}) /\ ~Comes(x.buffered, {"out"}) /\ Even(x.seed)
    BY <1>1, <1>3 DEF Kept, OffsetInStep, Handshake
  <2>2. c \in {holder.pending, holder.client} => x.applied = holder.written
    BY <1>1, <1>3 DEF Kept, OffsetInStep
  <2>3. \A i \in DOMAIN r : r[i].cmd \notin {"state", "dump", "replay"}
    BY <1>3 DEF Comes, Answers
  <2>4. Even(y.seed)'
    BY <1>2, <1>5, <2>1 DEF Even
  <2>5. ~Comes(r, {"out"})
    BY <1>3, <2>1
  <2>6. QED
    BY <1>2, <1>3, <1>5, <1>6, <2>1, <2>2, <2>3, <2>4, <2>5 DEF OffsetInStep
<1>19. FollowsInStep(c)'
  BY <1>3, <1>6 DEF FollowsInStep, Rebuilt
<1>20. QED
  BY <1>10, <1>11, <1>12, <1>13, <1>14, <1>15, <1>16, <1>17, <1>18, <1>19 DEF Kept

(* A claim is refused: the session is over.                                               *)
LEMMA HearsDenied ==
  ASSUME LinkInv, NEW c \in Conns, NEW f, NEW y, Hears(c, f, y), session[c].at = "claiming", f.cmd = "denied"
  PROVE  Kept(c)'
<1> DEFINE w == toServer[c]
           x == session[c]
           r == Tail(w)
<1>1. Kept(c) /\ Heard(c, f, y, r)
  BY Hearing
<1> HIDE DEF r
<1>2. /\ holder' = holder /\ disk' = disk /\ disturbed' = disturbed /\ toServer'[c] = r /\ session'[c] = y
      /\ f = w[1] /\ x \in Records /\ f \in Frames /\ w # <<>> /\ holder.written \in Nat
  BY <1>1 DEF Hears, Heard
<1>3. /\ (\A s : Comes(w, s) <=> f.cmd \in s \/ Comes(r, s)) /\ (\A s : At(c, s) <=> "claiming" \in s)
      /\ (Connected(c)' <=> Connected(c)) /\ c \notin holder.backlog /\ x.exit # "lost" /\ toHolder[c] = <<>> /\ ~Comes(r, Answers)
      /\ (\A s : At(c, s)' <=> y.at \in s)
  BY <1>1 DEF Heard, Answers
<1>4. y = [x EXCEPT !.at = "denied"]
  BY DEF Hears, Received, Denied
<1>5. /\ y.at = "denied" /\ y.exit = x.exit /\ y.seed = x.seed /\ y.gap = x.gap /\ y.queue = x.queue
      /\ y.buffered = x.buffered /\ y.screen = x.screen
  BY <1>2, <1>4 DEF Records
<1>6. toHolder'[c] = <<>> /\ Len(toHolder'[c]) = 0
  <2>1. Answer(c, x, f) = <<>>
    BY DEF Answer
  <2>2. QED
    BY <1>3, <2>1 DEF Hears
<1>7. holder.pending # c
  BY <1>1, <1>3 DEF Kept, InItsRole
<1>8. InItsRole(c)' /\ AsksInTurn(c)'
  BY <1>2, <1>3, <1>5, <1>6, <1>7 DEF InItsRole, AsksInTurn, Comes
<1>9. AnswersInTurn(c)'
  BY <1>1, HeardInTurn DEF Answers
<1>10. KeptInTurn(c)'
  BY <1>1, <1>2, <1>3, <1>5 DEF Kept, KeptInTurn, Rebuilt
<1>11. EndsWithReason(c)'
  BY <1>1, <1>3, <1>5, HeardWithReason DEF Rebuilt
<1>12. AnswerIsComing(c)' /\ NothingMissing(c)' /\ FollowsInStep(c)'
  BY <1>2, <1>3, <1>5, <1>7 DEF AnswerIsComing, NothingMissing, FollowsInStep, Rebuilt
<1>13. FramesAreTrue(c)'
  BY <1>1, <1>5, HeardFrames
<1>14. OffsetInStep(c)'
  <2> SUFFICES ASSUME Undisturbed PROVE OffsetInStep(c)'
    BY <1>2 DEF OffsetInStep, Undisturbed
  <2>1. Even(x.seed)
    BY <1>1, <1>3 DEF Kept, OffsetInStep
  <2>2. \A i \in DOMAIN r : r[i].cmd \notin {"state", "dump", "replay"}
    BY <1>3 DEF Comes, Answers
  <2>3. Even(y.seed)'
    BY <1>2, <1>5, <2>1 DEF Even
  <2>4. QED
    BY <1>2, <1>3, <1>5, <2>2, <2>3 DEF OffsetInStep, Handshake
<1>15. QED
  BY <1>8, <1>9, <1>10, <1>11, <1>12, <1>13, <1>14 DEF Kept

(* The replay is written to xterm, and what came before it is handled after it.                   *)
LEMMA CatchesUp ==
  ASSUME NEW z \in Records, NEW f \in Frames, NEW y, y = CatchUp(z, f), y \in Records
  PROVE  /\ y.at \in Rebuilt /\ y.screen = z.screen /\ y.seed = z.seed /\ y.gap = z.gap
         /\ y.at = "driving" => y.buffered = <<>>
         /\ y.exit = "lost" => z.exit = "lost"
         /\ y.exit = "none" => z.exit = "none"
         /\ y.exit = "ended" => z.exit = "ended" \/ Comes(z.buffered, {"exit"})
         /\ \A s : Comes(y.buffered, s) => Comes(z.buffered, s)
         /\ y.exit = "none" => \A m \in Nat :
              InQueue(y.queue, m) \/ InFrames(y.buffered, {"out"}, m) <=>
                InQueue(z.queue, m) \/ InFrames(z.buffered, {"out"}, m) \/ (f.from < m /\ m <= f.to)
         /\ ~Comes(z.buffered, {"out"}) =>
              /\ y.applied = z.applied
              /\ y.queue = IF f.from < f.to THEN Append(z.queue, [data |-> Chunks(f.from, f.to), final |-> TRUE]) ELSE z.queue
<1>1. CASE f.from < f.to
  <2> DEFINE w == [data |-> Chunks(f.from, f.to), final |-> TRUE]
  <2>1. w \in Writes /\ f.from \in Nat /\ f.to \in Nat /\ z.queue \in Seq(Writes)
    BY ChunksTyped DEF Writes, Truths, Frames, Records
  <2>2. y = [z EXCEPT !.at = "finishing", !.queue = Append(@, w)]
    BY <1>1 DEF CatchUp
  <2>3. w.data = Chunks(f.from, f.to)
    OBVIOUS
  <2> HIDE DEF w
  <2>4. /\ y.at = "finishing" /\ y.buffered = z.buffered /\ y.screen = z.screen /\ y.seed = z.seed
        /\ y.gap = z.gap /\ y.exit = z.exit /\ y.queue = Append(z.queue, w) /\ y.applied = z.applied
    BY <2>2 DEF Records
  <2>5. \A m \in Nat : InQueue(y.queue, m) <=> InQueue(z.queue, m) \/ (f.from < m /\ m <= f.to)
    BY <2>1, <2>3, <2>4, QueueGrows, InChunks
  <2>6. \A m \in Nat : InFrames(y.buffered, {"out"}, m) <=> InFrames(z.buffered, {"out"}, m)
    BY <2>4
  <2>7. y.queue = IF f.from < f.to THEN Append(z.queue, [data |-> Chunks(f.from, f.to), final |-> TRUE]) ELSE z.queue
    BY <1>1, <2>4 DEF w
  <2>8. y.at \in Rebuilt /\ y.at # "driving"
    BY <2>4 DEF Rebuilt
  <2>9. QED
    BY <2>4, <2>5, <2>6, <2>7, <2>8
<1>2. CASE ~(f.from < f.to)
  <2>1. y = Finalize(z)
    BY <1>2 DEF CatchUp
  <2>2. f.from \in Nat /\ f.to \in Nat
    BY DEF Frames
  <2>3. \A m \in Nat : ~(f.from < m /\ m <= f.to)
    BY <1>2, <2>2
  <2>4. /\ y.at = "driving" /\ y.buffered = <<>> /\ y.screen = z.screen /\ y.seed = z.seed
        /\ y.gap = z.gap
        /\ y.exit = "lost" => z.exit = "lost"
        /\ y.exit = "none" => z.exit = "none"
        /\ y.exit = "ended" => z.exit = "ended" \/ Comes(z.buffered, {"exit"})
        /\ ~Comes(z.buffered, {"out"}) => y.queue = z.queue /\ y.applied = z.applied
        /\ y.exit = "none" => \A m \in Nat :
             InQueue(y.queue, m) <=> InQueue(z.queue, m) \/ InFrames(z.buffered, {"out"}, m)
    BY <2>1, Finalized
  <2>5. (\A s : ~Comes(y.buffered, s)) /\ (\A m \in Nat : ~InFrames(y.buffered, {"out"}, m)) /\ y.at \in Rebuilt
    BY <2>4 DEF Comes, InFrames, Rebuilt
  <2>6. QED
    BY <1>2, <2>3, <2>4, <2>5
<1>3. QED
  BY <1>1, <1>2

(* Then xterm is given the run of chunks from where the screen ends.                         *)
LEMMA CaughtUpExact ==
  ASSUME NEW x \in Records, NEW from \in Nat, NEW to \in Nat, from <= to, x.applied = to, Run(x.screen, from),
         x.queue = IF from < to THEN <<[data |-> Chunks(from, to), final |-> TRUE]>> ELSE <<>>
  PROVE  Exact(x)
<1>1. CASE from < to
  <2> DEFINE w == [data |-> Chunks(from, to), final |-> TRUE]
             ends == [i \in 0 .. 1 |-> IF i = 0 THEN from ELSE to]
  <2>1. ends[0] = from /\ ends[1] = to /\ ends \in [0 .. 1 -> 0 .. to]
    OBVIOUS
  <2>2. Len(Chunks(from, to)) = to - from /\ Run(Chunks(from, to), to)
    <3> DEFINE n == to - from
    <3>1. n \in Nat /\ to = from + n
      BY <1>1
    <3>2. Chunks(from, to) = [i \in 1 .. n |-> from + i]
      BY DEF Chunks
    <3> HIDE DEF n
    <3>3. Len(Chunks(from, to)) = n /\ DOMAIN Chunks(from, to) = 1 .. n /\ \A i \in 1 .. n : Chunks(from, to)[i] = to - n + i
      BY <3>1, <3>2
    <3>4. QED
      BY <3>3 DEF Run, n
  <2>3. w.data = Chunks(from, to)
    OBVIOUS
  <2> HIDE DEF ends, w
  <2>4. x.queue = <<w>>
    BY <1>1 DEF w
  <2>5. Len(x.queue) = 1 /\ DOMAIN x.queue = {1} /\ x.queue[1] = w
    BY <2>4
  <2>6. ends[1] = ends[0] + Len(w.data)
    BY <2>1, <2>2, <2>3
  <2>7. \A i \in DOMAIN x.queue : Run(x.queue[i].data, ends[i]) /\ ends[i] = ends[i - 1] + Len(x.queue[i].data)
    BY <2>1, <2>2, <2>3, <2>5, <2>6
  <2>8. ends \in [0 .. Len(x.queue) -> 0 .. x.applied] /\ Run(x.screen, ends[0]) /\ ends[Len(x.queue)] = x.applied
    BY <2>1, <2>5
  <2>9. QED
    BY <2>7, <2>8 DEF Exact
<1>2. CASE ~(from < to)
  <2> DEFINE ends == [i \in 0 .. 0 |-> to]
  <2>1. ends[0] = to /\ ends \in [0 .. 0 -> 0 .. to] /\ from = to
    BY <1>2
  <2> HIDE DEF ends
  <2>2. x.queue = <<>> /\ Len(x.queue) = 0 /\ DOMAIN x.queue = {}
    BY <1>2
  <2>3. QED
    BY <2>1, <2>2 DEF Exact
<1>3. QED
  BY <1>1, <1>2

(* What the holder had is there: the handshake ends once xterm has parsed it.                      *)
LEMMA HearsReplay ==
  ASSUME LinkInv, NEW c \in Conns, NEW f, NEW y, Hears(c, f, y),
         \/ session[c].at = "replaying" /\ f.cmd = "replay"
         \/ session[c].at = "dumping" /\ f.cmd = "dump"
  PROVE  Kept(c)'
<1> DEFINE w == toServer[c]
           x == session[c]
           r == Tail(w)
           z == IF x.at = "replaying" THEN [x EXCEPT !.gap = f.gap, !.applied = f.to] ELSE x
<1>1. Kept(c) /\ Heard(c, f, y, r)
  BY Hearing
<1> HIDE DEF r
<1>2. /\ holder' = holder /\ disk' = disk /\ disturbed' = disturbed /\ toServer'[c] = r /\ session'[c] = y
      /\ f = w[1] /\ x \in Records /\ f \in Frames /\ w # <<>> /\ holder.written \in Nat /\ y \in Records /\ holder' = holder
      /\ 1 \in DOMAIN w /\ f.from \in Nat /\ f.to \in Nat
  <2>1. w \in Seq(Frames) /\ w # <<>> /\ f \in Frames
    BY DEF Hears
  <2>2. 1 \in DOMAIN w /\ f.from \in Nat /\ f.to \in Nat
    BY <2>1 DEF Frames
  <2>3. QED
    BY <1>1, <2>1, <2>2 DEF Hears, Heard
<1>3. /\ (\A s : Comes(w, s) <=> f.cmd \in s \/ Comes(r, s)) /\ (\A s : At(c, s) <=> x.at \in s)
      /\ (Connected(c)' <=> Connected(c)) /\ c \notin holder.backlog /\ x.exit # "lost" /\ toHolder[c] = <<>> /\ ~Comes(r, Answers)
      /\ (\A s : At(c, s)' <=> y.at \in s)
  BY <1>1 DEF Heard, Answers
<1>4. z \in Records /\ y = CatchUp(z, f)
  <2>1. CASE x.at = "replaying"
    <3>1. z \in Records
      BY <1>2, <2>1 DEF Records, Frames
    <3>2. QED
      BY <2>1, <3>1 DEF Hears, Received, Replayed
  <2>2. CASE x.at = "dumping"
    <3>1. z = x
      BY <2>2
    <3>2. QED
      BY <1>2, <2>2, <3>1 DEF Hears, Received
  <2>3. QED
    BY <2>1, <2>2
<1>5. /\ z.exit = x.exit /\ z.seed = x.seed /\ z.queue = x.queue /\ z.buffered = x.buffered /\ z.screen = x.screen
      /\ x.at = "replaying" => z.gap = f.gap /\ z.applied = f.to
      /\ x.at = "dumping" => z.gap = x.gap /\ z.applied = x.applied
  BY <1>2 DEF Records
<1> HIDE DEF z
<1>6. /\ y.at \in Rebuilt /\ y.screen = x.screen /\ y.seed = x.seed /\ y.gap = z.gap
      /\ y.at = "driving" => y.buffered = <<>>
      /\ y.exit = "lost" => x.exit = "lost"
      /\ y.exit = "none" => x.exit = "none"
      /\ y.exit = "ended" => x.exit = "ended" \/ Comes(x.buffered, {"exit"})
      /\ \A s : Comes(y.buffered, s) => Comes(x.buffered, s)
      /\ y.exit = "none" => \A m \in Nat :
           InQueue(y.queue, m) \/ InFrames(y.buffered, {"out"}, m) <=>
             InQueue(x.queue, m) \/ InFrames(x.buffered, {"out"}, m) \/ (f.from < m /\ m <= f.to)
      /\ ~Comes(x.buffered, {"out"}) =>
           /\ y.applied = z.applied
           /\ y.queue = IF f.from < f.to THEN Append(x.queue, [data |-> Chunks(f.from, f.to), final |-> TRUE]) ELSE x.queue
  <2>1. z \in Records /\ f \in Frames /\ y = CatchUp(z, f) /\ y \in Records
    BY <1>2, <1>4
  <2>2. /\ y.at \in Rebuilt /\ y.screen = z.screen /\ y.seed = z.seed /\ y.gap = z.gap
        /\ y.at = "driving" => y.buffered = <<>>
        /\ y.exit = "lost" => z.exit = "lost"
        /\ y.exit = "none" => z.exit = "none"
        /\ y.exit = "ended" => z.exit = "ended" \/ Comes(z.buffered, {"exit"})
    BY <2>1, CatchesUp, ZenonT(60)
  <2>3. \A s : Comes(y.buffered, s) => Comes(z.buffered, s)
    BY <2>1, CatchesUp
  <2>4. ASSUME y.exit = "none", NEW m \in Nat
        PROVE  InQueue(y.queue, m) \/ InFrames(y.buffered, {"out"}, m) <=>
                 InQueue(z.queue, m) \/ InFrames(z.buffered, {"out"}, m) \/ (f.from < m /\ m <= f.to)
    BY <2>1, <2>4, CatchesUp, ZenonT(60)
  <2>5. ~Comes(z.buffered, {"out"}) =>
          /\ y.applied = z.applied
          /\ y.queue = IF f.from < f.to THEN Append(z.queue, [data |-> Chunks(f.from, f.to), final |-> TRUE]) ELSE z.queue
    BY <2>1, CatchesUp
  <2>6. QED
    BY <1>5, <2>2, <2>3, <2>4, <2>5
<1>7. x.at \in {"replaying", "dumping"} /\ x.at \notin Rebuilt /\ holder.pending # c
  <2>1. x.at \in {"replaying", "dumping"}
    OBVIOUS
  <2>2. QED
    BY <1>1, <1>3, <2>1 DEF Kept, InItsRole, Rebuilt
<1>8. toHolder'[c] = <<>> /\ Len(toHolder'[c]) = 0
  <2>1. Answer(c, x, f) = <<>>
    BY <1>7 DEF Answer
  <2>2. QED
    BY <1>3, <2>1 DEF Hears
<1>9. x.queue = <<>> /\ x.exit = "none"
  BY <1>1, <1>3, <1>7 DEF Kept, KeptInTurn
<1>10. InItsRole(c)' /\ AsksInTurn(c)'
  BY <1>2, <1>3, <1>6, <1>7, <1>8 DEF InItsRole, AsksInTurn, Comes, Rebuilt
<1>11. AnswersInTurn(c)'
  BY <1>1, HeardInTurn DEF Answers
<1>12. KeptInTurn(c)'
  BY <1>2, <1>3, <1>6, <1>9 DEF KeptInTurn, Rebuilt
<1>13. EndsWithReason(c)'
  BY <1>1, <1>3, <1>6, <1>9, HeardWithReason
<1>14. AnswerIsComing(c)'
  BY <1>3, <1>6 DEF AnswerIsComing, Rebuilt
<1>15. NothingMissing(c)'
  <2>1. SUFFICES ASSUME holder.client = c, y.exit = "none", ~y.gap, Whole(x.seed.screen, x.seed.offset), NEW m \in 1 .. holder.written
                 PROVE  There(c, m)' \/ \A k \in Nat : There(c, k)' => m < k
    BY <1>2, <1>3, <1>6, <1>7 DEF NothingMissing, Rebuilt
  <2>2. \A k \in Nat : There(c, k)' <=> There(c, k)
    <3>1. \A k \in Nat : Afloat(c, k)' <=> Afloat(c, k)
      <4> SUFFICES ASSUME NEW k \in Nat PROVE Afloat(c, k)' <=> Afloat(c, k)
        OBVIOUS
      <4>1. InFrames(w, {"out", "dump", "replay"}, k) <=> (f.from < k /\ k <= f.to) \/ InFrames(r, {"out", "dump", "replay"}, k)
        BY <1>1 DEF Heard
      <4>2. InQueue(y.queue, k) \/ InFrames(y.buffered, {"out"}, k) <=>
              InQueue(x.queue, k) \/ InFrames(x.buffered, {"out"}, k) \/ (f.from < k /\ k <= f.to)
        BY <1>6, <2>1
      <4>3. QED
        BY <1>2, <4>1, <4>2 DEF Afloat
    <3>2. \A k \in Nat : OnScreen(c, k)' <=> OnScreen(c, k)
      BY <1>2, <1>6 DEF OnScreen
    <3>3. QED
      BY <3>1, <3>2 DEF There
  <2>3. \A k \in Nat : Afloat(c, k) /\ k <= m => Afloat(c, m)
    BY <1>1, <1>3, <1>7, <2>1 DEF Kept, NothingMissing
  <2>4. m \in Nat /\ \A k \in Nat : ~(m < k) => k <= m
    BY <1>2
  <2>5. CASE \A k \in Nat : OnScreen(c, k) => m < k
    BY <2>2, <2>3, <2>4, <2>5 DEF There
  <2>6. CASE x.at = "dumping" \/ x.screen = <<>>
    <3>1. x.screen = <<>>
      BY <1>1, <1>3, <2>6 DEF Kept, NothingMissing
    <3>2. QED
      BY <2>5, <3>1 DEF OnScreen
  <2>7. CASE x.at = "replaying" /\ x.screen # <<>>
    <3>1. x.screen = x.seed.screen /\ x.seed.screen \in Seq(Nat) /\ x.seed.offset \in Nat
      BY <1>1, <1>2, <1>3, <2>7 DEF Kept, NothingMissing, Records, Points
    <3>2. CASE x.seed.offset < m
      <4>1. f.cmd = "replay" /\ ~f.gap
        BY <1>5, <1>6, <2>1, <2>7
      <4>2. \A k \in 1 .. holder.written : x.seed.offset < k => Afloat(c, k)
        BY <1>1, <1>2, <1>3, <2>1, <2>7, <4>1 DEF Kept, NothingMissing
      <4>3. There(c, m)
        BY <3>2, <4>2 DEF There
      <4>4. QED
        BY <2>2, <2>4, <4>3
    <3>3. CASE ~(x.seed.offset < m)
      <4>1. m \in 1 .. x.seed.offset
        BY <2>4, <3>1, <3>3
      <4>2. m \in ToSet(x.screen) \/ \A k \in ToSet(x.screen) : m < k
        BY <2>1, <2>7, <3>1, <4>1 DEF Whole
      <4>3. \A k : k \in ToSet(x.screen) <=> OnScreen(c, k)
        BY DEF ToSet, OnScreen
      <4>4. There(c, m) \/ \A k \in Nat : OnScreen(c, k) => m < k
        BY <4>2, <4>3 DEF There
      <4>5. QED
        BY <2>2, <2>4, <2>5, <4>4
    <3>4. QED
      BY <3>2, <3>3
  <2>8. QED
    BY <1>7, <2>6, <2>7
<1>16. FramesAreTrue(c)'
  BY <1>1, <1>6, HeardFrames
<1>17. OffsetInStep(c)' /\ FollowsInStep(c)'
  <2> SUFFICES ASSUME Undisturbed PROVE OffsetInStep(c)' /\ FollowsInStep(c)'
    BY <1>2 DEF OffsetInStep, FollowsInStep, Undisturbed
  <2>1. ~Comes(w, {"out"}) /\ ~Comes(x.buffered, {"out"}) /\ Even(x.seed)
    BY <1>1, <1>3, <1>7 DEF Kept, OffsetInStep, Handshake
  <2>2. /\ f.cmd = "dump" => f.to = x.applied /\ f.from <= f.to
        /\ f.cmd = "replay" => f.from <= f.to /\ (~f.gap => f.from = x.seed.offset)
        /\ c \in {holder.pending, holder.client} =>
             (x.at = "dumping" => x.applied = holder.written) /\ (f.cmd = "replay" => f.to = holder.written)
    BY <1>1, <1>2, <1>3 DEF Kept, OffsetInStep
  <2>3. \A i \in DOMAIN r : r[i].cmd \notin {"state", "dump", "replay", "out"}
    BY <1>3, <2>1 DEF Comes, Answers
  <2>4. Even(y.seed)'
    BY <1>2, <1>6, <2>1 DEF Even
  <2>5. ~Comes(r, {"out"}) /\ ~Comes(y.buffered, {"out"})
    BY <1>3, <1>6, <2>1
  <2>6. OffsetInStep(c)'
    BY <1>2, <1>3, <1>6, <2>3, <2>4, <2>5 DEF OffsetInStep, Rebuilt
  <2>7. y.applied = f.to
    BY <1>5, <1>6, <2>1, <2>2
  <2>8. ~y.gap => Run(x.screen, f.from)
    <3>1. CASE x.at = "dumping"
      <4>1. x.screen = <<>>
        BY <1>1, <1>3, <3>1 DEF Kept, NothingMissing
      <4>2. QED
        BY <4>1 DEF Run
    <3>2. CASE x.at = "replaying" /\ ~y.gap
      <4>1. x.screen = x.seed.screen
        BY <1>1, <1>3, <3>2 DEF Kept, NothingMissing
      <4>2. f.from = x.seed.offset
        BY <1>5, <1>6, <2>2, <3>2
      <4>3. QED
        BY <2>1, <4>1, <4>2 DEF Even
    <3>3. QED
      BY <1>7, <3>1, <3>2
  <2>9. y.queue = IF f.from < f.to THEN <<[data |-> Chunks(f.from, f.to), final |-> TRUE]>> ELSE <<>>
    <3> DEFINE u == [data |-> Chunks(f.from, f.to), final |-> TRUE]
    <3>1. y.queue = IF f.from < f.to THEN Append(<<>>, u) ELSE <<>>
      BY <1>6, <1>9, <2>1
    <3> HIDE DEF u
    <3>2. Append(<<>>, u) = <<u>>
      OBVIOUS
    <3>3. QED
      BY <3>1, <3>2 DEF u
  <2>10. f.from <= f.to /\ f.to <= holder.written
    BY <1>1, <2>2 DEF Heard
  <2>11. ~y.gap => Exact(y)
    BY <1>2, <1>6, <2>7, <2>8, <2>9, <2>10, CaughtUpExact
  <2>12. holder.client = c /\ holder.alive => holder.written = y.applied + Len(r)
    <3> SUFFICES ASSUME holder.client = c, holder.alive PROVE holder.written = y.applied + Len(r)
      OBVIOUS
    <3>1. f.to = holder.written
      BY <2>2
    <3>2. ASSUME NEW i \in DOMAIN r PROVE FALSE
      <4>1. r[i] \in Frames
        BY <1>1, <3>2 DEF Heard
      <4>2. ~Comes(w, {"close", "evicted"}) /\ ~Comes(w, {"exit"})
        BY <1>1 DEF Kept, AnswersInTurn, FramesAreTrue, Connected
      <4>3. ~Comes(r, {"close", "evicted"}) /\ ~Comes(r, {"exit"})
        BY <1>3, <4>2
      <4>4. r[i].cmd \notin Answers \cup {"close", "evicted", "exit", "out"}
        BY <1>3, <2>5, <4>3 DEF Comes
      <4>5. QED
        BY <4>1, <4>4 DEF Frames, Replies, Answers
    <3>3. r \in Seq(Frames) /\ DOMAIN r = 1 .. Len(r) /\ Len(r) \in Nat
      BY <1>1 DEF Heard
    <3>4. Len(r) = 0
      <4>1. ~(1 \in 1 .. Len(r))
        BY <3>2, <3>3
      <4>2. QED
        BY <3>3, <4>1
    <3>5. QED
      BY <1>2, <2>7, <3>1, <3>4
  <2>13. FollowsInStep(c)'
    BY <1>2, <2>3, <2>7, <2>10, <2>11, <2>12 DEF FollowsInStep
  <2>14. QED
    BY <2>6, <2>13
<1>18. QED
  BY <1>10, <1>11, <1>12, <1>13, <1>14, <1>15, <1>16, <1>17 DEF Kept

(* The wire ends: a session that was not told why is lost.                                      *)
LEMMA HearsClose ==
  ASSUME LinkInv, NEW c \in Conns, NEW f, NEW y, Hears(c, f, y), f.cmd = "close"
  PROVE  Kept(c)'
<1> DEFINE w == toServer[c]
           x == session[c]
           r == Tail(w)
<1>1. Kept(c) /\ Heard(c, f, y, r)
  BY Hearing
<1> HIDE DEF r
<1>2. /\ holder' = holder /\ disk' = disk /\ disturbed' = disturbed /\ toServer'[c] = r /\ session'[c] = y
      /\ f = w[1] /\ x \in Records /\ holder.written \in Nat /\ r = <<>> /\ ~Connected(c) /\ ~Connected(c)'
  BY <1>1 DEF Hears, Heard
<1>3. /\ (\A s : Comes(w, s) <=> f.cmd \in s \/ Comes(r, s)) /\ (\A s : At(c, s) <=> x.at \in s)
      /\ c \notin holder.backlog /\ x.exit # "lost" /\ (\A s : At(c, s)' <=> y.at \in s)
      /\ x.at \in {"dialing", "claiming", "dumping", "replaying", "finishing", "driving"}
      /\ DOMAIN w = {1}
  <2>1. w \in Seq(Frames) /\ Len(w) = 1
    BY <1>1, <1>2 DEF Heard, Hears
  <2>2. DOMAIN w = {1}
    BY <2>1
  <2>3. QED
    BY <1>1, <2>2 DEF Heard
<1>4. y = [x EXCEPT !.exit = IF @ = "none" THEN "lost" ELSE @]
  BY DEF Hears, Received, Closed
<1>5. /\ y.at = x.at /\ y.seed = x.seed /\ y.gap = x.gap /\ y.queue = x.queue /\ y.applied = x.applied
      /\ y.buffered = x.buffered /\ y.screen = x.screen /\ y.exit = IF x.exit = "none" THEN "lost" ELSE x.exit
  BY <1>2, <1>4 DEF Records
<1>6. toHolder'[c] = <<>> /\ Len(toHolder'[c]) = 0
  BY <1>1, <1>2 DEF Hears, Kept, AsksInTurn
<1>7. \A s : ~Comes(r, s)
  BY <1>2 DEF Comes
<1>8. holder.pending # c /\ holder.client # c
  BY <1>2 DEF Connected
<1>9. InItsRole(c)' /\ AsksInTurn(c)'
  BY <1>2, <1>3, <1>5, <1>6, <1>8 DEF InItsRole, AsksInTurn, Comes
<1>10. AnswersInTurn(c)'
  BY <1>2, <1>7 DEF AnswersInTurn
<1>11. KeptInTurn(c)'
  BY <1>1, <1>2, <1>3, <1>5 DEF Kept, KeptInTurn, Rebuilt
<1>12. EndsWithReason(c)'
  <2>1. y.exit = "lost" /\ y.at \in Rebuilt => ~holder.alive \/ "late" \in disturbed
    <3> SUFFICES ASSUME y.exit = "lost", y.at \in Rebuilt PROVE ~holder.alive \/ "late" \in disturbed
      OBVIOUS
    <3>1. x.exit = "none" /\ At(c, Rebuilt) /\ Comes(w, {"close"}) /\ ~(Len(w) >= 2)
      BY <1>1, <1>2, <1>3, <1>5 DEF Heard
    <3>2. QED
      BY <1>1, <3>1 DEF Kept, EndsWithReason
  <2>2. QED
    BY <1>2, <1>3, <1>7, <2>1 DEF EndsWithReason
<1>13. AnswerIsComing(c)'
  <2>1. Calm' => Calm
    BY <1>2 DEF Calm
  <2>2. ~Comes(w, {"denied"})
    BY <1>3, <1>7
  <2>3. Calm => ~At(c, {"dialing"}) /\ ~At(c, {"claiming"}) /\ ~At(c, {"dumping", "replaying"})
    BY <1>1, <1>3, <1>8, <2>2 DEF Kept, AnswerIsComing
  <2>4. QED
    BY <1>3, <1>5, <2>1, <2>3 DEF AnswerIsComing
<1>14. NothingMissing(c)'
  <2>1. At(c, {"new", "dialing", "claiming", "dumping"}) => x.screen = <<>>
    BY <1>1 DEF Kept, NothingMissing
  <2>2. At(c, {"replaying"}) => x.screen = x.seed.screen
    BY <1>1 DEF Kept, NothingMissing
  <2>3. QED
    BY <1>2, <1>3, <1>5, <1>8, <2>1, <2>2 DEF NothingMissing
<1>15. FramesAreTrue(c)'
  BY <1>1, <1>5, HeardFrames
<1>16. OffsetInStep(c)'
  <2> SUFFICES ASSUME Undisturbed PROVE OffsetInStep(c)'
    BY <1>2 DEF OffsetInStep, Undisturbed
  <2>1. (At(c, Handshake) => ~Comes(x.buffered, {"out"})) /\ Even(x.seed)
    BY <1>1 DEF Kept, OffsetInStep
  <2>2. DOMAIN r = {}
    BY <1>2
  <2>3. Even(y.seed)'
    BY <1>2, <1>5, <2>1 DEF Even
  <2>4. QED
    BY <1>2, <1>3, <1>5, <1>7, <1>8, <2>1, <2>2, <2>3 DEF OffsetInStep
<1>17. FollowsInStep(c)'
  BY <1>2, <1>5 DEF FollowsInStep
<1>18. QED
  BY <1>9, <1>10, <1>11, <1>12, <1>13, <1>14, <1>15, <1>16, <1>17 DEF Kept

(* A write goes on where those before it end.                                                   *)
LEMMA RunGoesOn ==
  ASSUME NEW x \in Records, Exact(x), NEW y \in Records, y.screen = x.screen, y.applied = x.applied + 1,
         y.queue = Append(x.queue, [data |-> Chunks(x.applied, x.applied + 1), final |-> FALSE])
  PROVE  Exact(y)
<1> DEFINE n == Len(x.queue)
           a == x.applied
           u == [data |-> Chunks(a, a + 1), final |-> FALSE]
<1>1. n \in Nat /\ a \in Nat /\ x.queue \in Seq(Writes) /\ DOMAIN x.queue = 1 .. n
  BY DEF Records
<1>2. Len(u.data) = 1 /\ Run(u.data, a + 1)
  <2>1. Chunks(a, a + 1) = [i \in 1 .. 1 |-> a + i]
    BY <1>1 DEF Chunks
  <2>2. u.data = Chunks(a, a + 1)
    OBVIOUS
  <2>3. Len(u.data) = 1 /\ DOMAIN u.data = 1 .. 1 /\ \A i \in 1 .. 1 : u.data[i] = a + 1 - 1 + i
    BY <1>1, <2>1, <2>2
  <2> DEFINE s == u.data
  <2> HIDE DEF u
  <2>4. Len(s) = 1 /\ DOMAIN s = 1 .. 1 /\ \A i \in 1 .. 1 : s[i] = a + 1 - 1 + i
    BY <2>3
  <2> HIDE DEF s
  <2>5. Run(s, a + 1)
    BY <1>1, <2>4 DEF Run
  <2>6. QED
    BY <2>3, <2>5 DEF s
<1>3. y.queue = Append(x.queue, u) /\ u \in Writes
  <2>1. a + 1 \in Nat
    BY <1>1
  <2>2. Chunks(a, a + 1) \in Seq(Nat)
    BY <1>1, <2>1, ChunksTyped
  <2>3. QED
    BY <2>2 DEF Writes, Truths
<1> HIDE DEF u
<1>4. /\ Len(y.queue) = n + 1 /\ DOMAIN y.queue = 1 .. n + 1 /\ y.queue[n + 1] = u
      /\ \A i \in 1 .. n : y.queue[i] = x.queue[i]
  BY <1>1, <1>3
<1>5. PICK ends \in [0 .. n -> 0 .. a] :
        /\ Run(x.screen, ends[0]) /\ ends[n] = a
        /\ \A i \in DOMAIN x.queue : Run(x.queue[i].data, ends[i]) /\ ends[i] = ends[i - 1] + Len(x.queue[i].data)
  BY DEF Exact
<1> DEFINE more == [i \in 0 .. n + 1 |-> IF i = n + 1 THEN a + 1 ELSE ends[i]]
<1>6. /\ more \in [0 .. n + 1 -> 0 .. a + 1] /\ more[n + 1] = a + 1 /\ more[n + 1 - 1] = a /\ more[0] = ends[0]
      /\ \A i \in 1 .. n : more[i] = ends[i] /\ more[i - 1] = ends[i - 1]
  <2>1. \A i \in 0 .. n + 1 : i = n + 1 \/ i \in 0 .. n
    BY <1>1
  <2>2. \A i \in 0 .. n : more[i] = ends[i] /\ ends[i] \in 0 .. a /\ i \in 0 .. n + 1
    BY <1>1, <1>5, SMTT(30)
  <2>3. more[n + 1] = a + 1 /\ n + 1 \in 0 .. n + 1 /\ n + 1 - 1 = n /\ n \in 0 .. n /\ 0 \in 0 .. n
    BY <1>1
  <2>4. ASSUME NEW i \in 0 .. n + 1 PROVE more[i] \in 0 .. a + 1
    <3>1. CASE i = n + 1
      BY <1>1, <2>3, <3>1
    <3>2. CASE i \in 0 .. n
      <4>1. more[i] \in 0 .. a
        BY <2>2, <3>2
      <4> HIDE DEF more
      <4>2. QED
        BY <1>1, <4>1
    <3>3. QED
      BY <2>1, <3>1, <3>2
  <2>5. \A i \in 1 .. n : i \in 0 .. n /\ i - 1 \in 0 .. n
    BY <1>1
  <2>6. more \in [0 .. n + 1 -> 0 .. a + 1]
    BY <2>4
  <2> HIDE DEF more
  <2>7. QED
    BY <1>5, <2>2, <2>3, <2>5, <2>6
<1> HIDE DEF more, n, a
<1>7. ASSUME NEW i \in DOMAIN y.queue
      PROVE  Run(y.queue[i].data, more[i]) /\ more[i] = more[i - 1] + Len(y.queue[i].data)
  <2>1. CASE i = n + 1
    <3>1. y.queue[i] = u /\ more[i] = a + 1 /\ more[i - 1] = a
      BY <1>1, <1>4, <1>6, <2>1
    <3>2. QED
      BY <1>1, <1>2, <3>1
  <2>2. CASE i # n + 1
    <3>1. i \in 1 .. n
      BY <1>1, <1>4, <2>2
    <3>2. QED
      BY <1>1, <1>4, <1>5, <1>6, <3>1
  <2>3. QED
    BY <2>1, <2>2
<1>8. y.applied = a + 1
  BY DEF a
<1>9. Run(y.screen, more[0])
  BY <1>5, <1>6
<1>10. more \in [0 .. Len(y.queue) -> 0 .. y.applied] /\ more[Len(y.queue)] = y.applied
  BY <1>4, <1>6, <1>8
<1>11. QED
  BY <1>7, <1>9, <1>10 DEF Exact

(* A rebuilt session handles what comes.                                                          *)
LEMMA HearsRebuilt ==
  ASSUME LinkInv, NEW c \in Conns, NEW f, NEW y, Hears(c, f, y), f.cmd # "close", session[c].at \in Rebuilt
  PROVE  Kept(c)'
<1> DEFINE w == toServer[c]
           x == session[c]
           r == Tail(w)
<1>1. Kept(c) /\ Heard(c, f, y, r)
  BY Hearing
<1> HIDE DEF r
<1>2. /\ holder' = holder /\ disk' = disk /\ disturbed' = disturbed /\ toServer'[c] = r /\ session'[c] = y
      /\ f = w[1] /\ x \in Records /\ f \in Frames /\ w # <<>> /\ holder.written \in Nat /\ y \in Records
      /\ 1 \in DOMAIN w
  <2>1. w \in Seq(Frames) /\ w # <<>>
    BY DEF Hears
  <2>2. 1 \in DOMAIN w
    BY <2>1
  <2>3. QED
    BY <1>1, <2>2 DEF Hears, Heard
<1>3. /\ (\A s : Comes(w, s) <=> f.cmd \in s \/ Comes(r, s)) /\ (\A s : At(c, s) <=> x.at \in s)
      /\ (Connected(c)' <=> Connected(c)) /\ c \notin holder.backlog /\ x.exit # "lost"
      /\ (\A s : At(c, s)' <=> y.at \in s)
  BY <1>1 DEF Heard
<1>4. y = HandleHolderFrame(x, f)
  BY DEF Hears, Received, Rebuilt
<1>5. f.cmd \notin Answers
  BY <1>1 DEF Heard, StageFor, Answers, Rebuilt
<1>6. /\ y.at = x.at /\ y.buffered = x.buffered /\ y.screen = x.screen /\ y.seed = x.seed
      /\ y.gap = x.gap
      /\ y.exit = "lost" => x.exit = "lost"
      /\ x.exit \in {"evicted", "ended"} => y.exit \in {"evicted", "ended"}
      /\ y.exit = "none" => x.exit = "none"
      /\ y.exit = "ended" => x.exit = "ended" \/ f.cmd = "exit"
      /\ f.cmd # "out" => y.queue = x.queue /\ y.applied = x.applied
      /\ y.exit = "none" => f.cmd \notin {"exit", "evicted"}
  BY <1>2, <1>4, Handled
<1>7. ASSUME y.exit = "none", NEW m \in Nat
      PROVE  InQueue(y.queue, m) <=> InQueue(x.queue, m) \/ (f.cmd = "out" /\ f.from < m /\ m <= f.to)
  BY <1>2, <1>4, <1>7, Handled
<1>8. toHolder'[c] = toHolder[c] /\ toHolder[c] = <<>> /\ Len(toHolder'[c]) = 0
  <2>1. Answer(c, x, f) = <<>>
    BY DEF Answer, Rebuilt
  <2>2. toHolder[c] = <<>>
    BY <1>1, <1>3 DEF Kept, AsksInTurn, Rebuilt
  <2>3. QED
    BY <2>1, <2>2 DEF Hears
<1>9. holder.pending # c
  BY <1>1, <1>3 DEF Kept, InItsRole, Rebuilt
<1>10. InItsRole(c)' /\ AsksInTurn(c)'
  BY <1>2, <1>3, <1>6, <1>8, <1>9 DEF InItsRole, AsksInTurn, Comes, Rebuilt
<1>11. AnswersInTurn(c)'
  BY <1>1, <1>6, <1>8, HeardInTurn
<1>12. KeptInTurn(c)'
  BY <1>1, <1>2, <1>3, <1>6 DEF Kept, KeptInTurn, Rebuilt
<1>13. EndsWithReason(c)'
  <2>1. f.cmd = "evicted" => y.exit = "evicted"
    BY <1>2, <1>4 DEF HandleHolderFrame, Records
  <2>2. QED
    BY <1>1, <1>3, <1>6, <2>1, HeardWithReason
<1>14. AnswerIsComing(c)'
  BY <1>3, <1>6 DEF AnswerIsComing, Rebuilt
<1>15. NothingMissing(c)'
  <2>1. SUFFICES ASSUME holder.client = c, y.exit = "none", ~y.gap, Whole(x.seed.screen, x.seed.offset)
                 PROVE  \A m \in 1 .. holder.written : There(c, m)' \/ \A k \in Nat : There(c, k)' => m < k
    BY <1>2, <1>3, <1>6, <1>9 DEF NothingMissing, Rebuilt
  <2>2. \A k \in Nat : There(c, k)' <=> There(c, k)
    <3>1. \A k \in Nat : Afloat(c, k)' <=> Afloat(c, k)
      <4> SUFFICES ASSUME NEW k \in Nat PROVE Afloat(c, k)' <=> Afloat(c, k)
        OBVIOUS
      <4>1. InFrames(w, {"out", "dump", "replay"}, k) <=>
              (f.cmd = "out" /\ f.from < k /\ k <= f.to) \/ InFrames(r, {"out", "dump", "replay"}, k)
        BY <1>1, <1>5 DEF Heard, Answers
      <4>2. QED
        BY <1>2, <1>6, <1>7, <2>1, <4>1 DEF Afloat
    <3>2. \A k \in Nat : OnScreen(c, k)' <=> OnScreen(c, k)
      BY <1>2, <1>6 DEF OnScreen
    <3>3. QED
      BY <3>1, <3>2 DEF There
  <2>3. \A m \in 1 .. holder.written : There(c, m) \/ \A k \in Nat : There(c, k) => m < k
    BY <1>1, <1>3, <1>6, <2>1 DEF Kept, NothingMissing
  <2>4. 1 .. holder.written \subseteq Nat
    BY <1>2
  <2>5. QED
    BY <2>2, <2>3, <2>4
<1>16. FramesAreTrue(c)'
  BY <1>1, <1>6, HeardFrames
<1>17. OffsetInStep(c)'
  <2> SUFFICES ASSUME Undisturbed PROVE OffsetInStep(c)'
    BY <1>2 DEF OffsetInStep, Undisturbed
  <2>1. (At(c, Handshake) => ~Comes(w, {"out"}) /\ ~Comes(x.buffered, {"out"})) /\ Even(x.seed)
    BY <1>1 DEF Kept, OffsetInStep
  <2>2. \A i \in DOMAIN r : r[i].cmd \notin {"dump", "replay"}
    <3>1. \A i \in DOMAIN w : w[i].cmd \notin {"dump", "replay"}
      BY <1>1 DEF Kept, AnswersInTurn, StageFor, Answers, Rebuilt
    <3>2. QED
      BY <1>1, <3>1 DEF Heard
  <2>3. Even(y.seed)'
    BY <1>2, <1>6, <2>1 DEF Even
  <2>4. At(c, Handshake) => ~Comes(r, {"out"})
    BY <1>3, <2>1
  <2>5. QED
    BY <1>2, <1>3, <1>6, <2>1, <2>2, <2>3, <2>4 DEF OffsetInStep, Rebuilt
<1>18. FollowsInStep(c)'
  <2> SUFFICES ASSUME Undisturbed, y.exit = "none" PROVE FollowsInStep(c)'
    BY <1>2 DEF FollowsInStep, Undisturbed
  <2>1. f.cmd = "out"
    BY <1>2, <1>5, <1>6 DEF Frames, Replies, Answers
  <2>2. /\ ~x.gap => Exact(x)
        /\ \A i \in DOMAIN w : w[i].cmd = "out" => w[i].from = x.applied + i - 1 /\ w[i].to = x.applied + i
        /\ holder.client = c /\ holder.alive => holder.written = x.applied + Len(w)
    BY <1>1, <1>3, <1>6 DEF Kept, FollowsInStep
  <2>3. x.applied \in Nat /\ f.from = x.applied /\ f.to = x.applied + 1
    <3>1. x.applied \in Nat
      BY <1>2 DEF Records
    <3>2. f.from = x.applied + 1 - 1 /\ f.to = x.applied + 1
      BY <1>2, <2>1, <2>2
    <3>3. QED
      BY <3>1, <3>2
  <2>4. y.applied = x.applied + 1 /\ y.queue = Append(x.queue, [data |-> Chunks(x.applied, x.applied + 1), final |-> FALSE])
    <3> DEFINE u == [data |-> Chunks(f.from, f.to), final |-> FALSE]
    <3>1. y = [x EXCEPT !.applied = @ + 1, !.queue = Append(@, u)]
      BY <1>4, <1>6, <2>1 DEF HandleHolderFrame
    <3> HIDE DEF u
    <3>2. y.applied = x.applied + 1 /\ y.queue = Append(x.queue, u)
      BY <1>2, <3>1 DEF Records
    <3>3. QED
      BY <2>3, <3>2 DEF u
  <2>5. ~y.gap => Exact(y)
    BY <1>2, <1>6, <2>2, <2>4, RunGoesOn
  <2>6. y.applied <= holder.written
    BY <1>1, <2>3, <2>4 DEF Heard
  <2>7. ASSUME NEW i \in DOMAIN r, r[i].cmd = "out"
        PROVE  r[i].from = y.applied + i - 1 /\ r[i].to = y.applied + i
    <3>1. i + 1 \in DOMAIN w /\ r[i] = w[i + 1] /\ i \in Nat
      BY <1>1 DEF Heard
    <3>2. r[i].from = x.applied + (i + 1) - 1 /\ r[i].to = x.applied + (i + 1)
      BY <2>2, <2>7, <3>1
    <3>3. y.applied = x.applied + 1
      BY <2>4
    <3>4. QED
      BY <2>3, <3>1, <3>2, <3>3
  <2>8. holder.client = c /\ holder.alive => holder.written = y.applied + Len(r)
    <3>1. Len(r) \in Nat /\ Len(w) = Len(r) + 1
      BY <1>1 DEF Heard
    <3>2. y.applied = x.applied + 1
      BY <2>4
    <3>3. holder.client = c /\ holder.alive => holder.written = x.applied + Len(w)
      BY <2>2
    <3>4. QED
      BY <2>3, <3>1, <3>2, <3>3
  <2>9. QED
    BY <1>2, <2>5, <2>6, <2>7, <2>8 DEF FollowsInStep
<1>19. QED
  BY <1>10, <1>11, <1>12, <1>13, <1>14, <1>15, <1>16, <1>17, <1>18 DEF Kept

(* What comes before its turn is kept for later.                                              *)
LEMMA HearsEarly ==
  ASSUME LinkInv, NEW c \in Conns, NEW f, NEW y, Hears(c, f, y), f.cmd # "close", session[c].at \notin Rebuilt,
         f.cmd \notin Answers
  PROVE  Kept(c)'
<1> DEFINE w == toServer[c]
           x == session[c]
           r == Tail(w)
<1>1. Kept(c) /\ Heard(c, f, y, r)
  BY Hearing
<1> HIDE DEF r
<1>2. /\ holder' = holder /\ disk' = disk /\ disturbed' = disturbed /\ toServer'[c] = r /\ session'[c] = y
      /\ f = w[1] /\ x \in Records /\ f \in Frames /\ w # <<>> /\ holder.written \in Nat /\ y \in Records
      /\ 1 \in DOMAIN w /\ x.buffered \in Seq(Frames)
  <2>1. w \in Seq(Frames) /\ w # <<>>
    BY DEF Hears
  <2>2. 1 \in DOMAIN w
    BY <2>1
  <2>3. QED
    BY <1>1, <2>2 DEF Hears, Heard, Records
<1>3. /\ (\A s : Comes(w, s) <=> f.cmd \in s \/ Comes(r, s)) /\ (\A s : At(c, s) <=> x.at \in s)
      /\ (Connected(c)' <=> Connected(c)) /\ c \notin holder.backlog /\ x.exit # "lost"
      /\ (\A s : At(c, s)' <=> y.at \in s)
      /\ x.at \in {"dialing", "claiming", "dumping", "replaying"}
  BY <1>1 DEF Heard, Rebuilt
<1>4. y = [x EXCEPT !.buffered = Append(@, f)]
  BY DEF Hears, Received, Rebuilt, Answers
<1>5. /\ y.at = x.at /\ y.screen = x.screen /\ y.seed = x.seed /\ y.exit = x.exit /\ y.applied = x.applied
      /\ y.gap = x.gap /\ y.queue = x.queue /\ y.buffered = Append(x.buffered, f)
  BY <1>2, <1>4 DEF Records
<1>6. /\ \A s : Comes(y.buffered, s) <=> f.cmd \in s \/ Comes(x.buffered, s)
      /\ \A s : \A m \in Nat : InFrames(y.buffered, s, m) <=>
           (f.cmd \in s /\ f.from < m /\ m <= f.to) \/ InFrames(x.buffered, s, m)
  <2> DEFINE a == y.buffered
             b == x.buffered
  <2>1. a = Append(b, f) /\ b \in Seq(Frames) /\ f \in Frames
    BY <1>2, <1>5
  <2> HIDE DEF a, b
  <2>2. /\ \A s : Comes(a, s) <=> f.cmd \in s \/ Comes(b, s)
        /\ \A s : \A m \in Nat : InFrames(a, s, m) <=> (f.cmd \in s /\ f.from < m /\ m <= f.to) \/ InFrames(b, s, m)
    BY <2>1, BufferGrows
  <2>3. QED
    BY <2>2 DEF a, b
<1>7. toHolder'[c] = toHolder[c]
  <2>1. Answer(c, x, f) = <<>>
    BY DEF Answer, Answers
  <2>2. QED
    BY <2>1 DEF Hears
<1>8. InItsRole(c)'
  BY <1>1, <1>2, <1>3, <1>5, <1>7 DEF Kept, InItsRole
<1>9. AsksInTurn(c)'
  BY <1>1, <1>2, <1>3, <1>5, <1>7 DEF Kept, AsksInTurn
<1>10. AnswersInTurn(c)'
  BY <1>1, <1>5, <1>7, HeardInTurn
<1>11. KeptInTurn(c)'
  BY <1>1, <1>2, <1>3, <1>5 DEF Kept, KeptInTurn, Rebuilt
<1>12. EndsWithReason(c)'
  BY <1>1, <1>3, <1>5, HeardWithReason
<1>13. AnswerIsComing(c)'
  <2>1. Calm' => Calm
    BY <1>2 DEF Calm
  <2>2. Calm => ~At(c, {"dialing"})
    BY <1>1, <1>2, <1>3 DEF Kept, AnswerIsComing, Answers
  <2>3. /\ Comes(w, {"acquired"}) => Comes(r, {"acquired"}) 
        /\ Comes(w, {"denied"}) => Comes(r, {"denied"}) 
        /\ Comes(w, {"dump", "replay"}) => Comes(r, {"dump", "replay"})
    BY <1>3 DEF Answers
  <2>4. QED
    BY <1>1, <1>2, <1>3, <1>5, <1>7, <2>1, <2>2, <2>3 DEF Kept, AnswerIsComing
<1>14. NothingMissing(c)'
  <2>1. \A k \in Nat : Afloat(c, k)' <=> Afloat(c, k)
    <3> SUFFICES ASSUME NEW k \in Nat PROVE Afloat(c, k)' <=> Afloat(c, k)
      OBVIOUS
    <3>1. InFrames(w, {"out", "dump", "replay"}, k) <=>
            (f.cmd = "out" /\ f.from < k /\ k <= f.to) \/ InFrames(r, {"out", "dump", "replay"}, k)
      BY <1>1 DEF Heard, Answers
    <3>2. InFrames(y.buffered, {"out"}, k) <=> (f.cmd = "out" /\ f.from < k /\ k <= f.to) \/ InFrames(x.buffered, {"out"}, k)
      BY <1>6
    <3>3. QED
      BY <1>2, <1>5, <3>1, <3>2 DEF Afloat
  <2>2. /\ holder.pending = c => \A m \in Nat : ~Afloat(c, m)
        /\ x.at # "replaying" => x.screen = <<>>
        /\ x.at = "replaying" => x.screen = x.seed.screen
    BY <1>1, <1>3 DEF Kept, NothingMissing
  <2>3. holder.client = c => \A m \in Nat, k \in 1 .. holder.written : Afloat(c, m) /\ m <= k => Afloat(c, k)
    BY <1>1, <1>3 DEF Kept, NothingMissing
  <2>4. 1 .. holder.written \subseteq Nat
    BY <1>2
  <2>5. holder.client = c => \A m \in Nat, k \in 1 .. holder.written : Afloat(c, m)' /\ m <= k => Afloat(c, k)'
    BY <2>1, <2>3, <2>4
  <2>6. holder.client = c /\ x.at = "replaying" =>
          \A i \in DOMAIN r : r[i].cmd = "replay" /\ ~r[i].gap =>
            \A k \in 1 .. holder.written : x.seed.offset < k => Afloat(c, k)'
    <3> SUFFICES ASSUME holder.client = c, x.at = "replaying", NEW i \in DOMAIN r, r[i].cmd = "replay", ~r[i].gap,
                        NEW k \in 1 .. holder.written, x.seed.offset < k
                 PROVE  Afloat(c, k)'
      OBVIOUS
    <3>1. i + 1 \in DOMAIN w /\ w[i + 1] = r[i]
      BY <1>1 DEF Heard
    <3>2. Afloat(c, k)
      BY <1>1, <1>3, <3>1 DEF Kept, NothingMissing
    <3>3. QED
      BY <2>1, <2>4, <3>2
  <2>7. /\ (holder'.pending = c \/ c \in holder'.backlog \/ At(c, {"new"})') /\ ~At(c, {"gone", "failed"})' =>
             \A m \in Nat : ~Afloat(c, m)'
        /\ At(c, {"new", "dialing", "claiming", "dumping"})' => y.screen = <<>>
        /\ At(c, {"replaying"})' => y.screen = y.seed.screen
        /\ ~At(c, Rebuilt)'
    BY <1>2, <1>3, <1>5, <2>1, <2>2 DEF Rebuilt
  <2>8. QED
    BY <1>2, <1>3, <1>5, <2>5, <2>6, <2>7 DEF NothingMissing
<1>15. FramesAreTrue(c)'
  BY <1>1, <1>5, <1>6, HeardFrames
<1>16. OffsetInStep(c)'
  <2> SUFFICES ASSUME Undisturbed PROVE OffsetInStep(c)'
    BY <1>2 DEF OffsetInStep, Undisturbed
  <2>1. ~Comes(w, {"out"}) /\ ~Comes(x.buffered, {"out"}) /\ Even(x.seed)
    BY <1>1, <1>3 DEF Kept, OffsetInStep, Handshake
  <2>2. /\ \A i \in DOMAIN r : r[i].cmd = "dump" => r[i].to = x.applied /\ r[i].from <= r[i].to
        /\ \A i \in DOMAIN r : r[i].cmd = "replay" =>
             r[i].from <= r[i].to /\ (~r[i].gap => r[i].from = x.seed.offset)
    <3>1. /\ \A i \in DOMAIN w : w[i].cmd = "dump" => w[i].to = x.applied /\ w[i].from <= w[i].to
          /\ \A i \in DOMAIN w : w[i].cmd = "replay" =>
               w[i].from <= w[i].to /\ (~w[i].gap => w[i].from = x.seed.offset)
      BY <1>1 DEF Kept, OffsetInStep
    <3>2. QED
      BY <1>1, <3>1 DEF Heard
  <2>3. c \in {holder.pending, holder.client} =>
          /\ x.at = "dialing" => \A i \in DOMAIN r : r[i].cmd = "state" => r[i].to = holder.written
          /\ x.at \in {"claiming", "dumping"} => x.applied = holder.written
          /\ \A i \in DOMAIN r : r[i].cmd = "replay" => r[i].to = holder.written
    <3>1. c \in {holder.pending, holder.client} =>
            /\ x.at = "dialing" => \A i \in DOMAIN w : w[i].cmd = "state" => w[i].to = holder.written
            /\ x.at \in {"claiming", "dumping"} => x.applied = holder.written
            /\ \A i \in DOMAIN w : w[i].cmd = "replay" => w[i].to = holder.written
      BY <1>1, <1>3 DEF Kept, OffsetInStep
    <3>2. QED
      BY <1>1, <3>1 DEF Heard
  <2>4. Even(y.seed)'
    BY <1>2, <1>5, <2>1 DEF Even
  <2>5. ~Comes(r, {"out"}) /\ ~Comes(y.buffered, {"out"})
    BY <1>3, <1>6, <2>1
  <2>6. QED
    BY <1>2, <1>3, <1>5, <2>2, <2>3, <2>4, <2>5 DEF OffsetInStep
<1>17. FollowsInStep(c)'
  BY <1>3, <1>5 DEF FollowsInStep
<1>18. QED
  BY <1>8, <1>9, <1>10, <1>11, <1>12, <1>13, <1>14, <1>15, <1>16, <1>17 DEF Kept

LEMMA ReceiveKeeps == ASSUME LinkInv, NEW c \in Conns, Receive(c) PROVE LinkInv'
<1>1. LinkTypes' /\ (\A d \in Conns : d # c => Kept(d)') /\ \E f, y : Hears(c, f, y)
  BY ReceiveHears
<1>2. PICK f, y : Hears(c, f, y)
  BY <1>1
<1>3. Kept(c)'
  <2>1. CASE f.cmd = "close"
    BY <1>2, <2>1, HearsClose
  <2>2. CASE f.cmd # "close" /\ session[c].at \in Rebuilt
    BY <1>2, <2>2, HearsRebuilt
  <2>3. CASE f.cmd # "close" /\ session[c].at \notin Rebuilt /\ f.cmd \notin Answers
    BY <1>2, <2>3, HearsEarly
  <2>4. CASE f.cmd \in Answers
    <3>1. session[c].at = StageFor(f.cmd)
      <4> DEFINE r == Tail(toServer[c])
      <4>1. Heard(c, f, y, r)
        BY <1>2, Hearing
      <4> HIDE DEF r
      <4>2. QED
        BY <2>4, <4>1 DEF Heard
    <3>2. CASE f.cmd = "state"
      BY <1>2, <3>1, <3>2, HearsState DEF StageFor
    <3>3. CASE f.cmd = "acquired"
      BY <1>2, <3>1, <3>3, HearsAcquired DEF StageFor
    <3>4. CASE f.cmd = "denied"
      BY <1>2, <3>1, <3>4, HearsDenied DEF StageFor
    <3>5. CASE f.cmd \in {"dump", "replay"}
      BY <1>2, <3>1, <3>5, HearsReplay DEF StageFor
    <3>6. QED
      BY <2>4, <3>2, <3>3, <3>4, <3>5 DEF Answers
  <2>5. QED
    BY <2>1, <2>2, <2>3, <2>4
<1>4. holder' = holder /\ disk' = disk /\ disturbed' = disturbed
  BY <1>2 DEF Hears
<1>5. RolesApart' /\ (Calm' => disk'.manifest) /\ (Undisturbed' => Even(disk.checkpoint)')
  BY <1>4 DEF LinkInv, RolesApart, Calm, Undisturbed, Even
<1>6. QED
  BY <1>1, <1>3, <1>5 DEF LinkInv

-----------------------------------------------------------------------------
(* xterm parses the next write.                                                              *)
LEMMA QueueShrinks ==
  ASSUME NEW q \in Seq(Writes), q # <<>>, NEW m
  PROVE  InQueue(q, m) <=> InQueue(Tail(q), m) \/ \E j \in DOMAIN q[1].data : q[1].data[j] = m
<1> DEFINE n == Len(q) - 1
           r == Tail(q)
           P(u) == \E j \in DOMAIN u.data : u.data[j] = m
<1>1. /\ n \in Nat /\ DOMAIN q = 1 .. n + 1 /\ DOMAIN r = 1 .. n /\ \A i \in 1 .. n : r[i] = q[i + 1]
  OBVIOUS
<1> HIDE DEF n, r
<1>2. (\E i \in 1 .. n + 1 : P(q[i])) <=> P(q[1]) \/ \E i \in 1 .. n : P(r[i])
  <2>1. \A i \in 1 .. n : i + 1 \in 1 .. n + 1
    BY <1>1
  <2>2. \A i \in 1 .. n + 1 : i = 1 \/ (i - 1 \in 1 .. n /\ (i - 1) + 1 = i)
    BY <1>1
  <2>3. 1 \in 1 .. n + 1
    BY <1>1
  <2> HIDE DEF P
  <2>4. QED
    BY <1>1, <2>1, <2>2, <2>3, ZenonT(60)
<1>3. QED
  BY <1>1, <1>2 DEF InQueue, r

Has(s, m) == \E i \in DOMAIN s : s[i] = m

LEMMA ScreenGrows ==
  ASSUME NEW s \in Seq(Nat), NEW d \in Seq(Nat), NEW t, t = s \o d, NEW m \in Nat
  PROVE  Has(t, m) <=> Has(s, m) \/ Has(d, m)
<1> DEFINE k == Len(s)
           l == Len(d)
<1>1. /\ k \in Nat /\ l \in Nat /\ DOMAIN s = 1 .. k /\ DOMAIN d = 1 .. l /\ DOMAIN t = 1 .. k + l
      /\ \A i \in 1 .. k + l : t[i] = IF i <= k THEN s[i] ELSE d[i - k]
  OBVIOUS
<1> HIDE DEF k, l
<1>2. \A i \in 1 .. k : i \in 1 .. k + l /\ t[i] = s[i]
  BY <1>1
<1>3. \A i \in 1 .. l : i + k \in 1 .. k + l /\ t[i + k] = d[i]
  <2> SUFFICES ASSUME NEW i \in 1 .. l PROVE i + k \in 1 .. k + l /\ t[i + k] = d[i]
    OBVIOUS
  <2>1. i + k \in 1 .. k + l /\ ~(i + k <= k) /\ i + k - k = i
    BY <1>1
  <2>2. QED
    BY <1>1, <2>1
<1>4. \A i \in 1 .. k + l : (i \in 1 .. k /\ t[i] = s[i]) \/ (i - k \in 1 .. l /\ t[i] = d[i - k])
  BY <1>1
<1>5. ASSUME NEW i \in DOMAIN t, t[i] = m PROVE Has(s, m) \/ Has(d, m)
  BY <1>1, <1>4, <1>5 DEF Has
<1>6. Has(s, m) => Has(t, m)
  BY <1>1, <1>2 DEF Has
<1>7. Has(d, m) => Has(t, m)
  BY <1>1, <1>3 DEF Has
<1>8. QED
  BY <1>5, <1>6, <1>7 DEF Has

LEMMA RunsJoin ==
  ASSUME NEW s \in Seq(Nat), NEW d \in Seq(Nat), NEW e \in Nat, Run(s, e), Run(d, e + Len(d))
  PROVE  Run(s \o d, e + Len(d))
<1> DEFINE t == s \o d
           k == Len(s)
           l == Len(d)
<1>1. /\ k \in Nat /\ l \in Nat /\ DOMAIN s = 1 .. k /\ DOMAIN d = 1 .. l /\ DOMAIN t = 1 .. k + l /\ Len(t) = k + l
      /\ \A i \in 1 .. k + l : t[i] = IF i <= k THEN s[i] ELSE d[i - k]
  OBVIOUS
<1>2. \A i \in 1 .. k : s[i] = e - k + i
  BY <1>1 DEF Run
<1>3. \A i \in 1 .. l : d[i] = e + l - l + i
  <2> DEFINE v == e + l
  <2>1. v \in Nat /\ Run(d, v) /\ v = e + l
    BY <1>1
  <2> HIDE DEF v
  <2>2. \A i \in DOMAIN d : d[i] = v - Len(d) + i
    BY <2>1 DEF Run
  <2>3. DOMAIN d = 1 .. l /\ l \in Nat /\ l = Len(d)
    OBVIOUS
  <2> HIDE DEF l
  <2>4. QED
    BY <2>1, <2>2, <2>3
<1> HIDE DEF t, k, l
<1>4. ASSUME NEW i \in 1 .. k + l PROVE t[i] = e + l - (k + l) + i
  <2>1. CASE i <= k
    <3>1. t[i] = s[i] /\ i \in 1 .. k
      BY <1>1, <2>1
    <3>2. QED
      BY <1>1, <1>2, <3>1
  <2>2. CASE ~(i <= k)
    <3>1. t[i] = d[i - k] /\ i - k \in 1 .. l
      BY <1>1, <2>2
    <3>2. d[i - k] = e + l - l + (i - k)
      BY <1>3, <3>1
    <3>3. QED
      BY <1>1, <3>1, <3>2
  <2>3. QED
    BY <2>1, <2>2
<1>5. Run(t, e + l)
  BY <1>1, <1>4 DEF Run
<1>6. QED
  BY <1>5 DEF t, l

LEMMA RunIsParsed ==
  ASSUME NEW x \in Records, Exact(x), x.queue # <<>>, NEW y \in Records, y.screen = x.screen \o x.queue[1].data,
         y.applied = x.applied, y.queue = Tail(x.queue)
  PROVE  Exact(y)
<1> DEFINE n == Len(x.queue) - 1
           a == x.applied
           q == x.queue
           d == q[1].data
<1>1. /\ n \in Nat /\ a \in Nat /\ q \in Seq(Writes) /\ DOMAIN q = 1 .. n + 1 /\ x.screen \in Seq(Nat) /\ Len(q) = n + 1
      /\ Len(y.queue) = n /\ DOMAIN y.queue = 1 .. n /\ \A i \in 1 .. n : y.queue[i] = q[i + 1]
  BY DEF Records
<1>2. d \in Seq(Nat)
  <2>1. q[1] \in Writes
    BY <1>1
  <2>2. QED
    BY <2>1 DEF Writes
<1>3. PICK ends \in [0 .. n + 1 -> 0 .. a] :
        /\ Run(x.screen, ends[0]) /\ ends[n + 1] = a
        /\ \A i \in 1 .. n + 1 : Run(q[i].data, ends[i]) /\ ends[i] = ends[i - 1] + Len(q[i].data)
  BY <1>1 DEF Exact
<1> HIDE DEF n, a, q, d
<1> DEFINE rest == [i \in 0 .. n |-> ends[i + 1]]
<1>4. /\ rest \in [0 .. n -> 0 .. a] /\ rest[0] = ends[1] /\ rest[n] = a
      /\ \A i \in 1 .. n : rest[i] = ends[i + 1] /\ rest[i - 1] = ends[i]
  <2>1. \A i \in 0 .. n : i + 1 \in 0 .. n + 1 /\ rest[i] = ends[i + 1]
    BY <1>1
  <2>2. rest \in [0 .. n -> 0 .. a]
    BY <2>1
  <2>3. \A i \in 1 .. n : i \in 0 .. n /\ i - 1 \in 0 .. n /\ i - 1 + 1 = i
    BY <1>1
  <2>4. 0 \in 0 .. n /\ n \in 0 .. n /\ 0 + 1 = 1
    BY <1>1
  <2> HIDE DEF rest
  <2>5. QED
    BY <1>3, <2>1, <2>2, <2>3, <2>4
<1>5. Run(y.screen, rest[0])
  <2>1. ends[0] \in Nat /\ Run(d, ends[1]) /\ ends[1] = ends[0] + Len(d) /\ Run(x.screen, ends[0])
    <3>1. 1 \in 1 .. n + 1 /\ 0 \in 0 .. n + 1 /\ 1 - 1 = 0
      BY <1>1
    <3>2. ends[0] \in 0 .. a /\ Run(q[1].data, ends[1]) /\ ends[1] = ends[0] + Len(q[1].data)
      BY <1>3, <3>1
    <3>3. QED
      BY <1>1, <1>3, <3>2 DEF d
  <2>2. Run(x.screen \o d, ends[0] + Len(d))
    BY <1>1, <1>2, <2>1, RunsJoin
  <2>3. QED
    BY <1>4, <2>1, <2>2 DEF d, q
<1>6. ASSUME NEW i \in DOMAIN y.queue
      PROVE  Run(y.queue[i].data, rest[i]) /\ rest[i] = rest[i - 1] + Len(y.queue[i].data)
  <2>1. i \in 1 .. n /\ i + 1 \in 1 .. n + 1 /\ i + 1 - 1 = i
    BY <1>1
  <2>2. Run(q[i + 1].data, ends[i + 1]) /\ ends[i + 1] = ends[i] + Len(q[i + 1].data)
    BY <1>3, <2>1
  <2> HIDE DEF rest
  <2>3. QED
    BY <1>1, <1>4, <2>1, <2>2
<1> HIDE DEF rest
<1>7. rest \in [0 .. Len(y.queue) -> 0 .. y.applied] /\ rest[Len(y.queue)] = y.applied
  BY <1>1, <1>4 DEF a
<1>8. QED
  BY <1>5, <1>6, <1>7 DEF Exact

LEMMA ParsesKeeps == ASSUME LinkInv, NEW c \in Conns, Parses(c) PROVE LinkInv'
<1> DEFINE w == toServer[c]
           x == session[c]
           u == Head(x.queue)
           z == [x EXCEPT !.screen = @ \o u.data, !.queue = Tail(@)]
           y == IF u.final THEN Finalize(z) ELSE z
<1>1. /\ holder' = holder /\ toHolder' = toHolder /\ toServer' = toServer /\ disk' = disk /\ disturbed' = disturbed
      /\ session' = [session EXCEPT ![c] = y] /\ x.queue # <<>> /\ ~Deaf(c)
  BY DEF Parses
<1>2. LinkTypes /\ x \in Records /\ Kept(c) /\ holder.written \in Nat /\ x.queue \in Seq(Writes)
  BY DEF LinkInv, LinkTypes, Holders, Records
<1>3. u = x.queue[1]
  BY <1>1, <1>2
<1> HIDE DEF u
<1>4. /\ u \in Writes /\ z \in Records /\ z.screen = x.screen \o u.data /\ z.queue = Tail(x.queue) /\ z.at = x.at
      /\ z.exit = x.exit /\ z.seed = x.seed /\ z.gap = x.gap /\ z.buffered = x.buffered /\ z.applied = x.applied
  <2>1. u \in Writes /\ x.screen \in Seq(Nat)
    BY <1>1, <1>2, <1>3 DEF Records
  <2>2. u.data \in Seq(Nat)
    BY <2>1 DEF Writes
  <2> DEFINE s == x.screen \o u.data
             q == Tail(x.queue)
  <2>3. s \in Seq(Nat) /\ q \in Seq(Writes)
    BY <1>1, <1>2, <2>1, <2>2
  <2>4. z = [x EXCEPT !.screen = s, !.queue = q]
    OBVIOUS
  <2> HIDE DEF s, q, z
  <2>5. /\ z \in Records /\ z.screen = s /\ z.queue = q /\ z.at = x.at
        /\ z.exit = x.exit /\ z.seed = x.seed /\ z.gap = x.gap /\ z.buffered = x.buffered /\ z.applied = x.applied
    BY <1>2, <2>3, <2>4 DEF Records
  <2>6. QED
    BY <2>1, <2>5 DEF s, q
<1> HIDE DEF z
<1>5. x.at \in Rebuilt /\ (\A s : At(c, s) <=> x.at \in s) /\ (x.at = "driving" => x.buffered = <<>>)
  BY <1>1, <1>2 DEF Kept, KeptInTurn, At
<1>6. /\ y \in Records /\ y.at \in Rebuilt /\ y.screen = z.screen /\ y.seed = z.seed /\ y.gap = z.gap
      /\ y.at = "driving" => y.buffered = <<>>
      /\ y.exit = "lost" => z.exit = "lost"
      /\ z.exit \in {"evicted", "ended"} => y.exit \in {"evicted", "ended"}
      /\ y.exit = "none" => z.exit = "none"
      /\ y.exit = "ended" => z.exit = "ended" \/ Comes(z.buffered, {"exit"})
      /\ ~Comes(z.buffered, {"out"}) => y.queue = z.queue /\ y.applied = z.applied
      /\ \A s : Comes(y.buffered, s) => Comes(z.buffered, s)
  <2>1. CASE u.final
    <3>1. y = Finalize(z)
      BY <2>1
    <3>0. z \in Records
      BY <1>4
    <3> HIDE DEF y, z
    <3>2. /\ y \in Records /\ y.at = "driving" /\ y.buffered = <<>> /\ y.screen = z.screen /\ y.seed = z.seed
          /\ y.gap = z.gap
          /\ y.exit = "lost" => z.exit = "lost"
          /\ z.exit \in {"evicted", "ended"} => y.exit \in {"evicted", "ended"}
          /\ y.exit = "none" => z.exit = "none"
          /\ y.exit = "ended" => z.exit = "ended" \/ Comes(z.buffered, {"exit"})
          /\ ~Comes(z.buffered, {"out"}) => y.queue = z.queue /\ y.applied = z.applied
      BY <3>0, <3>1, Finalized
    <3>3. (\A s : ~Comes(y.buffered, s)) /\ y.at \in Rebuilt
      BY <3>2 DEF Comes, Rebuilt
    <3>4. QED
      BY <3>2, <3>3
  <2>2. CASE ~u.final
    <3>1. y = z
      BY <2>2
    <3>2. QED
      BY <1>4, <1>5, <3>1
  <2>3. QED
    BY <2>1, <2>2
<1>7. ASSUME y.exit = "none", NEW m \in Nat
      PROVE  InQueue(y.queue, m) \/ InFrames(y.buffered, {"out"}, m) <=>
               InQueue(z.queue, m) \/ InFrames(z.buffered, {"out"}, m)
  <2>1. CASE u.final
    <3>1. y = Finalize(z)
      BY <2>1
    <3> HIDE DEF y
    <3>2. y.buffered = <<>> /\ (InQueue(y.queue, m) <=> InQueue(z.queue, m) \/ InFrames(z.buffered, {"out"}, m))
      BY <1>4, <1>7, <3>1, Finalized
    <3>3. QED
      BY <3>2 DEF InFrames
  <2>2. CASE ~u.final
    BY <2>2
  <2>3. QED
    BY <2>1, <2>2
<1> HIDE DEF y
<1>8. session'[c] = y /\ LinkTypes' /\ \A s : At(c, s)' <=> y.at \in s
  <2>1. session'[c] = y /\ LinkTypes'
    BY <1>1, <1>2, <1>6 DEF LinkTypes
  <2>2. QED
    BY <2>1 DEF At
<1>9. toHolder[c] = <<>> /\ \A i \in DOMAIN w : w[i].cmd \notin Answers
  <2>1. toHolder[c] = <<>>
    BY <1>2, <1>5 DEF Kept, AsksInTurn, Rebuilt
  <2>2. \A i \in DOMAIN w : w[i].cmd \notin Answers
    BY <1>2, <1>5 DEF Kept, AnswersInTurn, StageFor, Answers, Rebuilt
  <2>3. QED
    BY <2>1, <2>2
<1>10. Kept(c)'
  <2>1. InItsRole(c)' /\ AsksInTurn(c)' 
    BY <1>1, <1>2, <1>5, <1>6, <1>8, <1>9 DEF Kept, InItsRole, AsksInTurn, Comes, Rebuilt
  <2>2. AnswersInTurn(c)'
    <3>1. (\A i \in DOMAIN w : w[i].cmd = "close" => i = Len(w)) /\ (Comes(w, {"close", "evicted"}) => ~Connected(c))
      BY <1>2 DEF Kept, AnswersInTurn
    <3>2. QED
      BY <1>1, <1>9, <3>1 DEF AnswersInTurn, Connected
  <2>3. KeptInTurn(c)'
    BY <1>1, <1>2, <1>4, <1>6, <1>8 DEF Kept, KeptInTurn, Rebuilt, Connected
  <2>4. EndsWithReason(c)'
    <3>1. /\ Comes(w, {"close"}) =>
               \/ ~holder.alive \/ "late" \in disturbed
               \/ Len(w) >= 2 /\ w[Len(w) - 1].cmd = "evicted"
               \/ y.exit \in {"evicted", "ended"}
          /\ y.exit = "lost" => ~holder.alive \/ "late" \in disturbed
      BY <1>2, <1>4, <1>5, <1>6 DEF Kept, EndsWithReason
    <3>2. QED
      BY <1>1, <1>8, <3>1 DEF EndsWithReason
  <2>5. AnswerIsComing(c)'
    BY <1>6, <1>8 DEF AnswerIsComing, Rebuilt
  <2>6. NothingMissing(c)'
    <3>1. holder.pending # c /\ c \notin holder.backlog
      BY <1>2, <1>5 DEF Kept, InItsRole, Rebuilt
    <3>2. SUFFICES ASSUME holder.client = c, y.exit = "none", ~y.gap, Whole(x.seed.screen, x.seed.offset)
                   PROVE  \A m \in 1 .. holder.written : There(c, m)' \/ \A k \in Nat : There(c, k)' => m < k
      BY <1>1, <1>4, <1>6, <1>8, <3>1 DEF NothingMissing, Rebuilt
    <3>3. ASSUME NEW k \in Nat PROVE There(c, k)' <=> There(c, k)
      <4>1. u.data \in Seq(Nat) /\ x.screen \in Seq(Nat)
        BY <1>2, <1>4 DEF Writes, Records
      <4>2. OnScreen(c, k)' <=> OnScreen(c, k) \/ \E j \in DOMAIN u.data : u.data[j] = k
        <5>1. y.screen = x.screen \o u.data
          BY <1>4, <1>6
        <5>2. OnScreen(c, k)' <=> \E i \in DOMAIN y.screen : y.screen[i] = k
          BY <1>8 DEF OnScreen
        <5>3. (\E i \in DOMAIN y.screen : y.screen[i] = k)
                <=> (\E i \in DOMAIN x.screen : x.screen[i] = k) \/ \E j \in DOMAIN u.data : u.data[j] = k
          <6> DEFINE s == x.screen
                     d == u.data
                     t == y.screen
          <6>1. s \in Seq(Nat) /\ d \in Seq(Nat) /\ t = s \o d
            BY <4>1, <5>1
          <6> HIDE DEF s, d, t
          <6>2. Has(t, k) <=> Has(s, k) \/ Has(d, k)
            BY <6>1, ScreenGrows
          <6>3. QED
            BY <6>2 DEF s, d, t, Has
        <5>4. QED
          BY <5>2, <5>3 DEF OnScreen
      <4>3. InQueue(x.queue, k) <=> InQueue(z.queue, k) \/ \E j \in DOMAIN u.data : u.data[j] = k
        BY <1>1, <1>2, <1>3, <1>4, QueueShrinks
      <4>4. InQueue(y.queue, k) \/ InFrames(y.buffered, {"out"}, k) <=>
              InQueue(z.queue, k) \/ InFrames(x.buffered, {"out"}, k)
        BY <1>4, <1>7, <3>2
      <4>5. QED
        BY <1>1, <1>8, <4>2, <4>3, <4>4 DEF There, Afloat
    <3>4. \A m \in 1 .. holder.written : There(c, m) \/ \A k \in Nat : There(c, k) => m < k
      BY <1>2, <1>4, <1>5, <1>6, <3>2 DEF Kept, NothingMissing
    <3>5. 1 .. holder.written \subseteq Nat
      BY <1>2
    <3>6. QED
      BY <3>3, <3>4, <3>5
  <2>7. FramesAreTrue(c)'
    BY <1>1, <1>2, <1>4, <1>6, <1>8 DEF Kept, FramesAreTrue
  <2>8. OffsetInStep(c)' /\ FollowsInStep(c)'
    <3> SUFFICES ASSUME Undisturbed PROVE OffsetInStep(c)' /\ FollowsInStep(c)'
      BY <1>1 DEF OffsetInStep, FollowsInStep, Undisturbed
    <3>1. (x.at = "finishing" => ~Comes(w, {"out"}) /\ ~Comes(x.buffered, {"out"})) /\ Even(x.seed)
      BY <1>2, <1>5 DEF Kept, OffsetInStep, Handshake
    <3>2. ~Comes(x.buffered, {"out"})
      BY <1>5, <3>1 DEF Rebuilt, Comes
    <3>3. Even(y.seed) /\ ~Comes(y.buffered, {"out"})
      BY <1>4, <1>6, <3>1, <3>2
    <3>4. y.at = "finishing" => x.at = "finishing"
      <4>1. CASE u.final
        BY <1>4, <4>1, Finalized DEF y
      <4>2. CASE ~u.final
        BY <1>4, <4>2 DEF y
      <4>3. QED
        BY <4>1, <4>2
    <3>5. OffsetInStep(c)'
      BY <1>1, <1>6, <1>8, <1>9, <3>1, <3>3, <3>4 DEF OffsetInStep, Rebuilt, Handshake, Answers, Even
    <3>6. y.queue = Tail(x.queue) /\ y.applied = x.applied /\ y.screen = x.screen \o x.queue[1].data
      BY <1>3, <1>4, <1>6, <3>2
    <3>7. Exact(x) => Exact(y)
      BY <1>1, <1>2, <1>6, <3>6, RunIsParsed
    <3>8. FollowsInStep(c)'
      BY <1>1, <1>2, <1>4, <1>5, <1>6, <1>8, <3>6, <3>7 DEF Kept, FollowsInStep
    <3>9. QED
      BY <3>5, <3>8
  <2>9. QED
    BY <2>1, <2>2, <2>3, <2>4, <2>5, <2>6, <2>7, <2>8 DEF Kept
<1>11. ASSUME NEW d \in Conns, d # c PROVE Kept(d)'
  <2>1. toServer'[d] = toServer[d] /\ toHolder'[d] = toHolder[d] /\ session'[d] = session[d]
    BY <1>1, <1>2, <1>11 DEF LinkTypes
  <2>2. holder' \in Holders /\ disturbed \subseteq disturbed' /\ holder.written <= holder'.written
    BY <1>1, <1>2 DEF LinkTypes
  <2>3. QED
    BY <1>1, <2>1, <2>2, Bystander
<1>12. RolesApart' /\ (Calm' => disk'.manifest) /\ (Undisturbed' => Even(disk.checkpoint)')
  BY <1>1 DEF LinkInv, RolesApart, Calm, Undisturbed, Even
<1>13. QED
  BY <1>8, <1>10, <1>11, <1>12 DEF LinkInv

-----------------------------------------------------------------------------
(* What the holder does.                                                                        *)
LEMMA Told ==
  ASSUME LinkTypes, NEW say, Tell(say), \A d \in Conns : say[d] \in Seq(Frames)
  PROVE  /\ toServer' \in [Conns -> Seq(Frames)]
         /\ \A d \in Conns : toServer'[d] = IF Deaf(d) THEN toServer[d] ELSE toServer[d] \o say[d]
         /\ \A d \in Conns : say[d] = <<>> => toServer'[d] = toServer[d]
<1>1. toServer' = [d \in Conns |-> IF Deaf(d) THEN toServer[d] ELSE toServer[d] \o say[d]]
  BY DEF Tell
<1>2. \A d \in Conns : toServer[d] \in Seq(Frames)
  BY DEF LinkTypes
<1>3. \A d \in Conns : toServer[d] \o say[d] \in Seq(Frames) /\ (say[d] = <<>> => toServer[d] \o say[d] = toServer[d])
  <2> SUFFICES ASSUME NEW d \in Conns
               PROVE  toServer[d] \o say[d] \in Seq(Frames) /\ (say[d] = <<>> => toServer[d] \o say[d] = toServer[d])
    OBVIOUS
  <2> DEFINE v == toServer[d]
             u == say[d]
  <2>1. v \in Seq(Frames) /\ u \in Seq(Frames)
    BY <1>2
  <2> HIDE DEF v, u
  <2>2. v \o u \in Seq(Frames) /\ (u = <<>> => v \o u = v)
    BY <2>1
  <2>3. QED
    BY <2>2 DEF v, u
<1>4. QED
  BY <1>1, <1>2, <1>3

LEMMA SaysTyped ==
  /\ \A cmd \in Replies : Say(cmd) \in Frames
  /\ \A n \in Nat : [Say("state") EXCEPT !.to = n] \in Frames
  /\ \A m, n \in Nat : [Say("out") EXCEPT !.from = m, !.to = n] \in Frames
BY DEF Say, Frames, Truths, Replies

LEMMA ListsTyped ==
  /\ <<>> \in Seq(Frames) /\ <<Say("close")>> \in Seq(Frames) /\ <<Say("exit")>> \in Seq(Frames)
  /\ \A f \in Frames : <<f>> \in Seq(Frames)
  /\ \A f, g \in Frames : <<f, g>> \in Seq(Frames)
<1>1. \A f \in Frames : <<f>> \in Seq(Frames)
  OBVIOUS
<1>2. \A f, g \in Frames : <<f, g>> \in Seq(Frames)
  OBVIOUS
<1>3. Say("close") \in Frames /\ Say("exit") \in Frames
  BY SaysTyped DEF Replies
<1>4. <<>> \in Seq(Frames)
  OBVIOUS
<1>5. QED
  BY <1>1, <1>2, <1>3, <1>4

LEMMA Gained ==
  ASSUME NEW w \in Seq(Frames), NEW f \in Frames, NEW v, v = w \o <<f>>
  PROVE  /\ v \in Seq(Frames) /\ Len(v) = Len(w) + 1 /\ DOMAIN v = 1 .. Len(w) + 1 /\ v[Len(w) + 1] = f
         /\ Len(w) \in Nat /\ DOMAIN w = 1 .. Len(w) /\ \A i \in 1 .. Len(w) : v[i] = w[i]
         /\ \A s : Comes(v, s) <=> f.cmd \in s \/ Comes(w, s)
         /\ \A s : \A m \in Nat : InFrames(v, s, m) <=> (f.cmd \in s /\ f.from < m /\ m <= f.to) \/ InFrames(w, s, m)
<1>1. v = Append(w, f)
  OBVIOUS
<1>2. /\ v \in Seq(Frames) /\ Len(v) = Len(w) + 1 /\ DOMAIN v = 1 .. Len(w) + 1 /\ v[Len(w) + 1] = f
      /\ Len(w) \in Nat /\ DOMAIN w = 1 .. Len(w) /\ \A i \in 1 .. Len(w) : v[i] = w[i]
  BY <1>1
<1>3. /\ \A s : Comes(v, s) <=> f.cmd \in s \/ Comes(w, s)
      /\ \A s : \A m \in Nat : InFrames(v, s, m) <=> (f.cmd \in s /\ f.from < m /\ m <= f.to) \/ InFrames(w, s, m)
  BY <1>1, BufferGrows
<1>4. QED
  BY <1>2, <1>3

LEMMA Asked ==
  ASSUME LinkTypes, NEW c \in Conns, toHolder[c] # <<>>
  PROVE  /\ Head(toHolder[c]) = toHolder[c][1] /\ toHolder[c][1] \in Asks /\ Tail(toHolder[c]) \in Seq(Asks) /\ 1 \in DOMAIN toHolder[c]
         /\ \A s : Comes(Tail(toHolder[c]), s) => Comes(toHolder[c], s)
         /\ Len(toHolder[c]) <= 1 => Tail(toHolder[c]) = <<>>
<1> DEFINE a == toHolder[c]
           n == Len(a) - 1
           r == Tail(a)
<1>1. a \in Seq(Asks) /\ a # <<>>
  BY DEF LinkTypes
<1>2. /\ n \in Nat /\ DOMAIN a = 1 .. n + 1 /\ DOMAIN r = 1 .. n /\ \A i \in 1 .. n : r[i] = a[i + 1] /\ i + 1 \in 1 .. n + 1
      /\ r \in Seq(Asks) /\ Head(a) = a[1] /\ a[1] \in Asks
  BY <1>1
<1>3. 1 \in DOMAIN a /\ (Len(a) <= 1 => r = <<>>)
  BY <1>1
<1> HIDE DEF n, r, a
<1>4. \A s : Comes(r, s) => Comes(a, s)
  BY <1>2 DEF Comes
<1>5. QED
  BY <1>2, <1>3, <1>4 DEF r, a

(* A claim that comes too late is ignored: it was promoted already, as silent.                      *)
LEMMA IgnoresKeeps == ASSUME LinkInv, NEW c \in Conns, Ignores(c) PROVE LinkInv'
<1>1. /\ holder' = holder /\ toServer' = toServer /\ session' = session /\ disk' = disk /\ disturbed' = disturbed
      /\ holder.client = c /\ toHolder[c] # <<>> /\ Head(toHolder[c]).cmd \in {"acquire", "takeover"}
      /\ toHolder' = [toHolder EXCEPT ![c] = Tail(@)]
  BY DEF Ignores
<1>2. LinkTypes /\ Kept(c) /\ session[c] \in Records /\ RolesApart /\ holder \in Holders /\ holder.written \in Nat
  BY DEF LinkInv, LinkTypes, Holders
<1>3. /\ Head(toHolder[c]) = toHolder[c][1] /\ Tail(toHolder[c]) \in Seq(Asks) 
      /\ \A s : Comes(Tail(toHolder[c]), s) => Comes(toHolder[c], s)
      /\ Len(toHolder[c]) <= 1 => Tail(toHolder[c]) = <<>>
  BY <1>1, <1>2, Asked
<1>4. LinkTypes' /\ toHolder'[c] = Tail(toHolder[c])
  BY <1>1, <1>2, <1>3 DEF LinkTypes
<1>5. session[c].at \in {"claiming", "gone"} /\ session'[c] = session[c]
  BY <1>1, <1>2, <1>3 DEF Kept, AsksInTurn, At
<1>6. Kept(c)'
  <2>1. CASE session[c].at = "gone"
    <3>1. Deaf(c)
      BY <2>1 DEF Deaf, At
    <3>2. Comes(toHolder'[c], {"close"}) => At(c, {"gone"})
      BY <2>1 DEF At
    <3>3. Connected(c)' <=> Connected(c)
      BY <1>1 DEF Connected
    <3>4. toHolder'[c] # <<>> => Connected(c)' /\ toHolder[c] # <<>>
      BY <1>1, <1>2, <3>3 DEF Kept, AsksInTurn
    <3>5. holder' \in Holders /\ disturbed \subseteq disturbed' /\ holder.written <= holder'.written
      BY <1>1, <1>2
    <3>6. QED
      BY <1>1, <1>5, <3>1, <3>2, <3>3, <3>4, <3>5, DeafStays
  <2>2. CASE session[c].at = "claiming"
    <3>1. (\A s : At(c, s)' <=> "claiming" \in s) /\ (\A s : At(c, s) <=> "claiming" \in s)
      BY <1>1, <2>2 DEF At
    <3>2. toHolder'[c] = <<>> /\ Len(toHolder'[c]) = 0
      <4>1. Len(toHolder[c]) <= 1
        BY <1>2, <3>1 DEF Kept, AsksInTurn
      <4>2. toHolder'[c] = <<>>
        BY <1>3, <1>4, <4>1
      <4>3. QED
        BY <4>2
    <3>3. ~Calm
      <4>1. ~Comes(toServer[c], {"acquired"}) /\ ~Comes(toServer[c], {"denied"})
        BY <1>1, <1>2 DEF Kept, AnswersInTurn, Comes, Answers
      <4>2. holder.pending # c
        BY <1>1, <1>2, LinkAssumption DEF RolesApart
      <4>3. QED
        BY <1>2, <3>1, <4>1, <4>2 DEF Kept, AnswerIsComing
    <3>4. InItsRole(c)'
      BY <1>1, <1>2, <3>1, <3>2 DEF Kept, InItsRole, Connected
    <3>5. AsksInTurn(c)' /\ AnswersInTurn(c)'
      BY <1>1, <1>2, <3>2 DEF Kept, AsksInTurn, AnswersInTurn, Comes, Connected
    <3>6. KeptInTurn(c)' /\ EndsWithReason(c)' /\ AnswerIsComing(c)'
      BY <1>1, <1>2, <3>1, <3>3 DEF Kept, KeptInTurn, EndsWithReason, AnswerIsComing, Connected, At, Calm
    <3>7. NothingMissing(c)' /\ FramesAreTrue(c)'
      <4>1. \A m : Afloat(c, m)' <=> Afloat(c, m)
        BY <1>1 DEF Afloat
      <4>2. NothingMissing(c)'
        BY <1>1, <1>2, <3>1, <4>1 DEF Kept, NothingMissing, Rebuilt
      <4>3. QED
        BY <1>1, <1>2, <4>2 DEF Kept, FramesAreTrue
    <3>8. OffsetInStep(c)' /\ FollowsInStep(c)'
      BY <1>1, <1>2, <3>1 DEF Kept, OffsetInStep, FollowsInStep, Undisturbed, Even, Rebuilt
    <3>9. QED
      BY <3>4, <3>5, <3>6, <3>7, <3>8 DEF Kept
  <2>3. QED
    BY <1>5, <2>1, <2>2
<1>7. ASSUME NEW d \in Conns, d # c PROVE Kept(d)'
  <2>1. toServer'[d] = toServer[d] /\ toHolder'[d] = toHolder[d] /\ session'[d] = session[d]
    BY <1>1, <1>2, <1>7 DEF LinkTypes
  <2>2. holder' \in Holders /\ disturbed \subseteq disturbed' /\ holder.written <= holder'.written
    BY <1>1, <1>2
  <2>3. QED
    BY <1>1, <2>1, <2>2, Bystander
<1>8. RolesApart' /\ (Calm' => disk'.manifest) /\ (Undisturbed' => Even(disk.checkpoint)')
  BY <1>1 DEF LinkInv, RolesApart, Calm, Undisturbed, Even
<1>9. QED
  BY <1>4, <1>6, <1>7, <1>8 DEF LinkInv

(* The holder reads that a server has hung up.                                                 *)
LEMMA HangsUpKeeps == ASSUME LinkInv, NEW c \in Conns, HangsUp(c) PROVE LinkInv'
<1>1. /\ toServer' = toServer /\ session' = session /\ disk' = disk /\ disturbed' = disturbed
      /\ c \in {holder.pending, holder.client} /\ toHolder[c] # <<>> /\ Head(toHolder[c]).cmd = "close"
      /\ toHolder' = [toHolder EXCEPT ![c] = <<>>]
      /\ holder' = [holder EXCEPT !.pending = IF @ = c THEN None ELSE @, !.client = IF @ = c THEN None ELSE @]
  BY DEF HangsUp
<1>2. LinkTypes /\ Kept(c) /\ session[c] \in Records /\ RolesApart /\ holder \in Holders /\ holder.written \in Nat
  BY DEF LinkInv, LinkTypes, Holders
<1>3. None \notin Conns
  BY LinkAssumption
<1>4. /\ holder' \in Holders /\ holder'.backlog = holder.backlog /\ holder'.written = holder.written /\ holder'.alive = holder.alive
      /\ holder'.pending = (IF holder.pending = c THEN None ELSE holder.pending)
      /\ holder'.client = (IF holder.client = c THEN None ELSE holder.client)
  BY <1>1, <1>2 DEF Holders
<1>5. LinkTypes' /\ toHolder'[c] = <<>>
  <2>1. <<>> \in Seq(Asks)
    OBVIOUS
  <2>2. QED
    BY <1>1, <1>2, <1>4, <2>1 DEF LinkTypes
<1>6. Kept(c)'
  <2>1. Comes(toHolder[c], {"close"})
    BY <1>1, <1>2, Asked DEF Comes
  <2>2. At(c, {"gone"}) /\ Deaf(c)
    BY <1>2, <2>1 DEF Kept, AsksInTurn, At, Deaf
  <2>3. ~Comes(toHolder'[c], {"close"})
    BY <1>5 DEF Comes
  <2>4. c \notin holder.backlog /\ ~Connected(c)' /\ holder'.pending # c
    BY <1>1, <1>2, <1>3, <1>4 DEF RolesApart, Connected
  <2>5. session'[c] = session[c] /\ toServer'[c] = toServer[c] /\ disturbed \subseteq disturbed' /\ holder.written <= holder'.written
    BY <1>1, <1>2, <1>4
  <2>6. QED
    BY <1>4, <1>5, <2>2, <2>3, <2>4, <2>5, DeafStays
<1>7. ASSUME NEW d \in Conns, d # c PROVE Kept(d)'
  <2>1. toServer'[d] = toServer[d] /\ toHolder'[d] = toHolder[d] /\ session'[d] = session[d]
    BY <1>1, <1>2, <1>7 DEF LinkTypes
  <2>2. disturbed \subseteq disturbed' /\ holder.written <= holder'.written
    BY <1>1, <1>2, <1>4
  <2>3. (holder'.pending = d <=> holder.pending = d) /\ (holder'.client = d <=> holder.client = d)
    BY <1>3, <1>4, <1>7
  <2>4. QED
    BY <1>4, <2>1, <2>2, <2>3, Bystander
<1>8. RolesApart' /\ (Calm' => disk'.manifest) /\ (Undisturbed' => Even(disk.checkpoint)')
  <2>1. RolesApart'
    <3>1. None \notin holder.backlog
      BY <1>2, <1>3 DEF Holders
    <3>2. QED
      BY <1>2, <1>4, <3>1 DEF RolesApart
  <2>2. QED
    BY <1>1, <1>4, <2>1 DEF LinkInv, Calm, Undisturbed, Even
<1>9. QED
  BY <1>5, <1>6, <1>7, <1>8 DEF LinkInv

(* The ways a connection is dropped.                                                         *)
LEMMA DroppedSilently ==
  ASSUME LinkInv, NEW c \in Conns, ~Deaf(c), Connected(c), ~Connected(c)', session'[c] = session[c], toHolder'[c] = <<>>,
         toServer'[c] = toServer[c] \o <<Say("close")>>,
         holder.pending = c \/ c \in holder.backlog \/ ~holder'.alive \/ "late" \in disturbed',
         At(c, Rebuilt) \/ ~Calm',
         holder'.written = holder.written, holder'.alive => holder.alive, disturbed \subseteq disturbed'
  PROVE  Kept(c)'
<1> DEFINE w == toServer[c]
           v == toServer'[c]
           n == Len(w)
           f == Say("close")
<1>1. w \in Seq(Frames) /\ f \in Frames /\ v = w \o <<f>>
  BY SaysTyped DEF LinkInv, LinkTypes, Replies
<1>2. v \in Seq(Frames) /\ Len(v) = n + 1 /\ v[n + 1] = f /\ n \in Nat /\ \A i \in 1 .. n : v[i] = w[i]
  <2> HIDE DEF w, v, f
  <2>1. QED
    BY <1>1, Gained
<1>3. n + 1 \in {n + 1, n + 2} /\ ~(n + 1 = n + 2)
  BY <1>2
<1>4. n = Len(toServer[c])
  OBVIOUS
<1>5. toServer'[c] \in Seq(Frames) /\ Len(toServer'[c]) = n + 1 /\ toServer'[c][n + 1] = Say("close")
      /\ \A i \in 1 .. n : toServer'[c][i] = toServer[c][i]
  BY <1>2
<1> HIDE DEF n, w, v, f
<1>6. QED
  BY <1>3, <1>4, <1>5, Dropped

LEMMA DroppedWithWord ==
  ASSUME LinkInv, NEW c \in Conns, ~Deaf(c), Connected(c), ~Connected(c)', session'[c] = session[c], toHolder'[c] = <<>>,
         NEW cmd \in {"evicted", "denied"}, toServer'[c] = toServer[c] \o <<Say(cmd), Say("close")>>,
         cmd = "denied" => At(c, {"claiming"}) /\ toHolder[c] # <<>> /\ holder.pending = c,
         cmd = "evicted" => At(c, Rebuilt) \/ ~Calm',
         holder'.written = holder.written, holder'.alive => holder.alive, disturbed \subseteq disturbed'
  PROVE  Kept(c)'
<1> DEFINE w == toServer[c]
           v == toServer'[c]
           n == Len(w)
           f == Say(cmd)
           g == Say("close")
<1>1. w \in Seq(Frames) /\ f \in Frames /\ g \in Frames /\ v = w \o <<f, g>>
  BY SaysTyped DEF LinkInv, LinkTypes, Replies
<1>2. v \in Seq(Frames) /\ Len(v) = n + 2 /\ v[n + 1] = f /\ v[n + 2] = g /\ n \in Nat /\ \A i \in 1 .. n : v[i] = w[i]
  <2> HIDE DEF w, v, f, g
  <2>1. <<f, g>> \in Seq(Frames) /\ Len(<<f, g>>) = 2
    BY <1>1
  <2>2. QED
    BY <1>1, <2>1 DEF n
<1>3. n + 2 \in {n + 1, n + 2} /\ ~(n + 2 = n + 1)
  BY <1>2
<1>4. n = Len(toServer[c])
  OBVIOUS
<1>5. /\ toServer'[c] \in Seq(Frames) /\ Len(toServer'[c]) = n + 2 /\ toServer'[c][n + 2] = Say("close")
      /\ toServer'[c][n + 1] = Say(cmd) /\ \A i \in 1 .. n : toServer'[c][i] = toServer[c][i]
  BY <1>2
<1>6. Say(cmd) = Say("denied") <=> cmd = "denied"
  BY DEF Say
<1>7. Say(cmd) \in {Say("evicted"), Say("denied")}
  OBVIOUS
<1>8. toServer'[c][n + 1] = Say("denied") => At(c, {"claiming"}) /\ toHolder[c] # <<>> /\ holder.pending = c
  BY <1>5, <1>6
<1>9. At(c, Rebuilt) \/ ~Calm' \/ toServer'[c][n + 1] = Say("denied")
  BY <1>5, <1>6
<1>10. toServer'[c][n + 1] \in {Say("evicted"), Say("denied")}
  BY <1>5
<1> DEFINE l == n + 2
<1>11. l \in {n + 1, n + 2} /\ l = n + 2 /\ l # n + 1
  BY <1>3
<1> HIDE DEF n, w, v, f, g, l
<1>12. QED
  BY <1>4, <1>5, <1>8, <1>9, <1>10, <1>11, Dropped

LEMMA DeafDropped ==
  ASSUME LinkInv, holder' \in Holders, NEW c \in Conns, Deaf(c), ~Connected(c)', session'[c] = session[c],
         toServer'[c] = toServer[c], toHolder'[c] = <<>>,
         holder'.alive => holder.alive, holder.written <= holder'.written, disturbed \subseteq disturbed'
  PROVE  Kept(c)'
<1>1. ~Comes(toHolder'[c], {"close"})
  BY DEF Comes
<1>2. c \notin holder'.backlog /\ holder'.pending # c
  BY DEF Connected
<1>3. QED
  BY <1>1, <1>2, DeafStays

(* A connection dropped by a step of another.                                                *)
LEMMA OtherDropped ==
  ASSUME LinkInv, holder' \in Holders, NEW d \in Conns, Connected(d), ~Connected(d)', session'[d] = session[d], toHolder'[d] = <<>>,
         toServer'[d] = IF Deaf(d) THEN toServer[d] ELSE toServer[d] \o <<Say("close")>>,
         holder.pending = d \/ d \in holder.backlog \/ ~holder'.alive \/ "late" \in disturbed',
         ~Calm',
         holder'.written = holder.written, holder'.alive => holder.alive, disturbed \subseteq disturbed'
  PROVE  Kept(d)'
<1>1. holder.written \in Nat /\ holder.written <= holder'.written
  BY DEF LinkInv, LinkTypes, Holders
<1>2. CASE Deaf(d)
  BY <1>1, <1>2, DeafDropped
<1>3. CASE ~Deaf(d)
  BY <1>3, DroppedSilently
<1>4. QED
  BY <1>2, <1>3

(* Silence makes a connection the controller.                                                  *)
LEMMA ClaimTimeoutKeeps == ASSUME LinkInv, NEW c \in Conns, ClaimTimeout(c) PROVE LinkInv'
<1> DEFINE say == To(holder.client, <<Say("close")>>)
           old == holder.client
<1>1. /\ session' = session /\ disk' = disk /\ disturbed' = disturbed \cup {"late"}
      /\ holder.pending = c /\ toHolder[c] = <<>> /\ Tell(say)
      /\ toHolder' = [d \in Conns |-> IF d = old THEN <<>> ELSE toHolder[d]]
      /\ holder' = [holder EXCEPT !.pending = None, !.client = c]
  BY DEF ClaimTimeout
<1>2. LinkTypes /\ Kept(c) /\ session[c] \in Records /\ RolesApart /\ holder \in Holders /\ holder.written \in Nat
  BY DEF LinkInv, LinkTypes, Holders
<1>3. None \notin Conns /\ c # old /\ c \notin holder.backlog
  BY <1>1, <1>2, LinkAssumption DEF RolesApart
<1>4. /\ holder' \in Holders /\ holder'.backlog = holder.backlog /\ holder'.written = holder.written /\ holder'.alive = holder.alive
      /\ holder'.pending = None /\ holder'.client = c
  BY <1>1, <1>2 DEF Holders
<1>5. /\ toServer' \in [Conns -> Seq(Frames)]
      /\ \A d \in Conns : d = old => toServer'[d] = IF Deaf(d) THEN toServer[d] ELSE toServer[d] \o <<Say("close")>>
      /\ \A d \in Conns : d # old => toServer'[d] = toServer[d]
  <2>1. \A d \in Conns : say[d] = IF d = old THEN <<Say("close")>> ELSE <<>>
    BY DEF To
  <2>2. <<>> \in Seq(Frames) /\ <<Say("close")>> \in Seq(Frames)
    BY ListsTyped
  <2>3. \A d \in Conns : say[d] \in Seq(Frames)
    BY <2>1, <2>2
  <2> HIDE DEF say
  <2>4. QED
    BY <1>1, <1>2, <2>1, <2>3, Told
<1>6. LinkTypes' /\ \A d \in Conns : toHolder'[d] = IF d = old THEN <<>> ELSE toHolder[d]
  <2>1. <<>> \in Seq(Asks)
    OBVIOUS
  <2>2. QED
    BY <1>1, <1>2, <1>4, <1>5, <2>1 DEF LinkTypes
<1>7. ~Calm' /\ disturbed \subseteq disturbed' /\ holder.written <= holder'.written
  BY <1>1, <1>2, <1>4 DEF Calm
<1>8. Kept(c)'
  <2>1. session'[c] = session[c] /\ toServer'[c] = toServer[c] /\ toHolder'[c] = toHolder[c] /\ Connected(c)' /\ Connected(c)
    BY <1>1, <1>3, <1>4, <1>5, <1>6 DEF Connected
  <2>2. (\A s : At(c, s)' <=> At(c, s)) /\ At(c, {"dialing", "claiming", "failed", "gone"})
    BY <1>1, <1>2, <2>1 DEF Kept, InItsRole, At
  <2>3. InItsRole(c)' /\ AsksInTurn(c)' /\ AnswersInTurn(c)' /\ KeptInTurn(c)'
    BY <1>1, <1>2, <1>3, <1>4, <2>1, <2>2 DEF Kept, InItsRole, AsksInTurn, AnswersInTurn, KeptInTurn
  <2>4. EndsWithReason(c)' /\ AnswerIsComing(c)'
    BY <1>1, <1>7 DEF EndsWithReason, AnswerIsComing
  <2>5. NothingMissing(c)'
    <3>1. \A m \in Nat : Afloat(c, m)' <=> Afloat(c, m)
      BY <2>1 DEF Afloat
    <3>2. At(c, {"dialing", "claiming"}) => \A m \in Nat : ~Afloat(c, m)
      BY <1>1, <1>2 DEF Kept, NothingMissing, At
    <3>3. At(c, {"dialing", "claiming"}) => session[c].screen = <<>>
      BY <1>2 DEF Kept, NothingMissing, At
    <3>4. session[c].at \in {"dialing", "claiming", "failed", "gone"} /\ (\A s : At(c, s)' <=> session[c].at \in s)
      BY <2>1, <2>2 DEF At
    <3>5. c \notin holder'.backlog /\ holder'.pending # c
      BY <1>3, <1>4
    <3>6. At(c, {"dialing", "claiming"}) <=> session[c].at \in {"dialing", "claiming"}
      BY DEF At
    <3>7. QED
      BY <2>1, <3>1, <3>2, <3>3, <3>4, <3>5, <3>6 DEF NothingMissing, Rebuilt
  <2>6. FramesAreTrue(c)'
    BY <1>2, <1>4, <2>1 DEF Kept, FramesAreTrue
  <2>7. OffsetInStep(c)' /\ FollowsInStep(c)'
    <3>1. ~At(c, Rebuilt)' /\ (Undisturbed' => Undisturbed)
      BY <1>7, <2>2 DEF At, Rebuilt, Undisturbed
    <3>2. OffsetInStep(c)'
      BY <1>1, <1>2, <1>4, <2>1, <2>2, <3>1 DEF Kept, OffsetInStep, Even
    <3>3. QED
      BY <3>1, <3>2 DEF FollowsInStep
  <2>8. QED
    BY <2>3, <2>4, <2>5, <2>6, <2>7 DEF Kept
<1>9. ASSUME NEW d \in Conns, d # c PROVE Kept(d)'
  <2>1. CASE d = old
    <3>1. Connected(d) /\ ~Connected(d)' /\ session'[d] = session[d] /\ toHolder'[d] = <<>>
      <4>1. d \notin holder.backlog /\ d # None
        BY <1>2, <1>3, <2>1 DEF RolesApart
      <4>2. QED
        BY <1>1, <1>4, <1>6, <1>9, <2>1, <4>1 DEF Connected
    <3>2. toServer'[d] = IF Deaf(d) THEN toServer[d] ELSE toServer[d] \o <<Say("close")>>
      BY <1>5, <2>1
    <3>3. QED
      BY <1>1, <1>4, <1>7, <3>1, <3>2, OtherDropped
  <2>2. CASE d # old
    <3>1. toServer'[d] = toServer[d] /\ toHolder'[d] = toHolder[d] /\ session'[d] = session[d]
      BY <1>1, <1>5, <1>6, <2>2
    <3>2. (holder'.pending = d <=> holder.pending = d) /\ (holder'.client = d <=> holder.client = d)
      BY <1>1, <1>3, <1>4, <1>9, <2>2
    <3>3. QED
      BY <1>4, <1>7, <3>1, <3>2, Bystander
  <2>3. QED
    BY <2>1, <2>2
<1>10. RolesApart'
  <2>1. None \notin holder.backlog
    BY <1>2, <1>3 DEF Holders
  <2>2. QED
    BY <1>3, <1>4, <2>1 DEF RolesApart
<1>11. Undisturbed' => Even(disk.checkpoint)'
  BY <1>1, <1>4 DEF LinkInv, Undisturbed, Even
<1>12. QED
  BY <1>6, <1>7, <1>8, <1>9, <1>10, <1>11 DEF LinkInv

(* A connection is accepted, and the one whose claim was waited for is dropped.                      *)
LEMMA AcceptKeeps == ASSUME LinkInv, NEW c \in Conns, Accept(c) PROVE LinkInv'
<1> DEFINE p == holder.pending
           f == [Say("state") EXCEPT !.to = holder.written]
           say == [d \in Conns |->
             CASE d = c -> <<f>> \o (IF holder.alive THEN <<>> ELSE <<Say("exit")>>)
               [] d = p -> <<Say("close")>>
               [] OTHER -> <<>>]
<1>1. /\ session' = session /\ disk' = disk /\ disturbed' = disturbed \cup (IF p = None THEN {} ELSE {"overtaken"})
      /\ c \in holder.backlog /\ Tell(say)
      /\ toHolder' = [d \in Conns |-> IF d = p THEN <<>> ELSE toHolder[d]]
      /\ holder' = [holder EXCEPT !.backlog = @ \ {c}, !.pending = c]
  BY DEF Accept
<1>2. LinkTypes /\ Kept(c) /\ session[c] \in Records /\ RolesApart /\ holder \in Holders /\ holder.written \in Nat
  BY DEF LinkInv, LinkTypes, Holders
<1>3. None \notin Conns /\ c # p /\ c # holder.client
  BY <1>1, <1>2, LinkAssumption DEF RolesApart
<1>4. /\ holder' \in Holders /\ holder'.backlog = holder.backlog \ {c} /\ holder'.written = holder.written
      /\ holder'.alive = holder.alive /\ holder'.pending = c /\ holder'.client = holder.client
  BY <1>1, <1>2 DEF Holders
<1>5. f \in Frames /\ f.cmd = "state" /\ f.to = holder.written /\ Say("exit") \in Frames
  BY <1>2, SaysTyped DEF Say, Replies
<1> HIDE DEF f
<1>6. /\ toServer' \in [Conns -> Seq(Frames)]
      /\ toServer'[c] = IF Deaf(c) THEN toServer[c]
                        ELSE toServer[c] \o (IF holder.alive THEN <<f>> ELSE <<f>> \o <<Say("exit")>>)
      /\ \A d \in Conns : d = p => toServer'[d] = IF Deaf(d) THEN toServer[d] ELSE toServer[d] \o <<Say("close")>>
      /\ \A d \in Conns : d # p /\ d # c => toServer'[d] = toServer[d]
  <2>1. <<f>> \o (IF holder.alive THEN <<>> ELSE <<Say("exit")>>)
          = IF holder.alive THEN <<f>> ELSE <<f>> \o <<Say("exit")>>
    <3>1. (\A u \in Seq(Frames) : u \o <<>> = u) /\ <<f>> \in Seq(Frames)
      BY <1>5
    <3>2. <<f>> \o <<>> = <<f>>
      BY <3>1
    <3>3. QED
      BY <3>2
  <2>2. \A d \in Conns : say[d] = IF d = c THEN (IF holder.alive THEN <<f>> ELSE <<f>> \o <<Say("exit")>>)
                                  ELSE IF d = p THEN <<Say("close")>> ELSE <<>>
    BY <1>3, <2>1
  <2>3. \A d \in Conns : say[d] \in Seq(Frames)
    <3>1. <<f>> \in Seq(Frames) /\ <<f>> \o <<Say("exit")>> \in Seq(Frames)
      BY <1>5, ListsTyped, Gained
    <3>2. QED
      BY <2>2, <3>1, ListsTyped
  <2> HIDE DEF say
  <2>4. /\ toServer' \in [Conns -> Seq(Frames)]
        /\ \A d \in Conns : toServer'[d] = IF Deaf(d) THEN toServer[d] ELSE toServer[d] \o say[d]
        /\ \A d \in Conns : say[d] = <<>> => toServer'[d] = toServer[d]
    BY <1>1, <1>2, <2>3, Told
  <2>5. QED
    BY <1>3, <2>2, <2>4
<1>7. LinkTypes' /\ \A d \in Conns : toHolder'[d] = IF d = p THEN <<>> ELSE toHolder[d]
  <2>1. <<>> \in Seq(Asks)
    OBVIOUS
  <2>2. QED
    BY <1>1, <1>2, <1>4, <1>6, <2>1 DEF LinkTypes
<1>8. (Calm' => Calm) /\ (Undisturbed' <=> Undisturbed) /\ disturbed \subseteq disturbed' /\ holder.written <= holder'.written
  BY <1>1, <1>2, <1>4 DEF Calm, Undisturbed
<1>9. Kept(c)'
  <2>1. session'[c] = session[c] /\ toHolder'[c] = toHolder[c] /\ Connected(c)' /\ Connected(c)
    BY <1>1, <1>3, <1>4, <1>7 DEF Connected
  <2>2. At(c, {"dialing", "gone"}) /\ toServer[c] = <<>>
    BY <1>1, <1>2 DEF Kept, InItsRole
  <2>3. CASE At(c, {"gone"})
    <3>1. Deaf(c) /\ At(c, {"gone"})
      BY <2>3 DEF Deaf, At
    <3>2. toServer'[c] = toServer[c]
      BY <1>6, <3>1
    <3>3. toHolder'[c] # <<>> => Connected(c)' /\ toHolder[c] # <<>>
      BY <2>1
    <3>4. (c \in holder'.backlog => c \in holder.backlog) /\ holder'.alive = holder.alive
      BY <1>4
    <3>5. QED
      BY <1>1, <1>4, <1>8, <2>1, <3>1, <3>2, <3>3, <3>4, DeafStays
  <2>4. CASE ~At(c, {"gone"})
    <3> DEFINE v == toServer'[c]
    <3>1. session[c].at = "dialing" /\ ~Deaf(c) /\ (\A s : At(c, s)' <=> "dialing" \in s) /\ (\A s : At(c, s) <=> "dialing" \in s)
      BY <2>1, <2>2, <2>4 DEF At, Deaf
    <3>2. v = IF holder.alive THEN <<f>> ELSE <<f>> \o <<Say("exit")>>
      <4>1. <<f>> \in Seq(Frames) /\ <<f>> \o <<Say("exit")>> \in Seq(Frames)
        BY <1>5, ListsTyped, Gained
      <4>2. \A u \in Seq(Frames) : <<>> \o u = u
        OBVIOUS
      <4>3. QED
        BY <1>6, <2>2, <3>1, <4>1, <4>2
    <3>3. /\ v # <<>> /\ v[1] = f /\ 1 \in DOMAIN v
          /\ \A i \in DOMAIN v : i = 1 \/ (~holder.alive /\ v[i].cmd = "exit" /\ v[i].to = 0)
      <4>1. Say("exit").cmd = "exit" /\ Say("exit").to = 0
        BY DEF Say
      <4>2. CASE holder.alive
        <5>1. v = <<f>>
          BY <3>2, <4>2
        <5> HIDE DEF v
        <5>2. QED
          BY <5>1
      <4>3. CASE ~holder.alive
        <5>1. v = <<f>> \o <<Say("exit")>>
          BY <3>2, <4>3
        <5> DEFINE w == <<f>>
                   g == Say("exit")
        <5>2. w \in Seq(Frames) /\ g \in Frames /\ Len(w) = 1 /\ w[1] = f
          BY <1>5
        <5> HIDE DEF v, w, g
        <5>3. v = w \o <<g>>
          BY <5>1 DEF w, g
        <5>4. Len(v) = 2 /\ v[1] = f /\ v[2] = g /\ DOMAIN v = 1 .. 2 /\ v \in Seq(Frames)
          BY <5>2, <5>3, Gained
        <5>5. v # <<>> /\ v[1] = f /\ v[2] = Say("exit") /\ DOMAIN v = {1, 2}
          BY <5>4 DEF g
        <5>6. QED
          BY <4>1, <4>3, <5>5
      <4>4. QED
        BY <4>2, <4>3
    <3> HIDE DEF v
    <3>4. \A i \in DOMAIN v : v[i].cmd \in {"state", "exit"} /\ (v[i].cmd = "exit" => ~holder.alive)
                              /\ v[i].to <= holder.written /\ (v[i].cmd = "state" => i = 1 /\ v[i].to = holder.written)
      BY <1>2, <1>5, <3>3
    <3>5. \A s : "state" \notin s /\ "exit" \notin s => ~Comes(v, s)
      BY <3>4 DEF Comes
    <3>6. Comes(v, {"exit"}) => ~holder.alive
      BY <3>4 DEF Comes
    <3>7. toHolder[c] = <<>>
      BY <1>2, <3>1 DEF Kept, AsksInTurn
    <3>8. InItsRole(c)' /\ AsksInTurn(c)'
      <4>1. ~Comes(toServer'[c], {"acquired", "denied"}) /\ c \notin holder'.backlog
        BY <1>4, <3>5 DEF v
      <4>2. InItsRole(c)'
        BY <3>1, <4>1 DEF InItsRole
      <4>3. toHolder'[c] = <<>> /\ Len(toHolder'[c]) = 0 /\ DOMAIN toHolder'[c] = {}
        BY <2>1, <3>7
      <4>4. QED
        BY <4>2, <4>3 DEF AsksInTurn, Comes
    <3>9. AnswersInTurn(c)'
      <4>1. ~Comes(v, {"close", "evicted"})
        BY <3>5
      <4>2. \A i \in DOMAIN v : v[i].cmd \in Answers => i = 1 /\ v[i].cmd = "state"
        BY <3>4 DEF Answers
      <4>3. \A i \in DOMAIN v : v[i].cmd # "close"
        BY <3>4
      <4>4. QED
        BY <2>1, <3>1, <3>7, <4>1, <4>2, <4>3 DEF AnswersInTurn, StageFor, v
    <3>10. KeptInTurn(c)' /\ EndsWithReason(c)'
      <4>1. ~Comes(v, {"close"}) /\ session[c].exit # "lost"
        BY <1>2, <2>1, <3>5 DEF Kept, KeptInTurn
      <4>2. QED
        BY <1>2, <2>1, <3>1, <4>1 DEF Kept, KeptInTurn, EndsWithReason, Rebuilt, v
    <3>11. AnswerIsComing(c)'
      BY <1>4, <1>5, <3>1, <3>3 DEF AnswerIsComing, v
    <3>12. NothingMissing(c)'
      <4>1. \A m \in Nat : ~Afloat(c, m)
        BY <1>1, <1>2, <3>1 DEF Kept, NothingMissing
      <4>2. \A m : ~InFrames(v, {"out", "dump", "replay"}, m)
        BY <3>4 DEF InFrames
      <4>3. \A m \in Nat : ~Afloat(c, m)'
        BY <2>1, <4>1, <4>2 DEF Afloat, v
      <4>4. session[c].screen = <<>>
        BY <1>2, <3>1 DEF Kept, NothingMissing
      <4>5. QED
        BY <1>3, <1>4, <2>1, <3>1, <4>3, <4>4 DEF NothingMissing, Rebuilt
    <3>13. FramesAreTrue(c)'
      BY <1>2, <1>4, <2>1, <3>4, <3>6 DEF Kept, FramesAreTrue, v
    <3>14. OffsetInStep(c)' /\ FollowsInStep(c)'
      <4>1. Undisturbed => ~Comes(session[c].buffered, {"out"}) /\ Even(session[c].seed)
        BY <1>2, <3>1 DEF Kept, OffsetInStep, Handshake
      <4>2. Undisturbed => Even(session[c].seed)'
        BY <1>4, <2>1, <4>1 DEF Even
      <4>3. ~Comes(v, {"out"})
        BY <3>5
      <4>4. OffsetInStep(c)'
        BY <1>4, <1>8, <2>1, <3>1, <3>4, <4>1, <4>2, <4>3 DEF OffsetInStep, v
      <4>5. QED
        BY <3>1, <4>4 DEF FollowsInStep, Rebuilt
    <3>15. QED
      BY <3>8, <3>9, <3>10, <3>11, <3>12, <3>13, <3>14 DEF Kept
  <2>5. QED
    BY <2>3, <2>4
<1>10. ASSUME NEW d \in Conns, d # c PROVE Kept(d)'
  <2>1. CASE d = p
    <3>1. Connected(d) /\ ~Connected(d)' /\ session'[d] = session[d] /\ toHolder'[d] = <<>> /\ ~Calm'
      <4>1. d \notin holder.backlog /\ d # None /\ d # holder.client
        BY <1>2, <1>3, <2>1 DEF RolesApart
      <4>2. QED
        BY <1>1, <1>4, <1>7, <1>10, <2>1, <4>1 DEF Connected, Calm
    <3>2. toServer'[d] = IF Deaf(d) THEN toServer[d] ELSE toServer[d] \o <<Say("close")>>
      BY <1>6, <2>1
    <3>3. QED
      BY <1>4, <1>8, <2>1, <3>1, <3>2, OtherDropped
  <2>2. CASE d # p
    <3>1. toServer'[d] = toServer[d] /\ toHolder'[d] = toHolder[d] /\ session'[d] = session[d]
      BY <1>1, <1>6, <1>7, <1>10, <2>2
    <3>2. (holder'.pending = d <=> holder.pending = d) /\ (d \in holder'.backlog <=> d \in holder.backlog)
      BY <1>4, <1>10, <2>2
    <3>3. QED
      BY <1>4, <1>8, <3>1, <3>2, Bystander
  <2>3. QED
    BY <2>1, <2>2
<1>11. RolesApart'
  BY <1>2, <1>3, <1>4 DEF RolesApart
<1>12. (Calm' => disk'.manifest) /\ (Undisturbed' => Even(disk.checkpoint)')
  BY <1>1, <1>4, <1>8 DEF LinkInv, Even
<1>13. QED
  BY <1>7, <1>9, <1>10, <1>11, <1>12 DEF LinkInv

(* 30 s after its program has ended the holder goes, and everybody is told.                        *)
LEMMA HolderExitsKeeps == ASSUME LinkInv, HolderExits PROVE LinkInv'
<1> DEFINE say == [c \in Conns |->
             IF c \in {holder.client, holder.pending} \cup holder.backlog THEN <<Say("close")>> ELSE <<>>]
<1>1. /\ session' = session /\ disturbed' = disturbed /\ Tell(say) /\ ~holder.alive
      /\ disk' = [disk EXCEPT !.manifest = FALSE] /\ toHolder' = [c \in Conns |-> <<>>]
      /\ holder' = [holder EXCEPT !.up = FALSE, !.client = None, !.pending = None, !.backlog = {}]
  BY DEF HolderExits
<1>2. LinkTypes /\ holder \in Holders /\ holder.written \in Nat /\ None \notin Conns
  BY LinkAssumption DEF LinkInv, LinkTypes, Holders
<1>3. /\ holder' \in Holders /\ holder'.backlog = {} /\ holder'.written = holder.written
      /\ holder'.alive = holder.alive /\ holder'.pending = None /\ holder'.client = None
  BY <1>1, <1>2 DEF Holders, Truths
<1>4. /\ toServer' \in [Conns -> Seq(Frames)]
      /\ \A d \in Conns : Connected(d) => toServer'[d] = IF Deaf(d) THEN toServer[d] ELSE toServer[d] \o <<Say("close")>>
      /\ \A d \in Conns : ~Connected(d) => toServer'[d] = toServer[d]
  <2>1. \A d \in Conns : say[d] = IF Connected(d) THEN <<Say("close")>> ELSE <<>>
    BY DEF Connected
  <2>2. \A d \in Conns : say[d] \in Seq(Frames)
    BY <2>1, ListsTyped
  <2> HIDE DEF say
  <2>3. QED
    BY <1>1, <1>2, <2>1, <2>2, Told
<1>5. LinkTypes'
  <2>1. <<>> \in Seq(Asks)
    OBVIOUS
  <2>2. QED
    BY <1>1, <1>2, <1>3, <1>4, <2>1 DEF LinkTypes, Truths
<1>6. ~Calm' /\ disturbed \subseteq disturbed' /\ holder.written <= holder'.written /\ ~holder'.alive
  BY <1>1, <1>2, <1>3 DEF Calm
<1>7. ASSUME NEW d \in Conns PROVE Kept(d)'
  <2>1. ~Connected(d)' /\ toHolder'[d] = <<>> /\ session'[d] = session[d]
    BY <1>1, <1>2, <1>3 DEF Connected
  <2>2. CASE Connected(d)
    BY <1>3, <1>4, <1>6, <2>1, <2>2, OtherDropped
  <2>3. CASE ~Connected(d)
    <3>1. toHolder[d] = <<>>
      BY <2>3 DEF LinkInv, Kept, AsksInTurn
    <3>2. /\ holder.pending # d /\ holder.client # d /\ d \notin holder.backlog
          /\ holder'.pending # d /\ holder'.client # d /\ d \notin holder'.backlog
      BY <2>1, <2>3 DEF Connected
    <3>3. QED
      BY <1>3, <1>4, <1>6, <2>1, <2>3, <3>1, <3>2, Bystander
  <2>4. QED
    BY <2>2, <2>3
<1>8. RolesApart'
  BY <1>3 DEF RolesApart
<1>9. Undisturbed' => Even(disk.checkpoint)'
  BY <1>1, <1>2, <1>3 DEF LinkInv, LinkTypes, Undisturbed, Even
<1>10. QED
  BY <1>5, <1>6, <1>7, <1>8, <1>9 DEF LinkInv

LEMMA NothingAsked == ASSUME NEW c \in Conns, toHolder'[c] = <<>> PROVE AsksInTurn(c)'
<1>1. toHolder'[c] = <<>> /\ Len(toHolder'[c]) = 0 /\ DOMAIN toHolder'[c] = {}
  OBVIOUS
<1>2. QED
  BY <1>1 DEF AsksInTurn, Comes

(* A claim is granted or refused.                                                              *)
LEMMA GrantedKeeps ==
  ASSUME LinkInv, NEW c \in Conns, holder.pending = c, ~Deaf(c), session'[c] = session[c],
         toHolder[c] # <<>>, toHolder[c][1].cmd \in {"acquire", "takeover"}, toHolder'[c] = Tail(toHolder[c]),
         toServer'[c] = toServer[c] \o <<Say("acquired")>>,
         holder' \in Holders, holder'.client = c, holder'.pending = None, holder'.backlog = holder.backlog,
         holder'.written = holder.written, holder'.alive = holder.alive, disturbed \subseteq disturbed'
  PROVE  Kept(c)'
<1> DEFINE w == toServer[c]
           v == toServer'[c]
           x == session[c]
           f == Say("acquired")
<1>1. /\ Kept(c) /\ LinkTypes /\ x \in Records /\ w \in Seq(Frames) /\ RolesApart /\ holder.written \in Nat
      /\ None \notin Conns
  BY LinkAssumption DEF LinkInv, LinkTypes, Holders
<1>2. c \notin holder.backlog /\ holder.client # c
  BY <1>1 DEF RolesApart
<1>3. f \in Frames /\ v = w \o <<f>> /\ f.cmd = "acquired" /\ f.to = 0
  BY SaysTyped DEF Replies, Say
<1>4. /\ v \in Seq(Frames) /\ Len(v) = Len(w) + 1 /\ DOMAIN v = 1 .. Len(w) + 1 /\ v[Len(w) + 1] = f
      /\ Len(w) \in Nat /\ DOMAIN w = 1 .. Len(w) /\ \A i \in 1 .. Len(w) : v[i] = w[i]
      /\ \A s : Comes(v, s) <=> f.cmd \in s \/ Comes(w, s)
      /\ \A s : \A m \in Nat : InFrames(v, s, m) <=> (f.cmd \in s /\ f.from < m /\ m <= f.to) \/ InFrames(w, s, m)
  <2>1. w \in Seq(Frames) /\ f \in Frames /\ v = w \o <<f>>
    BY <1>1, <1>3
  <2> HIDE DEF w, v, f
  <2>2. /\ v \in Seq(Frames) /\ Len(v) = Len(w) + 1 /\ DOMAIN v = 1 .. Len(w) + 1 /\ v[Len(w) + 1] = f
        /\ Len(w) \in Nat /\ DOMAIN w = 1 .. Len(w) /\ \A i \in 1 .. Len(w) : v[i] = w[i]
    BY <2>1, Gained
  <2>3. ASSUME NEW s PROVE Comes(v, s) <=> f.cmd \in s \/ Comes(w, s)
    BY <2>1, Gained
  <2>4. ASSUME NEW s, NEW m \in Nat
        PROVE  InFrames(v, s, m) <=> (f.cmd \in s /\ f.from < m /\ m <= f.to) \/ InFrames(w, s, m)
    <3>1. \A i \in DOMAIN v : i \in DOMAIN w \/ i = Len(w) + 1
      BY <2>2
    <3>2. DOMAIN w \subseteq DOMAIN v /\ Len(w) + 1 \in DOMAIN v
      BY <2>2
    <3>3. QED
      BY <2>2, <3>1, <3>2, Zenon DEF InFrames
  <2>5. QED
    BY <2>2, <2>3, <2>4
<1> HIDE DEF w, v, f
<1>5. x.at = "claiming" /\ (\A s : At(c, s) <=> x.at \in s) /\ (\A s : At(c, s)' <=> x.at \in s)
  <2>1. At(c, {"dialing", "claiming", "failed", "gone"}) /\ At(c, {"claiming", "dumping", "replaying", "gone"})
    BY <1>1 DEF Kept, InItsRole, AsksInTurn
  <2>2. x.at \notin {"gone", "failed", "denied"}
    BY DEF Deaf, At
  <2>3. QED
    BY <2>1, <2>2 DEF At
<1>6. toHolder'[c] = <<>> /\ Len(toHolder'[c]) = 0
  <2>1. Len(toHolder[c]) <= 1
    BY <1>1, <1>5 DEF Kept, AsksInTurn
  <2>2. toHolder'[c] = <<>>
    BY <1>1, <2>1, Asked
  <2>3. QED
    BY <2>2
<1>7. Connected(c) /\ Connected(c)' /\ \A i \in DOMAIN v : i = Len(w) + 1 \/ i \in DOMAIN w
  BY <1>4 DEF Connected
<1>8. (\A i \in DOMAIN w : w[i].cmd \notin Answers) /\ ~Comes(w, {"close", "evicted"})
  BY <1>1, <1>7 DEF Kept, AnswersInTurn, w
<1>9. InItsRole(c)' /\ AsksInTurn(c)'
  <2>1. holder'.pending # c /\ c \notin holder'.backlog
    BY <1>1, <1>2
  <2>2. InItsRole(c)'
    BY <1>5, <2>1 DEF InItsRole
  <2> DEFINE asks == toHolder'[c]
  <2>3. asks = <<>>
    BY <1>6
  <2> HIDE DEF asks
  <2>4. AsksInTurn(c)'
    BY <2>3, NothingAsked DEF asks
  <2>5. QED
    BY <2>2, <2>4
<1>10. AnswersInTurn(c)'
  <2>1. \A i \in DOMAIN v : v[i].cmd \in Answers => i = Len(w) + 1 /\ v[i].cmd = "acquired"
    BY <1>3, <1>4, <1>7, <1>8
  <2>2. ~Comes(v, {"close", "evicted"})
    BY <1>3, <1>4, <1>8
  <2>3. \A i \in DOMAIN v : v[i].cmd # "close"
    BY <2>2 DEF Comes
  <2>4. QED
    BY <1>5, <1>6, <2>1, <2>2, <2>3 DEF AnswersInTurn, StageFor, v
<1>11. x.exit # "lost"
  BY <1>1, <1>7 DEF Kept, KeptInTurn
<1>12. KeptInTurn(c)'
  BY <1>1, <1>5, <1>11 DEF Kept, KeptInTurn, Rebuilt
<1>13. EndsWithReason(c)'
  <2>1. ~Comes(v, {"close"})
    BY <1>3, <1>4, <1>8 DEF Comes
  <2>2. QED
    BY <1>11, <2>1 DEF EndsWithReason, v
<1>14. AnswerIsComing(c)'
  <2>1. Comes(v, {"acquired"})
    BY <1>3, <1>4
  <2>2. QED
    BY <1>5, <2>1 DEF AnswerIsComing, v
<1>15. NothingMissing(c)'
  <2>1. \A m \in Nat : ~Afloat(c, m)
    BY <1>1, <1>5 DEF Kept, NothingMissing
  <2>2. \A m \in Nat : InFrames(v, {"out", "dump", "replay"}, m) <=> InFrames(w, {"out", "dump", "replay"}, m)
    BY <1>3, <1>4
  <2>3. \A m \in Nat : ~Afloat(c, m)'
    BY <2>1, <2>2 DEF Afloat, v, w
  <2>4. x.screen = <<>>
    BY <1>1, <1>5 DEF Kept, NothingMissing
  <2>5. QED
    BY <1>2, <1>5, <2>3, <2>4 DEF NothingMissing, Rebuilt
<1>16. FramesAreTrue(c)'
  <2>1. \A i \in DOMAIN v : v[i].to <= holder.written
    <3>1. \A i \in DOMAIN w : w[i].to <= holder.written
      BY <1>1 DEF Kept, FramesAreTrue, w
    <3>2. QED
      BY <1>1, <1>3, <1>4, <1>7, <3>1
  <2>2. Comes(v, {"exit"}) \/ Comes(x.buffered, {"exit"}) \/ x.exit = "ended" => ~holder.alive
    BY <1>1, <1>3, <1>4 DEF Kept, FramesAreTrue, w
  <2>3. QED
    BY <2>1, <2>2 DEF FramesAreTrue, v
<1>17. OffsetInStep(c)' /\ FollowsInStep(c)'
  <2> SUFFICES ASSUME Undisturbed PROVE OffsetInStep(c)' /\ FollowsInStep(c)'
    BY DEF OffsetInStep, FollowsInStep, Undisturbed
  <2>1. ~Comes(w, {"out"}) /\ ~Comes(x.buffered, {"out"}) /\ Even(x.seed) /\ x.applied = holder.written
    BY <1>1, <1>5 DEF Kept, OffsetInStep, Handshake, w
  <2>2. ~Comes(v, {"out"}) /\ Even(x.seed)'
    BY <1>3, <1>4, <2>1 DEF Even
  <2>3. \A i \in DOMAIN v : v[i].cmd \notin {"state", "dump", "replay"}
    BY <1>3, <1>4, <1>7, <1>8 DEF Answers
  <2>4. OffsetInStep(c)'
    BY <1>5, <2>1, <2>2, <2>3 DEF OffsetInStep, v
  <2>5. QED
    BY <1>5, <2>4 DEF FollowsInStep, Rebuilt
<1>18. QED
  BY <1>9, <1>10, <1>12, <1>13, <1>14, <1>15, <1>16, <1>17 DEF Kept

LEMMA ClaimsKeeps == ASSUME LinkInv, NEW c \in Conns, Claims(c) PROVE LinkInv'
<1> DEFINE old == holder.client
           say == [d \in Conns |->
             CASE d = c -> IF Takes(c) THEN <<Say("acquired")>> ELSE <<Say("denied"), Say("close")>>
               [] d = old -> IF Takes(c) THEN Eviction ELSE <<>>
               [] OTHER -> <<>>]
<1>1. /\ session' = session /\ disk' = disk /\ holder.pending = c
      /\ disturbed' = disturbed \cup (IF Takes(c) /\ old # None /\ At(old, Handshake) THEN {"overtaken"} ELSE {})
      /\ toHolder[c] # <<>> /\ Head(toHolder[c]).cmd \in {"acquire", "takeover"} /\ Tell(say)
      /\ toHolder' = [d \in Conns |->
           CASE d = c -> IF Takes(c) THEN Tail(toHolder[c]) ELSE <<>>
             [] d = old -> IF Takes(c) THEN <<>> ELSE toHolder[d]
             [] OTHER -> toHolder[d]]
      /\ holder' = [holder EXCEPT !.pending = None, !.client = IF Takes(c) THEN c ELSE @]
  BY DEF Claims
<1>2. LinkTypes /\ Kept(c) /\ session[c] \in Records /\ RolesApart /\ holder \in Holders /\ holder.written \in Nat
  BY DEF LinkInv, LinkTypes, Holders
<1>3. None \notin Conns /\ c # old /\ c \notin holder.backlog
  BY <1>1, <1>2, LinkAssumption DEF RolesApart
<1>4. /\ holder' \in Holders /\ holder'.backlog = holder.backlog /\ holder'.written = holder.written
      /\ holder'.alive = holder.alive /\ holder'.pending = None /\ holder'.client = IF Takes(c) THEN c ELSE old
  BY <1>1, <1>2 DEF Holders
<1>5. /\ toServer' \in [Conns -> Seq(Frames)]
      /\ ~Deaf(c) => toServer'[c] = toServer[c] \o (IF Takes(c) THEN <<Say("acquired")>> ELSE <<Say("denied"), Say("close")>>)
      /\ Deaf(c) => toServer'[c] = toServer[c]
      /\ \A d \in Conns : d = old /\ Takes(c) => toServer'[d] = IF Deaf(d) THEN toServer[d] ELSE toServer[d] \o Eviction
      /\ \A d \in Conns : d # c /\ ~(d = old /\ Takes(c)) => toServer'[d] = toServer[d]
  <2>1. \A d \in Conns : say[d] = IF d = c THEN (IF Takes(c) THEN <<Say("acquired")>> ELSE <<Say("denied"), Say("close")>>)
                                  ELSE IF d = old /\ Takes(c) THEN Eviction ELSE <<>>
    BY <1>3
  <2>2. \A d \in Conns : say[d] \in Seq(Frames)
    <3>1. <<Say("acquired")>> \in Seq(Frames) /\ <<Say("denied"), Say("close")>> \in Seq(Frames) /\ Eviction \in Seq(Frames)
      BY SaysTyped, ListsTyped DEF Eviction, Replies
    <3>2. QED
      BY <2>1, <3>1, ListsTyped
  <2> HIDE DEF say
  <2>3. /\ toServer' \in [Conns -> Seq(Frames)]
        /\ \A d \in Conns : toServer'[d] = IF Deaf(d) THEN toServer[d] ELSE toServer[d] \o say[d]
        /\ \A d \in Conns : say[d] = <<>> => toServer'[d] = toServer[d]
    BY <1>1, <1>2, <2>2, Told
  <2>4. QED
    BY <1>3, <2>1, <2>3
<1>6. /\ Head(toHolder[c]) = toHolder[c][1] /\ Tail(toHolder[c]) \in Seq(Asks)
      /\ \A s : Comes(Tail(toHolder[c]), s) => Comes(toHolder[c], s)
  BY <1>1, <1>2, Asked
<1>7. LinkTypes' /\ \A d \in Conns : toHolder'[d] = IF d = c THEN (IF Takes(c) THEN Tail(toHolder[c]) ELSE <<>>)
                                                    ELSE IF d = old /\ Takes(c) THEN <<>> ELSE toHolder[d]
  <2>1. <<>> \in Seq(Asks)
    OBVIOUS
  <2>2. \A d \in Conns : toHolder'[d] = IF d = c THEN (IF Takes(c) THEN Tail(toHolder[c]) ELSE <<>>)
                                        ELSE IF d = old /\ Takes(c) THEN <<>> ELSE toHolder[d]
    BY <1>1, <1>3
  <2>3. toHolder' \in [Conns -> Seq(Asks)]
    BY <1>1, <1>2, <1>3, <1>6, <2>1 DEF LinkTypes
  <2>4. QED
    BY <1>1, <1>2, <1>4, <1>5, <2>2, <2>3 DEF LinkTypes
<1>8. /\ (Calm' => Calm) /\ (Undisturbed' <=> Undisturbed) /\ disturbed \subseteq disturbed' /\ holder.written <= holder'.written
      /\ holder'.alive = holder.alive
  BY <1>1, <1>2, <1>4 DEF Calm, Undisturbed
<1>9. Kept(c)'
  <2>1. session'[c] = session[c] /\ Connected(c)
    BY <1>1 DEF Connected
  <2>2. CASE Deaf(c)
    <3>1. session[c].at = "gone"
      <4>1. At(c, {"claiming", "dumping", "replaying", "gone"})
        BY <1>1, <1>2 DEF Kept, AsksInTurn
      <4>2. QED
        BY <2>2, <4>1 DEF Deaf, At
    <3>2. At(c, {"gone"}) /\ toServer'[c] = toServer[c]
      BY <1>5, <2>2, <3>1 DEF At
    <3>3. toHolder'[c] # <<>> => Connected(c)' /\ toHolder[c] # <<>>
      BY <1>1, <1>4, <1>7 DEF Connected
    <3>4. QED
      BY <1>1, <1>4, <1>8, <2>1, <2>2, <3>2, <3>3, DeafStays
  <2>3. CASE ~Deaf(c) /\ Takes(c)
    BY <1>1, <1>4, <1>5, <1>6, <1>7, <1>8, <2>1, <2>3, GrantedKeeps
  <2>4. CASE ~Deaf(c) /\ ~Takes(c)
    <3>1. At(c, {"claiming"})
      <4>1. At(c, {"dialing", "claiming", "failed", "gone"}) /\ At(c, {"claiming", "dumping", "replaying", "gone"})
        BY <1>1, <1>2 DEF Kept, InItsRole, AsksInTurn
      <4>2. QED
        BY <2>4, <4>1 DEF At, Deaf
    <3>2. ~Connected(c)'
      BY <1>3, <1>4, <2>4 DEF Connected
    <3>3. toServer'[c] = toServer[c] \o <<Say("denied"), Say("close")>> /\ toHolder'[c] = <<>>
      BY <1>5, <1>7, <2>4
    <3> DEFINE cmd == "denied"
    <3>4. cmd \in {"evicted", "denied"} /\ toServer'[c] = toServer[c] \o <<Say(cmd), Say("close")>> /\ cmd # "evicted"
      BY <3>3
    <3> HIDE DEF cmd
    <3>5. QED
      BY <1>1, <1>4, <1>8, <2>1, <2>4, <3>1, <3>2, <3>3, <3>4, DroppedWithWord
  <2>5. QED
    BY <2>2, <2>3, <2>4
<1>10. ASSUME NEW d \in Conns, d # c PROVE Kept(d)'
  <2>1. CASE d = old /\ Takes(c)
    <3>1. Connected(d) /\ ~Connected(d)' /\ session'[d] = session[d] /\ toHolder'[d] = <<>>
      <4>1. d \notin holder.backlog /\ d # None
        BY <1>2, <1>3, <2>1 DEF RolesApart
      <4>2. QED
        BY <1>1, <1>4, <1>7, <1>10, <2>1, <4>1 DEF Connected
    <3>2. CASE Deaf(d)
      <4>1. toServer'[d] = toServer[d]
        BY <1>5, <2>1, <3>2
      <4>2. QED
        BY <1>4, <1>8, <3>1, <3>2, <4>1, DeafDropped
    <3>3. CASE ~Deaf(d)
      <4>1. At(d, Rebuilt) \/ ~Calm'
        <5>1. session[d].at \in Stages /\ ~At(d, {"new"})
          BY <1>2, <3>1 DEF LinkInv, LinkTypes, Records, Kept, InItsRole
        <5>2. At(d, Handshake \cup {"driving"})
          BY <3>3, <5>1 DEF Deaf, At, Stages, Handshake
        <5>3. At(d, Handshake) => ~Calm'
          BY <1>1, <1>3, <2>1 DEF Calm
        <5>4. QED
          BY <5>2, <5>3 DEF At, Rebuilt
      <4> DEFINE cmd == "evicted"
      <4>2. cmd \in {"evicted", "denied"} /\ toServer'[d] = toServer[d] \o <<Say(cmd), Say("close")>> /\ cmd # "denied"
        BY <1>5, <2>1, <3>3 DEF Eviction
      <4> HIDE DEF cmd
      <4>3. QED
        BY <1>4, <1>8, <3>1, <3>3, <4>1, <4>2, DroppedWithWord
    <3>4. QED
      BY <3>2, <3>3
  <2>2. CASE ~(d = old /\ Takes(c))
    <3>1. toServer'[d] = toServer[d] /\ toHolder'[d] = toHolder[d] /\ session'[d] = session[d]
      BY <1>1, <1>5, <1>7, <1>10, <2>2
    <3>2. (holder'.pending = d <=> holder.pending = d) /\ (holder'.client = d <=> holder.client = d)
      BY <1>1, <1>3, <1>4, <1>10, <2>2
    <3>3. QED
      BY <1>4, <1>8, <3>1, <3>2, Bystander
  <2>3. QED
    BY <2>1, <2>2
<1>11. RolesApart'
  <2>1. None \notin holder.backlog
    BY <1>2, <1>3 DEF Holders
  <2>2. QED
    BY <1>2, <1>3, <1>4, <2>1 DEF RolesApart
<1>12. (Calm' => disk'.manifest) /\ (Undisturbed' => Even(disk.checkpoint)')
  BY <1>1, <1>4, <1>8 DEF LinkInv, Even
<1>13. QED
  BY <1>7, <1>9, <1>10, <1>11, <1>12 DEF LinkInv

(* The controller is sent the chunks it asked for.                                                *)
LEMMA AnsweredKeeps ==
  ASSUME LinkInv, NEW c \in Conns, holder.client = c, ~Deaf(c), holder' = holder, session' = session, disturbed' = disturbed,
         toHolder[c] # <<>>, toHolder[c][1].cmd \in {"dumpReq", "dumpSince"}, toHolder'[c] = Tail(toHolder[c]),
         NEW f \in Frames, toServer'[c] = toServer[c] \o <<f>>, f.to = holder.written, f.from <= f.to,
         f.cmd = IF toHolder[c][1].cmd = "dumpReq" THEN "dump" ELSE "replay",
         ~f.gap => f.from = Lowest(toHolder[c][1].from, holder.written)
  PROVE  Kept(c)'
<1> DEFINE w == toServer[c]
           v == toServer'[c]
           x == session[c]
           asked == toHolder[c][1]
<1>1. /\ Kept(c) /\ LinkTypes /\ x \in Records /\ w \in Seq(Frames) /\ RolesApart /\ holder.written \in Nat
      /\ None \notin Conns
  BY LinkAssumption DEF LinkInv, LinkTypes, Holders
<1>2. c \notin holder.backlog /\ holder.pending # c /\ holder'.pending # c /\ c \notin holder'.backlog
  BY <1>1 DEF RolesApart
<1>3. f.from \in Nat /\ f.to \in Nat
  BY DEF Frames
<1>4. /\ v \in Seq(Frames) /\ Len(v) = Len(w) + 1 /\ DOMAIN v = 1 .. Len(w) + 1 /\ v[Len(w) + 1] = f
      /\ Len(w) \in Nat /\ DOMAIN w = 1 .. Len(w) /\ \A i \in 1 .. Len(w) : v[i] = w[i]
      /\ \A s : Comes(v, s) <=> f.cmd \in s \/ Comes(w, s)
      /\ \A s : \A m \in Nat : InFrames(v, s, m) <=> (f.cmd \in s /\ f.from < m /\ m <= f.to) \/ InFrames(w, s, m)
  <2>1. w \in Seq(Frames) /\ v = w \o <<f>>
    BY <1>1
  <2> HIDE DEF w, v
  <2>2. /\ v \in Seq(Frames) /\ Len(v) = Len(w) + 1 /\ DOMAIN v = 1 .. Len(w) + 1 /\ v[Len(w) + 1] = f
        /\ Len(w) \in Nat /\ DOMAIN w = 1 .. Len(w) /\ \A i \in 1 .. Len(w) : v[i] = w[i]
    BY <2>1, Gained
  <2>3. ASSUME NEW s PROVE Comes(v, s) <=> f.cmd \in s \/ Comes(w, s)
    BY <2>1, Gained
  <2>4. ASSUME NEW s, NEW m \in Nat
        PROVE  InFrames(v, s, m) <=> (f.cmd \in s /\ f.from < m /\ m <= f.to) \/ InFrames(w, s, m)
    <3>1. \A i \in DOMAIN v : i \in DOMAIN w \/ i = Len(w) + 1
      BY <2>2
    <3>2. DOMAIN w \subseteq DOMAIN v /\ Len(w) + 1 \in DOMAIN v
      BY <2>2
    <3>3. QED
      BY <2>2, <3>1, <3>2, Zenon DEF InFrames
  <2>5. QED
    BY <2>2, <2>3, <2>4
<1> HIDE DEF w, v
<1>5. /\ x.at = (IF asked.cmd = "dumpReq" THEN "dumping" ELSE "replaying")
      /\ (\A s : At(c, s) <=> x.at \in s) /\ (\A s : At(c, s)' <=> x.at \in s)
      /\ x.at = "replaying" => asked.from = x.seed.offset
  <2>1. At(c, {"claiming", "dumping", "replaying", "gone"})
    BY <1>1 DEF Kept, AsksInTurn
  <2>2. x.at \notin {"gone", "failed", "denied"}
    BY DEF Deaf, At
  <2>3. asked.cmd # "acquire" /\ asked.cmd # "takeover" /\ (asked.cmd # "dumpReq" => asked.cmd = "dumpSince")
    OBVIOUS
  <2>4. /\ At(c, {"claiming"}) => asked.cmd \in {"acquire", "takeover"}
        /\ At(c, {"dumping"}) => asked.cmd = "dumpReq"
        /\ At(c, {"replaying"}) => asked.cmd = "dumpSince" /\ asked.from = x.seed.offset
    BY <1>1 DEF Kept, AsksInTurn
  <2> HIDE DEF asked, x
  <2>5. (\A s : At(c, s) <=> x.at \in s) /\ (\A s : At(c, s)' <=> x.at \in s)
    BY DEF At, x
  <2>6. QED
    BY <2>1, <2>2, <2>3, <2>4, <2>5
<1>6. toHolder'[c] = <<>>
  <2>1. Len(toHolder[c]) <= 1
    BY <1>1, <1>5 DEF Kept, AsksInTurn
  <2>2. QED
    BY <1>1, <2>1, Asked
<1>7. Connected(c) /\ Connected(c)' /\ \A i \in DOMAIN v : i = Len(w) + 1 \/ i \in DOMAIN w
  BY <1>4 DEF Connected
<1>8. (\A i \in DOMAIN w : w[i].cmd \notin Answers) /\ ~Comes(w, {"close", "evicted"})
  BY <1>1, <1>7 DEF Kept, AnswersInTurn, w
<1>9. f.cmd \in {"dump", "replay"} /\ x.at = (IF f.cmd = "dump" THEN "dumping" ELSE "replaying")
  BY <1>5
<1>10. InItsRole(c)' /\ AsksInTurn(c)'
  <2>1. InItsRole(c)'
    BY <1>2, <1>5 DEF InItsRole
  <2>2. QED
    BY <1>6, <2>1, NothingAsked
<1>11. AnswersInTurn(c)'
  <2>1. \A i \in DOMAIN v : v[i].cmd \in Answers => i = Len(w) + 1 /\ v[i].cmd = f.cmd
    BY <1>4, <1>7, <1>8
  <2>2. ~Comes(v, {"close", "evicted"})
    BY <1>4, <1>8, <1>9
  <2>3. \A i \in DOMAIN v : v[i].cmd # "close"
    BY <2>2 DEF Comes
  <2>4. \A i \in DOMAIN v : v[i].cmd \in Answers => x.at = StageFor(v[i].cmd)
    BY <1>9, <2>1 DEF StageFor
  <2>5. QED
    BY <1>6, <2>1, <2>2, <2>3, <2>4 DEF AnswersInTurn, v
<1>12. x.exit # "lost"
  BY <1>1, <1>7 DEF Kept, KeptInTurn
<1>13. KeptInTurn(c)'
  BY <1>1, <1>5, <1>9, <1>12 DEF Kept, KeptInTurn, Rebuilt
<1>14. EndsWithReason(c)'
  <2>1. ~Comes(v, {"close"})
    BY <1>4, <1>8, <1>9 DEF Comes
  <2>2. QED
    BY <1>12, <2>1 DEF EndsWithReason, v
<1>15. AnswerIsComing(c)'
  <2>1. Comes(v, {"dump", "replay"})
    BY <1>4, <1>9
  <2>2. QED
    BY <1>5, <1>9, <2>1 DEF AnswerIsComing, v
<1>16. NothingMissing(c)'
  <2>1. \A m \in Nat : Afloat(c, m)' <=> (f.from < m /\ m <= f.to) \/ Afloat(c, m)
    <3>1. \A m \in Nat : InFrames(v, {"out", "dump", "replay"}, m)
                             <=> (f.from < m /\ m <= f.to) \/ InFrames(w, {"out", "dump", "replay"}, m)
      BY <1>4, <1>9
    <3>2. QED
      BY <3>1 DEF Afloat, v, w
  <2>2. /\ x.at = "dumping" => x.screen = <<>>
        /\ x.at = "replaying" => x.screen = x.seed.screen
        /\ \A m \in Nat, k \in 1 .. holder.written : Afloat(c, m) /\ m <= k => Afloat(c, k)
    BY <1>1, <1>5, <1>9 DEF Kept, NothingMissing
  <2>3. ASSUME NEW m \in Nat, NEW k \in 1 .. holder.written, Afloat(c, m)', m <= k PROVE Afloat(c, k)'
    <3>1. k \in Nat /\ k <= f.to
      BY <1>1
    <3>2. CASE f.from < m
      BY <1>3, <2>1, <2>3, <3>1, <3>2
    <3>3. CASE Afloat(c, m)
      BY <2>1, <2>2, <2>3, <3>1, <3>3
    <3>4. QED
      BY <2>1, <2>3, <3>2, <3>3
  <2>4. ASSUME x.at = "replaying", NEW i \in DOMAIN v, v[i].cmd = "replay", ~v[i].gap,
               NEW k \in 1 .. holder.written, x.seed.offset < k
        PROVE  Afloat(c, k)'
    <3>1. v[i] = f
      BY <1>4, <1>7, <1>8, <2>4 DEF Answers
    <3>2. f.from = Lowest(x.seed.offset, holder.written) /\ x.seed.offset \in Nat /\ k \in Nat
      BY <1>1, <1>5, <2>4, <3>1 DEF Records, Points
    <3>3. f.from < k /\ k <= f.to
      BY <1>1, <2>4, <3>2 DEF Lowest
    <3>4. QED
      BY <2>1, <3>2, <3>3
  <2>5. QED
    BY <1>2, <1>5, <1>9, <2>2, <2>3, <2>4 DEF NothingMissing, Rebuilt, v
<1>17. FramesAreTrue(c)'
  <2>1. \A i \in DOMAIN v : v[i].to <= holder.written
    <3>1. \A i \in DOMAIN w : w[i].to <= holder.written
      BY <1>1 DEF Kept, FramesAreTrue, w
    <3>2. QED
      BY <1>1, <1>4, <1>7, <3>1
  <2>2. Comes(v, {"exit"}) \/ Comes(x.buffered, {"exit"}) \/ x.exit = "ended" => ~holder.alive
    BY <1>1, <1>4, <1>9 DEF Kept, FramesAreTrue, w
  <2>3. QED
    BY <2>1, <2>2 DEF FramesAreTrue, v
<1>18. OffsetInStep(c)' /\ FollowsInStep(c)'
  <2> SUFFICES ASSUME Undisturbed PROVE OffsetInStep(c)' /\ FollowsInStep(c)'
    BY DEF OffsetInStep, FollowsInStep, Undisturbed
  <2>1. /\ ~Comes(w, {"out"}) /\ ~Comes(x.buffered, {"out"}) /\ Even(x.seed)
        /\ x.at = "dumping" => x.applied = holder.written
    BY <1>1, <1>5, <1>9 DEF Kept, OffsetInStep, Handshake, w
  <2>2. ~Comes(v, {"out"}) /\ Even(x.seed)'
    BY <1>4, <1>9, <2>1 DEF Even
  <2>3. \A i \in DOMAIN v : v[i].cmd \in Answers => v[i] = f
    BY <1>4, <1>7, <1>8
  <2>4. x.at = "replaying" /\ ~f.gap => f.from = x.seed.offset
    BY <1>1, <1>5, <2>1 DEF Even, Lowest, Records, Points
  <2>5. \A i \in DOMAIN v : v[i].cmd = "dump" => v[i].to = x.applied /\ v[i].from <= v[i].to
    BY <1>9, <2>1, <2>3 DEF Answers
  <2>6. \A i \in DOMAIN v : v[i].cmd = "replay" =>
           v[i].to = holder.written /\ v[i].from <= v[i].to /\ (~v[i].gap => v[i].from = x.seed.offset)
    BY <1>9, <2>3, <2>4 DEF Answers
  <2>7. \A i \in DOMAIN v : v[i].cmd # "state"
    BY <1>9, <2>3, SMTT(30) DEF Answers
  <2>8. OffsetInStep(c)'
    BY <1>5, <1>9, <2>1, <2>2, <2>5, <2>6, <2>7, SMTT(30) DEF OffsetInStep, v
  <2>9. QED
    BY <1>5, <1>9, <2>8 DEF FollowsInStep, Rebuilt
<1>19. QED
  BY <1>10, <1>11, <1>13, <1>14, <1>15, <1>16, <1>17, <1>18 DEF Kept

(* A step that is about one connection, and changes neither roles nor disk, leaves the others as they are.  *)
LEMMA OthersStay ==
  ASSUME LinkInv, LinkTypes', holder' = holder, session' = session, disturbed' = disturbed, disk' = disk,
         NEW c \in Conns, Kept(c)',
         \A d \in Conns : d # c => toServer'[d] = toServer[d] /\ toHolder'[d] = toHolder[d]
  PROVE  LinkInv'
<1>1. ASSUME NEW d \in Conns, d # c PROVE Kept(d)'
  <2>1. toServer'[d] = toServer[d] /\ toHolder'[d] = toHolder[d] /\ session'[d] = session[d]
    BY <1>1
  <2>2. holder' \in Holders /\ disturbed \subseteq disturbed' /\ holder.written <= holder'.written
    <3>1. holder \in Holders
      BY DEF LinkInv, LinkTypes
    <3>2. holder.written \in Nat
      BY <3>1 DEF Holders
    <3>3. QED
      BY <3>1, <3>2
  <2>3. QED
    BY <2>1, <2>2, Bystander
<1>2. RolesApart' /\ (Calm' => disk'.manifest) /\ (Undisturbed' => Even(disk.checkpoint)')
  BY DEF LinkInv, RolesApart, Calm, Undisturbed, Even
<1>3. QED
  BY <1>1, <1>2 DEF LinkInv

LEMMA ReplayKeeps == ASSUME LinkInv, NEW c \in Conns, Replay(c) PROVE LinkInv'
<1> DEFINE asked == toHolder[c][1]
           base == BaseOffset
           x == session[c]
           w == toServer[c]
           v == toServer'[c]
           kind == IF asked.cmd = "dumpReq" THEN "dump" ELSE "replay"
           short == asked.from < base
<1>1. /\ UNCHANGED <<holder, session, disk, disturbed>> /\ holder.client = c /\ toHolder[c] # <<>>
      /\ Head(toHolder[c]).cmd \in {"dumpReq", "dumpSince"} /\ toHolder' = [toHolder EXCEPT ![c] = Tail(@)]
  BY DEF Replay
<1>2. LinkTypes /\ Kept(c) /\ x \in Records /\ RolesApart /\ holder \in Holders /\ holder.written \in Nat /\ None \notin Conns
  BY LinkAssumption DEF LinkInv, LinkTypes, Holders
<1>3. /\ Head(toHolder[c]) = asked /\ asked \in Asks /\ asked.from \in Nat /\ Tail(toHolder[c]) \in Seq(Asks)
      /\ \A s : Comes(Tail(toHolder[c]), s) => Comes(toHolder[c], s)
      /\ Len(toHolder[c]) <= 1 => Tail(toHolder[c]) = <<>>
  BY <1>1, <1>2, Asked DEF Asks
<1>4. base \in Nat /\ base <= holder.written
  BY <1>2, LinkAssumption DEF BaseOffset
<1>5. PICK from \in Trimmed(Wanted(c)) :
        Tell(To(c, <<[cmd |-> kind, from |-> from, to |-> holder.written, gap |-> short]>>))
  BY <1>1, <1>3 DEF Replay, Wanted
<1>6. from \in Nat /\ from <= holder.written /\ (~short => from = Lowest(asked.from, holder.written))
  BY <1>2, <1>3, <1>4, <1>5 DEF Trimmed, Wanted, Lowest
<1> DEFINE f == [cmd |-> kind, from |-> from, to |-> holder.written, gap |-> short]
<1>7. f \in Frames /\ f.cmd = kind /\ f.from = from /\ f.to = holder.written /\ (f.gap <=> short)
  <2>1. short \in Truths /\ kind \in Replies
    <3>1. short \in Truths
      <4>1. short = TRUE \/ short = FALSE
        BY <1>3, <1>4
      <4> HIDE DEF short
      <4>2. QED
        BY <4>1 DEF Truths
    <3>2. kind \in Replies
      BY DEF Replies
    <3>3. QED
      BY <3>1, <3>2
  <2> HIDE DEF short, kind
  <2>2. QED
    BY <1>2, <1>6, <2>1 DEF Frames
<1> DEFINE say == To(c, <<f>>)
<1>8. Tell(say) /\ say[c] = <<f>> /\ (\A d \in Conns : d # c => say[d] = <<>>)
  BY <1>5 DEF To
<1> HIDE DEF f, base
<1>9. /\ toServer' \in [Conns -> Seq(Frames)]
      /\ v = IF Deaf(c) THEN w ELSE w \o <<f>>
      /\ \A d \in Conns : d # c => toServer'[d] = toServer[d]
  <2>1. \A d \in Conns : say[d] \in Seq(Frames)
    BY <1>7, <1>8, ListsTyped
  <2> HIDE DEF say
  <2>2. QED
    BY <1>2, <1>8, <2>1, Told
<1> HIDE DEF say
<1>10. LinkTypes' /\ toHolder'[c] = Tail(toHolder[c]) /\ \A d \in Conns : d # c => toHolder'[d] = toHolder[d]
  BY <1>1, <1>2, <1>3, <1>9 DEF LinkTypes
<1>11. holder' = holder /\ holder' \in Holders /\ session' = session /\ disturbed' = disturbed /\ disk' = disk
       /\ holder.written <= holder'.written /\ disturbed \subseteq disturbed'
  BY <1>1, <1>2
<1>12. Connected(c) /\ holder.pending # c /\ c \notin holder.backlog
  BY <1>1, <1>2 DEF Connected, RolesApart
<1>13. At(c, {"claiming", "dumping", "replaying", "gone"}) /\ ~At(c, {"claiming"})
  <2>1. Head(toHolder[c]).cmd \notin {"acquire", "takeover"}
    BY <1>1
  <2>2. QED
    BY <1>1, <1>2, <1>3, <2>1 DEF Kept, AsksInTurn
<1>14. CASE Deaf(c)
  <2>1. At(c, {"gone"})
    BY <1>13, <1>14 DEF Deaf, At
  <2>2. toServer'[c] = toServer[c]
    BY <1>9, <1>14
  <2>3. Comes(toHolder'[c], {"close"}) => At(c, {"gone"})
    BY <2>1
  <2>4. toHolder'[c] # <<>> => Connected(c)' /\ toHolder[c] # <<>>
    BY <1>1, <1>11, <1>12 DEF Connected
  <2>5. Kept(c)'
    BY <1>11, <1>12, <1>14, <2>1, <2>2, <2>3, <2>4, DeafStays DEF Connected
  <2>6. QED
    BY <1>9, <1>10, <1>11, <2>5, OthersStay
<1>15. CASE ~Deaf(c)
  <2>1. holder' = holder /\ session' = session /\ disturbed' = disturbed /\ holder.client = c /\ toHolder[c] # <<>>
    BY <1>1
  <2>2. toServer'[c] = toServer[c] \o <<f>> /\ toHolder'[c] = Tail(toHolder[c])
    BY <1>9, <1>10, <1>15
  <2>3. /\ asked.cmd \in {"dumpReq", "dumpSince"} /\ f.cmd = IF asked.cmd = "dumpReq" THEN "dump" ELSE "replay"
        /\ f.from <= f.to /\ (~f.gap => f.from = Lowest(asked.from, holder.written))
    BY <1>1, <1>3, <1>6, <1>7
  <2>4. Kept(c)'
    BY <1>7, <1>15, <2>1, <2>2, <2>3, AnsweredKeeps
  <2>5. QED
    BY <1>9, <1>10, <1>11, <2>4, OthersStay
<1>16. QED
  BY <1>14, <1>15

(* The controller is told that the program has ended.                                             *)
LEMMA ToldOfEnd ==
  ASSUME LinkInv, NEW c \in Conns, holder.client = c, ~Deaf(c), session'[c] = session[c], disturbed' = disturbed,
         toHolder'[c] = toHolder[c], toServer'[c] = toServer[c] \o <<Say("exit")>>,
         holder' = [holder EXCEPT !.alive = FALSE]
  PROVE  Kept(c)'
<1> DEFINE w == toServer[c]
           v == toServer'[c]
           x == session[c]
           f == Say("exit")
<1>1. /\ Kept(c) /\ LinkTypes /\ x \in Records /\ w \in Seq(Frames) /\ RolesApart /\ holder.written \in Nat
      /\ None \notin Conns /\ holder \in Holders
  BY LinkAssumption DEF LinkInv, LinkTypes, Holders
<1>2. /\ c \notin holder.backlog /\ holder.pending # c /\ holder'.pending # c /\ c \notin holder'.backlog /\ ~holder'.alive
      /\ holder'.written = holder.written /\ holder'.client = c
  BY <1>1 DEF RolesApart, Holders
<1>3. f \in Frames /\ f.cmd = "exit" /\ f.to = 0
  BY SaysTyped DEF Say, Replies
<1>4. /\ v \in Seq(Frames) /\ Len(v) = Len(w) + 1 /\ DOMAIN v = 1 .. Len(w) + 1 /\ v[Len(w) + 1] = f
      /\ Len(w) \in Nat /\ DOMAIN w = 1 .. Len(w) /\ \A i \in 1 .. Len(w) : v[i] = w[i]
      /\ \A s : Comes(v, s) <=> f.cmd \in s \/ Comes(w, s)
      /\ \A s : \A m \in Nat : InFrames(v, s, m) <=> (f.cmd \in s /\ f.from < m /\ m <= f.to) \/ InFrames(w, s, m)
  <2>1. w \in Seq(Frames) /\ v = w \o <<f>> /\ f \in Frames
    BY <1>1, <1>3
  <2> HIDE DEF w, v, f
  <2>2. /\ v \in Seq(Frames) /\ Len(v) = Len(w) + 1 /\ DOMAIN v = 1 .. Len(w) + 1 /\ v[Len(w) + 1] = f
        /\ Len(w) \in Nat /\ DOMAIN w = 1 .. Len(w) /\ \A i \in 1 .. Len(w) : v[i] = w[i]
    BY <2>1, Gained
  <2>3. ASSUME NEW s PROVE Comes(v, s) <=> f.cmd \in s \/ Comes(w, s)
    BY <2>1, Gained
  <2>4. ASSUME NEW s, NEW m \in Nat
        PROVE  InFrames(v, s, m) <=> (f.cmd \in s /\ f.from < m /\ m <= f.to) \/ InFrames(w, s, m)
    <3>1. \A i \in DOMAIN v : i \in DOMAIN w \/ i = Len(w) + 1
      BY <2>2
    <3>2. DOMAIN w \subseteq DOMAIN v /\ Len(w) + 1 \in DOMAIN v
      BY <2>2
    <3>3. QED
      BY <2>2, <3>1, <3>2, Zenon DEF InFrames
  <2>5. QED
    BY <2>2, <2>3, <2>4
<1> HIDE DEF w, v, f
<1>5. (\A s : At(c, s) <=> x.at \in s) /\ (\A s : At(c, s)' <=> x.at \in s) /\ x.at \notin {"new", "gone", "failed"}
  <2>1. Connected(c)
    BY DEF Connected
  <2>2. ~At(c, {"new"})
    BY <1>1, <2>1 DEF Kept, InItsRole
  <2>3. QED
    BY <2>2 DEF Deaf, At
<1>6. Connected(c) /\ Connected(c)' /\ \A i \in DOMAIN v : i = Len(w) + 1 \/ i \in DOMAIN w
  BY <1>2, <1>4 DEF Connected
<1>7. ~Comes(w, {"close", "evicted"}) /\ ~Comes(v, {"close", "evicted"})
  BY <1>1, <1>3, <1>4, <1>6 DEF Kept, AnswersInTurn, w
<1>8. \A i \in DOMAIN v : (i \in DOMAIN w /\ v[i] = w[i]) \/ (v[i].cmd = "exit" /\ v[i].to = 0)
  BY <1>3, <1>4, <1>6
<1>9. InItsRole(c)' /\ AsksInTurn(c)'
  <2>1. InItsRole(c)'
    BY <1>2, <1>5 DEF InItsRole
  <2>2. AsksInTurn(c)'
    BY <1>1, <1>5, <1>6 DEF Kept, AsksInTurn
  <2>3. QED
    BY <2>1, <2>2
<1>10. AnswersInTurn(c)'
  <2>1. \A i \in DOMAIN v : v[i].cmd # "close"
    BY <1>7 DEF Comes
  <2>2. \A i \in DOMAIN v : v[i].cmd \in Answers => i \in DOMAIN w /\ v[i] = w[i]
    BY <1>8 DEF Answers
  <2>3. /\ \A i \in DOMAIN w : w[i].cmd \in Answers => x.at = StageFor(w[i].cmd) /\ toHolder[c] = <<>>
        /\ \A i, j \in DOMAIN w : w[i].cmd \in Answers /\ w[j].cmd \in Answers => i = j
    BY <1>1 DEF Kept, AnswersInTurn, w
  <2>4. QED
    BY <1>7, <2>1, <2>2, <2>3, SMTT(30) DEF AnswersInTurn, v
<1>11. x.exit # "lost"
  BY <1>1, <1>6 DEF Kept, KeptInTurn
<1>12. KeptInTurn(c)' /\ EndsWithReason(c)' /\ AnswerIsComing(c)'
  <2>1. KeptInTurn(c)'
    BY <1>1, <1>5, <1>11 DEF Kept, KeptInTurn, Rebuilt
  <2>2. QED
    BY <1>2, <2>1 DEF EndsWithReason, AnswerIsComing, Calm
<1>13. NothingMissing(c)'
  <2>1. \A m \in Nat : InFrames(v, {"out", "dump", "replay"}, m) <=> InFrames(w, {"out", "dump", "replay"}, m)
    BY <1>3, <1>4
  <2>2. \A m \in Nat : (Afloat(c, m)' <=> Afloat(c, m)) /\ (There(c, m)' <=> There(c, m))
    BY <2>1 DEF Afloat, There, OnScreen, v, w
  <2>3. \A i \in DOMAIN v : v[i].cmd = "replay" => i \in DOMAIN w /\ v[i] = w[i]
    BY <1>8
  <2>4. /\ x.at \in {"dialing", "claiming", "dumping"} => x.screen = <<>>
        /\ x.at = "replaying" => x.screen = x.seed.screen
    BY <1>1, <1>5 DEF Kept, NothingMissing
  <2>5. x.at \in {"dialing", "claiming", "dumping", "replaying"} =>
          \A m \in Nat, k \in 1 .. holder.written : Afloat(c, m)' /\ m <= k => Afloat(c, k)'
    BY <1>1, <1>5, <2>2 DEF Kept, NothingMissing
  <2>6. ASSUME x.at = "replaying", NEW i \in DOMAIN v, v[i].cmd = "replay", ~v[i].gap,
               NEW k \in 1 .. holder.written, x.seed.offset < k
        PROVE  Afloat(c, k)'
    <3>1. i \in DOMAIN w /\ w[i].cmd = "replay" /\ ~w[i].gap
      BY <2>3, <2>6
    <3>2. Afloat(c, k)
      BY <1>1, <1>5, <2>6, <3>1 DEF Kept, NothingMissing, w
    <3>3. QED
      BY <1>1, <2>2, <3>2
  <2>7. x.at \in Rebuilt /\ x.exit = "none" /\ ~x.gap /\ Whole(x.seed.screen, x.seed.offset) =>
          \A m \in 1 .. holder.written : There(c, m)' \/ \A k \in Nat : There(c, k)' => m < k
    BY <1>1, <1>5, <2>2 DEF Kept, NothingMissing
  <2>8. QED
    BY <1>2, <1>5, <2>4, <2>5, <2>6, <2>7 DEF NothingMissing, v
<1>14. FramesAreTrue(c)'
  <2>1. \A i \in DOMAIN w : w[i].to <= holder.written
    BY <1>1 DEF Kept, FramesAreTrue, w
  <2>2. \A i \in DOMAIN v : v[i].to <= holder.written
    BY <1>1, <1>8, <2>1, SMTT(30)
  <2>3. QED
    BY <1>2, <2>2 DEF FramesAreTrue, v
<1>15. OffsetInStep(c)' /\ FollowsInStep(c)'
  <2> SUFFICES ASSUME Undisturbed PROVE OffsetInStep(c)' /\ FollowsInStep(c)'
    BY DEF OffsetInStep, FollowsInStep, Undisturbed
  <2>1. Comes(v, {"out"}) <=> Comes(w, {"out"})
    BY <1>3, <1>4
  <2>2. Even(x.seed)' <=> Even(x.seed)
    BY <1>2 DEF Even
  <2>3. OffsetInStep(c)'
    <3>1. /\ x.at \in Handshake => ~Comes(w, {"out"}) /\ ~Comes(x.buffered, {"out"})
          /\ x.at = "dialing" => \A i \in DOMAIN w : w[i].cmd = "state" => w[i].to = holder.written
          /\ x.at \in {"claiming", "dumping"} => x.applied = holder.written
          /\ \A i \in DOMAIN w : w[i].cmd = "replay" => w[i].to = holder.written
          /\ Even(x.seed)
      BY <1>1, <1>5 DEF Kept, OffsetInStep, w
    <3>2. /\ \A i \in DOMAIN w : w[i].cmd = "dump" => w[i].to = x.applied /\ w[i].from <= w[i].to
          /\ \A i \in DOMAIN w : w[i].cmd = "replay" =>
               w[i].from <= w[i].to /\ (~w[i].gap => w[i].from = x.seed.offset)
      BY <1>1 DEF Kept, OffsetInStep, w
    <3>3. \A i \in DOMAIN v : v[i].cmd \in {"state", "dump", "replay"} => i \in DOMAIN w /\ v[i] = w[i]
      BY <1>8
    <3>4. /\ \A i \in DOMAIN v : v[i].cmd = "dump" => v[i].to = x.applied /\ v[i].from <= v[i].to
          /\ \A i \in DOMAIN v : v[i].cmd = "replay" =>
               v[i].from <= v[i].to /\ (~v[i].gap => v[i].from = x.seed.offset)
      BY <3>2, <3>3
    <3>5. /\ x.at = "dialing" => \A i \in DOMAIN v : v[i].cmd = "state" => v[i].to = holder.written
          /\ \A i \in DOMAIN v : v[i].cmd = "replay" => v[i].to = holder.written
      BY <3>1, <3>3
    <3>6. QED
      BY <1>2, <1>5, <2>1, <2>2, <3>1, <3>4, <3>5 DEF OffsetInStep, v
  <2>4. FollowsInStep(c)'
    BY <1>1, <1>2, <1>5, <1>8 DEF Kept, FollowsInStep, v, w
  <2>5. QED
    BY <2>3, <2>4
<1>16. QED
  BY <1>9, <1>10, <1>12, <1>13, <1>14, <1>15 DEF Kept

LEMMA PtyExitsKeeps == ASSUME LinkInv, PtyExits PROVE LinkInv'
<1> DEFINE say == To(holder.client, <<Say("exit")>>)
<1>1. /\ session' = session /\ disturbed' = disturbed /\ disk' = disk /\ Tell(say)
      /\ holder' = [holder EXCEPT !.alive = FALSE]
  BY DEF PtyExits
<1>2. LinkTypes /\ holder \in Holders /\ holder.written \in Nat /\ None \notin Conns
  BY LinkAssumption DEF LinkInv, LinkTypes, Holders
<1>3. /\ holder' \in Holders /\ holder'.backlog = holder.backlog /\ holder'.written = holder.written
      /\ ~holder'.alive /\ holder'.pending = holder.pending /\ holder'.client = holder.client
      /\ holder.written <= holder'.written /\ disturbed \subseteq disturbed'
  <2>1. FALSE \in Truths
    BY DEF Truths
  <2>2. holder' \in Holders
    BY <1>1, <1>2, <2>1 DEF Holders
  <2>3. QED
    BY <1>1, <1>2, <2>2 DEF Holders
<1>4. /\ toServer' \in [Conns -> Seq(Frames)]
      /\ \A d \in Conns : d = holder.client => toServer'[d] = IF Deaf(d) THEN toServer[d] ELSE toServer[d] \o <<Say("exit")>>
      /\ \A d \in Conns : d # holder.client => toServer'[d] = toServer[d]
  <2>1. \A d \in Conns : say[d] = IF d = holder.client THEN <<Say("exit")>> ELSE <<>>
    BY DEF To
  <2>2. \A d \in Conns : say[d] \in Seq(Frames)
    BY <2>1, ListsTyped
  <2> HIDE DEF say
  <2>3. /\ toServer' \in [Conns -> Seq(Frames)]
        /\ \A d \in Conns : toServer'[d] = IF Deaf(d) THEN toServer[d] ELSE toServer[d] \o say[d]
        /\ \A d \in Conns : say[d] = <<>> => toServer'[d] = toServer[d]
    BY <1>1, <1>2, <2>2, Told
  <2>4. QED
    BY <2>1, <2>3
<1>5. \/ toHolder' = toHolder
      \/ \E c \in Conns : /\ holder.client = c /\ toHolder[c] # <<>> /\ Head(toHolder[c]).cmd = "kill"
                          /\ toHolder' = [toHolder EXCEPT ![c] = Tail(@)]
  BY DEF PtyExits
<1>6. toHolder' \in [Conns -> Seq(Asks)] /\ \A d \in Conns : d # holder.client => toHolder'[d] = toHolder[d]
  <2>1. CASE toHolder' = toHolder
    BY <1>2, <2>1 DEF LinkTypes
  <2>2. CASE toHolder' # toHolder
    <3>1. PICK c \in Conns : /\ holder.client = c /\ toHolder[c] # <<>>
                             /\ toHolder' = [toHolder EXCEPT ![c] = Tail(@)]
      BY <1>5, <2>2
    <3>2. Tail(toHolder[c]) \in Seq(Asks)
      BY <1>2, <3>1, Asked
    <3>3. QED
      BY <1>2, <3>1, <3>2 DEF LinkTypes
  <2>3. QED
    BY <2>1, <2>2
<1>7. ASSUME NEW d \in Conns PROVE Kept(d)'
  <2>1. CASE d = holder.client
    <3>1. session'[d] = session[d] /\ Connected(d) /\ Connected(d)'
      BY <1>1, <1>3, <2>1 DEF Connected
    <3>2. \/ toHolder'[d] = toHolder[d]
          \/ toHolder[d] # <<>> /\ Head(toHolder[d]).cmd = "kill" /\ toHolder'[d] = Tail(toHolder[d])
      BY <1>2, <1>5, <2>1 DEF LinkTypes
    <3>3. (Comes(toHolder'[d], {"close"}) => Comes(toHolder[d], {"close"})) /\ (toHolder'[d] # <<>> => toHolder[d] # <<>>)
      <4>1. CASE toHolder'[d] = toHolder[d]
        BY <4>1
      <4>2. CASE toHolder'[d] # toHolder[d]
        BY <1>2, <3>2, <4>2, Asked
      <4>3. QED
        BY <4>1, <4>2
    <3>4. Kept(d)
      BY DEF LinkInv
    <3>5. CASE Deaf(d)
      <4>1. Comes(toHolder'[d], {"close"}) => At(d, {"gone"})
        BY <3>3, <3>4 DEF Kept, AsksInTurn
      <4>2. toServer'[d] = toServer[d]
        BY <1>4, <2>1, <3>5
      <4>3. QED
        BY <1>3, <3>1, <3>3, <3>5, <4>1, <4>2, DeafStays
    <3>6. CASE ~Deaf(d)
      <4>1. toHolder'[d] = toHolder[d]
        <5> SUFFICES ASSUME toHolder[d] # <<>>, Head(toHolder[d]).cmd = "kill" PROVE FALSE
          BY <3>2
        <5>1. Head(toHolder[d]) = toHolder[d][1]
          BY <1>2, Asked
        <5>2. ~At(d, {"gone"})
          BY <3>6 DEF Deaf, At
        <5>3. At(d, {"claiming"}) \/ At(d, {"dumping"}) \/ At(d, {"replaying"})
          <6>1. At(d, {"claiming", "dumping", "replaying", "gone"})
            BY <3>4 DEF Kept, AsksInTurn
          <6>2. QED
            BY <5>2, <6>1 DEF At
        <5>4. QED
          BY <3>4, <5>1, <5>3 DEF Kept, AsksInTurn
      <4>2. toServer'[d] = toServer[d] \o <<Say("exit")>>
        BY <1>4, <2>1, <3>6
      <4>3. QED
        BY <1>1, <2>1, <3>1, <3>6, <4>1, <4>2, ToldOfEnd
    <3>7. QED
      BY <3>5, <3>6
  <2>2. CASE d # holder.client
    <3>1. toServer'[d] = toServer[d] /\ toHolder'[d] = toHolder[d] /\ session'[d] = session[d]
      BY <1>1, <1>4, <1>6, <2>2
    <3>2. QED
      BY <1>3, <3>1, Bystander
  <2>3. QED
    BY <2>1, <2>2
<1>8. LinkTypes' /\ RolesApart'
  BY <1>1, <1>2, <1>3, <1>4, <1>6 DEF LinkTypes, LinkInv, RolesApart
<1>9. (Calm' => disk'.manifest) /\ (Undisturbed' => Even(disk.checkpoint)')
  BY <1>1, <1>3 DEF LinkInv, Calm, Undisturbed, Even
<1>10. QED
  BY <1>7, <1>8, <1>9 DEF LinkInv

(* The controller is sent the next chunk.                                                         *)
LEMMA FedKeeps ==
  ASSUME LinkInv, NEW c \in Conns, holder.client = c, ~Deaf(c), session'[c] = session[c], toHolder'[c] = toHolder[c],
         NEW n, n = holder.written + 1, toServer'[c] = toServer[c] \o <<[Say("out") EXCEPT !.from = n - 1, !.to = n]>>,
         holder' \in Holders, holder'.written = n, holder'.alive, holder.alive, holder'.client = c,
         holder'.pending = holder.pending, holder'.backlog = holder.backlog,
         disturbed \subseteq disturbed', At(c, Handshake) => ~Undisturbed'
  PROVE  Kept(c)'
<1> DEFINE w == toServer[c]
           v == toServer'[c]
           x == session[c]
           f == [Say("out") EXCEPT !.from = n - 1, !.to = n]
<1>1. /\ Kept(c) /\ LinkTypes /\ x \in Records /\ w \in Seq(Frames) /\ RolesApart /\ holder.written \in Nat
      /\ None \notin Conns /\ holder \in Holders /\ n \in Nat /\ n - 1 = holder.written
  <2>1. /\ Kept(c) /\ LinkTypes /\ x \in Records /\ w \in Seq(Frames) /\ RolesApart /\ holder.written \in Nat
        /\ None \notin Conns /\ holder \in Holders
    BY LinkAssumption DEF LinkInv, LinkTypes, Holders
  <2>2. n \in Nat /\ n - 1 = holder.written
    BY <2>1
  <2>3. QED
    BY <2>1, <2>2
<1>2. c \notin holder.backlog /\ holder.pending # c /\ holder'.pending # c /\ c \notin holder'.backlog
  BY <1>1 DEF RolesApart, Holders
<1>3. f \in Frames /\ f.cmd = "out" /\ f.from = holder.written /\ f.to = n
  BY <1>1, SaysTyped DEF Say
<1>4. /\ v \in Seq(Frames) /\ Len(v) = Len(w) + 1 /\ DOMAIN v = 1 .. Len(w) + 1 /\ v[Len(w) + 1] = f
      /\ Len(w) \in Nat /\ DOMAIN w = 1 .. Len(w) /\ \A i \in 1 .. Len(w) : v[i] = w[i]
      /\ \A s : Comes(v, s) <=> f.cmd \in s \/ Comes(w, s)
      /\ \A s : \A m \in Nat : InFrames(v, s, m) <=> (f.cmd \in s /\ f.from < m /\ m <= f.to) \/ InFrames(w, s, m)
  <2>1. w \in Seq(Frames) /\ v = w \o <<f>> /\ f \in Frames
    BY <1>1, <1>3
  <2> HIDE DEF w, v, f
  <2>2. /\ v \in Seq(Frames) /\ Len(v) = Len(w) + 1 /\ DOMAIN v = 1 .. Len(w) + 1 /\ v[Len(w) + 1] = f
        /\ Len(w) \in Nat /\ DOMAIN w = 1 .. Len(w) /\ \A i \in 1 .. Len(w) : v[i] = w[i]
    BY <2>1, Gained
  <2>3. ASSUME NEW s PROVE Comes(v, s) <=> f.cmd \in s \/ Comes(w, s)
    BY <2>1, Gained
  <2>4. ASSUME NEW s, NEW m \in Nat
        PROVE  InFrames(v, s, m) <=> (f.cmd \in s /\ f.from < m /\ m <= f.to) \/ InFrames(w, s, m)
    <3>1. \A i \in DOMAIN v : i \in DOMAIN w \/ i = Len(w) + 1
      BY <2>2
    <3>2. DOMAIN w \subseteq DOMAIN v /\ Len(w) + 1 \in DOMAIN v
      BY <2>2
    <3>3. QED
      BY <2>2, <3>1, <3>2, Zenon DEF InFrames
  <2>5. QED
    BY <2>2, <2>3, <2>4
<1> HIDE DEF w, v, f
<1>5. (\A s : At(c, s) <=> x.at \in s) /\ (\A s : At(c, s)' <=> x.at \in s) /\ x.at \notin {"new", "gone", "failed", "denied"}
  <2>1. Connected(c)
    BY DEF Connected
  <2>2. ~At(c, {"new"})
    BY <1>1, <2>1 DEF Kept, InItsRole
  <2>3. QED
    BY <2>2 DEF Deaf, At
<1>6. Connected(c) /\ Connected(c)' /\ \A i \in DOMAIN v : i = Len(w) + 1 \/ i \in DOMAIN w
  BY <1>2, <1>4 DEF Connected
<1>7. ~Comes(w, {"close", "evicted"}) /\ ~Comes(v, {"close", "evicted"})
  BY <1>1, <1>3, <1>4, <1>6 DEF Kept, AnswersInTurn, w
<1>8. \A i \in DOMAIN v : (i \in DOMAIN w /\ v[i] = w[i]) \/ (i = Len(w) + 1 /\ v[i].cmd = "out" /\ v[i].from = n - 1 /\ v[i].to = n)
  BY <1>1, <1>3, <1>4, <1>6
<1>9. InItsRole(c)' /\ AsksInTurn(c)'
  <2>1. InItsRole(c)'
    BY <1>2, <1>5 DEF InItsRole
  <2>2. AsksInTurn(c)'
    BY <1>1, <1>5, <1>6 DEF Kept, AsksInTurn
  <2>3. QED
    BY <2>1, <2>2
<1>10. AnswersInTurn(c)'
  <2>1. \A i \in DOMAIN v : v[i].cmd # "close"
    BY <1>7 DEF Comes
  <2>2. \A i \in DOMAIN v : v[i].cmd \in Answers => i \in DOMAIN w /\ v[i] = w[i]
    BY <1>8 DEF Answers
  <2>3. /\ \A i \in DOMAIN w : w[i].cmd \in Answers => x.at = StageFor(w[i].cmd) /\ toHolder[c] = <<>>
        /\ \A i, j \in DOMAIN w : w[i].cmd \in Answers /\ w[j].cmd \in Answers => i = j
    BY <1>1 DEF Kept, AnswersInTurn, w
  <2>4. QED
    BY <1>7, <2>1, <2>2, <2>3 DEF AnswersInTurn, v
<1>11. x.exit # "lost"
  BY <1>1, <1>6 DEF Kept, KeptInTurn
<1>12. KeptInTurn(c)' /\ EndsWithReason(c)'
  <2>1. KeptInTurn(c)'
    BY <1>1, <1>5, <1>11 DEF Kept, KeptInTurn, Rebuilt
  <2>2. ~Comes(v, {"close"})
    BY <1>7 DEF Comes
  <2>3. EndsWithReason(c)'
    BY <1>11, <2>2 DEF EndsWithReason, v
  <2>4. QED
    BY <2>1, <2>3
<1>13. AnswerIsComing(c)'
  <2>1. Calm' => Calm
    BY DEF Calm
  <2>2. \A s : Comes(w, s) => Comes(v, s)
    BY <1>4
  <2>3. Calm => /\ x.at # "dialing"
                /\ x.at = "claiming" => Comes(w, {"acquired"}) \/ Comes(w, {"denied"})
                /\ x.at \in {"dumping", "replaying"} => toHolder[c] # <<>> \/ Comes(w, {"dump", "replay"})
    BY <1>1, <1>2, <1>5 DEF Kept, AnswerIsComing, w
  <2>4. QED
    BY <1>5, <2>1, <2>2, <2>3 DEF AnswerIsComing, v
<1>14. NothingMissing(c)'
  <2>1. \A m \in Nat : InFrames(v, {"out", "dump", "replay"}, m) <=> m = n \/ InFrames(w, {"out", "dump", "replay"}, m)
    <3>1. \A m \in Nat : f.from < m /\ m <= f.to <=> m = n
      BY <1>1, <1>3
    <3>2. \A m \in Nat : InFrames(v, {"out", "dump", "replay"}, m)
                             <=> (f.from < m /\ m <= f.to) \/ InFrames(w, {"out", "dump", "replay"}, m)
      BY <1>3, <1>4
    <3>3. QED
      BY <3>1, <3>2
  <2>2. \A m \in Nat : Afloat(c, m)' <=> m = n \/ Afloat(c, m)
    BY <2>1 DEF Afloat, v, w
  <2>3. \A m \in Nat : There(c, m)' <=> m = n \/ There(c, m)
    BY <2>2 DEF There, OnScreen
  <2>4. \A k \in 1 .. n : k \in Nat /\ (k = n \/ k \in 1 .. holder.written) /\ k <= n
    BY <1>1
  <2>5. \A i \in DOMAIN v : v[i].cmd = "replay" => i \in DOMAIN w /\ v[i] = w[i]
    BY <1>8
  <2>6. /\ x.at \in {"dialing", "claiming", "dumping"} => x.screen = <<>>
        /\ x.at = "replaying" => x.screen = x.seed.screen
    BY <1>1, <1>5 DEF Kept, NothingMissing
  <2>7. ASSUME x.at \in {"dialing", "claiming", "dumping", "replaying"},
               NEW m \in Nat, NEW k \in 1 .. n, Afloat(c, m)', m <= k
        PROVE  Afloat(c, k)'
    <3>1. CASE k = n
      BY <1>1, <2>2, <3>1
    <3>2. CASE k # n
      <4>1. k \in 1 .. holder.written /\ m # n /\ k \in Nat
        BY <1>1, <2>4, <2>7, <3>2
      <4>2. Afloat(c, k)
        BY <1>1, <1>5, <2>2, <2>7, <4>1 DEF Kept, NothingMissing
      <4>3. QED
        BY <2>2, <4>1, <4>2
    <3>3. QED
      BY <3>1, <3>2
  <2>8. ASSUME x.at = "replaying", NEW i \in DOMAIN v, v[i].cmd = "replay", ~v[i].gap, NEW k \in 1 .. n, x.seed.offset < k
        PROVE  Afloat(c, k)'
    <3>1. i \in DOMAIN w /\ w[i].cmd = "replay" /\ ~w[i].gap
      BY <2>5, <2>8
    <3>2. k = n \/ Afloat(c, k)
      BY <1>1, <1>5, <2>4, <2>8, <3>1 DEF Kept, NothingMissing, w
    <3>3. QED
      BY <2>2, <2>4, <3>2
  <2>9. ASSUME x.at \in Rebuilt, x.exit = "none", ~x.gap, Whole(x.seed.screen, x.seed.offset), NEW m \in 1 .. n
        PROVE  There(c, m)' \/ \A k \in Nat : There(c, k)' => m < k
    <3>1. CASE m = n
      BY <2>3, <2>4, <3>1
    <3>2. CASE m # n
      <4>1. m \in 1 .. holder.written /\ m < n
        BY <1>1, <2>4, <3>2
      <4>2. There(c, m) \/ \A k \in Nat : There(c, k) => m < k
        BY <1>1, <1>5, <2>9, <4>1 DEF Kept, NothingMissing
      <4>3. QED
        BY <2>3, <2>4, <4>1, <4>2
    <3>3. QED
      BY <3>1, <3>2
  <2>10. QED
    BY <1>2, <1>5, <2>6, <2>7, <2>8, <2>9 DEF NothingMissing, v
<1>15. FramesAreTrue(c)'
  <2>1. \A i \in DOMAIN w : w[i].to <= holder.written /\ w[i].to \in Nat
    <3>1. \A i \in DOMAIN w : w[i] \in Frames
      BY <1>1, <1>4
    <3>2. QED
      BY <1>1, <3>1 DEF Kept, FramesAreTrue, w, Frames
  <2>2. \A i \in DOMAIN v : v[i].to <= n
    BY <1>1, <1>8, <2>1, SMTT(30)
  <2>3. Comes(v, {"exit"}) \/ Comes(x.buffered, {"exit"}) \/ x.exit = "ended" => ~holder.alive
    BY <1>1, <1>3, <1>4 DEF Kept, FramesAreTrue, w
  <2>4. QED
    BY <2>2, <2>3 DEF FramesAreTrue, v
<1>16. OffsetInStep(c)' /\ FollowsInStep(c)'
  <2> SUFFICES ASSUME Undisturbed' PROVE OffsetInStep(c)' /\ FollowsInStep(c)'
    BY DEF OffsetInStep, FollowsInStep
  <2>1. Undisturbed /\ x.at = "driving"
    <3>1. x.at \in Stages /\ x.at \notin Handshake
      BY <1>1, <1>5 DEF Records
    <3>2. QED
      BY <1>5, <3>1 DEF Undisturbed, Stages, Handshake
  <2>2. \A i \in DOMAIN v : v[i].cmd \notin {"state", "dump", "replay"}
    <3>1. \A i \in DOMAIN w : w[i].cmd \notin Answers
      BY <1>1, <2>1 DEF Kept, AnswersInTurn, StageFor, Answers, w
    <3>2. QED
      BY <1>8, <3>1 DEF Answers
  <2>3. Even(x.seed)'
    <3>1. Even(x.seed) /\ x.seed.offset \in Nat
      BY <1>1, <2>1 DEF Kept, OffsetInStep, Records, Points
    <3>2. QED
      BY <1>1, <3>1 DEF Even
  <2>4. OffsetInStep(c)'
    BY <1>5, <2>1, <2>2, <2>3 DEF OffsetInStep, Handshake, v
  <2>5. x.exit = "none" =>
          /\ ~x.gap => Exact(x)
          /\ x.applied \in Nat /\ holder.written = x.applied + Len(w)
          /\ \A i \in DOMAIN w : w[i].cmd = "out" => w[i].from = x.applied + i - 1 /\ w[i].to = x.applied + i
    BY <1>1, <1>5, <2>1 DEF Kept, FollowsInStep, Rebuilt, Records, w
  <2>6. x.exit = "none" =>
          /\ x.applied <= n /\ n = x.applied + Len(v)
          /\ \A i \in DOMAIN v : v[i].cmd = "out" => v[i].from = x.applied + i - 1 /\ v[i].to = x.applied + i
    <3> HIDE DEF x
    <3> SUFFICES ASSUME x.exit = "none"
                 PROVE  /\ x.applied <= n /\ n = x.applied + Len(v)
                        /\ \A i \in DOMAIN v : v[i].cmd = "out" => v[i].from = x.applied + i - 1 /\ v[i].to = x.applied + i
      OBVIOUS
    <3>1. x.applied \in Nat /\ Len(w) \in Nat /\ n = x.applied + Len(w) + 1
      BY <1>4, <2>5
    <3>2. x.applied <= n /\ n = x.applied + Len(v)
      <4>1. Len(v) = Len(w) + 1
        BY <1>4
      <4> DEFINE a == x.applied
                 b == Len(w)
                 e == Len(v)
      <4>2. a \in Nat /\ b \in Nat /\ n = a + b + 1 /\ e = b + 1
        BY <3>1, <4>1
      <4> HIDE DEF a, b, e
      <4>3. a <= n /\ n = a + e
        BY <4>2, SMT
      <4>4. QED
        BY <4>3 DEF a, e
    <3>3. ASSUME NEW i \in DOMAIN v, v[i].cmd = "out" PROVE v[i].from = x.applied + i - 1 /\ v[i].to = x.applied + i
      <4>1. CASE i \in DOMAIN w /\ v[i] = w[i]
        BY <2>5, <3>3, <4>1
      <4>2. CASE i = Len(w) + 1 /\ v[i].from = n - 1 /\ v[i].to = n
        BY <3>1, <4>2, SMTT(30)
      <4>3. QED
        BY <1>8, <4>1, <4>2
    <3>4. QED
      BY <3>2, <3>3
  <2>7. FollowsInStep(c)'
    BY <2>5, <2>6 DEF FollowsInStep, v
  <2>8. QED
    BY <2>4, <2>7
<1>17. QED
  BY <1>9, <1>10, <1>12, <1>13, <1>14, <1>15, <1>16 DEF Kept

LEMMA OutputKeeps == ASSUME LinkInv, Output PROVE LinkInv'
<1> DEFINE c == holder.client
           n == holder.written + 1
           drops == c # None /\ Ask("close") \in ToSet(toHolder[c])
           f == [Say("out") EXCEPT !.from = n - 1, !.to = n]
           say == To(c, <<f>>)
<1>1. /\ session' = session /\ disk' = disk /\ Tell(say) /\ holder.alive
      /\ holder' = [holder EXCEPT !.written = n, !.client = IF drops THEN None ELSE c]
      /\ toHolder' = [d \in Conns |-> IF drops /\ d = c THEN <<>> ELSE toHolder[d]]
      /\ disturbed' = disturbed \cup (IF holder.pending # None \/ (c # None /\ At(c, Handshake)) THEN {"handshake"} ELSE {})
  BY DEF Output
<1>2. LinkTypes /\ holder \in Holders /\ holder.written \in Nat /\ None \notin Conns /\ RolesApart
  BY LinkAssumption DEF LinkInv, LinkTypes, Holders
<1>3. f \in Frames /\ n \in Nat
  <2>1. n \in Nat /\ n - 1 \in Nat
    BY <1>2
  <2> HIDE DEF n
  <2>2. QED
    BY <2>1, SaysTyped
<1> HIDE DEF drops, f
<1>4. /\ holder' \in Holders /\ holder'.backlog = holder.backlog /\ holder'.written = n /\ holder'.alive = holder.alive
      /\ holder'.pending = holder.pending /\ holder'.client = IF drops THEN None ELSE c
  BY <1>1, <1>2, <1>3 DEF Holders
<1>5. holder.written <= holder'.written /\ disturbed \subseteq disturbed' /\ holder'.alive /\ holder.alive
  BY <1>1, <1>2, <1>4
<1>6. /\ toServer' \in [Conns -> Seq(Frames)]
      /\ \A d \in Conns : d = c => toServer'[d] = IF Deaf(d) THEN toServer[d] ELSE toServer[d] \o <<f>>
      /\ \A d \in Conns : d # c => toServer'[d] = toServer[d]
  <2>1. \A d \in Conns : say[d] = IF d = c THEN <<f>> ELSE <<>>
    BY DEF To
  <2>2. \A d \in Conns : say[d] \in Seq(Frames)
    BY <1>3, <2>1, ListsTyped
  <2> HIDE DEF say
  <2>3. /\ toServer' \in [Conns -> Seq(Frames)]
        /\ \A d \in Conns : toServer'[d] = IF Deaf(d) THEN toServer[d] ELSE toServer[d] \o say[d]
        /\ \A d \in Conns : say[d] = <<>> => toServer'[d] = toServer[d]
    BY <1>1, <1>2, <2>2, Told
  <2>4. QED
    BY <2>1, <2>3
<1>7. LinkTypes' /\ \A d \in Conns : toHolder'[d] = IF drops /\ d = c THEN <<>> ELSE toHolder[d]
  <2>1. <<>> \in Seq(Asks)
    OBVIOUS
  <2>2. QED
    BY <1>1, <1>2, <1>4, <1>6, <2>1 DEF LinkTypes
<1>8. ASSUME NEW d \in Conns, d = c PROVE Kept(d)'
  <2>1. session'[d] = session[d] /\ Connected(d) /\ d \notin holder.backlog /\ holder.pending # d
    BY <1>1, <1>2, <1>8 DEF Connected, RolesApart
  <2>2. Kept(d)
    BY DEF LinkInv
  <2>3. CASE drops
    <3>1. Deaf(d)
      <4>1. Ask("close") \in ToSet(toHolder[d]) /\ Ask("close").cmd = "close"
        BY <1>8, <2>3 DEF drops, Ask
      <4>2. Comes(toHolder[d], {"close"})
        BY <4>1 DEF ToSet, Comes
      <4>3. QED
        BY <2>2, <4>2 DEF Kept, AsksInTurn, Deaf, At
    <3>2. ~Connected(d)'
      BY <1>2, <1>4, <2>1, <2>3 DEF Connected
    <3>3. toServer'[d] = toServer[d] /\ toHolder'[d] = <<>>
      BY <1>6, <1>7, <1>8, <2>3, <3>1
    <3>4. QED
      BY <1>4, <1>5, <2>1, <3>1, <3>2, <3>3, DeafDropped
  <2>4. CASE ~drops
    <3>1. toHolder'[d] = toHolder[d] /\ Connected(d)' /\ holder'.client = holder.client
      BY <1>4, <1>7, <1>8, <2>4 DEF Connected
    <3>2. CASE Deaf(d)
      <4>1. toServer'[d] = toServer[d]
        BY <1>6, <1>8, <3>2
      <4>2. Comes(toHolder'[d], {"close"}) => At(d, {"gone"})
        BY <2>2, <3>1 DEF Kept, AsksInTurn
      <4>3. QED
        BY <1>4, <1>5, <2>1, <3>1, <3>2, <4>1, <4>2, DeafStays
    <3>3. CASE ~Deaf(d)
      <4>1. toServer'[d] = toServer[d] \o <<[Say("out") EXCEPT !.from = n - 1, !.to = n]>>
        BY <1>6, <1>8, <3>3 DEF f
      <4>2. At(d, Handshake) => ~Undisturbed'
        BY <1>1, <1>2, <1>8 DEF Undisturbed
      <4>3. holder.client = d /\ holder'.client = d
        BY <1>8, <3>1
      <4> HIDE DEF n
      <4>4. n = holder.written + 1
        BY DEF n
      <4>5. QED
        BY <1>4, <1>5, <2>1, <3>1, <3>3, <4>1, <4>2, <4>3, <4>4, FedKeeps
    <3>4. QED
      BY <3>2, <3>3
  <2>5. QED
    BY <2>3, <2>4
<1>9. ASSUME NEW d \in Conns, d # c PROVE Kept(d)'
  <2>1. toServer'[d] = toServer[d] /\ toHolder'[d] = toHolder[d] /\ session'[d] = session[d]
    BY <1>1, <1>6, <1>7, <1>9
  <2>2. /\ (holder'.client = d <=> holder.client = d) /\ (holder'.pending = d <=> holder.pending = d)
        /\ (d \in holder'.backlog <=> d \in holder.backlog)
    BY <1>2, <1>4, <1>9
  <2>3. holder.client # d /\ (holder.pending # d \/ ~Undisturbed')
    BY <1>1, <1>2, <1>9 DEF Undisturbed
  <2>4. QED
    BY <1>4, <1>5, <2>1, <2>2, <2>3, Bystander
<1>10. RolesApart'
  <2>1. None \notin holder.backlog
    BY <1>2 DEF Holders
  <2>2. QED
    BY <1>2, <1>4, <2>1 DEF RolesApart
<1>11. (Calm' => disk'.manifest) /\ (Undisturbed' => Even(disk.checkpoint)')
  <2>1. (Calm' => Calm) /\ (Undisturbed' => Undisturbed)
    BY <1>1, <1>4 DEF Calm, Undisturbed
  <2>2. disk.checkpoint.offset \in Nat
    BY <1>2 DEF LinkTypes, Points
  <2>3. Even(disk.checkpoint) => Even(disk.checkpoint)'
    BY <1>1, <1>2, <1>4, <2>2 DEF Even
  <2>4. QED
    BY <1>1, <2>1, <2>3 DEF LinkInv
<1>12. QED
  BY <1>7, <1>8, <1>9, <1>10, <1>11 DEF LinkInv

-----------------------------------------------------------------------------
(* The invariant holds from the start, and every step keeps it.                                      *)
LEMMA LinkStarts == Init => LinkInv
<1> SUFFICES ASSUME Init PROVE LinkInv
  OBVIOUS
<1>1. /\ holder = [client |-> None, pending |-> None, backlog |-> {}, written |-> 0, alive |-> TRUE, up |-> TRUE]
      /\ toHolder = [c \in Conns |-> <<>>] /\ toServer = [c \in Conns |-> <<>>]
      /\ session = [c \in Conns |-> NewSession]
      /\ disk = [manifest |-> TRUE, checkpoint |-> NoCheckpoint] /\ disturbed = {} /\ None \notin Conns
  BY LinkAssumption DEF Init
<1>2. <<>> \in Seq(Asks) /\ <<>> \in Seq(Frames) /\ TRUE \in Truths
  BY DEF Truths
<1>3. holder \in Holders
  BY <1>1, <1>2 DEF Holders
<1>4. disk \in [manifest : Truths, checkpoint : Points]
  BY <1>1, <1>2, NewSessionTyped
<1>5. LinkTypes
  BY <1>1, <1>2, <1>3, <1>4, NewSessionTyped DEF LinkTypes
<1>6. /\ NewSession.at = "new" /\ NewSession.exit = "none" /\ NewSession.screen = <<>> /\ NewSession.queue = <<>>
      /\ NewSession.buffered = <<>> /\ NewSession.seed = NoCheckpoint
  BY DEF NewSession
<1>7. Even(NoCheckpoint)
  BY <1>1 DEF Even, NoCheckpoint, Run
<1>8. ASSUME NEW c \in Conns PROVE Kept(c)
  <2> DEFINE x == session[c]
             wire == toServer[c]
             asks == toHolder[c]
  <2>1. x.at = "new" /\ x.exit = "none" /\ x.screen = <<>> /\ x.queue = <<>> /\ x.buffered = <<>> /\ Even(x.seed)
    BY <1>1, <1>6, <1>7
  <2>2. wire = <<>> /\ asks = <<>> /\ ~Connected(c)
    BY <1>1 DEF Connected
  <2>3. (\A s : At(c, s) <=> "new" \in s) /\ holder.pending # c /\ holder.client # c /\ c \notin holder.backlog
    BY <1>1, <2>1 DEF At
  <2> HIDE DEF x, wire, asks
  <2>4. DOMAIN wire = {} /\ Len(asks) = 0 /\ DOMAIN asks = {} /\ DOMAIN x.buffered = {} /\ DOMAIN x.queue = {}
    BY <2>1, <2>2
  <2>5. InItsRole(c) /\ AsksInTurn(c)
    BY <2>1, <2>2, <2>3, <2>4 DEF InItsRole, AsksInTurn, Comes, x, wire, asks
  <2>6. AnswersInTurn(c) /\ KeptInTurn(c)
    BY <2>1, <2>2, <2>3, <2>4 DEF AnswersInTurn, KeptInTurn, Comes, x, wire, asks
  <2>7. EndsWithReason(c) /\ AnswerIsComing(c)
    BY <2>1, <2>2, <2>3, <2>4 DEF EndsWithReason, AnswerIsComing, Comes, Rebuilt, x, wire, asks
  <2>8. NothingMissing(c)
    <3>1. \A m : ~Afloat(c, m)
      BY <2>4 DEF Afloat, InFrames, InQueue, x, wire
    <3>2. QED
      BY <2>1, <2>3, <3>1 DEF NothingMissing, Rebuilt, x
  <2>9. FramesAreTrue(c)
    BY <2>1, <2>4 DEF FramesAreTrue, Comes, x, wire
  <2>10. OffsetInStep(c) /\ FollowsInStep(c)
    BY <2>1, <2>3, <2>4 DEF OffsetInStep, FollowsInStep, Comes, Handshake, Rebuilt, x, wire
  <2>11. QED
    BY <2>5, <2>6, <2>7, <2>8, <2>9, <2>10 DEF Kept
<1>9. RolesApart
  BY <1>1 DEF RolesApart
<1>10. QED
  BY <1>1, <1>5, <1>7, <1>8, <1>9 DEF LinkInv

LEMMA StutterKeeps == ASSUME LinkInv, UNCHANGED vars PROVE LinkInv'
<1>1. /\ holder' = holder /\ toHolder' = toHolder /\ toServer' = toServer /\ session' = session /\ disk' = disk
      /\ disturbed' = disturbed
  BY DEF vars
<1>2. LinkTypes'
  BY <1>1 DEF LinkInv, LinkTypes
<1>3. holder' \in Holders /\ disturbed \subseteq disturbed' /\ holder.written <= holder'.written
  BY <1>1 DEF LinkInv, LinkTypes, Holders
<1>4. ASSUME NEW d \in Conns PROVE Kept(d)'
  BY <1>1, <1>3, Bystander
<1>5. RolesApart' /\ (Calm' => disk'.manifest) /\ (Undisturbed' => Even(disk.checkpoint)')
  BY <1>1 DEF LinkInv, RolesApart, Calm, Undisturbed, Even
<1>6. QED
  BY <1>2, <1>4, <1>5 DEF LinkInv

LEMMA LinkKeeps == LinkInv /\ [Next]_vars => LinkInv'
<1> SUFFICES ASSUME LinkInv, [Next]_vars PROVE LinkInv'
  OBVIOUS
<1>1. CASE UNCHANGED vars
  BY <1>1, StutterKeeps
<1>2. ASSUME NEW c \in Conns, HolderStep(c) PROVE LinkInv'
  BY <1>2, AcceptKeeps, ClaimsKeeps, HangsUpKeeps, ReplayKeeps, IgnoresKeeps DEF HolderStep, HolderReads
<1>3. ASSUME NEW c \in Conns, ServerStep(c) PROVE LinkInv'
  BY <1>3, ReceiveKeeps, ParsesKeeps, HandshakeTimeoutKeeps DEF ServerStep
<1>4. ASSUME NEW c \in Conns, ClaimTimeout(c) \/ Connect(c) \/ Persist(c) \/ Kill(c) \/ Crash(c) PROVE LinkInv'
  BY <1>4, ClaimTimeoutKeeps, ConnectKeeps, PersistKeeps, LeavesKeep
<1>5. CASE Output \/ PtyExits \/ HolderExits
  BY <1>5, OutputKeeps, PtyExitsKeeps, HolderExitsKeeps
<1>6. QED
  BY <1>1, <1>2, <1>3, <1>4, <1>5 DEF Next

(* In every behaviour the roles, the frames and the records of every connection agree.            *)
LEMMA LinkInvariant == Spec => []LinkInv
BY LinkStarts, LinkKeeps, PTL DEF Spec

-----------------------------------------------------------------------------
(* A session that was driving calls its program dead only when it is, unless a claim came       *)
(* later than the 1.5 s the holder waits for one: whoever loses the role to another is told so,  *)
(* whatever was on the way to it.                                                *)
THEOREM HolderLossIsNotDeath == Spec => []LossIsNotDeath
<1>1. LinkInv => LossIsNotDeath
  <2> SUFFICES ASSUME LinkInv, NEW c \in Conns, At(c, {"driving"}), session[c].exit = "lost"
               PROVE  ~holder.alive \/ "late" \in disturbed
    BY DEF LossIsNotDeath
  <2>1. At(c, Rebuilt)
    BY DEF At, Rebuilt
  <2>2. QED
    BY <2>1 DEF LinkInv, Kept, EndsWithReason
<1>2. QED
  BY <1>1, LinkInvariant, PTL

(* As long as no claim was late or overtaken, every handshake has its answer on the way, so a     *)
(* holder that lives can be found: no server has given up and removed its manifest.              *)
THEOREM HolderManifestSurvives == Spec => []ManifestSurvivesClaims
<1>1. LinkInv => ManifestSurvivesClaims
  BY DEF LinkInv, Calm, ManifestSurvivesClaims
<1>2. QED
  BY <1>1, LinkInvariant, PTL

(* However many servers come and go, die or overtake each other: when nothing is on the way to     *)
(* it, the screen of the server in control has no hole and ends at the last chunk, unless the     *)
(* holder has reported a gap or the screen grew from a checkpoint that had a hole.               *)
THEOREM HolderNothingLost == Spec => []NothingLost
<1>1. LinkInv => NothingLost
  <2> SUFFICES ASSUME LinkInv, NEW c \in Conns, Driving(c), holder.client = c, toServer[c] = <<>>, session[c].queue = <<>>,
                      ~session[c].gap, Whole(session[c].seed.screen, session[c].seed.offset)
               PROVE  Whole(session[c].screen, holder.written)
    BY DEF NothingLost
  <2> DEFINE x == session[c]
             wire == toServer[c]
  <2>1. Kept(c) /\ x \in Records /\ holder.written \in Nat
    BY DEF LinkInv, LinkTypes, Holders
  <2>2. At(c, {"driving"}) /\ At(c, Rebuilt) /\ x.exit = "none"
    BY DEF Driving, At, Rebuilt
  <2>3. \A m \in 1 .. holder.written : There(c, m) \/ \A k \in Nat : There(c, k) => m < k
    BY <2>1, <2>2 DEF Kept, NothingMissing
  <2>4. x.buffered = <<>> /\ x.queue = <<>> /\ wire = <<>>
    BY <2>1, <2>2 DEF Kept, KeptInTurn
  <2>5. \A m : ~Afloat(c, m)
    <3> HIDE DEF x, wire
    <3>1. DOMAIN wire = {} /\ DOMAIN x.buffered = {} /\ DOMAIN x.queue = {}
      BY <2>4
    <3>2. QED
      BY <3>1 DEF Afloat, InFrames, InQueue, x, wire
  <2>6. x.screen \in Seq(Nat) /\ ToSet(x.screen) \subseteq Nat
    BY <2>1 DEF Records, ToSet
  <2>7. \A m : There(c, m) <=> m \in ToSet(x.screen)
    BY <2>5 DEF There, OnScreen, ToSet
  <2>8. QED
    BY <2>3, <2>6, <2>7 DEF Whole
<1>2. QED
  BY <1>1, LinkInvariant, PTL

(* A session whose handshake no output disturbed shows what was put out once and in order, and its     *)
(* offset is where that ends: the frames after STATE are counted from the very chunk STATE named.       *)
THEOREM HolderQuietIsExact == Spec => []QuietIsExact
<1>1. LinkInv => QuietIsExact
  <2> SUFFICES ASSUME LinkInv, disturbed \cap {"handshake", "save"} = {}, NEW c \in Conns, Driving(c), ~session[c].gap
               PROVE  Exact(session[c])
    BY DEF QuietIsExact
  <2>1. Undisturbed /\ At(c, Rebuilt) /\ session[c].exit = "none" /\ FollowsInStep(c)
    BY DEF Undisturbed, Driving, At, Rebuilt, LinkInv, Kept
  <2>2. QED
    BY <2>1 DEF FollowsInStep
<1>2. QED
  BY <1>1, LinkInvariant, PTL
===============================================================================
