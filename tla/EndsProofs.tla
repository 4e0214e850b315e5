------------------------------ MODULE EndsProofs ------------------------------
(***************************************************************************)
(* What holds where the bytes end: on the screen of a terminal attached to a server      *)
(* (AttachClient), in the ring of a holder (HolderRing) and in what it reads for its      *)
(* program (HolderInput), for any number of sessions, connections and requests, and      *)
(* any sizes.                                                              *)
(***************************************************************************)
EXTENDS AttachClient, HolderRing, HolderInput, SequenceTheorems, WellFoundedInduction, TLAPS

-----------------------------------------------------------------------------
(* `ttym attach`: the types.                                                 *)

Modes == {"attached", "prefix", "help", "picker"}

FramesDue == [cmd : {"ATTACH", "DATA", "SNAPSHOT"}, of : Sessions, seq : Nat]

FramesSent == [cmd : {"ATTACH", "DETACH"}, of : Sessions, seq : Nat]

Screens == [of : Sessions \cup {0}, upto : Nat]

Clients == [connected : BOOLEAN, uiMode : Modes, target : Sessions, lastSeq : Nat, screen : Screens,
            ready : BOOLEAN, picking : Nat, cycling : Nat]

AttachTypeOK ==
  /\ output \in [Sessions -> Nat] /\ viewing \subseteq Sessions
  /\ sent \in Seq(FramesSent) /\ due \in Seq(FramesDue) /\ cli \in Clients /\ missed \in BOOLEAN

(* No number is ahead of the output it is of.                                  *)
NoneAhead ==
  /\ \A i \in DOMAIN due : due[i].seq <= output[due[i].of]
  /\ \A i \in DOMAIN sent : sent[i].seq <= output[sent[i].of]
  /\ cli.lastSeq <= output[cli.target]

-----------------------------------------------------------------------------
(* What the frames due make of a screen of session t.                           *)
Paints(f, t) == f.of = t /\ f.cmd # "ATTACH"

(* After i of the frames d the screen is of t up to e[i], from the k-th on, a          *)
(* snapshot, or from the beginning, where it is at one of those in `from`; and up to    *)
(* `top` in the end.                                                        *)
LeadsOn(d, t, top, from, k, e) ==
  /\ k > 0 => Paints(d[k], t) /\ d[k].cmd = "SNAPSHOT" /\ e[k] = d[k].seq
  /\ k = 0 => e[0] \in from
  /\ \A i \in 1 .. Len(d) : i > k =>
       /\ Paints(d[i], t) => d[i].cmd = "DATA" /\ d[i].seq = e[i - 1] + 1 /\ e[i] = e[i - 1] + 1
       /\ ~Paints(d[i], t) => e[i] = e[i - 1]
  /\ e[Len(d)] = top

Leads(d, t, top, from) ==
  \E k \in 0 .. Len(d) : \E e \in [0 .. Len(d) -> Nat] : LeadsOn(d, t, top, from, k, e)

(* A frame that does not paint, or the next chunk, leads on.                       *)
LEMMA LeadsGrow ==
  ASSUME NEW d \in Seq(FramesDue), NEW f \in FramesDue, NEW t, NEW top \in Nat, NEW next \in Nat, NEW from,
         Leads(d, t, top, from),
         \/ ~Paints(f, t) /\ next = top
         \/ Paints(f, t) /\ f.cmd = "DATA" /\ f.seq = top + 1 /\ next = top + 1
  PROVE  Leads(Append(d, f), t, next, from)
<1> DEFINE n == Len(d)
           a == Append(d, f)
<1>1. /\ n \in Nat /\ Len(a) = n + 1 /\ a[n + 1] = f /\ \A i \in 1 .. n : a[i] = d[i]
  OBVIOUS
<1>2. PICK k \in 0 .. n, e \in [0 .. n -> Nat] : LeadsOn(d, t, top, from, k, e)
  BY DEF Leads
<1> DEFINE e2 == [i \in 0 .. n + 1 |-> IF i = n + 1 THEN next ELSE e[i]]
<1>3. /\ e2 \in [0 .. n + 1 -> Nat] /\ e2[n + 1] = next /\ \A i \in 0 .. n : e2[i] = e[i]
  BY <1>1
<1>4. LeadsOn(a, t, next, from, k, e2)
  <2> HIDE DEF e2, a, n
  <2>1. e[n] = top /\ (k > 0 => Paints(d[k], t) /\ d[k].cmd = "SNAPSHOT" /\ e[k] = d[k].seq)
        /\ (k = 0 => e[0] \in from)
    BY <1>2 DEF LeadsOn, n
  <2>2. \A i \in 1 .. n : i > k =>
          /\ Paints(d[i], t) => d[i].cmd = "DATA" /\ d[i].seq = e[i - 1] + 1 /\ e[i] = e[i - 1] + 1
          /\ ~Paints(d[i], t) => e[i] = e[i - 1]
    BY <1>2 DEF LeadsOn, n
  <2>3. k \in Nat /\ k <= n
    BY <1>1, <1>2 DEF n
  <2>4. (k > 0 => Paints(a[k], t) /\ a[k].cmd = "SNAPSHOT" /\ e2[k] = a[k].seq) /\ (k = 0 => e2[0] \in from)
    BY <1>1, <1>3, <2>1, <2>3
  <2>5. ASSUME NEW i \in 1 .. n + 1, i > k
        PROVE  /\ Paints(a[i], t) => a[i].cmd = "DATA" /\ a[i].seq = e2[i - 1] + 1 /\ e2[i] = e2[i - 1] + 1
               /\ ~Paints(a[i], t) => e2[i] = e2[i - 1]
    <3>1. CASE i = n + 1
      BY <1>1, <1>3, <2>1, <3>1
    <3>2. CASE i # n + 1
      <4>1. i \in 1 .. n /\ i - 1 \in 0 .. n /\ i \in 0 .. n
        BY <1>1, <3>2
      <4>2. a[i] = d[i] /\ e2[i] = e[i] /\ e2[i - 1] = e[i - 1]
        BY <1>1, <1>3, <4>1
      <4>3. QED
        BY <2>2, <2>5, <4>1, <4>2
    <3>3. QED
      BY <3>1, <3>2
  <2>6. QED
    BY <1>1, <1>3, <2>4, <2>5 DEF LeadsOn
<1>5. k \in 0 .. Len(a) /\ e2 \in [0 .. Len(a) -> Nat]
  BY <1>1, <1>2, <1>3
<1> HIDE DEF e2, a
<1>6. QED
  BY <1>4, <1>5 DEF Leads, a

(* A snapshot leads on whatever was before it.                                   *)
LEMMA LeadsAnew ==
  ASSUME NEW d \in Seq(FramesDue), NEW f \in FramesDue, NEW t, NEW top \in Nat, NEW from,
         Paints(f, t), f.cmd = "SNAPSHOT", f.seq = top
  PROVE  Leads(Append(d, f), t, top, from)
<1> DEFINE n == Len(d)
           a == Append(d, f)
           e == [i \in 0 .. n + 1 |-> top]
<1>1. n \in Nat /\ Len(a) = n + 1 /\ a[n + 1] = f
  OBVIOUS
<1>2. e \in [0 .. n + 1 -> Nat] /\ e[n + 1] = top /\ n + 1 \in 0 .. n + 1
  BY <1>1
<1>3. LeadsOn(a, t, top, from, n + 1, e)
  BY <1>1, <1>2 DEF LeadsOn
<1>4. QED
  BY <1>1, <1>2, <1>3 DEF Leads

(* What the first frame makes of the screen, the others go on from.                   *)
LEMMA LeadsShrink ==
  ASSUME NEW d \in Seq(FramesDue), d # <<>>, NEW t, NEW top \in Nat, NEW from, NEW then,
         Leads(d, t, top, from),
         ~Paints(Head(d), t) => from \subseteq then,
         Paints(Head(d), t) /\ Head(d).cmd = "SNAPSHOT" => Head(d).seq \in then,
         Paints(Head(d), t) /\ Head(d).cmd = "DATA" => \A m \in from : Head(d).seq = m + 1 => m + 1 \in then
  PROVE  Leads(Tail(d), t, top, then)
<1> DEFINE n == Len(d) - 1
           b == Tail(d)
<1>1. /\ n \in Nat /\ Len(d) = n + 1 /\ Len(b) = n /\ Head(d) = d[1] /\ \A i \in 1 .. n : b[i] = d[i + 1]
  OBVIOUS
<1>2. PICK k \in 0 .. n + 1, e \in [0 .. n + 1 -> Nat] : LeadsOn(d, t, top, from, k, e)
  BY <1>1 DEF Leads
<1> DEFINE j == IF k = 0 THEN 0 ELSE k - 1
           e2 == [i \in 0 .. n |-> e[i + 1]]
<1>3. /\ e2 \in [0 .. n -> Nat] /\ (\A i \in 0 .. n : e2[i] = e[i + 1]) /\ j \in 0 .. n /\ k \in Nat /\ k <= n + 1
      /\ (k = 0 => j = 0) /\ (k > 0 => j = k - 1)
  BY <1>1, <1>2
<1>4. LeadsOn(b, t, top, then, j, e2)
  <2> HIDE DEF e2, b, n, j
  <2>1. e[n + 1] = top /\ (k > 0 => Paints(d[k], t) /\ d[k].cmd = "SNAPSHOT" /\ e[k] = d[k].seq)
        /\ (k = 0 => e[0] \in from)
    BY <1>1, <1>2 DEF LeadsOn
  <2>2. \A i \in 1 .. n + 1 : i > k =>
          /\ Paints(d[i], t) => d[i].cmd = "DATA" /\ d[i].seq = e[i - 1] + 1 /\ e[i] = e[i - 1] + 1
          /\ ~Paints(d[i], t) => e[i] = e[i - 1]
    BY <1>1, <1>2 DEF LeadsOn
  <2>3. e2[n] = top
    BY <1>1, <1>3, <2>1
  <2>4. j > 0 => Paints(b[j], t) /\ b[j].cmd = "SNAPSHOT" /\ e2[j] = b[j].seq
    <3> SUFFICES ASSUME j > 0 PROVE Paints(b[j], t) /\ b[j].cmd = "SNAPSHOT" /\ e2[j] = b[j].seq
      OBVIOUS
    <3>1. j \in 1 .. n /\ j + 1 = k
      BY <1>1, <1>3
    <3>2. b[j] = d[k] /\ e2[j] = e[k]
      BY <1>1, <1>3, <3>1
    <3>3. QED
      BY <1>3, <2>1, <3>1, <3>2
  <2>5. j = 0 => e2[0] \in then
    <3>1. e2[0] = e[1]
      BY <1>1, <1>3
    <3>2. CASE k = 1
      BY <1>1, <2>1, <3>1, <3>2
    <3>3. CASE k = 0
      <4>1. /\ Paints(d[1], t) => d[1].cmd = "DATA" /\ d[1].seq = e[0] + 1 /\ e[1] = e[0] + 1
            /\ ~Paints(d[1], t) => e[1] = e[0]
        BY <1>1, <2>2, <3>3
      <4>2. e[0] \in from /\ e[0] \in Nat
        BY <1>1, <2>1, <3>3
      <4>3. QED
        BY <1>1, <3>1, <4>1, <4>2
    <3>4. QED
      BY <1>3, <3>2, <3>3
  <2>6. ASSUME NEW i \in 1 .. n, i > j
        PROVE  /\ Paints(b[i], t) => b[i].cmd = "DATA" /\ b[i].seq = e2[i - 1] + 1 /\ e2[i] = e2[i - 1] + 1
               /\ ~Paints(b[i], t) => e2[i] = e2[i - 1]
    <3>1. i + 1 \in 1 .. n + 1 /\ i + 1 > k /\ i \in 0 .. n /\ i - 1 \in 0 .. n /\ i + 1 - 1 = i /\ i - 1 + 1 = i
      BY <1>1, <1>3, <2>6
    <3>2. b[i] = d[i + 1] /\ e2[i] = e[i + 1] /\ e2[i - 1] = e[i]
      BY <1>1, <1>3, <3>1
    <3>3. QED
      BY <2>2, <3>1, <3>2
  <2>7. QED
    BY <1>1, <2>3, <2>4, <2>5, <2>6 DEF LeadsOn
<1>5. QED
  BY <1>1, <1>3, <1>4 DEF Leads

(* Frames all of which lead on from where the screen is.                          *)
LEMMA LeadsFromStart ==
  ASSUME NEW d, NEW t, NEW top, NEW from, Len(d) \in Nat, NEW e \in [0 .. Len(d) -> Nat],
         e[0] \in from, e[Len(d)] = top,
         \A i \in 1 .. Len(d) :
           /\ Paints(d[i], t) => d[i].cmd = "DATA" /\ d[i].seq = e[i - 1] + 1 /\ e[i] = e[i - 1] + 1
           /\ ~Paints(d[i], t) => e[i] = e[i - 1]
  PROVE  Leads(d, t, top, from)
<1>1. LeadsOn(d, t, top, from, 0, e)
  BY DEF LeadsOn
<1>2. QED
  BY <1>1 DEF Leads

(* So does a replay, from where it was asked for.                                *)
LEMMA LeadsReplayed ==
  ASSUME NEW t, NEW m \in Nat, NEW top \in Nat, m <= top, NEW from, m \in from, NEW f, ~Paints(f, t),
         NEW d, d = <<f>> \o [i \in 1 .. top - m |-> DataOf(t, m + i)]
  PROVE  Leads(d, t, top, from)
<1> DEFINE n == top - m
           e == [i \in 0 .. n + 1 |-> IF i = 0 THEN m ELSE m + i - 1]
<1>1. n \in Nat /\ Len(d) = n + 1 /\ d[1] = f /\ \A i \in 1 .. n : d[i + 1] = DataOf(t, m + i)
  OBVIOUS
<1>2. /\ e \in [0 .. n + 1 -> Nat] /\ e[0] = m /\ \A i \in 1 .. n + 1 : e[i] = m + i - 1
  BY <1>1
<1>3. ASSUME NEW i \in 1 .. n + 1
      PROVE  /\ Paints(d[i], t) => d[i].cmd = "DATA" /\ d[i].seq = e[i - 1] + 1 /\ e[i] = e[i - 1] + 1
             /\ ~Paints(d[i], t) => e[i] = e[i - 1]
  <2> HIDE DEF e, n
  <2>1. CASE i = 1
    BY <1>1, <1>2, <2>1
  <2>2. CASE i # 1
    <3>1. i - 1 \in 1 .. n /\ i - 1 + 1 = i /\ i - 1 \in 1 .. n + 1
      BY <1>1, <2>2
    <3>2. d[i] = DataOf(t, m + (i - 1)) /\ e[i] = m + i - 1 /\ e[i - 1] = m + (i - 1) - 1
      BY <1>1, <1>2, <3>1
    <3>3. QED
      BY <1>1, <3>1, <3>2 DEF Paints, DataOf
  <2>3. QED
    BY <2>1, <2>2
<1>4. e[n + 1] = top /\ e[0] \in from /\ 0 \in 0 .. Len(d) /\ e \in [0 .. Len(d) -> Nat]
  BY <1>1, <1>2
<1> HIDE DEF e, n
<1>5. \A i \in 1 .. Len(d) :
           /\ Paints(d[i], t) => d[i].cmd = "DATA" /\ d[i].seq = e[i - 1] + 1 /\ e[i] = e[i - 1] + 1
           /\ ~Paints(d[i], t) => e[i] = e[i - 1]
  BY <1>1, <1>3
<1>6. Len(d) \in Nat /\ e[Len(d)] = top
  BY <1>1, <1>4
<1>7. QED
  BY <1>4, <1>5, <1>6, LeadsFromStart

(* A screen that may be at more is led on by the same.                             *)
LEMMA LeadsWider ==
  ASSUME NEW d, NEW t, NEW top, NEW from, NEW then, from \subseteq then, Leads(d, t, top, from)
  PROVE  Leads(d, t, top, then)
<1>1. PICK k \in 0 .. Len(d), e \in [0 .. Len(d) -> Nat] : LeadsOn(d, t, top, from, k, e)
  BY DEF Leads
<1>2. LeadsOn(d, t, top, then, k, e)
  BY <1>1 DEF LeadsOn
<1>3. QED
  BY <1>1, <1>2 DEF Leads

-----------------------------------------------------------------------------
(* The inductive invariant.                                                   *)

(* The screen is to be what its session prints.                                   *)
Ready == ~missed /\ cli.uiMode \in {"attached", "prefix"}

(* Where it can be now.                                                       *)
Stands == {n \in Nat : Ready => cli.screen = Showing(cli.target, n)}

(* Without a connection nothing is on the way, and the number noted, if any, is that of     *)
(* the screen.                                                              *)
Apart ==
  /\ sent = <<>> /\ due = <<>> /\ viewing = {}
  /\ cli.lastSeq # 0 => cli.lastSeq \in Stands

(* With no request on the way the frames due lead the screen to the newest chunk.          *)
LedOn == cli.target \in viewing /\ Leads(due, cli.target, output[cli.target], Stands)

(* Else the last asks for all of the session followed; or it is the first of its            *)
(* connection, and asks for what follows the screen.                                *)
Asks ==
  LET last == sent[Len(sent)]
  IN  /\ last.cmd = "ATTACH" /\ last.of = cli.target
      /\ last.seq # 0 => Len(sent) = 1 /\ due = <<>> /\ viewing = {} /\ last.seq \in Stands

AttachInv ==
  /\ AttachTypeOK /\ NoneAhead
  /\ ~cli.connected => Apart
  /\ cli.connected /\ sent = <<>> => LedOn
  /\ cli.connected /\ sent # <<>> => Asks

-----------------------------------------------------------------------------
(* Steps that leave the connection alone, and the screen, if it is to follow.               *)
LEMMA ScreenStays ==
  ASSUME AttachInv, cli' \in Clients, missed' = missed, output' = output, viewing' = viewing, sent' = sent,
         due' = due, cli'.connected <=> cli.connected, cli'.target = cli.target, cli'.lastSeq = cli.lastSeq,
         cli'.uiMode \in {"attached", "prefix"} =>
           cli.uiMode \in {"attached", "prefix"} /\ cli'.screen = cli.screen
  PROVE  AttachInv'
<1>1. Stands \subseteq Stands'
  BY DEF Stands, Ready, Showing
<1>2. AttachTypeOK' /\ NoneAhead'
  BY DEF AttachInv, AttachTypeOK, NoneAhead
<1>3. ~cli.connected => Apart'
  BY <1>1 DEF AttachInv, Apart
<1>4. cli.connected /\ sent = <<>> => LedOn'
  BY <1>1, LeadsWider DEF AttachInv, LedOn
<1>5. cli.connected /\ sent # <<>> => Asks'
  BY <1>1 DEF AttachInv, Asks
<1>6. QED
  BY <1>2, <1>3, <1>4, <1>5 DEF AttachInv

(* Switching, or showing the session again: c is the client before it.                      *)
LEMMA SwitchAsks ==
  ASSUME AttachInv, NEW c \in Clients, c.connected <=> cli.connected, NEW s \in Sessions, Switches(c, s),
         missed' = missed, output' = output, viewing' = viewing, due' = due
  PROVE  AttachInv'
<1> DEFINE a == [cmd |-> "ATTACH", of |-> s, seq |-> 0]
           b == [cmd |-> "DETACH", of |-> c.target, seq |-> 0]
<1>1. cli' \in Clients /\ cli'.target = s /\ cli'.lastSeq = 0 /\ output \in [Sessions -> Nat] /\ sent \in Seq(FramesSent)
  BY DEF Switches, Switched, Clients, AttachInv, AttachTypeOK
<1>2. cli'.connected <=> cli.connected
  BY Zenon DEF Switches, Switched, Clients
<1>3. a \in FramesSent /\ b \in FramesSent
  BY DEF FramesSent, Clients
<1>4. CASE ~cli.connected
  <2>1. sent' = sent
    BY <1>4 DEF Switches, Sends
  <2>2. Apart'
    BY <1>1, <1>4, <2>1 DEF AttachInv, Apart
  <2>3. AttachTypeOK' /\ NoneAhead'
    BY <1>1, <2>1 DEF AttachInv, AttachTypeOK, NoneAhead
  <2>4. QED
    BY <1>2, <1>4, <2>2, <2>3 DEF AttachInv
<1>5. CASE cli.connected
  <2>1. sent' = sent \o <<b, a>>
    BY <1>1, <1>5 DEF Switches, Switched, Sends, AttachFrame, DetachFrame, Clients
  <2> DEFINE n == Len(sent)
  <2>2. /\ sent' \in Seq(FramesSent) /\ n \in Nat /\ Len(sent') = n + 2 /\ sent'[n + 2] = a /\ sent'[n + 1] = b
        /\ \A i \in 1 .. n : sent'[i] = sent[i]
    BY <1>1, <1>3, <2>1
  <2>3. NoneAhead'
    <3>1. \A i \in 1 .. n : sent[i].seq <= output[sent[i].of]
      BY <1>1 DEF AttachInv, NoneAhead
    <3>2. \A i \in 1 .. n + 2 : sent'[i].seq <= output[sent'[i].of]
      <4>1. a.seq <= output[a.of] /\ b.seq <= output[b.of]
        BY <1>1 DEF Clients
      <4> HIDE DEF a, b, n
      <4>2. \A i \in 1 .. n + 2 : i \in 1 .. n \/ i = n + 1 \/ i = n + 2
        BY <2>2
      <4>3. QED
        BY <2>2, <3>1, <4>1, <4>2
    <3>3. DOMAIN sent' = 1 .. n + 2
      BY <2>2
    <3>4. \A i \in DOMAIN due' : due'[i].seq <= output'[due'[i].of]
      BY DEF AttachInv, NoneAhead
    <3>5. QED
      BY <1>1, <3>2, <3>3, <3>4 DEF NoneAhead
  <2>4. AttachTypeOK'
    BY <1>1, <2>2 DEF AttachInv, AttachTypeOK
  <2>5. Asks' /\ sent' # <<>>
    BY <1>1, <2>2 DEF Asks
  <2>6. QED
    BY <1>2, <1>5, <2>3, <2>4, <2>5 DEF AttachInv
<1>6. QED
  BY <1>4, <1>5

(* A frame is added to those due: the next chunk, or a snapshot.                            *)
LEMMA FrameComes ==
  ASSUME AttachInv, NEW s \in viewing, NEW f \in FramesDue, f.of = s, f.seq = output'[s],
         output' \in [Sessions -> Nat], \A o \in Sessions : o # s => output'[o] = output[o],
         \/ f.cmd = "DATA" /\ output'[s] = output[s] + 1
         \/ f.cmd = "SNAPSHOT" /\ output'[s] = output[s],
         due' = Append(due, f), viewing' = viewing, sent' = sent, cli' = cli, missed' = missed
  PROVE  AttachInv'
<1>1. /\ s \in Sessions /\ output \in [Sessions -> Nat] /\ due \in Seq(FramesDue) /\ sent \in Seq(FramesSent)
      /\ cli \in Clients /\ cli.target \in Sessions /\ cli.lastSeq \in Nat
  BY DEF AttachInv, AttachTypeOK, Clients
<1> DEFINE n == Len(due)
<1>2. /\ due' \in Seq(FramesDue) /\ n \in Nat /\ Len(due') = n + 1 /\ due'[n + 1] = f
      /\ \A i \in 1 .. n : due'[i] = due[i]
  BY <1>1
<1>3. \A o \in Sessions : output[o] \in Nat /\ output'[o] \in Nat /\ output[o] <= output'[o]
  <2>1. output[s] \in Nat /\ output'[s] \in Nat /\ (output'[s] = output[s] + 1 \/ output'[s] = output[s])
    BY <1>1
  <2>2. ASSUME NEW o \in Sessions
        PROVE  output[o] \in Nat /\ output'[o] \in Nat /\ output[o] <= output'[o]
    <3>1. output[o] \in Nat /\ output'[o] \in Nat /\ (o # s => output'[o] = output[o])
      BY <1>1
    <3>2. CASE o = s
      BY <2>1, <3>2
    <3>3. CASE o # s
      BY <3>1, <3>3
    <3>4. QED
      BY <3>2, <3>3
  <2>3. QED
    BY <2>2
<1>4. NoneAhead'
  <2>1. \A i \in 1 .. n : due[i].seq <= output[due[i].of] /\ due[i] \in FramesDue
    BY <1>1 DEF AttachInv, NoneAhead
  <2>2. \A i \in DOMAIN sent : sent[i].seq <= output[sent[i].of] /\ sent[i] \in FramesSent
    BY <1>1 DEF AttachInv, NoneAhead
  <2>3. \A i \in DOMAIN sent : sent[i].seq <= output'[sent[i].of]
    BY <1>3, <2>2 DEF FramesSent
  <2>4. \A i \in 1 .. n + 1 : due'[i].seq <= output'[due'[i].of]
    <3>1. \A i \in 1 .. n : due[i].seq <= output'[due[i].of]
      BY <1>3, <2>1 DEF FramesDue
    <3>2. f.seq <= output'[f.of]
      BY <1>1, <1>3
    <3>3. QED
      BY <1>2, <3>1, <3>2
  <2>5. cli.lastSeq <= output'[cli.target]
    BY <1>1, <1>3 DEF AttachInv, NoneAhead
  <2>6. DOMAIN due' = 1 .. n + 1
    BY <1>2
  <2>7. QED
    BY <2>3, <2>4, <2>5, <2>6 DEF NoneAhead
<1>5. AttachTypeOK'
  BY <1>1, <1>2 DEF AttachInv, AttachTypeOK
<1>6. Stands' = Stands
  BY DEF Stands, Ready
<1>7. cli.connected
  BY <1>1 DEF AttachInv, Apart
<1>8. CASE sent = <<>>
  <2>1. cli.target \in viewing /\ Leads(due, cli.target, output[cli.target], Stands)
    BY <1>7, <1>8 DEF AttachInv, LedOn
  <2>2. output[cli.target] \in Nat /\ output'[cli.target] \in Nat
    BY <1>1, <1>3
  <2>3. CASE f.cmd = "SNAPSHOT" /\ s = cli.target
    <3>1. Paints(f, cli.target) /\ f.seq = output'[cli.target]
      BY <2>3 DEF Paints
    <3>2. Leads(due', cli.target, output'[cli.target], Stands)
      BY <1>1, <2>2, <2>3, <3>1, LeadsAnew
    <3>3. QED
      BY <1>4, <1>5, <1>6, <1>7, <1>8, <2>1, <3>2 DEF AttachInv, LedOn
  <2>4. CASE ~(f.cmd = "SNAPSHOT" /\ s = cli.target)
    <3>1. \/ ~Paints(f, cli.target) /\ output'[cli.target] = output[cli.target]
          \/ /\ Paints(f, cli.target) /\ f.cmd = "DATA" /\ f.seq = output[cli.target] + 1
             /\ output'[cli.target] = output[cli.target] + 1
      BY <1>1, <2>4 DEF Paints
    <3>2. Leads(due', cli.target, output'[cli.target], Stands)
      BY <1>1, <2>1, <2>2, <3>1, LeadsGrow
    <3>3. QED
      BY <1>4, <1>5, <1>6, <1>7, <1>8, <2>1, <3>2 DEF AttachInv, LedOn
  <2>5. QED
    BY <2>3, <2>4
<1>9. CASE sent # <<>>
  <2>1. Asks'
    BY <1>6, <1>7, <1>9 DEF AttachInv, Asks
  <2>2. QED
    BY <1>4, <1>5, <1>7, <1>9, <2>1 DEF AttachInv
<1>10. QED
  BY <1>8, <1>9

(* A session prints.                                                          *)
LEMMA SessionPrintsLeads == ASSUME AttachInv, NEW s \in Sessions, SessionPrints(s) PROVE AttachInv'
<1>1. output \in [Sessions -> Nat] /\ due \in Seq(FramesDue)
  BY DEF AttachInv, AttachTypeOK
<1>2. /\ output' \in [Sessions -> Nat] /\ output'[s] = output[s] + 1 /\ \A o \in Sessions : o # s => output'[o] = output[o]
      /\ viewing' = viewing /\ sent' = sent /\ cli' = cli /\ missed' = missed
  BY <1>1 DEF SessionPrints
<1>3. CASE s \in viewing
  <2>1. due' = due \o <<DataOf(s, output'[s])>>
    BY <1>3 DEF SessionPrints
  <2>2. due' = Append(due, DataOf(s, output'[s]))
    BY <1>1, <2>1
  <2>3. DataOf(s, output'[s]) \in FramesDue
    BY <1>2 DEF DataOf, FramesDue
  <2>4. /\ DataOf(s, output'[s]).of = s /\ DataOf(s, output'[s]).seq = output'[s] /\ DataOf(s, output'[s]).cmd = "DATA"
    BY DEF DataOf
  <2>5. QED
    BY <1>2, <1>3, <2>2, <2>3, <2>4, FrameComes
<1>4. CASE s \notin viewing
  <2>1. due' = due
    BY <1>1, <1>4 DEF SessionPrints
  <2>2. \A o \in Sessions : output[o] \in Nat /\ output'[o] \in Nat /\ output[o] <= output'[o]
    BY <1>1, <1>2
  <2>3. AttachTypeOK'
    BY <1>2, <2>1 DEF AttachInv, AttachTypeOK
  <2>4. NoneAhead'
    <3>1. \A i \in DOMAIN due : due[i].seq <= output[due[i].of] /\ due[i] \in FramesDue
      BY <1>1 DEF AttachInv, NoneAhead
    <3>2. \A i \in DOMAIN sent : sent[i].seq <= output[sent[i].of] /\ sent[i] \in FramesSent
      BY DEF AttachInv, NoneAhead, AttachTypeOK
    <3>3. \A i \in DOMAIN due : due[i].seq <= output'[due[i].of]
      BY <2>2, <3>1 DEF FramesDue
    <3>4. \A i \in DOMAIN sent : sent[i].seq <= output'[sent[i].of]
      BY <2>2, <3>2 DEF FramesSent
    <3>5. cli.lastSeq <= output'[cli.target]
      BY <2>2 DEF AttachInv, NoneAhead, AttachTypeOK, Clients
    <3>6. QED
      BY <1>2, <2>1, <3>3, <3>4, <3>5 DEF NoneAhead
  <2>5. Stands' = Stands
    BY <1>2 DEF Stands, Ready
  <2>6. ~cli.connected => Apart'
    BY <1>2, <2>1, <2>5 DEF AttachInv, Apart
  <2>7. cli.connected /\ sent = <<>> => LedOn'
    <3>1. cli.connected /\ sent = <<>> => s # cli.target
      BY <1>4 DEF AttachInv, LedOn
    <3>2. cli.target \in Sessions
      BY DEF AttachInv, AttachTypeOK, Clients
    <3>3. QED
      BY <1>2, <2>1, <2>5, <3>1, <3>2 DEF AttachInv, LedOn
  <2>8. cli.connected /\ sent # <<>> => Asks'
    BY <1>2, <2>1, <2>5 DEF AttachInv, Asks
  <2>9. QED
    BY <1>2, <2>3, <2>4, <2>6, <2>7, <2>8 DEF AttachInv
<1>5. QED
  BY <1>3, <1>4

(* The server paints a session anew.                                              *)
LEMMA ServerResnapsLeads == ASSUME AttachInv, NEW s \in Sessions, ServerResnaps(s) PROVE AttachInv'
<1>1. /\ s \in viewing /\ due' = Append(due, SnapshotOf(s)) /\ output' = output /\ viewing' = viewing
      /\ sent' = sent /\ cli' = cli /\ missed' = missed
  BY DEF ServerResnaps
<1>2. output \in [Sessions -> Nat]
  BY DEF AttachInv, AttachTypeOK
<1>3. SnapshotOf(s) \in FramesDue /\ SnapshotOf(s).of = s /\ SnapshotOf(s).seq = output[s] /\ SnapshotOf(s).cmd = "SNAPSHOT"
  BY <1>2 DEF SnapshotOf, FramesDue
<1>4. QED
  BY <1>1, <1>2, <1>3, FrameComes

(* The server takes the oldest request.                                            *)
LEMMA ServerTakesLeads == ASSUME AttachInv, NEW replays \in BOOLEAN, ServerTakes(replays) PROVE AttachInv'
<1> DEFINE frame == Head(sent)
           s == frame.of
           reply == [cmd |-> "ATTACH", of |-> s, seq |-> output[s]]
           painting == IF replays THEN [i \in 1 .. output[s] - frame.seq |-> DataOf(s, frame.seq + i)] ELSE <<SnapshotOf(s)>>
           frames == IF frame.cmd = "ATTACH" THEN <<reply>> \o painting ELSE <<>>
           n == Len(sent)
<1>1. /\ sent # <<>> /\ sent' = Tail(sent) /\ due' = due \o frames
      /\ replays => frame.cmd = "ATTACH" /\ frame.seq > 0
      /\ viewing' = IF frame.cmd = "ATTACH" THEN viewing \cup {s} ELSE viewing \ {s}
      /\ output' = output /\ cli' = cli /\ missed' = missed
  BY DEF ServerTakes
<1>2. /\ sent \in Seq(FramesSent) /\ due \in Seq(FramesDue) /\ output \in [Sessions -> Nat] /\ viewing \subseteq Sessions
      /\ cli \in Clients
  BY DEF AttachInv, AttachTypeOK
<1>3. /\ n \in Nat \ {0} /\ frame = sent[1] /\ frame \in FramesSent /\ sent' \in Seq(FramesSent)
      /\ Len(sent') = n - 1 /\ \A i \in 1 .. n - 1 : sent'[i] = sent[i + 1]
  BY <1>1, <1>2
<1>4. s \in Sessions /\ frame.seq \in Nat /\ frame.seq <= output[s] /\ output[s] \in Nat
  <2>1. frame.seq <= output[s]
    BY <1>2, <1>3 DEF AttachInv, NoneAhead
  <2>2. QED
    BY <1>2, <1>3, <2>1 DEF FramesSent
<1>5. reply \in FramesDue /\ SnapshotOf(s) \in FramesDue
      /\ \A i \in 1 .. output[s] - frame.seq : DataOf(s, frame.seq + i) \in FramesDue
  BY <1>4, SMTT(30) DEF FramesDue, SnapshotOf, DataOf
<1>6. /\ frames \in Seq(FramesDue)
      /\ \A i \in 1 .. Len(frames) : frames[i].seq <= output[frames[i].of]
  <2>1. CASE frame.cmd # "ATTACH"
    BY <2>1
  <2>2. CASE frame.cmd = "ATTACH" /\ replays
    <3> DEFINE q == output[s] - frame.seq
               all == [i \in 1 .. q |-> DataOf(s, frame.seq + i)]
    <3>1. frames = <<reply>> \o all
      BY <2>2
    <3>7. q \in Nat
      BY <1>4
    <3>8. all \in Seq(FramesDue) /\ Len(all) = q /\ \A i \in 1 .. q : all[i] = DataOf(s, frame.seq + i)
      <4>1. \A i \in 1 .. q : DataOf(s, frame.seq + i) \in FramesDue
        BY <1>5
      <4> HIDE DEF q
      <4>2. QED
        BY <3>7, <4>1
    <3>2. /\ Len(frames) = output[s] - frame.seq + 1 /\ frames \in Seq(FramesDue) /\ frames[1] = reply
          /\ \A i \in 1 .. output[s] - frame.seq : frames[i + 1] = DataOf(s, frame.seq + i)
      <4>1. /\ Len(frames) = q + 1 /\ frames \in Seq(FramesDue) /\ frames[1] = reply
            /\ \A i \in 1 .. q : frames[i + 1] = all[i]
        <5>1. reply \in FramesDue
          BY <1>5
        <5> HIDE DEF frames, reply, s, all, q
        <5>2. QED
          BY <3>1, <3>7, <3>8, <5>1
      <4>2. QED
        BY <3>8, <4>1
    <3> HIDE DEF frames, reply, s
    <3>3. reply.seq = output[s] /\ reply.of = s
      BY DEF reply
    <3>4. \A i \in 1 .. output[s] - frame.seq : DataOf(s, frame.seq + i).seq <= output[s] /\ DataOf(s, frame.seq + i).of = s
      BY <1>4 DEF DataOf
    <3>5. \A i \in 1 .. Len(frames) : i = 1 \/ (i - 1 \in 1 .. output[s] - frame.seq /\ i = i - 1 + 1)
      BY <1>4, <3>2
    <3>6. QED
      BY <1>4, <3>2, <3>3, <3>4, <3>5, SMTT(30)
  <2>3. CASE frame.cmd = "ATTACH" /\ ~replays
    <3>4. frames = <<reply>> \o painting /\ painting = <<SnapshotOf(s)>>
      BY <2>3
    <3>1. frames \in Seq(FramesDue) /\ Len(frames) = 2 /\ frames[1] = reply /\ frames[2] = SnapshotOf(s)
      <4> HIDE DEF frames, painting, reply, s
      <4>1. QED
        BY <1>5, <3>4
    <3>2. reply.seq = output[s] /\ reply.of = s /\ SnapshotOf(s).seq = output[s] /\ SnapshotOf(s).of = s
      BY DEF SnapshotOf
    <3> HIDE DEF frames, reply, s
    <3>3. QED
      BY <1>4, <1>5, <3>1, <3>2
  <2>4. QED
    BY <2>1, <2>2, <2>3
<1>7. /\ due' \in Seq(FramesDue)
      /\ \A i \in 1 .. Len(due') : due'[i].seq <= output[due'[i].of]
  <2> HIDE DEF frames
  <2>1. /\ due' \in Seq(FramesDue) /\ Len(due) \in Nat /\ Len(frames) \in Nat /\ Len(due') = Len(due) + Len(frames)
        /\ \A i \in 1 .. Len(due) : due'[i] = due[i]
        /\ \A i \in 1 .. Len(due') : i > Len(due) => due'[i] = frames[i - Len(due)]
    BY <1>1, <1>2, <1>6
  <2>2. \A i \in 1 .. Len(due) : due[i].seq <= output[due[i].of]
    BY <1>2 DEF AttachInv, NoneAhead
  <2>3. \A i \in 1 .. Len(due') : i \in 1 .. Len(due) \/ (i > Len(due) /\ i - Len(due) \in 1 .. Len(frames))
    BY <2>1
  <2>4. QED
    BY <1>6, <2>1, <2>2, <2>3, SMTT(30)
<1>8. AttachTypeOK' /\ NoneAhead'
  <2>1. AttachTypeOK'
    BY <1>1, <1>2, <1>3, <1>4, <1>7 DEF AttachInv, AttachTypeOK
  <2>2. \A i \in 1 .. n - 1 : sent'[i].seq <= output[sent'[i].of]
    <3>1. \A i \in 1 .. n : sent[i].seq <= output[sent[i].of]
      BY <1>2 DEF AttachInv, NoneAhead
    <3>2. \A i \in 1 .. n - 1 : i + 1 \in 1 .. n /\ sent'[i] = sent[i + 1]
      BY <1>3
    <3>3. QED
      BY <3>1, <3>2
  <2>3. DOMAIN sent' = 1 .. n - 1 /\ DOMAIN due' = 1 .. Len(due')
    BY <1>3, <1>7
  <2>4. QED
    BY <1>1, <1>7, <2>1, <2>2, <2>3, ZenonT(60) DEF AttachInv, NoneAhead
<1>9. cli.connected /\ Asks
  BY <1>1 DEF AttachInv, Apart
<1>10. Stands' = Stands
  BY <1>1 DEF Stands, Ready
<1>11. CASE n > 1
  <2>1. sent[n].cmd = "ATTACH" /\ sent[n].of = cli.target /\ sent[n].seq = 0
    BY <1>3, <1>9, <1>11 DEF Asks
  <2>2. sent' # <<>> /\ sent'[Len(sent')] = sent[n]
    <3>1. n - 1 \in 1 .. n - 1 /\ n - 1 + 1 = n
      BY <1>3, <1>11
    <3>2. QED
      BY <1>3, <3>1
  <2>3. Asks'
    BY <1>1, <2>1, <2>2 DEF Asks
  <2>4. QED
    BY <1>1, <1>8, <1>9, <2>2, <2>3 DEF AttachInv
<1>12. CASE n = 1
  <2>1. sent' = <<>>
    BY <1>3, <1>12
  <2>2. frame.cmd = "ATTACH" /\ s = cli.target /\ (frame.seq # 0 => due = <<>> /\ frame.seq \in Stands)
    BY <1>3, <1>9, <1>12 DEF Asks
  <2>3. ~Paints(reply, s)
    BY DEF Paints
  <2>4. Leads(due', s, output[s], Stands)
    <3>1. CASE replays
      <4>1. due' = <<reply>> \o [i \in 1 .. output[s] - frame.seq |-> DataOf(s, frame.seq + i)]
        <5>1. due = <<>> /\ frames \in Seq(FramesDue)
          <6>1. due = <<>>
            <7>1. frame.seq > 0
              BY <1>1, <3>1
            <7>2. QED
              BY <1>4, <2>2, <7>1
          <6>2. frames \in Seq(FramesDue)
            BY <1>6, <3>1
          <6>3. QED
            BY <6>1, <6>2
        <5>2. due' = frames
          <6> HIDE DEF frames
          <6>1. QED
            BY <1>1, <5>1
        <5>3. QED
          BY <2>2, <3>1, <5>2
      <4>2. frame.seq \in Stands
        BY <1>1, <1>4, <2>2, <3>1
      <4> HIDE DEF reply, s, frame
      <4>3. QED
        BY <1>4, <2>3, <4>1, <4>2, LeadsReplayed
    <3>2. CASE ~replays
      <4>1. due' = due \o <<reply, SnapshotOf(s)>>
        BY <1>1, <2>2, <3>2
      <4>2. Paints(SnapshotOf(s), s) /\ SnapshotOf(s).cmd = "SNAPSHOT" /\ SnapshotOf(s).seq = output[s]
        BY DEF Paints, SnapshotOf
      <4> HIDE DEF reply, s, frame
      <4>3. due' = Append(Append(due, reply), SnapshotOf(s)) /\ Append(due, reply) \in Seq(FramesDue)
        BY <1>2, <1>5, <4>1
      <4>4. QED
        BY <1>4, <1>5, <4>2, <4>3, LeadsAnew
    <3>3. QED
      BY <3>1, <3>2
  <2>5. cli.target \in viewing'
    BY <1>1, <2>2
  <2>6. LedOn'
    BY <1>1, <1>10, <2>2, <2>4, <2>5 DEF LedOn
  <2>7. QED
    BY <1>1, <1>8, <1>9, <2>1, <2>6 DEF AttachInv
<1>13. QED
  BY <1>3, <1>11, <1>12

(* A connection opens: what follows the screen, or all of the session, is asked for.        *)
LEMMA ConnectsAsks == ASSUME AttachInv, Connects PROVE AttachInv'
<1> DEFINE a == [cmd |-> "ATTACH", of |-> cli.target, seq |-> cli.lastSeq]
<1>1. /\ cli \in Clients /\ output \in [Sessions -> Nat] /\ Apart /\ output' = output /\ viewing' = viewing
      /\ due' = due /\ missed' = missed
  BY DEF Connects, AttachInv, AttachTypeOK
<1>2. sent' = <<a>> /\ a \in FramesSent /\ a.seq <= output[a.of]
  BY <1>1 DEF Connects, AttachFrame, FramesSent, Clients, AttachInv, NoneAhead
<1>3. cli' \in Clients /\ cli'.connected
  BY <1>1, Zenon DEF Connects, Clients
<1>4. cli'.target = cli.target /\ cli'.lastSeq = cli.lastSeq /\ cli'.screen = cli.screen /\ cli'.uiMode = cli.uiMode
  BY <1>1 DEF Connects, Clients
<1>5. Stands' = Stands
  BY <1>1, <1>4 DEF Stands, Ready
<1> HIDE DEF a
<1>6. sent' \in Seq(FramesSent) /\ Len(sent') = 1 /\ sent'[1] = a /\ DOMAIN sent' = {1}
  BY <1>2
<1>7. AttachTypeOK' /\ NoneAhead'
  BY <1>1, <1>2, <1>3, <1>4, <1>6 DEF AttachInv, AttachTypeOK, NoneAhead
<1>8. Asks'
  <2>1. a.cmd = "ATTACH" /\ a.of = cli.target /\ (a.seq # 0 => a.seq \in Stands)
    BY <1>1 DEF a, Apart
  <2>2. QED
    BY <1>1, <1>4, <1>5, <1>6, <2>1 DEF Apart, Asks
<1>9. QED
  <2>1. sent' # <<>>
    BY <1>6
  <2>2. QED
    BY <1>3, <1>7, <1>8, <2>1, Zenon DEF AttachInv

(* A connection is lost.                                                      *)
LEMMA ConnectionLostLeaves == ASSUME AttachInv, ConnectionLost PROVE AttachInv'
<1>1. /\ cli \in Clients /\ output \in [Sessions -> Nat] /\ output' = output /\ viewing' = {}
      /\ due' = <<>> /\ sent' = <<>> /\ missed \in BOOLEAN
  BY DEF ConnectionLost, AttachInv, AttachTypeOK
<1>2. cli' \in Clients /\ ~cli'.connected
  BY <1>1, Zenon DEF ConnectionLost, Clients
<1>3. cli'.target = cli.target /\ cli'.lastSeq = cli.lastSeq /\ cli'.screen = cli.screen /\ cli'.uiMode = cli.uiMode
  BY <1>1 DEF ConnectionLost, Clients
<1>4. missed' \in BOOLEAN
  BY Zenon DEF ConnectionLost
<1>5. cli.lastSeq # 0 /\ cli.screen # Showing(cli.target, cli.lastSeq) => missed'
  BY Zenon DEF ConnectionLost
<1>6. Apart'
  BY <1>1, <1>3, <1>5 DEF Apart, Stands, Ready, Clients
<1>7. AttachTypeOK'
  BY <1>1, <1>2, <1>4 DEF AttachTypeOK
<1>8. NoneAhead'
  BY <1>1, <1>3 DEF AttachInv, NoneAhead
<1>9. QED
  BY <1>2, <1>6, <1>7, <1>8 DEF AttachInv

(* A frame comes.                                                             *)
LEMMA ClientReceivesLeads == ASSUME AttachInv, ClientReceives PROVE AttachInv'
<1> DEFINE frame == Head(due)
           t == cli.target
           n == Len(due)
<1>1. /\ due # <<>> /\ due' = Tail(due) /\ output' = output /\ viewing' = viewing /\ sent' = sent
      /\ cli' = Takes(cli, frame)
  BY DEF ClientReceives
<1>2. /\ cli \in Clients /\ due \in Seq(FramesDue) /\ output \in [Sessions -> Nat] /\ t \in Sessions
      /\ missed \in BOOLEAN
  BY DEF AttachInv, AttachTypeOK, Clients
<1>3. n \in Nat \ {0} /\ frame = due[1] /\ frame \in FramesDue /\ due' \in Seq(FramesDue)
  BY <1>1, <1>2
<1>4. Len(due') = n - 1 /\ \A i \in 1 .. n - 1 : due'[i] = due[i + 1]
  BY <1>1, <1>2
<1>5. frame.seq \in Nat /\ frame.seq <= output[frame.of] /\ frame.of \in Sessions
      /\ frame.cmd \in {"ATTACH", "DATA", "SNAPSHOT"}
  <2>1. frame.seq <= output[frame.of]
    BY <1>2, <1>3 DEF AttachInv, NoneAhead
  <2>2. QED
    BY <1>3, <2>1 DEF FramesDue
<1> HIDE DEF frame
<1>6. missed' \in BOOLEAN
  BY <1>2, Zenon DEF ClientReceives
<1>7. Painted(cli, frame) \in Screens
  BY <1>5 DEF Painted, Screens, Showing, NoScreen
<1>8. cli' \in Clients /\ (cli'.connected <=> cli.connected)
  <2>1. cli' \in Clients
    BY <1>1, <1>2, <1>5, <1>7 DEF Takes, Clients
  <2>2. cli'.connected <=> cli.connected
    BY <1>1, <1>2, Zenon DEF Takes, Clients
  <2>3. QED
    BY <2>1, <2>2
<1>9. cli'.target = t /\ cli'.uiMode = cli.uiMode /\ cli'.lastSeq \in {cli.lastSeq, frame.seq}
      /\ (cli'.lastSeq = cli.lastSeq \/ frame.of = t)
  BY <1>1, <1>2 DEF Takes, Clients
<1>10. NoneAhead'
  <2>1. \A i \in 1 .. n : due[i].seq <= output[due[i].of]
    BY <1>2 DEF AttachInv, NoneAhead
  <2>2. \A i \in 1 .. n - 1 : i + 1 \in 1 .. n /\ due'[i] = due[i + 1]
    BY <1>3, <1>4
  <2>3. DOMAIN due' = 1 .. n - 1
    BY <1>3, <1>4
  <2>4. \A i \in DOMAIN due' : due'[i].seq <= output[due'[i].of]
    BY <2>1, <2>2, <2>3
  <2>5. cli'.lastSeq <= output[t]
    BY <1>5, <1>9 DEF AttachInv, NoneAhead
  <2>6. QED
    BY <1>1, <1>9, <2>4, <2>5 DEF AttachInv, NoneAhead
<1>11. AttachTypeOK'
  BY <1>1, <1>3, <1>6, <1>8 DEF AttachInv, AttachTypeOK
<1>12. cli.connected
  BY <1>1 DEF AttachInv, Apart
<1>13. ~Paints(frame, t) => Stands \subseteq Stands'
  <2> SUFFICES ASSUME ~Paints(frame, t) PROVE Stands \subseteq Stands'
    OBVIOUS
  <2>1. missed' <=> missed
    BY Zenon DEF ClientReceives, Paints, frame
  <2>2. cli'.screen = cli.screen
    BY <1>1, <1>2 DEF Takes, Paints, Clients
  <2>3. QED
    BY <1>9, <2>1, <2>2 DEF Stands, Ready, Showing
<1>14. Paints(frame, t) /\ cli.uiMode # "attached" => Stands' = Nat
  <2> SUFFICES ASSUME Paints(frame, t), cli.uiMode # "attached" PROVE Stands' = Nat
    OBVIOUS
  <2>1. cli.uiMode = "prefix" => missed'
    BY Zenon DEF ClientReceives, Paints, frame
  <2>2. ~Ready'
    BY <1>9, <2>1 DEF Ready
  <2>3. QED
    BY <2>2 DEF Stands
<1>15. Paints(frame, t) /\ frame.cmd = "SNAPSHOT" => frame.seq \in Stands'
  <2> SUFFICES ASSUME Paints(frame, t), frame.cmd = "SNAPSHOT" PROVE frame.seq \in Stands'
    OBVIOUS
  <2>1. CASE cli.uiMode = "attached"
    <3>1. cli'.screen = Showing(t, frame.seq)
      BY <1>1, <1>2, <2>1 DEF Takes, Paints, Painted, Clients
    <3>2. QED
      BY <1>5, <1>9, <3>1 DEF Stands
  <2>2. QED
    BY <1>5, <1>14, <2>1
<1>16. Paints(frame, t) /\ frame.cmd = "DATA" => \A m \in Stands : frame.seq = m + 1 => m + 1 \in Stands'
  <2> SUFFICES ASSUME Paints(frame, t), frame.cmd = "DATA", NEW m \in Stands, frame.seq = m + 1
               PROVE  m + 1 \in Stands'
    OBVIOUS
  <2>1. m \in Nat /\ m + 1 \in Nat /\ frame.seq - 1 = m
    BY DEF Stands
  <2>2. CASE cli.uiMode = "attached"
    <3>1. missed' <=> missed
      BY <2>2, Zenon DEF ClientReceives, Paints, frame
    <3>2. Ready => cli.screen = Showing(t, frame.seq - 1)
      BY <2>1 DEF Stands
    <3>3. cli.screen = Showing(t, frame.seq - 1) => cli'.screen = Showing(t, frame.seq)
      BY <1>1, <1>2, <2>2 DEF Takes, Paints, Painted, Clients
    <3>4. Ready' => Ready
      BY <1>9, <3>1 DEF Ready
    <3>5. QED
      BY <1>9, <2>1, <3>2, <3>3, <3>4 DEF Stands
  <2>3. QED
    BY <1>14, <2>1, <2>2
<1>17. CASE sent = <<>>
  <2>1. t \in viewing /\ Leads(due, t, output[t], Stands) /\ output[t] \in Nat
    BY <1>2, <1>12, <1>17 DEF AttachInv, LedOn
  <2>2. Leads(Tail(due), t, output[t], Stands')
    BY <1>1, <1>2, <1>13, <1>15, <1>16, <2>1, LeadsShrink DEF frame
  <2>3. LedOn'
    BY <1>1, <1>9, <2>1, <2>2 DEF LedOn
  <2>4. QED
    BY <1>1, <1>8, <1>10, <1>11, <1>12, <1>17, <2>3 DEF AttachInv
<1>18. CASE sent # <<>>
  <2>1. Asks
    BY <1>12, <1>18 DEF AttachInv
  <2>2. Asks'
    BY <1>1, <1>9, <2>1 DEF Asks
  <2>3. QED
    BY <1>1, <1>8, <1>10, <1>11, <1>12, <1>18, <2>2 DEF AttachInv
<1>19. QED
  BY <1>17, <1>18

-----------------------------------------------------------------------------
(* Keys, and the answers to requests for members.                                   *)
LEMMA KeysKeep ==
  ASSUME AttachInv, EntersPrefix \/ PrefixEnds \/ EntersHelp \/ EntersPicker \/ AsksNext
  PROVE  AttachInv'
<1>1. cli \in Clients
  BY DEF AttachInv, AttachTypeOK
<1>2. /\ missed' = missed /\ output' = output /\ viewing' = viewing /\ sent' = sent /\ due' = due
  BY DEF EntersPrefix, PrefixEnds, EntersHelp, EntersPicker, AsksNext
<1>3. cli' \in Clients
  <2>1. CASE EntersPrefix \/ PrefixEnds
    BY <1>1, <2>1 DEF EntersPrefix, PrefixEnds, Clients, Modes
  <2>2. NoScreen \in Screens
    BY DEF Screens, NoScreen
  <2>3. CASE EntersHelp
    BY <1>1, <2>2, <2>3 DEF EntersHelp, Clients, Modes
  <2>4. cli.picking + 1 \in Nat /\ cli.cycling + 1 \in Nat
    BY <1>1 DEF Clients
  <2>5. CASE EntersPicker
    BY <1>1, <2>2, <2>4, <2>5 DEF EntersPicker, Clients, Modes
  <2>6. CASE AsksNext
    BY <1>1, <2>4, <2>6 DEF AsksNext, Clients, Modes
  <2>7. QED
    BY <2>1, <2>3, <2>5, <2>6
<1>4. cli'.connected <=> cli.connected
  BY <1>1, Zenon DEF EntersPrefix, PrefixEnds, EntersHelp, EntersPicker, AsksNext, Clients
<1>5. /\ cli'.target = cli.target /\ cli'.lastSeq = cli.lastSeq
      /\ cli'.uiMode \in {"attached", "prefix"} =>
           cli.uiMode \in {"attached", "prefix"} /\ cli'.screen = cli.screen
  BY <1>1 DEF EntersPrefix, PrefixEnds, EntersHelp, EntersPicker, AsksNext, Presses, Clients
<1>6. QED
  BY <1>2, <1>3, <1>4, <1>5, ScreenStays

LEMMA ExitsKeep == ASSUME AttachInv, NEW s \in Sessions, ExitsHelp \/ ExitsPicker(s) PROVE AttachInv'
<1> DEFINE c == [cli EXCEPT !.uiMode = "attached"]
<1>1. cli \in Clients /\ cli.target \in Sessions
  BY DEF AttachInv, AttachTypeOK, Clients
<1>2. c \in Clients
  BY <1>1 DEF Clients, Modes
<1>3. c.connected <=> cli.connected
  BY <1>1, Zenon DEF Clients
<1>4. /\ missed' = missed /\ output' = output /\ viewing' = viewing /\ due' = due
      /\ Switches(c, cli.target) \/ Switches(c, s)
  BY DEF ExitsHelp, ExitsPicker
<1> HIDE DEF c
<1>5. QED
  BY <1>1, <1>2, <1>3, <1>4, SwitchAsks

LEMMA PickerFillsKeeps == ASSUME AttachInv, NEW none \in BOOLEAN, PickerFills(none) PROVE AttachInv'
<1> DEFINE c == [cli EXCEPT !.picking = @ - 1]
           back == [c EXCEPT !.uiMode = "attached"]
<1>1. cli \in Clients /\ cli.target \in Sessions /\ cli.picking \in Nat
  BY DEF AttachInv, AttachTypeOK, Clients
<1>2. /\ missed' = missed /\ output' = output /\ viewing' = viewing /\ due' = due /\ cli.picking > 0
  BY DEF PickerFills
<1>3. cli.picking - 1 \in Nat
  BY <1>1, <1>2
<1>4. c \in Clients /\ back \in Clients /\ c.target = cli.target
  BY <1>1, <1>3 DEF Clients, Modes
<1>5. (c.connected <=> cli.connected) /\ (back.connected <=> cli.connected)
  BY <1>1, Zenon DEF Clients
<1>6. CASE (cli' = c /\ sent' = sent) \/ (cli' = [c EXCEPT !.ready = TRUE] /\ sent' = sent)
  <2>1. cli' \in Clients
    BY <1>4, <1>6 DEF Clients
  <2>2. cli'.connected <=> cli.connected
    BY <1>1, <1>6, Zenon DEF Clients
  <2>3. cli'.target = cli.target /\ cli'.lastSeq = cli.lastSeq /\ cli'.uiMode = cli.uiMode /\ cli'.screen = cli.screen
    BY <1>1, <1>6 DEF Clients
  <2>4. sent' = sent
    BY <1>6
  <2>5. QED
    BY <1>2, <2>1, <2>2, <2>3, <2>4, ScreenStays
<1>7. CASE Switches(back, c.target)
  <2> HIDE DEF back, c
  <2>1. QED
    BY <1>1, <1>2, <1>4, <1>5, <1>7, SwitchAsks
<1>8. QED
  BY <1>6, <1>7 DEF PickerFills

LEMMA CyclesKeeps == ASSUME AttachInv, NEW s \in Sessions, Cycles(s) PROVE AttachInv'
<1> DEFINE c == [cli EXCEPT !.cycling = @ - 1]
<1>1. cli \in Clients /\ cli.cycling \in Nat
  BY DEF AttachInv, AttachTypeOK, Clients
<1>2. /\ missed' = missed /\ output' = output /\ viewing' = viewing /\ due' = due /\ cli.cycling > 0
  BY DEF Cycles
<1>3. cli.cycling - 1 \in Nat
  BY <1>1, <1>2
<1>4. c \in Clients /\ c.target = cli.target /\ c.lastSeq = cli.lastSeq /\ c.uiMode = cli.uiMode /\ c.screen = cli.screen
  BY <1>1, <1>3 DEF Clients
<1>5. c.connected <=> cli.connected
  BY <1>1, Zenon DEF Clients
<1>6. (cli' = c /\ sent' = sent) \/ Switches(c, s)
  BY DEF Cycles
<1> HIDE DEF c
<1>7. CASE cli' = c /\ sent' = sent
  BY <1>2, <1>4, <1>5, <1>7, ScreenStays
<1>8. QED
  BY <1>2, <1>4, <1>5, <1>6, <1>7, SwitchAsks

-----------------------------------------------------------------------------
LEMMA AttachStarts == ASSUME AttachInit PROVE AttachInv
<1>1. (CHOOSE s \in Sessions : TRUE) \in Sessions
  BY AttachAssumption
<1>2. cli \in Clients /\ cli.lastSeq = 0 /\ cli.target \in Sessions
  BY <1>1 DEF AttachInit, Clients, Modes, Screens, NoScreen
<1>3. ~cli.connected
  BY Zenon DEF AttachInit
<1>4. AttachTypeOK /\ output \in [Sessions -> Nat] /\ output[cli.target] = 1
  <2>1. output \in [Sessions -> Nat] /\ output[cli.target] = 1 /\ viewing = {}
    BY <1>2 DEF AttachInit
  <2>2. sent \in Seq(FramesSent) /\ due \in Seq(FramesDue)
    BY DEF AttachInit
  <2>3. missed \in BOOLEAN
    BY Zenon DEF AttachInit
  <2>4. QED
    BY <1>2, <2>1, <2>2, <2>3 DEF AttachTypeOK
<1>5. NoneAhead
  BY <1>2, <1>4 DEF AttachInit, NoneAhead
<1>6. Apart
  BY <1>2 DEF AttachInit, Apart
<1>7. QED
  BY <1>3, <1>4, <1>5, <1>6 DEF AttachInv

LEMMA AttachKeeps == ASSUME AttachInv, [AttachNext]_attachVars PROVE AttachInv'
<1>1. CASE \E s \in Sessions : SessionPrints(s) \/ ServerResnaps(s) \/ ExitsPicker(s) \/ Cycles(s)
  BY <1>1, SessionPrintsLeads, ServerResnapsLeads, ExitsKeep, CyclesKeeps
<1>2. CASE \E b \in BOOLEAN : ServerTakes(b) \/ PickerFills(b)
  BY <1>2, ServerTakesLeads, PickerFillsKeeps
<1>3. CASE Connects \/ ConnectionLost \/ ClientReceives
  BY <1>3, ConnectsAsks, ConnectionLostLeaves, ClientReceivesLeads
<1>4. CASE EntersPrefix \/ PrefixEnds \/ EntersHelp \/ EntersPicker \/ AsksNext
  BY <1>4, KeysKeep
<1>5. CASE ExitsHelp
  <2>1. PICK s \in Sessions : TRUE
    BY AttachAssumption
  <2>2. QED
    BY <1>5, <2>1, ExitsKeep
<1>6. CASE UNCHANGED attachVars
  BY <1>6, Zenon DEF attachVars, AttachInv, AttachTypeOK, NoneAhead, Apart, LedOn, Asks, Stands, Ready
<1>7. QED
  BY <1>1, <1>2, <1>3, <1>4, <1>5, <1>6 DEF AttachNext

(* With nothing on the way, the screen of `ttym attach` outside its own pages is the session  *)
(* followed up to its last chunk, but for what came while the prefix waited for its key      *)
(* and for a connection lost between a number and its screen.                          *)
THEOREM ClientScreenFollows == AttachSpec => []ScreenFollows
<1>1. AttachInv => ScreenFollows
  <2> SUFFICES ASSUME AttachInv, cli.connected, cli.uiMode = "attached", sent = <<>>, due = <<>>, ~missed
               PROVE  cli.screen = Showing(cli.target, output[cli.target])
    BY DEF ScreenFollows
  <2>1. Leads(due, cli.target, output[cli.target], Stands)
    BY DEF AttachInv, LedOn
  <2>2. PICK k \in 0 .. Len(due), e \in [0 .. Len(due) -> Nat] :
          LeadsOn(due, cli.target, output[cli.target], Stands, k, e)
    BY <2>1 DEF Leads
  <2>3. Len(due) = 0 /\ k = 0
    BY <2>2
  <2>4. output[cli.target] \in Stands
    BY <2>2, <2>3 DEF LeadsOn
  <2>5. QED
    BY <2>4 DEF Stands, Ready
<1>2. QED
  BY <1>1, AttachStarts, AttachKeeps, PTL DEF AttachSpec

-----------------------------------------------------------------------------
(* HolderRing: what the holder keeps of the output.                                   *)

(* What the numbers up to n share, the least of those that do not would.              *)
LEMMA Upward ==
  ASSUME NEW n \in Nat, NEW S, 0 \in S, \A i \in 0 .. n : i + 1 \in 0 .. n /\ i \in S => i + 1 \in S
  PROVE  \A i \in 0 .. n : i \in S
<1> DEFINE Less == {ss \in Nat \X Nat : ss[1] < ss[2]}
           T == {i \in 0 .. n : i \notin S}
<1>1. IsWellFoundedOn(Less, Nat)
  BY NatLessThanWellFounded, Zenon DEF OpToRel
<1>2. SUFFICES ASSUME T # {} PROVE FALSE
  OBVIOUS
<1>3. PICK x \in T : \A y \in T : ~(<<y, x>> \in Less)
  <2>1. T \subseteq Nat
    OBVIOUS
  <2> HIDE DEF Less, T
  <2>2. QED
    BY <1>1, <1>2, <2>1, WFMin, Zenon
<1>4. x \in 0 .. n /\ x \notin S /\ x # 0
  BY <1>3
<1>5. x - 1 \in 0 .. n /\ x - 1 + 1 = x /\ x - 1 < x /\ x - 1 \in Nat /\ x \in Nat
  BY <1>4
<1>6. x - 1 \in S
  BY <1>3, <1>5
<1>7. QED
  BY <1>4, <1>5, <1>6

OutBytes == {"a", "lead", "cont", "esc", "(", "[", "1", "]", "bel", "\\", "0"}

LexStates == {"ground", "utf8", "esc", "escInter", "csi", "string", "stringEsc"}

Trackers == [state : LexStates, at : Nat, last : Nat, anchors : Seq(Nat)]

RingBytes == [buf : [0 .. Capacity - 1 -> OutBytes], start : 0 .. Capacity - 1, len : 0 .. Capacity, written : Nat]

RingTypes ==
  /\ emitted \in Seq(OutBytes) /\ whole \in SUBSET Nat
  /\ bytes \in RingBytes /\ bytes.len <= bytes.written /\ bytes.written <= Len(emitted)
  /\ tracker \in Trackers /\ tracker.at = bytes.written

(* r holds the last of what was written, up to where it was written.                     *)
HeldFrom(buf, start, len, written, out) ==
  \A i \in 0 .. len - 1 : buf[(start + i) % Capacity] = out[(written - len) + i + 1]

HoldsLast(r, out) == HeldFrom(r.buf, r.start, r.len, r.written, out)

(* The states the output goes through; between two sequences it is on the ground.          *)
LexedAs(lex, out, between) ==
  /\ lex[0] = "ground" /\ lex[Len(out)] = "ground"
  /\ \A i \in 0 .. Len(out) : lex[i] \in LexStates /\ (i \in between <=> lex[i] = "ground")
  /\ \A i \in 1 .. Len(out) : lex[i] = LexStep(lex[i - 1], out[i])
  /\ between \subseteq 0 .. Len(out)

(* A grain after base and later, each place where nothing is cut has an anchor close       *)
(* before it; the anchors are far from each other.                                    *)
Spaced(a, last) ==
  /\ \A i \in 1 .. Len(a) : last - a[i] >= (Len(a) - i) * Grain
  /\ \A i, j \in 1 .. Len(a) : i < j => a[i] < a[j]
  /\ Len(a) <= AnchorCap

Covered(a, between, upto, base) ==
  /\ \A i \in 1 .. Len(a) : a[i] \in between
  /\ \A b \in between : b <= upto /\ base + Grain <= b =>
       \E i \in 1 .. Len(a) : a[i] <= b /\ b < a[i] + Grain

AnchorsFar(t) == Spaced(t.anchors, t.last) /\ t.last <= t.at

AnchorsCover(t, between, base) ==
  /\ Covered(t.anchors, between, t.at, base)
  /\ t.last < base \/ \E i \in 1 .. Len(t.anchors) : t.anchors[i] = t.last

RingInv ==
  /\ RingTypes
  /\ HoldsLast(bytes, emitted)
  /\ \E lex : LexedAs(lex, emitted, whole) /\ tracker.state = lex[bytes.written]
  /\ AnchorsFar(tracker) /\ AnchorsCover(tracker, whole, BaseOf(bytes))

-----------------------------------------------------------------------------
(* The ring.                                                                   *)

LEMMA ModSmall == ASSUME NEW c \in Nat \ {0}, NEW a \in 0 .. c - 1 PROVE a % c = a
OBVIOUS

LEMMA ModOnce == ASSUME NEW c \in Nat \ {0}, NEW a \in c .. 2 * c - 1 PROVE a % c = a - c
OBVIOUS

LEMMA ModBelow == ASSUME NEW c \in Nat \ {0}, NEW a \in (-c) .. -1 PROVE a % c = a + c
OBVIOUS

(* Round the ring, forward and back.                                             *)
LEMMA WrapUp ==
  ASSUME NEW c \in Nat \ {0}, NEW s \in 0 .. c - 1, NEW i \in 0 .. c
  PROVE  /\ (s + i) % c \in 0 .. c - 1
         /\ s + i < c => (s + i) % c = s + i
         /\ s + i >= c => (s + i) % c = (s + i) - c
<1>1. CASE s + i < c
  <2>1. s + i \in 0 .. c - 1
    BY <1>1
  <2> DEFINE a == s + i
  <2> HIDE DEF a
  <2>2. a % c = a
    BY <2>1, ModSmall DEF a
  <2>3. QED
    BY <1>1, <2>1, <2>2 DEF a
<1>2. CASE s + i >= c
  <2>1. s + i \in c .. 2 * c - 1
    BY <1>2
  <2> DEFINE a == s + i
  <2> HIDE DEF a
  <2>2. a % c = a - c
    BY <2>1, ModOnce DEF a
  <2>3. (s + i) % c = (s + i) - c
    BY <2>2 DEF a
  <2>4. (s + i) - c \in 0 .. c - 1 /\ ~(s + i < c)
    BY <1>2
  <2>5. QED
    BY <2>3, <2>4
<1>3. QED
  BY <1>1, <1>2

LEMMA WrapDown ==
  ASSUME NEW c \in Nat \ {0}, NEW k \in 0 .. c - 1, NEW e \in 0 .. c - 1
  PROVE  /\ (k - e) % c \in 0 .. c - 1
         /\ k < e => (k - e) % c = (k - e) + c
         /\ k >= e => (k - e) % c = k - e
<1> DEFINE a == k - e
<1>1. CASE k < e
  <2>1. k - e \in (-c) .. -1
    BY <1>1
  <2> HIDE DEF a
  <2>2. a % c = a + c
    BY <2>1, ModBelow DEF a
  <2>3. (k - e) % c = (k - e) + c
    BY <2>2 DEF a
  <2>4. (k - e) + c \in 0 .. c - 1 /\ ~(k >= e)
    BY <1>1
  <2>5. QED
    BY <2>3, <2>4
<1>2. CASE k >= e
  <2>1. k - e \in 0 .. c - 1
    BY <1>2
  <2> HIDE DEF a
  <2>2. a % c = a
    BY <2>1, ModSmall DEF a
  <2>3. (k - e) % c = k - e
    BY <2>2 DEF a
  <2>4. ~(k < e)
    BY <1>2
  <2>5. QED
    BY <2>1, <2>3, <2>4
<1>3. QED
  BY <1>1, <1>2

(* Where the new oldest byte is: n bytes were written over l that began at s.            *)
LEMMA OldestIs ==
  ASSUME NEW c \in Nat \ {0}, NEW s \in 0 .. c - 1, NEW l \in 0 .. c, NEW n \in 0 .. c - 1, l + n > c
  PROVE  /\ ((s + l + n) - c) % c \in 0 .. c - 1
         /\ ((s + l + n) - c) % c = s + ((l + n) - c) \/ ((s + l + n) - c) % c = (s + ((l + n) - c)) - c
<1> DEFINE i == (l + n) - c
<1>1. i \in 0 .. c /\ (s + l + n) - c = s + i
  OBVIOUS
<1> HIDE DEF i
<1>a. i \in 0 .. c
  BY <1>1
<1>b. /\ (s + i) % c \in 0 .. c - 1
      /\ s + i < c => (s + i) % c = s + i
      /\ s + i >= c => (s + i) % c = (s + i) - c
  BY <1>a, WrapUp, Zenon
<1>2. (s + i) % c \in 0 .. c - 1 /\ ((s + i) % c = s + i \/ (s + i) % c = (s + i) - c)
  BY <1>a, <1>b
<1>3. QED
  BY <1>1, <1>2 DEF i

(* A write of data from end on, and around.                                          *)
WroteOver(n, end, old, new, data) ==
  \A k \in 0 .. Capacity - 1 : /\ (k - end) % Capacity < n => new[k] = data[((k - end) % Capacity) + 1]
                               /\ ~((k - end) % Capacity < n) => new[k] = old[k]

(* What a write overwrites and what it leaves.                                        *)
LEMMA WrittenOver ==
  ASSUME NEW s \in 0 .. Capacity - 1, NEW l \in 0 .. Capacity, NEW n \in 0 .. Capacity - 1,
         NEW len \in 0 .. Capacity, len = l + n \/ (len = Capacity /\ l + n > Capacity),
         NEW start \in 0 .. Capacity - 1,
         start = s + ((l + n) - len) \/ start = (s + ((l + n) - len)) - Capacity,
         NEW old, NEW new, NEW data, NEW w \in Nat, l <= w, NEW out,
         HeldFrom(old, s, l, w, out),
         \A i \in 1 .. n : data[i] = out[w + i],
         WroteOver(n, (s + l) % Capacity, old, new, data)
  PROVE  HeldFrom(new, start, len, w + n, out)
<1> DEFINE c == Capacity
<1> SUFFICES ASSUME NEW j \in 0 .. len - 1 PROVE new[(start + j) % c] = out[((w + n) - len) + j + 1]
  BY DEF HeldFrom
<1>0. \A i \in 0 .. l - 1 : old[(s + i) % c] = out[(w - l) + i + 1]
  BY DEF HeldFrom
<1>c. /\ c \in Nat \ {0} /\ s \in 0 .. c - 1 /\ l \in 0 .. c /\ n \in 0 .. c - 1 /\ len \in 0 .. c /\ start \in 0 .. c - 1
      /\ len = l + n \/ (len = c /\ l + n > c)
      /\ start = s + ((l + n) - len) \/ start = (s + ((l + n) - len)) - c
  BY RingBytesAssumption
<1> DEFINE end == (s + l) % c
<1>w. \A k \in 0 .. c - 1 : /\ (k - end) % c < n => new[k] = data[((k - end) % c) + 1]
                            /\ ~((k - end) % c < n) => new[k] = old[k]
  BY Zenon DEF WroteOver
<1> HIDE DEF c
<1>1. end \in 0 .. c - 1 /\ (end = s + l \/ end = (s + l) - c)
  <2>1. /\ (s + l) % c \in 0 .. c - 1
        /\ s + l < c => (s + l) % c = s + l
        /\ s + l >= c => (s + l) % c = (s + l) - c
    BY <1>c, WrapUp, Zenon
  <2>2. QED
    BY <1>c, <2>1
<1> HIDE DEF end
<1> DEFINE k == (start + j) % c
           x == (k - end) % c
           i == ((l + n) - len) + j
<1>2. k \in 0 .. c - 1 /\ (k = start + j \/ k = (start + j) - c)
  <2>1. j \in 0 .. c
    BY <1>c
  <2>2. /\ (start + j) % c \in 0 .. c - 1
        /\ start + j < c => (start + j) % c = start + j
        /\ start + j >= c => (start + j) % c = (start + j) - c
    BY <1>c, <2>1, WrapUp, Zenon
  <2>3. QED
    BY <1>c, <2>1, <2>2
<1> HIDE DEF k
<1>3. x \in 0 .. c - 1 /\ ((k < end /\ x = (k - end) + c) \/ (k >= end /\ x = k - end))
  <2>0. k \in 0 .. c - 1 /\ end \in 0 .. c - 1
    BY <1>1, <1>2
  <2>1. /\ (k - end) % c \in 0 .. c - 1
        /\ k < end => (k - end) % c = (k - end) + c
        /\ k >= end => (k - end) % c = k - end
    BY <1>c, <2>0, WrapDown, Zenon
  <2>2. QED
    BY <2>0, <2>1
<1>4. /\ x < n => new[k] = data[x + 1]
      /\ ~(x < n) => new[k] = old[k]
  BY <1>2, <1>w
<1> HIDE DEF x
<1>5. i \in Int /\ i = ((l + n) - len) + j
  BY <1>c
<1> HIDE DEF i
<1>6. /\ i < l => i >= 0 /\ ~(x < n) /\ (k = s + i \/ k = (s + i) - c)
      /\ i >= l => x = i - l /\ x < n
  <2>b. k = s + i \/ k = (s + i) - c \/ k = (s + i) - (c + c)
    BY <1>c, <1>2, <1>5
  <2>c. i >= 0 /\ i < l + n
    BY <1>c, <1>5
  <2>1. x = i - l \/ x = (i - l) - c \/ x = (i - l) + c \/ x = (i - l) - (c + c) \/ x = (i - l) + (c + c)
       \/ x = (i - l) - (c + c + c) \/ x = (i - l) + (c + c + c)
    BY <1>c, <1>1, <1>3, <2>b, <1>2, <1>5
  <2>2. CASE i >= l
    BY <1>c, <1>1, <1>2, <1>3, <1>5, <2>1, <2>2, <2>c
  <2>3. CASE i < l
    <3>1. k = s + i \/ k = (s + i) - c
      BY <1>c, <1>2, <1>5, <2>b, <2>3
    <3>2. QED
      BY <1>c, <1>1, <1>2, <1>3, <1>5, <2>1, <2>3, <2>c, <3>1
  <2>4. QED
    BY <1>c, <1>5, <2>2, <2>3
<1>7. CASE i < l
  <2>1. i \in 0 .. l - 1 /\ i \in 0 .. c
    BY <1>c, <1>5, <1>6, <1>7
  <2>2. /\ (s + i) % c \in 0 .. c - 1
        /\ s + i < c => (s + i) % c = s + i
        /\ s + i >= c => (s + i) % c = (s + i) - c
    BY <1>c, <2>1, WrapUp, Zenon
  <2>3. (s + i) % c = k
    BY <1>c, <1>2, <1>6, <1>7, <2>1, <2>2
  <2>4. new[k] = old[k]
    BY <1>4, <1>6, <1>7
  <2>5. old[k] = out[(w - l) + i + 1]
    BY <1>0, <2>1, <2>3
  <2>6. (w - l) + i + 1 = ((w + n) - len) + j + 1
    BY <1>c, <1>5
  <2>7. QED
    BY <2>4, <2>5, <2>6 DEF k
<1>8. CASE i >= l
  <2>1. x = i - l /\ x < n /\ x + 1 \in 1 .. n
    BY <1>c, <1>3, <1>6, <1>8
  <2>2. new[k] = data[x + 1] /\ data[x + 1] = out[w + (x + 1)]
    BY <1>4, <2>1
  <2>3. w + (x + 1) = ((w + n) - len) + j + 1
    BY <1>c, <1>5, <2>1
  <2>4. QED
    BY <2>2, <2>3 DEF k
<1>9. QED
  BY <1>c, <1>5, <1>7, <1>8

LEMMA CutOut ==
  ASSUME NEW S, NEW t \in Seq(S), NEW a \in Nat, NEW n \in Nat, a + n <= Len(t)
  PROVE  /\ SubSeq(t, a + 1, a + n) \in Seq(S) /\ Len(SubSeq(t, a + 1, a + n)) = n
         /\ \A i \in 1 .. n : SubSeq(t, a + 1, a + n)[i] = t[a + i] /\ SubSeq(t, a + 1, a + n)[i] \in S
<1>1. Len(t) \in Nat /\ \A i \in 1 .. Len(t) : t[i] \in S
  OBVIOUS
<1>2. \A i \in a + 1 .. a + n : t[i] \in S
  BY <1>1
<1>3. SubSeq(t, a + 1, a + n) \in Seq(S)
  BY <1>2
<1>4. Len(SubSeq(t, a + 1, a + n)) = n
  OBVIOUS
<1>5. \A i \in 1 .. n : SubSeq(t, a + 1, a + n)[i] = t[a + i]
  OBVIOUS
<1>6. QED
  BY <1>1, <1>3, <1>4, <1>5

WritesAs(p, r, out, n) ==
  /\ p \in RingBytes
  /\ p.written = r.written + n
  /\ p.len <= p.written
  /\ r.written - r.len <= p.written - p.len
  /\ p.written - Capacity <= p.written - p.len
  /\ HoldsLast(p, out)

(* The ring holds the last that was written, in one piece or two, however much was written  *)
(* at once.                                                                    *)
LEMMA PushedHolds ==
  ASSUME NEW r \in RingBytes, r.len <= r.written, NEW out \in Seq(OutBytes), HoldsLast(r, out),
         NEW n \in Nat \ {0}, r.written + n <= Len(out)
  PROVE  WritesAs(Pushed(r, SubSeq(out, r.written + 1, r.written + n)), r, out, n)
<1> DEFINE data == SubSeq(out, r.written + 1, r.written + n)
           p == Pushed(r, data)
<1> DEFINE c == Capacity
           s == r.start
           l == r.len
           w == r.written
           old == r.buf
<1>1. c \in Nat \ {0} /\ s \in 0 .. c - 1 /\ l \in 0 .. c /\ w \in Nat /\ l <= w /\ Len(out) \in Nat
      /\ old \in [0 .. c - 1 -> OutBytes] /\ w + n <= Len(out)
  BY RingBytesAssumption DEF RingBytes
<1>2. data \in Seq(OutBytes) /\ Len(data) = n /\ \A i \in 1 .. n : data[i] = out[w + i] /\ data[i] \in OutBytes
  <2>1. data = SubSeq(out, w + 1, w + n)
    OBVIOUS
  <2> HIDE DEF c, s, l, w, old
  <2>2. n \in Nat
    BY <1>1
  <2>3. w \in Nat
    BY <1>1
  <2>4. w + n <= Len(out)
    BY <1>1
  <2>5. out \in Seq(OutBytes)
    OBVIOUS
  <2> HIDE DEF OutBytes
  <2>6. /\ SubSeq(out, w + 1, w + n) \in Seq(OutBytes) /\ Len(SubSeq(out, w + 1, w + n)) = n
        /\ \A i \in 1 .. n : SubSeq(out, w + 1, w + n)[i] = out[w + i] /\ SubSeq(out, w + 1, w + n)[i] \in OutBytes
    BY ONLY <2>2, <2>3, <2>4, <2>5, CutOut
  <2>7. QED
    BY ONLY <2>1, <2>6
<1>3. HeldFrom(old, s, l, w, out)
  BY DEF HoldsLast
<1>4. p = IF n >= c
          THEN [buf |-> [k \in 0 .. c - 1 |-> data[n - c + k + 1]], start |-> 0, len |-> c, written |-> w + n]
          ELSE [buf |-> CopiedIn(old, (s + l) % c, data),
                start |-> Oldest(r, n), len |-> IF l + n > c THEN c ELSE l + n, written |-> w + n]
  <2>1. Len(data) = n
    BY <1>2
  <2>2. QED
    BY <2>1 DEF Pushed
<1>5. Oldest(r, n) = IF l + n > c THEN (s + l + n - c) % c ELSE s
  BY Zenon DEF Oldest
<1>p. data = SubSeq(out, r.written + 1, r.written + n) /\ p = Pushed(r, data)
  OBVIOUS
<1> SUFFICES WritesAs(p, r, out, n)
  OBVIOUS
<1> HIDE DEF c, s, l, w, old, data, p
<1>6. CASE n >= c
  <2> DEFINE b == [k \in 0 .. c - 1 |-> data[n - c + k + 1]]
  <2>1. p = [buf |-> b, start |-> 0, len |-> c, written |-> w + n]
    BY <1>4, <1>6
  <2>2. ASSUME NEW k \in 0 .. c - 1
        PROVE  b[k] = out[(((w + n) - c) + k) + 1] /\ b[k] \in OutBytes
    <3>1. n - c + k + 1 \in 1 .. n /\ w + (n - c + k + 1) = (((w + n) - c) + k) + 1
      BY <1>1, <1>6
    <3>2. b[k] = data[n - c + k + 1]
      OBVIOUS
    <3>3. QED
      BY <1>2, <3>1, <3>2
  <2>3. b \in [0 .. c - 1 -> OutBytes]
    BY <2>2
  <2> HIDE DEF b
  <2>4. p.buf = b /\ p.start = 0 /\ p.len = c /\ p.written = w + n
    BY <2>1
  <2>5. p \in [buf : [0 .. c - 1 -> OutBytes], start : 0 .. c - 1, len : 0 .. c, written : Nat]
    <3>1. 0 \in 0 .. c - 1 /\ c \in 0 .. c /\ w + n \in Nat
      BY <1>1
    <3>2. QED
      BY <2>1, <2>3, <3>1
  <2>6. ASSUME NEW i \in 0 .. p.len - 1
        PROVE  p.buf[(p.start + i) % c] = out[(p.written - p.len) + i + 1]
    <3>1. i \in 0 .. c - 1
      BY <2>4
    <3>2. i % c = i
      BY <3>1, <1>1, ModSmall
    <3>3. 0 + i = i /\ (p.written - p.len) + i + 1 = (((w + n) - c) + i) + 1
      BY <1>1, <2>4, <3>1
    <3>4. QED
      BY <2>2, <2>4, <3>1, <3>2, <3>3
  <2>7. HoldsLast(p, out) /\ p \in RingBytes
    BY <2>5, <2>6 DEF HoldsLast, HeldFrom, RingBytes, c
  <2>8. p.written = w + n /\ p.len <= p.written /\ w - l <= p.written - p.len /\ p.written - c <= p.written - p.len
    BY <1>1, <1>6, <2>4
  <2>9. QED
    BY <2>7, <2>8 DEF c, l, w, WritesAs
<1>7. CASE n < c
  <2> DEFINE end == (s + l) % c
             b == CopiedIn(old, end, data)
             start == Oldest(r, n)
             len == IF l + n > c THEN c ELSE l + n
  <2>1. p = [buf |-> b, start |-> start, len |-> len, written |-> w + n]
    <3>1. ~(n >= c)
      BY <1>1, <1>7
    <3>2. QED
      BY <1>4, <3>1, Zenon
  <2>2. end \in 0 .. c - 1
    BY <1>1, WrapUp
  <2>a. b = [k \in 0 .. c - 1 |-> IF (k - end) % c < n THEN data[((k - end) % c) + 1] ELSE old[k]]
    BY <1>2, Zenon DEF CopiedIn, c
  <2>3. \A k \in 0 .. c - 1 : /\ (k - end) % c < n => b[k] = data[((k - end) % c) + 1]
                              /\ ~((k - end) % c < n) => b[k] = old[k]
    BY <2>a, Zenon
  <2>4. b \in [0 .. c - 1 -> OutBytes]
    <3>1. ASSUME NEW k \in 0 .. c - 1 PROVE b[k] \in OutBytes
      <4> HIDE DEF end
      <4> DEFINE x == (k - end) % c
      <4>1. x \in 0 .. c - 1
        BY <1>1, <2>2, WrapDown
      <4>2. (x < n => b[k] = data[x + 1]) /\ (~(x < n) => b[k] = old[k])
        BY <2>3
      <4> HIDE DEF x, b
      <4>3. x < n => x + 1 \in 1 .. n
        BY <1>1, <4>1
      <4>4. QED
        BY <1>1, <1>2, <4>2, <4>3
    <3>2. b = [k \in 0 .. c - 1 |-> b[k]]
      BY <2>a
    <3> HIDE DEF b
    <3>3. QED
      BY <3>1, <3>2
  <2>5. len \in 0 .. c /\ (len = l + n \/ (len = c /\ l + n > c))
    BY <1>1, <1>7
  <2>6. start \in 0 .. c - 1 /\ (start = s + ((l + n) - len) \/ start = (s + ((l + n) - len)) - c)
    <3>1. CASE l + n > c
      <4>1. n \in 0 .. c - 1
        BY <1>1, <1>7
      <4>2. start = (s + l + n - c) % c /\ s + l + n - c = (s + l + n) - c /\ len = c
        BY <1>1, <1>5, <3>1
      <4>3. /\ ((s + l + n) - c) % c \in 0 .. c - 1
            /\ ((s + l + n) - c) % c = s + ((l + n) - c) \/ ((s + l + n) - c) % c = (s + ((l + n) - c)) - c
        BY <1>1, <3>1, <4>1, OldestIs, Zenon
      <4>4. QED
        BY <4>2, <4>3
    <3>2. CASE ~(l + n > c)
      BY <1>1, <1>5, <3>2
    <3>3. QED
      BY <3>1, <3>2
  <2>7. end = (s + l) % c
    OBVIOUS
  <2> HIDE DEF b, len, start, end
  <2>8. p.buf = b /\ p.start = start /\ p.len = len /\ p.written = w + n
    BY <2>1
  <2>9. HeldFrom(b, start, len, w + n, out)
    <3>0. n \in 0 .. c - 1
      BY <1>1, <1>7
    <3>1. n \in 0 .. c - 1 /\ \A i \in 1 .. n : data[i] = out[w + i]
      BY <1>2, <3>0, Zenon
    <3>2. /\ s \in 0 .. c - 1 /\ l \in 0 .. c /\ n \in 0 .. c - 1
          /\ len \in 0 .. c /\ start \in 0 .. c - 1 /\ w \in Nat /\ l <= w
      BY <1>1, <2>5, <2>6, <3>1
    <3>3. len = l + n \/ (len = c /\ l + n > c)
      BY <2>5
    <3>4. start = s + ((l + n) - len) \/ start = (s + ((l + n) - len)) - c
      BY <2>6
    <3>5. \A i \in 1 .. n : data[i] = out[w + i]
      BY <3>1
    <3>6. WroteOver(n, (s + l) % Capacity, old, b, data)
      BY <2>3, <2>7 DEF WroteOver, c
    <3>7. QED
      BY <1>3, <3>2, <3>3, <3>4, <3>5, <3>6, WrittenOver, Zenon DEF c
  <2>10. p \in [buf : [0 .. c - 1 -> OutBytes], start : 0 .. c - 1, len : 0 .. c, written : Nat]
    <3>1. w + n \in Nat
      BY <1>1
    <3>2. QED
      BY <2>1, <2>4, <2>5, <2>6, <3>1
  <2>11. HoldsLast(p, out) /\ p \in RingBytes
    BY <2>8, <2>9, <2>10 DEF HoldsLast, RingBytes, c
  <2>12. p.written = w + n /\ p.len <= p.written /\ w - l <= p.written - p.len /\ p.written - c <= p.written - p.len
    BY <1>1, <2>5, <2>8
  <2>13. QED
    BY <2>11, <2>12 DEF c, l, w, WritesAs
<1>8. QED
  BY <1>1, <1>6, <1>7

(* What is read from it.                                                          *)
LEMMA SinceGives ==
  ASSUME NEW r \in RingBytes, r.len <= r.written, NEW out \in Seq(OutBytes), r.written <= Len(out), HoldsLast(r, out),
         NEW from \in r.written - r.len .. r.written
  PROVE  SinceOffset(r, from) = SubSeq(out, from + 1, r.written)
<1> DEFINE l == r.len
           w == r.written
           base == w - l
           d == Dump(r)
<1>1. l \in Nat /\ w \in Nat /\ l <= w /\ w <= Len(out) /\ Len(out) \in Nat /\ from \in base .. w /\ base \in Nat
  BY RingBytesAssumption DEF RingBytes
<1>2. d \in Seq(OutBytes) /\ Len(d) = l /\ \A i \in 1 .. l : d[i] = out[base + i]
  <2>1. \A i \in 1 .. l : d[i] = out[base + i] /\ d[i] \in OutBytes
    <3> TAKE i \in 1 .. l
    <3>1. d[i] = r.buf[(r.start + i - 1) % Capacity]
      BY DEF Dump
    <3>2. r.start + i - 1 = r.start + (i - 1) /\ i - 1 \in 0 .. l - 1 /\ r.start \in Nat
      BY <1>1, RingBytesAssumption DEF RingBytes
    <3>3. r.buf[(r.start + (i - 1)) % Capacity] = out[(w - l) + (i - 1) + 1]
      BY <3>2 DEF HoldsLast, HeldFrom
    <3>4. (w - l) + (i - 1) + 1 = base + i /\ base + i \in 1 .. Len(out)
      BY <1>1
    <3>5. out[base + i] \in OutBytes
      BY <3>4
    <3>6. QED
      BY <3>1, <3>2, <3>3, <3>4, <3>5
  <2>2. d = [i \in 1 .. l |-> d[i]]
    BY DEF Dump
  <2> HIDE DEF d, l
  <2>3. d \in [1 .. l -> OutBytes]
    BY <2>1, <2>2
  <2>4. QED
    BY <1>1, <2>1, <2>3
<1>3. SinceOffset(r, from) = IF from <= base THEN d ELSE IF from >= w THEN <<>> ELSE SubSeq(d, from - base + 1, l)
  BY DEF SinceOffset, BaseOf
<1> HIDE DEF d, l, w
<1> DEFINE n == w - from
           u == SubSeq(out, from + 1, w)
<1>4. u \in Seq(OutBytes) /\ Len(u) = n /\ \A i \in 1 .. n : u[i] = out[from + i]
  <2>1. n \in Nat /\ from \in Nat /\ from + n = w
    BY <1>1
  <2>2. from + n <= Len(out)
    BY <1>1, <2>1
  <2>3. n \in Nat
    BY <2>1
  <2>4. from \in Nat
    BY <2>1
  <2>5. out \in Seq(OutBytes)
    OBVIOUS
  <2> HIDE DEF n, OutBytes
  <2>6. /\ SubSeq(out, from + 1, from + n) \in Seq(OutBytes) /\ Len(SubSeq(out, from + 1, from + n)) = n
        /\ \A i \in 1 .. n : SubSeq(out, from + 1, from + n)[i] = out[from + i] /\ SubSeq(out, from + 1, from + n)[i] \in OutBytes
    BY ONLY <2>2, <2>3, <2>4, <2>5, CutOut
  <2>7. QED
    BY <2>1, <2>6
<1>5. CASE from <= base
  <2>1. from = base /\ n = l
    BY <1>1, <1>5
  <2> HIDE DEF u, n
  <2>2. d = u
    BY <1>2, <1>4, <2>1, SeqEqual
  <2>3. QED
    BY <1>3, <1>5, <2>2 DEF u, w
<1>6. CASE ~(from <= base) /\ from >= w
  <2>1. n = 0
    BY <1>1, <1>6
  <2> HIDE DEF u
  <2>2. u = <<>>
    BY <1>4, <2>1
  <2>3. QED
    BY <1>3, <1>6, <2>2 DEF u, w
<1>7. CASE ~(from <= base) /\ ~(from >= w)
  <2> DEFINE a == from - base
             v == SubSeq(d, from - base + 1, l)
  <2>0. Len(d) = l
    BY <1>2
  <2>1. n \in Nat /\ a \in Nat /\ a + n = l /\ a + n <= Len(d) /\ from - base + 1 = a + 1
    BY <1>1, <1>7, <2>0
  <2>2. d \in Seq(OutBytes)
    BY <1>2
  <2>3. n \in Nat
    BY <2>1
  <2>4. a \in Nat
    BY <2>1
  <2>5. a + n <= Len(d)
    BY <2>1
  <2>6. \A i \in 1 .. n : a + i \in 1 .. l /\ base + (a + i) = from + i
    BY <1>1, <2>1
  <2>8. v = SubSeq(d, a + 1, a + n)
    BY <2>1
  <2> HIDE DEF n, a, v, u, OutBytes, base
  <2>7. /\ SubSeq(d, a + 1, a + n) \in Seq(OutBytes) /\ Len(SubSeq(d, a + 1, a + n)) = n
        /\ \A i \in 1 .. n : SubSeq(d, a + 1, a + n)[i] = d[a + i] /\ SubSeq(d, a + 1, a + n)[i] \in OutBytes
    BY ONLY <2>2, <2>3, <2>4, <2>5, CutOut
  <2>9. v \in Seq(OutBytes) /\ Len(v) = n /\ \A i \in 1 .. n : v[i] = d[a + i]
    BY ONLY <2>7, <2>8
  <2>10. \A i \in 1 .. n : v[i] = u[i]
    BY ONLY <1>2, <1>4, <2>6, <2>9
  <2>11. v = u
    BY ONLY <1>4, <2>9, <2>10, SeqEqual
  <2>12. QED
    BY <1>3, <1>7, <2>11 DEF u, v, w
<1>8. QED
  BY <1>5, <1>6, <1>7

-----------------------------------------------------------------------------
(* The lexer.  A sequence takes it from the ground to the ground, and is cut in between.    *)
Goes(t, q) ==
  /\ q \in Seq(OutBytes) /\ Len(q) \in Nat \ {0} /\ t \in Seq(LexStates) /\ Len(t) = Len(q) + 1
  /\ t[1] = "ground" /\ t[Len(q) + 1] = "ground"
  /\ \A i \in 2 .. Len(q) : t[i] # "ground"
  /\ \A i \in 1 .. Len(q) : t[i + 1] = LexStep(t[i], q[i])

LEMMA LexTable ==
  /\ LexStep("ground", "a") = "ground" /\ LexStep("ground", "lead") = "utf8" /\ LexStep("ground", "esc") = "esc"
  /\ LexStep("utf8", "cont") = "ground" /\ LexStep("utf8", "a") = "ground"
  /\ LexStep("esc", "a") = "ground" /\ LexStep("esc", "(") = "escInter" /\ LexStep("esc", "[") = "csi"
  /\ LexStep("esc", "]") = "string" /\ LexStep("escInter", "a") = "ground"
  /\ LexStep("csi", "1") = "csi" /\ LexStep("csi", "a") = "ground" /\ LexStep("csi", "esc") = "esc"
  /\ LexStep("string", "a") = "string" /\ LexStep("string", "bel") = "ground" /\ LexStep("string", "esc") = "stringEsc"
  /\ LexStep("stringEsc", "\\") = "ground"
<1>1. LexStep("ground", "a") = "ground" /\ LexStep("ground", "lead") = "utf8" /\ LexStep("ground", "esc") = "esc"
  BY DEF LexStep, FromGround
<1>2. LexStep("utf8", "cont") = "ground" /\ LexStep("utf8", "a") = "ground"
  BY DEF LexStep, FromGround
<1>3. LexStep("esc", "a") = "ground" /\ LexStep("esc", "(") = "escInter" /\ LexStep("esc", "[") = "csi"
      /\ LexStep("esc", "]") = "string"
  BY DEF LexStep
<1>4. LexStep("escInter", "a") = "ground"
  BY DEF LexStep
<1>5. LexStep("csi", "1") = "csi" /\ LexStep("csi", "a") = "ground" /\ LexStep("csi", "esc") = "esc"
  BY DEF LexStep
<1>6. LexStep("string", "a") = "string" /\ LexStep("string", "bel") = "ground" /\ LexStep("string", "esc") = "stringEsc"
  BY DEF LexStep, FromString
<1>7. LexStep("stringEsc", "\\") = "ground"
  BY DEF LexStep
<1>8. QED
  BY <1>1, <1>2, <1>3, <1>4, <1>5, <1>6, <1>7

LEMMA PrintableGoes ==
  ASSUME NEW q \in Printable
  PROVE  \E t : Goes(t, q)
<1> USE LexTable DEF Goes, OutBytes, LexStates
<1> HIDE DEF LexStep
<1>1. CASE q = <<"a">>
  <2>1. Goes(<<"ground", "ground">>, q)
    BY <1>1
  <2>2. QED
    BY <2>1
<1>2. CASE q = <<"lead", "cont">>
  <2>1. Goes(<<"ground", "utf8", "ground">>, q)
    BY <1>2
  <2>2. QED
    BY <2>1
<1>3. CASE q = <<"lead", "a">>
  <2>1. Goes(<<"ground", "utf8", "ground">>, q)
    BY <1>3
  <2>2. QED
    BY <2>1
<1>4. CASE q = <<"esc", "a">>
  <2>1. Goes(<<"ground", "esc", "ground">>, q)
    BY <1>4
  <2>2. QED
    BY <2>1
<1>5. CASE q = <<"esc", "(", "a">>
  <2>1. Goes(<<"ground", "esc", "escInter", "ground">>, q)
    BY <1>5
  <2>2. QED
    BY <2>1
<1>6. CASE q = <<"esc", "[", "1", "a">>
  <2>1. Goes(<<"ground", "esc", "csi", "csi", "ground">>, q)
    BY <1>6
  <2>2. QED
    BY <2>1
<1>7. CASE q = <<"esc", "[", "esc", "[", "a">>
  <2>1. Goes(<<"ground", "esc", "csi", "esc", "csi", "ground">>, q)
    BY <1>7
  <2>2. QED
    BY <2>1
<1>8. CASE q = <<"esc", "]", "a", "bel">>
  <2>1. Goes(<<"ground", "esc", "string", "string", "ground">>, q)
    BY <1>8
  <2>2. QED
    BY <2>1
<1>9. CASE q = <<"esc", "]", "esc", "\\">>
  <2>1. Goes(<<"ground", "esc", "string", "stringEsc", "ground">>, q)
    BY <1>9
  <2>2. QED
    BY <2>1
<1>10. QED
  BY <1>1, <1>2, <1>3, <1>4, <1>5, <1>6, <1>7, <1>8, <1>9 DEF Printable

LexesOn(lex, out, between, q) ==
  \E more : LexedAs(more, out \o q, between \cup {Len(out \o q)}) /\ \A i \in 0 .. Len(out) : more[i] = lex[i]

LEMMA LexedOn ==
  ASSUME NEW out \in Seq(OutBytes), NEW between, NEW lex, LexedAs(lex, out, between), NEW q, NEW t, Goes(t, q)
  PROVE  LexesOn(lex, out, between, q)
<1> DEFINE m == Len(out)
           n == Len(q)
           all == out \o q
           more == [i \in 0 .. m + n |-> IF i <= m THEN lex[i] ELSE t[(i - m) + 1]]
           here == between \cup {m + n}
<1>1. m \in Nat /\ n \in Nat \ {0} /\ Len(all) = m + n
  BY DEF Goes
<1>2. /\ lex[0] = "ground" /\ lex[m] = "ground"
      /\ \A i \in 0 .. m : lex[i] \in LexStates /\ (i \in between <=> lex[i] = "ground")
      /\ \A i \in 1 .. m : lex[i] = LexStep(lex[i - 1], out[i])
      /\ between \subseteq 0 .. m
  BY DEF LexedAs
<1>3. /\ t[1] = "ground" /\ t[n + 1] = "ground" /\ \A i \in 1 .. n + 1 : t[i] \in LexStates
      /\ \A i \in 2 .. n : t[i] # "ground"
      /\ \A i \in 1 .. n : t[i + 1] = LexStep(t[i], q[i])
  BY DEF Goes
<1>4. (\A i \in 1 .. m : all[i] = out[i]) /\ \A i \in m + 1 .. m + n : all[i] = q[i - m]
  BY DEF Goes
<1> HIDE DEF m, n, all
<1>5. (\A i \in 0 .. m : more[i] = lex[i]) /\ \A i \in m + 1 .. m + n : more[i] = t[(i - m) + 1]
  BY <1>1
<1> HIDE DEF more
<1>6. \A i \in m .. m + n : more[i] = t[(i - m) + 1]
  <2>1. (m - m) + 1 = 1 /\ m \in 0 .. m
    BY <1>1
  <2>2. more[m] = t[(m - m) + 1]
    BY <1>2, <1>3, <1>5, <2>1
  <2>3. QED
    BY <1>1, <1>5, <2>2
<1>7. more[0] = "ground" /\ more[m + n] = "ground"
  <2>1. 0 \in 0 .. m /\ m + n \in m .. m + n /\ ((m + n) - m) + 1 = n + 1
    BY <1>1
  <2>2. QED
    BY <1>2, <1>3, <1>5, <1>6, <2>1
<1>8. ASSUME NEW i \in 0 .. m + n
      PROVE  more[i] \in LexStates /\ (i \in here <=> more[i] = "ground")
  <2>1. CASE i \in 0 .. m
    BY <1>1, <1>2, <1>5, <2>1
  <2>2. CASE i \in m + 1 .. m + n
    <3>1. more[i] = t[(i - m) + 1] /\ (i - m) + 1 \in 1 .. n + 1 /\ i \notin between
      BY <1>1, <1>2, <1>5, <2>2
    <3>2. CASE i = m + n
      <4>1. (i - m) + 1 = n + 1
        BY <1>1, <3>2
      <4>2. QED
        BY <1>3, <3>1, <3>2, <4>1
    <3>3. CASE i # m + n
      <4>1. (i - m) + 1 \in 2 .. n
        BY <1>1, <2>2, <3>3
      <4>2. QED
        BY <1>3, <3>1, <3>3, <4>1
    <3>4. QED
      BY <3>2, <3>3
  <2>3. QED
    BY <1>1, <2>1, <2>2
<1>9. ASSUME NEW i \in 1 .. m + n
      PROVE  more[i] = LexStep(more[i - 1], all[i])
  <2>1. CASE i \in 1 .. m
    <3>1. i \in 0 .. m /\ i - 1 \in 0 .. m
      BY <1>1, <2>1
    <3>2. QED
      BY <1>2, <1>4, <1>5, <2>1, <3>1
  <2>2. CASE i \in m + 1 .. m + n
    <3> DEFINE j == i - m
    <3>1. j \in 1 .. n /\ ((i - 1) - m) + 1 = j /\ i \in m .. m + n /\ i - 1 \in m .. m + n
      BY <1>1, <2>2
    <3>2. more[i] = t[j + 1] /\ more[i - 1] = t[((i - 1) - m) + 1] /\ all[i] = q[j]
      BY <1>4, <1>6, <2>2, <3>1
    <3>3. t[j + 1] = LexStep(t[j], q[j])
      BY <1>3, <3>1
    <3> HIDE DEF j
    <3>4. QED
      BY <3>1, <3>2, <3>3
  <2>3. QED
    BY <1>1, <2>1, <2>2
<1>10. here \subseteq 0 .. m + n
  BY <1>1, <1>2
<1>11. LexedAs(more, all, here)
  BY <1>1, <1>7, <1>8, <1>9, <1>10 DEF LexedAs
<1>12. QED
  BY <1>1, <1>5, <1>11 DEF m, all, LexesOn

-----------------------------------------------------------------------------
(* The tracker.                                                                *)
Tracks(t, lex, between, base) == t \in Trackers /\ t.state = lex[t.at] /\ AnchorsFar(t) /\ AnchorsCover(t, between, base)

LEMMA OneMore ==
  ASSUME NEW g \in Nat, NEW k \in Int, NEW m \in Int, m = k + 1
  PROVE  m * g = k * g + g
OBVIOUS

LEMMA AtMost ==
  ASSUME NEW g \in Nat, NEW k \in Int, NEW m \in Int, k <= m
  PROVE  k * g <= m * g
OBVIOUS

LEMMA LexStepIn ==
  ASSUME NEW state \in LexStates, NEW b
  PROVE  LexStep(state, b) \in LexStates
<1>1. FromGround(b) \in LexStates /\ FromString(b) \in LexStates
  BY DEF FromGround, FromString, LexStates
<1> USE DEF LexStates
<1>2. CASE state = "ground"
  BY <1>1, <1>2 DEF LexStep
<1>3. CASE state = "utf8"
  BY <1>1, <1>3 DEF LexStep
<1>4. CASE state = "esc"
  BY <1>4 DEF LexStep
<1>5. CASE state = "escInter"
  BY <1>5 DEF LexStep
<1>6. CASE state = "csi"
  BY <1>6 DEF LexStep
<1>7. CASE state = "string"
  BY <1>1, <1>7 DEF LexStep
<1>8. CASE state = "stringEsc"
  BY <1>8 DEF LexStep
<1>9. QED
  BY <1>2, <1>3, <1>4, <1>5, <1>6, <1>7, <1>8

LEMMA AppendIs ==
  ASSUME NEW s \in Seq(Nat), NEW x \in Nat
  PROVE  /\ Append(s, x) \in Seq(Nat) /\ Len(Append(s, x)) = Len(s) + 1 /\ Append(s, x)[Len(s) + 1] = x
         /\ \A i \in 1 .. Len(s) : Append(s, x)[i] = s[i]
OBVIOUS

(* An anchor noted a grain after the last; the one it may push out is too far back to be    *)
(* needed.                                                                     *)
LEMMA NotedKeeps ==
  ASSUME NEW a \in Seq(Nat), NEW last \in Nat, NEW upto \in Nat, NEW between \in SUBSET Nat, NEW base \in Nat,
         (upto + 1) - Capacity <= base, last <= upto, (upto + 1) - last >= Grain, upto + 1 \in between,
         Spaced(a, last), Covered(a, between, upto, base)
  PROVE  /\ Noted(a, upto + 1) \in Seq(Nat)
         /\ Len(Noted(a, upto + 1)) \in Nat \ {0} /\ Noted(a, upto + 1)[Len(Noted(a, upto + 1))] = upto + 1
         /\ Spaced(Noted(a, upto + 1), upto + 1)
         /\ Covered(Noted(a, upto + 1), between, upto + 1, base)
<1> DEFINE here == upto + 1
           c == Noted(a, here)
<1>i. /\ here = upto + 1 /\ here - Capacity <= base /\ last <= upto /\ Len(a) <= AnchorCap /\ here - last >= Grain
      /\ here \in between /\ here \in Nat
  BY DEF Spaced
<1>j. /\ \A i \in 1 .. Len(a) : last - a[i] >= (Len(a) - i) * Grain
      /\ \A i, j \in 1 .. Len(a) : i < j => a[i] < a[j]
  BY DEF Spaced
<1>k. /\ \A i \in 1 .. Len(a) : a[i] \in between
      /\ \A b \in between : b <= upto /\ base + Grain <= b =>
           \E i \in 1 .. Len(a) : a[i] <= b /\ b < a[i] + Grain
  BY DEF Covered
<1>m. c = Noted(a, here)
  OBVIOUS
<1> HIDE DEF here, c
<1> DEFINE L == Len(a)
           out == IF L >= AnchorCap THEN 1 ELSE 0
           n == (L - out) + 1
<1>1. L \in Nat /\ L <= AnchorCap /\ AnchorCap \in Nat \ {0} /\ Grain \in Nat \ {0} /\ Capacity \in Nat
      /\ \A i \in 1 .. L : a[i] \in Nat
  BY <1>i, RingBytesAssumption
<1>2. out \in 0 .. L /\ n \in 1 .. AnchorCap /\ (out = 0 \/ (out = 1 /\ L = AnchorCap)) /\ here \in Nat
      /\ here = upto + 1 /\ here - Capacity <= base /\ last <= upto /\ here - last >= Grain /\ here \in between
  BY <1>1, <1>i
<1>3. c \in Seq(Nat) /\ Len(c) = n /\ c[n] = here /\ \A i \in 1 .. L - out : c[i] = a[i + out]
  <2>1. CASE L >= AnchorCap
    <3>1. a # <<>> /\ out = 1
      BY <1>1, <2>1
    <3>2. Tail(a) \in Seq(Nat) /\ Len(Tail(a)) = L - 1 /\ \A i \in 1 .. L - 1 : Tail(a)[i] = a[i + 1]
      BY <1>1, <3>1
    <3>3. c = Append(Tail(a), here)
      BY <1>m, <2>1 DEF Noted
    <3> DEFINE s == Tail(a)
               k == L - 1
    <3>4. s \in Seq(Nat) /\ k \in Nat /\ k = Len(s) /\ here \in Nat /\ c = Append(s, here)
      <4>1. k \in Nat /\ here \in Nat
        BY <1>1, <1>2, <3>1
      <4>2. s \in Seq(Nat) /\ k = Len(s) /\ c = Append(s, here)
        BY <3>2, <3>3
      <4>3. QED
        BY <4>1, <4>2
    <3>5. k + 1 = n /\ L - out = k /\ \A i \in 1 .. k : s[i] = a[i + out]
      BY <1>1, <3>1, <3>2
    <3> HIDE DEF s, k, out, n, L
    <3>6. c \in Seq(Nat) /\ Len(c) = k + 1 /\ c[k + 1] = here /\ \A i \in 1 .. k : c[i] = s[i]
      <4>1. s \in Seq(Nat)
        BY <3>4
      <4>2. here \in Nat
        BY <3>4
      <4>3. /\ Append(s, here) \in Seq(Nat) /\ Len(Append(s, here)) = Len(s) + 1 /\ Append(s, here)[Len(s) + 1] = here
            /\ \A i \in 1 .. Len(s) : Append(s, here)[i] = s[i]
        BY ONLY <4>1, <4>2, AppendIs
      <4>4. QED
        BY ONLY <3>4, <4>3
    <3>7. QED
      BY <3>5, <3>6
  <2>2. CASE ~(L >= AnchorCap)
    <3>1. c = Append(a, here) /\ out = 0
      BY <1>m, <2>2 DEF Noted
    <3>2. c \in Seq(Nat) /\ Len(c) = L + 1 /\ c[L + 1] = here /\ \A i \in 1 .. L : c[i] = a[i]
      <4>1. a \in Seq(Nat) /\ L \in Nat /\ L = Len(a) /\ here \in Nat /\ c = Append(a, here)
        BY <1>1, <1>2, <3>1
      <4> HIDE DEF L
      <4>2. a \in Seq(Nat)
        OBVIOUS
      <4>3. here \in Nat
        BY <4>1
      <4>4. /\ Append(a, here) \in Seq(Nat) /\ Len(Append(a, here)) = Len(a) + 1 /\ Append(a, here)[Len(a) + 1] = here
            /\ \A i \in 1 .. Len(a) : Append(a, here)[i] = a[i]
        BY ONLY <4>2, <4>3, AppendIs
      <4>5. QED
        BY ONLY <4>1, <4>4
    <3>3. n = L + 1 /\ L - out = L /\ \A i \in 1 .. L : i + out = i
      BY <1>1, <3>1
    <3> HIDE DEF out, n, L
    <3>4. QED
      BY <3>2, <3>3
  <2>3. QED
    BY <2>1, <2>2
<1> HIDE DEF out, n, L
<1>a. n = (L - out) + 1
  BY DEF n
<1>4. \A i \in 1 .. n : i = n \/ (i \in 1 .. L - out /\ i + out \in 1 .. L)
  BY <1>1, <1>2, <1>a
<1>h. /\ \A i \in 1 .. L : last - a[i] >= (L - i) * Grain
      /\ \A i, j \in 1 .. L : i < j => a[i] < a[j]
      /\ \A i \in 1 .. L : a[i] \in between
      /\ \A b \in between : b \in Nat /\ (b <= upto /\ base + Grain <= b =>
           \E i \in 1 .. L : a[i] <= b /\ b < a[i] + Grain)
  BY <1>j, <1>k DEF L
<1>5. ASSUME NEW i \in 1 .. n PROVE here - c[i] >= (n - i) * Grain
  <2>1. CASE i = n
    <3>1. n - i = 0 /\ 0 * Grain = 0 /\ here - c[i] = 0
      BY <1>1, <1>2, <1>3, <2>1
    <3>2. QED
      BY <3>1
  <2>2. CASE i # n
    <3> DEFINE k == i + out
               far == (L - k) * Grain
    <3>1. k \in 1 .. L /\ i \in 1 .. L - out /\ c[i] = a[k] /\ n - i \in Int /\ L - k \in Int /\ n - i = (L - k) + 1
      BY <1>1, <1>2, <1>3, <1>4, <1>a, <2>2
    <3>2. last - a[k] >= far
      BY <1>h, <3>1
    <3>3. (n - i) * Grain = far + Grain
      BY <1>1, <3>1, OneMore
    <3>4. far \in Int
      BY <1>1, <3>1
    <3> HIDE DEF far, k
    <3>5. here - c[i] >= far + Grain
      BY <1>1, <1>2, <3>1, <3>2, <3>4
    <3>6. QED
      BY <3>3, <3>5
  <2>3. QED
    BY <2>1, <2>2
<1>b. \A i \in 1 .. L : a[i] <= last
  <2> TAKE i \in 1 .. L
  <2> DEFINE far == (L - i) * Grain
  <2>1. last - a[i] >= far
    BY <1>h
  <2>2. far \in Nat
    BY <1>1
  <2> HIDE DEF far
  <2>3. QED
    BY <1>1, <2>1, <2>2
<1>6. \A i, j \in 1 .. n : i < j => c[i] < c[j]
  <2> TAKE i, j \in 1 .. n
  <2> HAVE i < j
  <2>0. i # n
    BY <1>2
  <2>1. i \in 1 .. L - out /\ i + out \in 1 .. L /\ c[i] = a[i + out]
    BY <1>3, <1>4, <2>0
  <2>2. CASE j = n
    BY <1>1, <1>2, <1>3, <1>b, <2>1, <2>2
  <2>3. CASE j # n
    <3>1. j \in 1 .. L - out /\ j + out \in 1 .. L /\ c[j] = a[j + out]
      BY <1>3, <1>4, <2>3
    <3>3. i + out < j + out
      BY <1>2
    <3>2. QED
      BY <1>h, <2>1, <3>1, <3>3
  <2>4. QED
    BY <2>2, <2>3
<1>7. \A i \in 1 .. n : c[i] \in between
  BY <1>2, <1>3, <1>4, <1>h
<1>8. ASSUME NEW b \in between, b <= here, base + Grain <= b
      PROVE  \E i \in 1 .. n : c[i] <= b /\ b < c[i] + Grain
  <2>1. b \in Nat
    BY <1>h
  <2>2. CASE b = here
    <3>1. n \in 1 .. n /\ here <= b /\ b < here + Grain
      BY <1>1, <1>2, <2>2
    <3>2. QED
      BY <1>3, <3>1
  <2>3. CASE b # here
    <3>1. b <= upto
      BY <1>2, <1>8, <2>1, <2>3
    <3>2. PICK i \in 1 .. L : a[i] <= b /\ b < a[i] + Grain
      BY <1>h, <1>8, <3>1
    <3>3. CASE i > out
      <4>1. i - out \in 1 .. L - out /\ (i - out) + out = i /\ i - out \in 1 .. n
        BY <1>1, <1>2, <1>a, <3>3
      <4>2. c[i - out] = a[i]
        BY <1>3, <4>1
      <4>3. QED
        BY <3>2, <4>1, <4>2
    <3>4. CASE ~(i > out)
      <4> DEFINE all == (L - 1) * Grain
      <4>1. i = 1 /\ out = 1 /\ L = AnchorCap
        BY <1>1, <1>2, <3>4
      <4>2. last - a[1] >= all /\ a[1] \in Nat
        BY <1>1, <1>h, <4>1
      <4>3. L * Grain = all + Grain /\ all \in Int
        <5>1. L - 1 \in Int /\ L \in Int /\ L = (L - 1) + 1 /\ Grain \in Nat
          BY <1>1
        <5>2. QED
          BY <5>1, OneMore
      <4>4. L * Grain > Capacity
        BY <4>1, RingBytesAssumption
      <4> HIDE DEF all
      <4>5. here - a[1] > Capacity
        BY <1>1, <1>2, <4>2, <4>3, <4>4
      <4>6. QED
        BY <1>1, <1>2, <1>8, <2>1, <3>2, <4>1, <4>2, <4>5
    <3>5. QED
      BY <1>1, <1>2, <3>3, <3>4
  <2>4. QED
    BY <2>2, <2>3
<1>9. Spaced(c, here)
  BY <1>2, <1>3, <1>5, <1>6 DEF Spaced
<1>10. Covered(c, between, here, base)
  BY <1>3, <1>7, <1>8 DEF Covered
<1>11. QED
  BY <1>2, <1>3, <1>9, <1>10 DEF c, here

(* One byte through the tracker.                                                    *)
LEMMA FedByteKeeps ==
  ASSUME NEW out \in Seq(OutBytes), NEW between, NEW lex, LexedAs(lex, out, between),
         NEW t, NEW base \in Nat, Tracks(t, lex, between, base),
         t.at < Len(out), (t.at + 1) - Capacity <= base,
         NEW u, u = FedByte(t, out[t.at + 1])
  PROVE  Tracks(u, lex, between, base) /\ u.at = t.at + 1
<1> DEFINE here == t.at + 1
           state == LexStep(t.state, out[here])
           a == t.anchors
<1>1. /\ t = [state |-> t.state, at |-> t.at, last |-> t.last, anchors |-> t.anchors]
      /\ t.state \in LexStates /\ t.at \in Nat /\ t.last \in Nat /\ t.anchors \in Seq(Nat)
  BY DEF Tracks, Trackers
<1>2. /\ \A i \in 1 .. Len(a) : t.last - a[i] >= (Len(a) - i) * Grain
      /\ \A i, j \in 1 .. Len(a) : i < j => a[i] < a[j]
      /\ t.last <= t.at /\ Len(a) <= AnchorCap
  BY DEF Tracks, AnchorsFar, Spaced
<1>3. /\ \A i \in 1 .. Len(a) : a[i] \in between
      /\ t.last < base \/ \E i \in 1 .. Len(a) : a[i] = t.last
      /\ \A b \in between : b <= t.at /\ base + Grain <= b =>
           \E i \in 1 .. Len(a) : a[i] <= b /\ b < a[i] + Grain
  BY DEF Tracks, AnchorsCover, Covered
<1>4. here \in Nat /\ here \in 0 .. Len(out) /\ here \in 1 .. Len(out) /\ here - 1 = t.at
  BY <1>1
<1>5. state = lex[here] /\ (here \in between <=> state = "ground") /\ state \in LexStates
  <2>1. lex[here] = LexStep(lex[here - 1], out[here])
    BY <1>4 DEF LexedAs
  <2>2. t.state = lex[here - 1]
    BY <1>4 DEF Tracks
  <2>3. lex[here] \in LexStates /\ (here \in between <=> lex[here] = "ground")
    BY <1>4 DEF LexedAs
  <2>4. QED
    BY <2>1, <2>2, <2>3
<1>6. \A b \in between : b \in Nat
  BY DEF LexedAs
<1>7. Grain \in Nat \ {0} /\ Capacity \in Nat
  BY RingBytesAssumption
<1>8. CASE state = "ground" /\ here - t.last >= Grain
  <2> DEFINE c == Noted(a, here)
  <2>1. u = [state |-> state, at |-> here, last |-> here, anchors |-> c]
    BY <1>8 DEF FedByte
  <2> HIDE DEF state, c
  <2>2. u.state = state /\ u.at = here /\ u.last = here /\ u.anchors = c
    BY <2>1
  <2>3. here \in between
    BY <1>5, <1>8
  <2> HIDE DEF a
  <2>4. a \in Seq(Nat)
    BY <1>1 DEF a
  <2>5. /\ c \in Seq(Nat) /\ Len(c) \in Nat \ {0} /\ c[Len(c)] = here
        /\ Spaced(c, here) /\ Covered(c, between, here, base)
    <3> DEFINE last == t.last
               upto == t.at
    <3>1. last \in Nat
      BY <1>1
    <3>2. upto \in Nat
      BY <1>1
    <3>3. (upto + 1) - last >= Grain
      BY <1>8
    <3>4. Spaced(a, last)
      BY DEF Tracks, AnchorsFar, a
    <3>5. Covered(a, between, upto, base)
      BY DEF Tracks, AnchorsCover, a
    <3>6. between \in SUBSET Nat
      BY <1>6
    <3>7. last <= upto
      BY <1>2
    <3>8. (upto + 1) - Capacity <= base
      OBVIOUS
    <3>9. upto + 1 \in between
      BY <2>3
    <3>10. here = upto + 1 /\ c = Noted(a, upto + 1)
      BY DEF c
    <3> HIDE DEF last, upto, here
    <3>11. /\ Noted(a, upto + 1) \in Seq(Nat)
           /\ Len(Noted(a, upto + 1)) \in Nat \ {0} /\ Noted(a, upto + 1)[Len(Noted(a, upto + 1))] = upto + 1
           /\ Spaced(Noted(a, upto + 1), upto + 1)
           /\ Covered(Noted(a, upto + 1), between, upto + 1, base)
      BY ONLY <2>4, base \in Nat, <3>1, <3>2, <3>3, <3>4, <3>5, <3>6, <3>7, <3>8, <3>9, NotedKeeps
    <3>12. QED
      BY ONLY <3>10, <3>11
  <2>6. u \in Trackers /\ u.state = lex[u.at]
    BY <1>4, <1>5, <2>1, <2>2, <2>5 DEF Trackers
  <2>7. AnchorsFar(u)
    BY <1>4, <2>2, <2>5 DEF AnchorsFar
  <2>8. AnchorsCover(u, between, base)
    BY <2>2, <2>5 DEF AnchorsCover
  <2>9. QED
    BY <2>2, <2>6, <2>7, <2>8 DEF Tracks
<1>9. CASE ~(state = "ground" /\ here - t.last >= Grain)
  <2>1. u = [t EXCEPT !.state = state, !.at = here]
    BY <1>9 DEF FedByte
  <2> HIDE DEF state
  <2>2. u = [state |-> state, at |-> here, last |-> t.last, anchors |-> a]
    BY <1>1, <2>1
  <2>3. u.state = state /\ u.at = here /\ u.last = t.last /\ u.anchors = a
    BY <2>2
  <2>4. u \in Trackers /\ u.state = lex[u.at]
    BY <1>1, <1>4, <1>5, <2>2, <2>3 DEF Trackers
  <2>5. AnchorsFar(u)
    BY <1>1, <1>2, <2>3 DEF AnchorsFar, Spaced
  <2>6. ASSUME NEW b \in between, b <= here, base + Grain <= b
        PROVE  \E i \in 1 .. Len(a) : a[i] <= b /\ b < a[i] + Grain
    <3>1. CASE b = here
      <4>1. here - t.last < Grain
        BY <1>1, <1>4, <1>5, <1>7, <1>9, <3>1
      <4>2. ~(t.last < base)
        BY <1>1, <1>4, <1>7, <2>6, <3>1, <4>1
      <4>3. PICK i \in 1 .. Len(a) : a[i] = t.last
        BY <1>3, <4>2
      <4>4. t.last <= here
        BY <1>1, <1>2
      <4>5. a[i] <= b /\ b < a[i] + Grain
        BY <1>1, <1>4, <1>7, <3>1, <4>1, <4>3, <4>4
      <4>6. QED
        BY <4>5
    <3>2. CASE b # here
      <4>1. b <= t.at
        BY <1>1, <1>6, <2>6, <3>2
      <4>2. QED
        BY <1>3, <2>6, <4>1
    <3>3. QED
      BY <3>1, <3>2
  <2>7. AnchorsCover(u, between, base)
    BY <1>3, <2>3, <2>6 DEF AnchorsCover, Covered
  <2>8. QED
    BY <2>3, <2>4, <2>5, <2>7 DEF Tracks
<1>10. QED
  BY <1>8, <1>9

(* All of a read through it.                                                        *)
Feeds(f, t, data, n) ==
  f = [i \in 0 .. n |-> IF i = 0 THEN t ELSE FedByte(f[i - 1], data[i])]

LEMMA FeedsExists ==
  ASSUME NEW t, NEW data, NEW n \in Nat
  PROVE  \E f : Feeds(f, t, data, n)
<1> DEFINE S == {k \in 0 .. n : \E f : Feeds(f, t, data, k)}
<1>1. 0 \in S
  <2>1. Feeds([i \in 0 .. 0 |-> t], t, data, 0)
    BY DEF Feeds
  <2>2. QED
    BY <2>1
<1>2. ASSUME NEW k \in 0 .. n, k + 1 \in 0 .. n, k \in S
      PROVE  k + 1 \in S
  <2>1. PICK f : Feeds(f, t, data, k)
    BY <1>2
  <2> DEFINE g == [i \in 0 .. k + 1 |-> IF i = k + 1 THEN FedByte(f[k], data[k + 1]) ELSE f[i]]
  <2>2. ASSUME NEW i \in 0 .. k + 1
        PROVE  g[i] = IF i = 0 THEN t ELSE FedByte(g[i - 1], data[i])
    <3>1. CASE i = k + 1
      <4>1. g[i] = FedByte(f[k], data[i]) /\ g[i - 1] = f[k] /\ i # 0
        BY <3>1
      <4>2. QED
        BY <4>1
    <3>2. CASE i # k + 1 /\ i # 0
      <4>1. g[i] = f[i] /\ g[i - 1] = f[i - 1] /\ i \in 0 .. k
        BY <3>2
      <4>2. f[i] = FedByte(f[i - 1], data[i])
        BY <2>1, <3>2, <4>1 DEF Feeds
      <4>3. QED
        BY <3>2, <4>1, <4>2
    <3>3. CASE i # k + 1 /\ i = 0
      <4>1. g[i] = f[i] /\ 0 \in 0 .. k
        BY <3>3
      <4>2. f[0] = t
        BY <2>1, <4>1 DEF Feeds
      <4>3. QED
        BY <3>3, <4>1, <4>2
    <3>4. QED
      BY <3>1, <3>2, <3>3
  <2>3. g = [i \in 0 .. k + 1 |-> g[i]]
    OBVIOUS
  <2> HIDE DEF g
  <2>4. Feeds(g, t, data, k + 1)
    BY <2>2, <2>3 DEF Feeds
  <2>5. QED
    BY <1>2, <2>4
<1> HIDE DEF S
<1>3. n \in S
  BY <1>1, <1>2, Upward
<1>4. QED
  BY <1>3 DEF S

LEMMA FedKeeps ==
  ASSUME NEW out \in Seq(OutBytes), NEW between, NEW lex, LexedAs(lex, out, between),
         NEW t, NEW base \in Nat, Tracks(t, lex, between, base), NEW n \in Nat, NEW data, Len(data) = n,
         t.at + n <= Len(out), (t.at + n) - Capacity <= base,
         \A i \in 1 .. n : data[i] = out[t.at + i]
  PROVE  Tracks(Tracked(t, data), lex, between, base) /\ Tracked(t, data).at = t.at + n
<1> DEFINE F == CHOOSE f : Feeds(f, t, data, n)
           S == {i \in 0 .. n : Tracks(F[i], lex, between, base) /\ F[i].at = t.at + i}
<1>1. Feeds(F, t, data, n)
  BY FeedsExists
<1>2. Tracked(t, data) = F[n]
  BY DEF Tracked, Feeds
<1> HIDE DEF F
<1>3. F[0] = t /\ \A i \in 1 .. n : F[i] = FedByte(F[i - 1], data[i])
  <2>1. F[0] = t
    BY <1>1 DEF Feeds
  <2>2. ASSUME NEW i \in 1 .. n PROVE F[i] = FedByte(F[i - 1], data[i])
    <3>1. i \in 0 .. n /\ i # 0
      OBVIOUS
    <3>2. QED
      BY <1>1, <3>1 DEF Feeds
  <2>3. QED
    BY <2>1, <2>2
<1>4. t.at \in Nat /\ Len(out) \in Nat /\ Capacity \in Nat
  BY RingBytesAssumption DEF Tracks, Trackers
<1>5. 0 \in S
  BY <1>3, <1>4
<1>6. ASSUME NEW i \in 0 .. n, i + 1 \in 0 .. n, i \in S
      PROVE  i + 1 \in S
  <2> DEFINE x == F[i]
             u == F[i + 1]
             b == out[x.at + 1]
  <2>1. Tracks(x, lex, between, base) /\ x.at = t.at + i
    BY <1>6
  <2>2. u = FedByte(x, data[i + 1])
    BY <1>3, <1>6
  <2>3. data[i + 1] = out[t.at + (i + 1)] /\ t.at + (i + 1) = x.at + 1
    BY <1>4, <1>6, <2>1
  <2>4. x.at < Len(out) /\ (x.at + 1) - Capacity <= base
    BY <1>4, <1>6, <2>1
  <2> HIDE DEF x, u
  <2>5. u = FedByte(x, out[x.at + 1])
    BY <2>2, <2>3
  <2>6. Tracks(u, lex, between, base) /\ u.at = x.at + 1
    BY <2>1, <2>4, <2>5, FedByteKeeps
  <2>7. u.at = t.at + (i + 1)
    BY <2>3, <2>6
  <2>8. QED
    BY <1>6, <2>6, <2>7 DEF u
<1> HIDE DEF S
<1>7. n \in S
  <2>1. \A i \in 0 .. n : i + 1 \in 0 .. n /\ i \in S => i + 1 \in S
    BY ONLY <1>6
  <2>2. n \in Nat
    OBVIOUS
  <2>3. \A i \in 0 .. n : i \in S
    BY ONLY <1>5, <2>1, <2>2, Upward
  <2>4. QED
    BY ONLY <2>2, <2>3
<1>8. QED
  BY <1>2, <1>7 DEF S

(* And the anchors of what is overwritten forgotten.                                      *)
LEMMA PrunedKeeps ==
  ASSUME NEW t, NEW lex, NEW between \in SUBSET Nat, NEW base \in Nat, Tracks(t, lex, between, base), NEW u, u = PruneBelow(t, base)
  PROVE  Tracks(u, lex, between, base) /\ u.at = t.at
<1> DEFINE a == t.anchors
           L == Len(a)
           d == Below(a, base)
           c == SubSeq(a, d + 1, L)
<1>1. /\ t = [state |-> t.state, at |-> t.at, last |-> t.last, anchors |-> t.anchors]
      /\ t.state \in LexStates /\ t.at \in Nat /\ t.last \in Nat /\ a \in Seq(Nat)
  BY DEF Tracks, Trackers
<1>2. u = [state |-> t.state, at |-> t.at, last |-> t.last, anchors |-> c]
  <2>1. u = [t EXCEPT !.anchors = c]
    BY DEF PruneBelow
  <2> HIDE DEF c
  <2>2. QED
    BY <1>1, <2>1
<1>3. d \in 0 .. L /\ \A i \in 1 .. d : a[i] < base
  <2> DEFINE P(e) == (\A i \in 1 .. e : a[i] < base) /\ (e < L => a[e + 1] >= base)
             S == {e \in 0 .. L : \A i \in 1 .. e : a[i] < base}
  <2>1. \E e \in 0 .. L : P(e)
    <3> SUFFICES ASSUME \A e \in 0 .. L : ~P(e) PROVE FALSE
      OBVIOUS
    <3>1. 0 \in S
      BY <1>1
    <3>2. \A i \in 0 .. L : i + 1 \in 0 .. L /\ i \in S => i + 1 \in S
      <4> SUFFICES ASSUME NEW i \in 0 .. L, i + 1 \in 0 .. L, i \in S PROVE i + 1 \in S
        OBVIOUS
      <4>1. (\A j \in 1 .. i : a[j] < base) /\ i < L
        BY <1>1
      <4>2. ~P(i)
        OBVIOUS
      <4>3. a[i + 1] < base
        BY <1>1, <4>1, <4>2
      <4>4. \A j \in 1 .. i + 1 : a[j] < base
        BY <4>1, <4>3
      <4>5. QED
        BY <4>4
    <3>3. L \in S
      <4>1. L \in Nat
        BY <1>1
      <4> HIDE DEF S, L
      <4>2. \A i \in 0 .. L : i \in S
        BY ONLY <3>1, <3>2, <4>1, Upward
      <4>3. QED
        BY ONLY <4>1, <4>2
    <3>4. P(L)
      BY <1>1, <3>3
    <3>5. QED
      BY <1>1, <3>4
  <2>2. d = CHOOSE e \in 0 .. L : P(e)
    BY DEF Below
  <2> HIDE DEF P, d, L
  <2>3. d \in 0 .. L /\ P(d)
    BY <2>1, <2>2
  <2>4. QED
    BY <2>3 DEF P
<1> DEFINE n == L - d
<1>4. n \in Nat /\ L \in Nat
  BY <1>1, <1>3
<1>5. c \in Seq(Nat) /\ Len(c) = n /\ \A i \in 1 .. n : c[i] = a[d + i] /\ d + i \in 1 .. L
  <2> HIDE DEF d
  <2>1. d \in Nat
    BY <1>3
  <2>2. d + n = L
    BY <1>3, <1>4
  <2>3. d + n <= Len(a)
    BY <1>4, <2>2
  <2>4. a \in Seq(Nat)
    BY <1>1
  <2>5. n \in Nat
    BY <1>4
  <2>6. \A i \in 1 .. n : d + i \in 1 .. L
    BY <1>3, <1>4
  <2>7. c = SubSeq(a, d + 1, d + n)
    BY <2>2
  <2> HIDE DEF n, c, a
  <2>8. /\ SubSeq(a, d + 1, d + n) \in Seq(Nat) /\ Len(SubSeq(a, d + 1, d + n)) = n
        /\ \A i \in 1 .. n : SubSeq(a, d + 1, d + n)[i] = a[d + i] /\ SubSeq(a, d + 1, d + n)[i] \in Nat
    BY ONLY <2>1, <2>3, <2>4, <2>5, CutOut
  <2>9. QED
    BY ONLY <2>6, <2>7, <2>8
<1> HIDE DEF c, d
<1>6. u.state = t.state /\ u.at = t.at /\ u.last = t.last /\ u.anchors = c
  BY <1>2
<1>7. u \in Trackers
  BY <1>1, <1>2, <1>5 DEF Trackers
<1>8. Spaced(c, t.last)
  <2>1. /\ \A i \in 1 .. L : t.last - a[i] >= (L - i) * Grain
        /\ \A i, j \in 1 .. L : i < j => a[i] < a[j]
        /\ L <= AnchorCap
    BY DEF Tracks, AnchorsFar, Spaced
  <2>2. ASSUME NEW i \in 1 .. n PROVE t.last - c[i] >= (n - i) * Grain
    <3>1. d + i \in 1 .. L /\ c[i] = a[d + i] /\ n - i = L - (d + i)
      BY <1>3, <1>4, <1>5
    <3>2. t.last - a[d + i] >= (L - (d + i)) * Grain
      BY <2>1, <3>1
    <3>3. QED
      BY <3>1, <3>2
  <2>3. \A i, j \in 1 .. n : i < j => c[i] < c[j]
    <3> TAKE i, j \in 1 .. n
    <3> HAVE i < j
    <3>1. d + i \in 1 .. L /\ c[i] = a[d + i]
      BY <1>5
    <3>2. d + j \in 1 .. L /\ c[j] = a[d + j]
      BY <1>5
    <3>3. d + i < d + j
      BY <1>3
    <3>4. QED
      BY <2>1, <3>1, <3>2, <3>3
  <2>4. n <= AnchorCap
    BY <1>3, <1>4, <2>1, RingBytesAssumption
  <2>5. QED
    BY <1>5, <2>2, <2>3, <2>4 DEF Spaced
<1>9. /\ \A i \in 1 .. L : a[i] \in between
      /\ \A b \in between : b <= t.at /\ base + Grain <= b =>
           \E i \in 1 .. L : a[i] <= b /\ b < a[i] + Grain
      /\ t.last < base \/ \E i \in 1 .. L : a[i] = t.last
  BY DEF Tracks, AnchorsCover, Covered
<1>10. ASSUME NEW i \in 1 .. L, a[i] >= base
       PROVE  i - d \in 1 .. n /\ c[i - d] = a[i]
  <2>1. ~(i <= d)
    BY <1>1, <1>3, <1>10
  <2>2. i - d \in 1 .. n /\ d + (i - d) = i
    BY <1>3, <1>4, <2>1
  <2>3. QED
    BY <1>5, <2>2
<1>11. t.last < base \/ \E i \in 1 .. n : c[i] = t.last
  <2> SUFFICES ASSUME ~(t.last < base) PROVE \E i \in 1 .. n : c[i] = t.last
    OBVIOUS
  <2>1. PICK i \in 1 .. L : a[i] = t.last
    BY <1>9
  <2>2. a[i] >= base
    BY <1>1, <2>1
  <2>3. QED
    BY <1>10, <2>1, <2>2
<1>12. Covered(c, between, t.at, base)
  <2>1. \A i \in 1 .. n : c[i] \in between
    BY <1>5, <1>9
  <2>2. ASSUME NEW b \in between, b <= t.at, base + Grain <= b
        PROVE  \E i \in 1 .. n : c[i] <= b /\ b < c[i] + Grain
    <3>1. PICK i \in 1 .. L : a[i] <= b /\ b < a[i] + Grain
      BY <1>9, <2>2
    <3>2. a[i] \in Nat /\ Grain \in Nat
      BY <1>1, RingBytesAssumption
    <3>3. a[i] >= base
      BY <2>2, <3>1, <3>2
    <3>4. QED
      BY <1>10, <3>1, <3>3
  <2>3. QED
    BY <1>5, <2>1, <2>2 DEF Covered
<1>13. AnchorsFar(u) /\ AnchorsCover(u, between, base) /\ u.state = lex[u.at]
  BY <1>5, <1>6, <1>8, <1>11, <1>12 DEF AnchorsFar, AnchorsCover, Tracks
<1>14. QED
  BY <1>6, <1>7, <1>13 DEF Tracks

-----------------------------------------------------------------------------
LEMMA RingStarts == HolderRingInit => RingInv
<1> SUFFICES ASSUME HolderRingInit PROVE RingInv
  OBVIOUS
<1> USE RingBytesAssumption
<1>1. emitted = <<>> /\ whole = {0} /\ Len(emitted) = 0
      /\ bytes = [buf |-> [k \in 0 .. Capacity - 1 |-> "0"], start |-> 0, len |-> 0, written |-> 0]
      /\ tracker = [state |-> "ground", anchors |-> <<0>>, last |-> 0, at |-> 0]
  BY DEF HolderRingInit
<1>2. bytes.start = 0 /\ bytes.len = 0 /\ bytes.written = 0
  BY <1>1
<1>3. tracker.state = "ground" /\ tracker.anchors = <<0>> /\ tracker.last = 0 /\ tracker.at = 0
  BY <1>1
<1>4. bytes \in RingBytes
  <2>1. [k \in 0 .. Capacity - 1 |-> "0"] \in [0 .. Capacity - 1 -> OutBytes]
    BY DEF OutBytes
  <2>2. QED
    BY <1>1, <2>1 DEF RingBytes
<1>5. tracker \in Trackers
  BY <1>1 DEF Trackers, LexStates
<1>6. RingTypes
  BY <1>1, <1>2, <1>3, <1>4, <1>5 DEF RingTypes
<1>7. HoldsLast(bytes, emitted)
  BY <1>2 DEF HoldsLast, HeldFrom
<1>8. \E lex : LexedAs(lex, emitted, whole) /\ tracker.state = lex[bytes.written]
  <2> DEFINE lex == [i \in 0 .. 0 |-> "ground"]
  <2>1. LexedAs(lex, emitted, whole) /\ lex[0] = "ground"
    BY <1>1 DEF LexedAs, LexStates
  <2> HIDE DEF lex
  <2>2. QED
    BY <1>2, <1>3, <2>1
<1>9. AnchorsFar(tracker)
  <2>1. Len(<<0>>) = 1 /\ <<0>>[1] = 0 /\ (1 - 1) * Grain = 0
    OBVIOUS
  <2>2. QED
    BY <1>3, <2>1 DEF AnchorsFar, Spaced
<1>10. AnchorsCover(tracker, whole, BaseOf(bytes))
  BY <1>1, <1>2, <1>3 DEF AnchorsCover, Covered, BaseOf
<1>11. QED
  BY <1>6, <1>7, <1>8, <1>9, <1>10 DEF RingInv

LEMMA RingPutsOut == ASSUME RingInv, NEW q \in Printable, PutsOut(q) PROVE RingInv'
<1> DEFINE m == Len(emitted)
           more == emitted \o q
<1>1. emitted' = more /\ whole' = whole \cup {Len(more)} /\ bytes' = bytes /\ tracker' = tracker
  BY DEF PutsOut
<1>2. PICK t : Goes(t, q)
  BY PrintableGoes
<1>3. emitted \in Seq(OutBytes) /\ whole \in SUBSET Nat /\ bytes \in RingBytes /\ bytes.len <= bytes.written
      /\ bytes.written <= m /\ tracker \in Trackers /\ tracker.at = bytes.written /\ m \in Nat
      /\ bytes.written \in Nat /\ bytes.len \in Nat
  BY RingBytesAssumption DEF RingInv, RingTypes, RingBytes
<1>4. q \in Seq(OutBytes) /\ Len(q) \in Nat \ {0}
  BY <1>2 DEF Goes
<1>5. more \in Seq(OutBytes) /\ Len(more) = m + Len(q) /\ \A i \in 1 .. m : more[i] = emitted[i]
  BY <1>3, <1>4
<1> HIDE DEF more
<1>6. RingTypes'
  <2>1. emitted' \in Seq(OutBytes) /\ bytes' \in RingBytes /\ tracker' \in Trackers
    BY <1>1, <1>3, <1>5
  <2>2. whole' \in SUBSET Nat
    <3>1. Len(more) \in Nat
      BY <1>3, <1>4, <1>5
    <3>2. QED
      BY <1>1, <1>3, <3>1
  <2>3. bytes'.len <= bytes'.written /\ tracker'.at = bytes'.written
    BY <1>1, <1>3
  <2>4. bytes'.written <= Len(emitted')
    BY <1>1, <1>3, <1>4, <1>5
  <2>5. QED
    BY <2>1, <2>2, <2>3, <2>4 DEF RingTypes
<1>7. HoldsLast(bytes, more)
  <2>1. ASSUME NEW i \in 0 .. bytes.len - 1
        PROVE  bytes.buf[(bytes.start + i) % Capacity] = more[(bytes.written - bytes.len) + i + 1]
    <3>1. bytes.buf[(bytes.start + i) % Capacity] = emitted[(bytes.written - bytes.len) + i + 1]
      BY DEF RingInv, HoldsLast, HeldFrom
    <3>2. (bytes.written - bytes.len) + i + 1 \in 1 .. m
      BY <1>3
    <3>3. QED
      BY <1>5, <3>1, <3>2
  <2>2. QED
    BY <2>1 DEF HoldsLast, HeldFrom
<1>8. PICK lex : LexedAs(lex, emitted, whole) /\ tracker.state = lex[bytes.written]
  BY DEF RingInv
<1>9. PICK on : LexedAs(on, more, whole \cup {Len(more)}) /\ \A i \in 0 .. m : on[i] = lex[i]
  <2>1. emitted \in Seq(OutBytes)
    BY <1>3
  <2>2. LexedAs(lex, emitted, whole)
    BY <1>8
  <2>3. LexesOn(lex, emitted, whole, q)
    BY ONLY <1>2, <2>1, <2>2, LexedOn
  <2>4. QED
    BY <2>3 DEF LexesOn, more
<1>10. on[bytes.written] = tracker.state
  BY <1>3, <1>8, <1>9
<1>11. AnchorsCover(tracker, whole \cup {Len(more)}, BaseOf(bytes))
  <2> DEFINE a == tracker.anchors
             base == BaseOf(bytes)
  <2>1. /\ \A i \in 1 .. Len(a) : a[i] \in whole
        /\ \A b \in whole : b <= tracker.at /\ base + Grain <= b =>
             \E i \in 1 .. Len(a) : a[i] <= b /\ b < a[i] + Grain
        /\ tracker.last < base \/ \E i \in 1 .. Len(a) : a[i] = tracker.last
    BY DEF RingInv, AnchorsCover, Covered
  <2>2. ~(Len(more) <= tracker.at)
    BY <1>3, <1>4, <1>5
  <2>3. QED
    BY <2>1, <2>2 DEF AnchorsCover, Covered
<1>12. AnchorsFar(tracker)
  BY DEF RingInv
<1>13. HoldsLast(bytes', emitted') /\ AnchorsFar(tracker') /\ AnchorsCover(tracker', whole', BaseOf(bytes)')
       /\ LexedAs(on, emitted', whole') /\ tracker'.state = on[bytes'.written]
  BY <1>1, <1>7, <1>9, <1>10, <1>11, <1>12 DEF BaseOf
<1>14. QED
  BY <1>6, <1>13 DEF RingInv, HoldsLast, HeldFrom, LexedAs, AnchorsFar, Spaced, AnchorsCover, Covered

LEMMA RingReads == ASSUME RingInv, NEW n \in Nat \ {0}, ReadsPty(n) PROVE RingInv'
<1> DEFINE w == bytes.written
           out == emitted
           data == SubSeq(out, w + 1, w + n)
           p == Pushed(bytes, data)
           base == p.written - p.len
           t == tracker
           fed == Tracked(t, data)
           u == PruneBelow(fed, base)
<1>1. emitted' = emitted /\ whole' = whole /\ bytes' = p /\ tracker' = u /\ w + n <= Len(out)
  BY DEF ReadsPty, BaseOf
<1>2. out \in Seq(OutBytes) /\ whole \in SUBSET Nat /\ bytes \in RingBytes /\ bytes.len <= w
      /\ w <= Len(out) /\ t \in Trackers /\ t.at = w /\ w \in Nat /\ Len(out) \in Nat /\ Capacity \in Nat
      /\ bytes.len \in Nat /\ HoldsLast(bytes, out)
  BY RingBytesAssumption DEF RingInv, RingTypes, RingBytes
<1>3. /\ p \in RingBytes
      /\ p.written = w + n
      /\ p.len <= p.written
      /\ w - bytes.len <= p.written - p.len
      /\ p.written - Capacity <= p.written - p.len
      /\ HoldsLast(p, out)
  <2> HIDE DEF p
  <2>1. data = SubSeq(out, bytes.written + 1, bytes.written + n) /\ p = Pushed(bytes, data)
    BY DEF p
  <2> HIDE DEF data
  <2>2. QED
    <3>1. bytes \in RingBytes
      BY <1>2
    <3>2. out \in Seq(OutBytes)
      BY <1>2
    <3>3. bytes.len <= bytes.written /\ HoldsLast(bytes, out) /\ bytes.written + n <= Len(out)
      BY <1>1, <1>2
    <3>4. n \in Nat \ {0}
      OBVIOUS
    <3>5. WritesAs(Pushed(bytes, SubSeq(out, bytes.written + 1, bytes.written + n)), bytes, out, n)
      BY ONLY <3>1, <3>2, <3>3, <3>4, PushedHolds
    <3>6. WritesAs(p, bytes, out, n)
      BY ONLY <2>1, <3>5
    <3>7. QED
      BY <3>6 DEF WritesAs
<1>4. Len(data) = n /\ \A i \in 1 .. n : data[i] = out[w + i]
  <2>1. n \in Nat
    OBVIOUS
  <2>2. w \in Nat
    BY <1>2
  <2>3. w + n <= Len(out)
    BY <1>1
  <2>4. out \in Seq(OutBytes)
    BY <1>2
  <2> HIDE DEF OutBytes
  <2>5. /\ SubSeq(out, w + 1, w + n) \in Seq(OutBytes) /\ Len(SubSeq(out, w + 1, w + n)) = n
        /\ \A i \in 1 .. n : SubSeq(out, w + 1, w + n)[i] = out[w + i] /\ SubSeq(out, w + 1, w + n)[i] \in OutBytes
    BY ONLY <2>1, <2>2, <2>3, <2>4, CutOut
  <2>6. QED
    BY <2>5
<1>5. PICK lex : LexedAs(lex, out, whole) /\ t.state = lex[w]
  BY DEF RingInv
<1> HIDE DEF p, data
<1>6. p.len \in Nat /\ p.written \in Nat /\ base \in Nat
  BY <1>3, RingBytesAssumption DEF RingBytes
<1>7. w - bytes.len <= base /\ (w + n) - Capacity <= base /\ base <= w + n
  BY <1>2, <1>3, <1>6
<1> HIDE DEF base
<1>8. Tracks(t, lex, whole, base)
  <2> DEFINE a == t.anchors
             old == w - bytes.len
  <2>1. /\ \A i \in 1 .. Len(a) : a[i] \in whole
        /\ \A b \in whole : b <= t.at /\ old + Grain <= b =>
             \E i \in 1 .. Len(a) : a[i] <= b /\ b < a[i] + Grain
        /\ t.last < old \/ \E i \in 1 .. Len(a) : a[i] = t.last
    BY DEF RingInv, AnchorsCover, Covered, BaseOf
  <2>2. t.last \in Nat /\ Grain \in Nat
    BY <1>2, RingBytesAssumption DEF Trackers
  <2>3. \A b \in whole : base + Grain <= b => old + Grain <= b
    BY <1>2, <1>6, <1>7, <2>2
  <2>4. t.last < old => t.last < base
    BY <1>2, <1>6, <1>7, <2>2
  <2>5. AnchorsCover(t, whole, base)
    BY <2>1, <2>3, <2>4 DEF AnchorsCover, Covered
  <2>6. AnchorsFar(t)
    BY DEF RingInv
  <2>7. QED
    BY <1>2, <1>5, <2>5, <2>6 DEF Tracks
<1>9. Tracks(fed, lex, whole, base) /\ fed.at = w + n
  <2>1. t.at + n <= Len(out) /\ (t.at + n) - Capacity <= base /\ \A i \in 1 .. n : data[i] = out[t.at + i]
    BY <1>1, <1>2, <1>4, <1>7
  <2>2. QED
    <3>1. out \in Seq(OutBytes) /\ base \in Nat /\ n \in Nat
      BY <1>2, <1>6
    <3>2. LexedAs(lex, out, whole) /\ Tracks(t, lex, whole, base) /\ Len(data) = n
      BY <1>4, <1>5, <1>8
    <3>3. Tracks(Tracked(t, data), lex, whole, base) /\ Tracked(t, data).at = t.at + n
      BY ONLY <2>1, <3>1, <3>2, FedKeeps
    <3>4. QED
      BY <1>2, <3>3
<1> HIDE DEF fed
<1>10. Tracks(u, lex, whole, base) /\ u.at = w + n
  BY <1>2, <1>6, <1>9, PrunedKeeps
<1> HIDE DEF u
<1>11. u \in Trackers /\ u.state = lex[w + n] /\ AnchorsFar(u) /\ AnchorsCover(u, whole, base)
  BY <1>10 DEF Tracks
<1>12. RingTypes'
  BY <1>1, <1>2, <1>3, <1>10, <1>11 DEF RingTypes
<1>13. HoldsLast(bytes', emitted') /\ AnchorsFar(tracker') /\ AnchorsCover(tracker', whole', BaseOf(bytes)')
       /\ LexedAs(lex, emitted', whole') /\ tracker'.state = lex[bytes'.written]
  BY <1>1, <1>3, <1>5, <1>11 DEF BaseOf, base
<1>14. QED
  BY <1>12, <1>13 DEF RingInv, HoldsLast, HeldFrom, LexedAs, AnchorsFar, Spaced, AnchorsCover, Covered

LEMMA RingInductive == RingInv /\ [HolderRingNext]_holderRingVars => RingInv'
<1> SUFFICES ASSUME RingInv, [HolderRingNext]_holderRingVars PROVE RingInv'
  OBVIOUS
<1>1. CASE \E q \in Printable : PutsOut(q)
  BY <1>1, RingPutsOut
<1>2. CASE \E n \in 1 .. MaxPtyRead : ReadsPty(n)
  <2>1. PICK n \in 1 .. MaxPtyRead : ReadsPty(n)
    BY <1>2
  <2>2. n \in Nat \ {0}
    BY RingBytesAssumption
  <2>3. QED
    BY <2>1, <2>2, RingReads
<1>3. CASE UNCHANGED holderRingVars
  <2>1. emitted' = emitted /\ whole' = whole /\ bytes' = bytes /\ tracker' = tracker
    BY <1>3 DEF holderRingVars
  <2>2. QED
    BY <2>1 DEF RingInv, RingTypes, HoldsLast, HeldFrom, LexedAs, AnchorsFar, Spaced, AnchorsCover, Covered, BaseOf
<1>4. QED
  BY <1>1, <1>2, <1>3 DEF HolderRingNext

LEMMA RingImplies == RingInv => ReplayIsWhole
<1> SUFFICES ASSUME RingInv PROVE ReplayIsWhole
  OBVIOUS
<1> DEFINE w == bytes.written
           base == BaseOf(bytes)
           a == tracker.anchors
           safe == SafeOffset
<1>1. emitted \in Seq(OutBytes) /\ whole \in SUBSET Nat /\ bytes \in RingBytes /\ bytes.len <= w
      /\ w <= Len(emitted) /\ w \in Nat /\ base \in 0 .. w /\ base = w - bytes.len /\ HoldsLast(bytes, emitted)
      /\ a \in Seq(Nat) /\ Grain \in Nat /\ tracker.at = w
  BY RingBytesAssumption DEF RingInv, RingTypes, RingBytes, BaseOf, Trackers
<1>2. /\ \A i \in 1 .. Len(a) : a[i] \in whole
      /\ \A b \in whole : b <= tracker.at /\ base + Grain <= b =>
           \E i \in 1 .. Len(a) : a[i] <= b /\ b < a[i] + Grain
  BY DEF RingInv, AnchorsCover, Covered
<1>3. \A i, j \in 1 .. Len(a) : i < j => a[i] < a[j]
  BY DEF RingInv, AnchorsFar, Spaced
<1>4. ASSUME NEW from \in base .. w
      PROVE  SinceOffset(bytes, from) = SubSeq(emitted, from + 1, w)
  BY <1>1, SinceGives
<1> DEFINE left == {i \in 1 .. Len(a) : a[i] >= base}
           first == CHOOSE i \in left : \A j \in left : i <= j
<1>5. safe = IF left # {} /\ a[first] < w THEN a[first] ELSE w
  <2>1. DOMAIN a = 1 .. Len(a)
    BY <1>1
  <2>2. QED
    BY <2>1 DEF SafeOffset
<1>6. left # {} => first \in left /\ \A j \in left : first <= j
  <2> SUFFICES ASSUME left # {} PROVE \E i \in left : \A j \in left : i <= j
    OBVIOUS
  <2> DEFINE n == Len(a)
             S == {k \in 0 .. n : (\E j \in left : j <= k) => \E i \in left : \A j \in left : i <= j}
  <2>1. n \in Nat /\ left \subseteq 1 .. n
    BY <1>1
  <2> HIDE DEF left, n
  <2>2. 0 \in S
    BY <2>1
  <2>3. ASSUME NEW k \in 0 .. n, k + 1 \in 0 .. n, k \in S PROVE k + 1 \in S
    <3> SUFFICES ASSUME NEW j \in left, j <= k + 1 PROVE \E i \in left : \A l \in left : i <= l
      BY <2>3
    <3>1. CASE \E l \in left : l <= k
      BY <2>3, <3>1
    <3>2. CASE ~ \E l \in left : l <= k
      <4>1. \A l \in left : j <= l
        BY <2>1, <3>2
      <4>2. QED
        BY <4>1
    <3>3. QED
      BY <3>1, <3>2
  <2> HIDE DEF S
  <2>4. \A k \in 0 .. n : k + 1 \in 0 .. n /\ k \in S => k + 1 \in S
    BY ONLY <2>3
  <2>5. n \in Nat
    BY <2>1
  <2>6. \A k \in 0 .. n : k \in S
    BY ONLY <2>2, <2>4, <2>5, Upward
  <2>7. n \in S
    BY <2>5, <2>6
  <2>8. \E j \in left : j <= n
    <3>1. PICK j \in left : TRUE
      OBVIOUS
    <3>2. j <= n
      BY <2>1
    <3>3. QED
      BY <3>2
  <2>9. QED
    BY <2>7, <2>8 DEF S
<1> HIDE DEF safe, first
<1>7. safe \in base .. w /\ safe \in whole \cup {w}
  <2>1. CASE left # {} /\ a[first] < w
    <3>1. first \in 1 .. Len(a) /\ a[first] >= base /\ safe = a[first] /\ a[first] \in Nat
      BY <1>1, <1>5, <1>6, <2>1, SMTT(30)
    <3>2. QED
      BY <1>1, <1>2, <2>1, <3>1
  <2>2. CASE ~(left # {} /\ a[first] < w)
    BY <1>1, <1>5, <2>2
  <2>3. QED
    BY <2>1, <2>2
<1>8. ASSUME NEW b \in whole, base + Grain <= b, b < w
      PROVE  safe <= b
  <2>1. PICK i \in 1 .. Len(a) : a[i] <= b /\ b < a[i] + Grain
    BY <1>1, <1>2, <1>8
  <2>2. a[i] \in Nat /\ b \in Nat
    BY <1>1
  <2>3. i \in left
    BY <1>1, <1>8, <2>1, <2>2
  <2>4. first \in 1 .. Len(a) /\ first <= i /\ left # {}
    BY <1>6, <2>3
  <2>5. a[first] <= a[i] /\ a[first] \in Nat
    <3>1. a[first] \in Nat
      BY <1>1, <2>4, SMTT(30)
    <3>2. first = i \/ first < i
      BY <2>4
    <3>3. first < i => a[first] < a[i]
      BY <1>3, <2>4
    <3>4. QED
      BY <2>2, <3>1, <3>2, <3>3
  <2>6. a[first] < w
    BY <1>1, <1>8, <2>1, <2>2, <2>5, SMTT(30)
  <2>7. safe = a[first]
    BY <1>5, <2>4, <2>6
  <2>8. QED
    BY <2>1, <2>2, <2>5, <2>7
<1>9. ASSUME NEW r \in Replays
      PROVE  r.from \in base .. w /\ r.data = SinceOffset(bytes, r.from) /\ (r.gap => r.from = safe)
  <2>1. CASE r = DumpAll
    <3>1. r.gap = (base > 0) /\ r.from = (IF base > 0 THEN safe ELSE 0) /\ r.data = SinceOffset(bytes, r.from)
      BY <2>1 DEF DumpAll, safe
    <3>2. QED
      <4>1. CASE base > 0
        BY <1>7, <3>1, <4>1
      <4>2. CASE ~(base > 0)
        <5>1. 0 \in base .. w
          BY <1>1, <4>2
        <5>2. QED
          BY <3>1, <4>2, <5>1
      <4>3. QED
        BY <4>1, <4>2
  <2>2. CASE \E want \in 0 .. w : r = ReplaySince(want)
    <3>1. PICK want \in 0 .. w : r = ReplaySince(want)
      BY <2>2
    <3>2. r.gap = (want < base) /\ r.from = (IF want < base THEN safe ELSE want) /\ r.data = SinceOffset(bytes, r.from)
      BY <3>1 DEF ReplaySince, safe
    <3>3. QED
      <4>1. CASE want < base
        BY <1>7, <3>2, <4>1
      <4>2. CASE ~(want < base)
        <5>1. want \in base .. w
          BY <1>1, <4>2
        <5>2. QED
          BY <3>2, <4>2, <5>1
      <4>3. QED
        BY <4>1, <4>2
  <2>3. QED
    BY <2>1, <2>2 DEF Replays
<1>10. ASSUME NEW r \in Replays
       PROVE  /\ r.data = SubSeq(emitted, r.from + 1, w)
              /\ r.gap => r.from \in whole \cup {w}
              /\ r.gap => \A b \in whole : base + Grain <= b /\ b < w => r.from <= b
  BY <1>4, <1>7, <1>8, <1>9
<1>11. QED
  BY <1>10 DEF ReplayIsWhole

(* Whatever a server asks a holder for, it is given what was printed from the offset named    *)
(* on; with a gap, from where nothing is cut, and no more is withheld than has to be         *)
(* (main.rs:46-54).                                                             *)
THEOREM HolderReplayIsWhole == HolderRingSpec => []ReplayIsWhole
<1>1. HolderRingInit => RingInv
  BY RingStarts
<1>2. RingInv /\ [HolderRingNext]_holderRingVars => RingInv'
  BY RingInductive
<1>3. RingInv => ReplayIsWhole
  BY RingImplies
<1>4. QED
  BY <1>1, <1>2, <1>3, PTL DEF HolderRingSpec

-----------------------------------------------------------------------------
(* HolderInput: how the holder reads.                                             *)

(* The bytes of the connections, and what is known of who plays which part.            *)
InputBytes == [conn : Dialers, i : Nat \ {0}, k : 0 .. 2, cmd : ClaimCmds \cup {"dataIn"}]

InputTypes ==
  /\ sentOn \in [Dialers -> Seq(ClaimCmds \cup {"dataIn"})]
  /\ socket \in [Dialers -> Seq(InputBytes)]
  /\ waiting \in SUBSET Dialers
  /\ client \in Dialers \cup {Nobody} /\ pending \in Dialers \cup {Nobody}
  /\ reader \in Seq(InputBytes) /\ pendingReader \in Seq(InputBytes)
  /\ ptyAlive \in BOOLEAN
  /\ pendingInput \in Seq(InputBytes) /\ taken \in Seq(InputBytes)

(* The connections the holder still reads, or will.                               *)
StillRead == waiting \cup ({client, pending} \ {Nobody})

InputRoles ==
  /\ client = Nobody => reader = <<>>
  /\ pending # Nobody => pending # client /\ pending \notin waiting
  /\ client \notin waiting
  /\ \A c \in StillRead : sentOn[c] # <<>>
  /\ at \in {"accept", "pending"} /\ "parked" \in ready => pending # Nobody

OneClaim == \A c \in Dialers : \A i \in DOMAIN sentOn[c] : i > 1 => sentOn[c][i] = "dataIn"

(* One byte of a connection, and the one after it.                                 *)
FollowedBy(x, y) ==
  /\ x.k < PayloadLength(x.cmd) => y.i = x.i /\ y.k = x.k + 1
  /\ x.k >= PayloadLength(x.cmd) => y.i = x.i + 1 /\ y.k = 0

(* Of c, whose frames are sent, s is all from the head of frame n to the end.           *)
StreamFrom(s, c, flow, n) ==
  /\ n \in 1 .. Len(flow) + 1
  /\ s = <<>> <=> n = Len(flow) + 1
  /\ \A j \in 1 .. Len(s) :
       s[j].conn = c /\ s[j].i \in 1 .. Len(flow) /\ s[j].cmd = flow[s[j].i] /\ s[j].k \in 0 .. PayloadLength(s[j].cmd)
  /\ s # <<>> => s[1].i = n /\ s[1].k = 0
  /\ \A j \in 1 .. Len(s) : j < Len(s) => FollowedBy(s[j], s[j + 1])
  /\ s # <<>> => s[Len(s)].i = Len(flow) /\ s[Len(s)].k = PayloadLength(s[Len(s)].cmd)

(* The controller's bytes go on where what was given of it ends.                      *)
ClientGoesOn(input, c, flow, s, alive) ==
  \E n \in Nat, m \in Nat :
    /\ StreamFrom(s, c, flow, n)
    /\ 2 * m <= Len(input)
    /\ GivenOf(input, c, flow, Len(input) - 2 * m, m)
    /\ m > 0 => FirstInput(flow) + m <= n
    /\ alive => (m = 0 /\ n <= FirstInput(flow)) \/ FirstInput(flow) + m = n

NothingOf(input, c) == \A l \in DOMAIN input : input[l].conn # c

WaitingWhole == \A c \in waiting : StreamFrom(socket[c], c, sentOn[c], 1)

PendingWhole == pending # Nobody => StreamFrom(pendingReader \o socket[pending], pending, sentOn[pending], 1)

ClientWhole == client # Nobody => ClientGoesOn(given, client, sentOn[client], reader \o socket[client], ptyAlive)

NothingEarly == \A c \in Dialers : c \in waiting \/ c = pending \/ sentOn[c] = <<>> => NothingOf(given, c)

InputInv ==
  /\ InputTypes /\ InputRoles /\ OneClaim
  /\ WaitingWhole /\ PendingWhole /\ ClientWhole /\ NothingEarly /\ InputIsWhole

-----------------------------------------------------------------------------
(* Bytes.                                                                    *)

LEMMA SplitWhole ==
  ASSUME NEW S, NEW s \in Seq(S), NEW n \in 0 .. Len(s)
  PROVE  SubSeq(s, 1, n) \in Seq(S) /\ SubSeq(s, n + 1, Len(s)) \in Seq(S)
         /\ SubSeq(s, 1, n) \o SubSeq(s, n + 1, Len(s)) = s
         /\ Len(SubSeq(s, 1, n)) = n
<1>1. SubSeq(s, 1, n) \in Seq(S) /\ SubSeq(s, n + 1, Len(s)) \in Seq(S) /\ Len(SubSeq(s, 1, n)) = n
      /\ Len(SubSeq(s, n + 1, Len(s))) = Len(s) - n
  OBVIOUS
<1> DEFINE a == SubSeq(s, 1, n)
           b == SubSeq(s, n + 1, Len(s))
<1>2. (\A i \in 1 .. n : a[i] = s[i]) /\ (\A i \in 1 .. Len(s) - n : b[i] = s[n + i])
  OBVIOUS
<1> HIDE DEF a, b
<1>3. a \in Seq(S) /\ b \in Seq(S) /\ Len(a) = n /\ Len(b) = Len(s) - n
  BY <1>1 DEF a, b
<1>4. a \o b \in Seq(S) /\ Len(a \o b) = Len(s)
      /\ \A i \in 1 .. Len(s) : (a \o b)[i] = IF i <= n THEN a[i] ELSE b[i - n]
  BY <1>3
<1>5. \A i \in 1 .. Len(s) : (a \o b)[i] = s[i]
  <2> TAKE i \in 1 .. Len(s)
  <2>1. CASE i <= n
    BY <2>1, <1>2, <1>4
  <2>2. CASE i > n
    <3>1. i - n \in 1 .. Len(s) - n /\ n + (i - n) = i /\ ~(i <= n)
      BY <2>2
    <3>2. QED
      BY <3>1, <1>2, <1>4
  <2>3. i <= n \/ i > n
    OBVIOUS
  <2>4. QED
    BY <2>1, <2>2, <2>3
<1>6. a \o b = s
  BY <1>4, <1>5, SeqEqual
<1>7. QED
  BY <1>1, <1>6 DEF a, b

LEMMA ConcatsAssociate ==
  ASSUME NEW S, NEW r \in Seq(S), NEW a \in Seq(S), NEW b \in Seq(S)
  PROVE  (r \o a) \o b = r \o (a \o b)
<1> DEFINE ra == r \o a
           ab == a \o b
<1>1. Len(r) \in Nat /\ Len(a) \in Nat /\ Len(b) \in Nat
  OBVIOUS
<1>2. ra \in Seq(S) /\ Len(ra) = Len(r) + Len(a)
      /\ \A i \in 1 .. Len(r) + Len(a) : ra[i] = IF i <= Len(r) THEN r[i] ELSE a[i - Len(r)]
  BY ConcatProperties
<1>3. ab \in Seq(S) /\ Len(ab) = Len(a) + Len(b)
      /\ \A i \in 1 .. Len(a) + Len(b) : ab[i] = IF i <= Len(a) THEN a[i] ELSE b[i - Len(a)]
  BY ConcatProperties
<1> HIDE DEF ra, ab
<1>a. ra \in Seq(S) /\ ab \in Seq(S)
  BY <1>2, <1>3
<1> DEFINE x == ra \o b
           y == r \o ab
<1>4. x \in Seq(S) /\ Len(x) = Len(ra) + Len(b)
      /\ \A i \in 1 .. Len(ra) + Len(b) : x[i] = IF i <= Len(ra) THEN ra[i] ELSE b[i - Len(ra)]
  BY <1>a, ConcatProperties
<1>5. y \in Seq(S) /\ Len(y) = Len(r) + Len(ab)
      /\ \A i \in 1 .. Len(r) + Len(ab) : y[i] = IF i <= Len(r) THEN r[i] ELSE ab[i - Len(r)]
  BY <1>a, ConcatProperties
<1> HIDE DEF x, y
<1>6. Len(x) = Len(y)
  BY <1>1, <1>2, <1>3, <1>4, <1>5
<1>7. ASSUME NEW i \in 1 .. Len(x) PROVE x[i] = y[i]
  <2>1. CASE i <= Len(r)
    <3>1. i \in 1 .. Len(r) + Len(a) /\ i \in 1 .. Len(ra) + Len(b) /\ i \in 1 .. Len(r) + Len(ab) /\ i <= Len(ra)
      BY <2>1, <1>1, <1>2, <1>3, <1>4
    <3>2. x[i] = r[i]
      BY <2>1, <3>1, <1>2, <1>4
    <3>3. y[i] = r[i]
      BY <2>1, <3>1, <1>5
    <3>4. QED
      BY <3>2, <3>3
  <2>2. CASE i > Len(r) /\ i <= Len(r) + Len(a)
    <3>1. i - Len(r) \in 1 .. Len(a) + Len(b) /\ i - Len(r) <= Len(a) /\ i \in 1 .. Len(r) + Len(a) /\ ~(i <= Len(r))
      BY <2>2, <1>1
    <3>2. x[i] = a[i - Len(r)]
      BY <3>1, <1>1, <1>2, <1>4
    <3>3. y[i] = a[i - Len(r)]
      BY <3>1, <1>1, <1>3, <1>5, SMTT(30)
    <3>4. QED
      BY <3>2, <3>3
  <2>3. CASE i > Len(r) + Len(a)
    <3>1. i \in 1 .. Len(r) + Len(a) + Len(b)
      BY <1>1, <1>2, <1>4
    <3>2. i - Len(r) \in 1 .. Len(a) + Len(b) /\ ~(i - Len(r) <= Len(a)) /\ ~(i <= Len(r)) /\ ~(i <= Len(r) + Len(a))
          /\ i - Len(r) - Len(a) = i - (Len(r) + Len(a))
      BY <2>3, <1>1, <3>1
    <3>3. x[i] = b[i - (Len(r) + Len(a))]
      BY <3>1, <3>2, <1>1, <1>2, <1>4
    <3>4. y[i] = b[i - (Len(r) + Len(a))]
      <4>1. i \in 1 .. Len(r) + Len(ab)
        BY <3>1, <1>1, <1>3
      <4>2. y[i] = ab[i - Len(r)]
        BY <4>1, <3>2, <1>5
      <4>3. ab[i - Len(r)] = b[i - Len(r) - Len(a)]
        BY <3>2, <1>3
      <4>4. QED
        BY <4>2, <4>3, <3>2
    <3>5. QED
      BY <3>3, <3>4
  <2>4. QED
    BY <2>1, <2>2, <2>3, <1>1, <1>2, <1>4
<1>8. x = y
  BY <1>4, <1>5, <1>6, <1>7, SeqEqual
<1>9. QED
  BY <1>8 DEF x, y, ra, ab

LEMMA ReadWhole ==
  ASSUME NEW S, NEW r \in Seq(S), NEW s \in Seq(S), NEW n \in 0 .. Len(s)
  PROVE  (r \o SubSeq(s, 1, n)) \o SubSeq(s, n + 1, Len(s)) = r \o s
<1>1. SubSeq(s, 1, n) \in Seq(S) /\ SubSeq(s, n + 1, Len(s)) \in Seq(S)
      /\ SubSeq(s, 1, n) \o SubSeq(s, n + 1, Len(s)) = s
  BY SplitWhole
<1> DEFINE a == SubSeq(s, 1, n)
           b == SubSeq(s, n + 1, Len(s))
<1>2. a \in Seq(S) /\ b \in Seq(S)
  BY <1>1
<1> HIDE DEF a, b
<1>3. (r \o a) \o b = r \o (a \o b)
  BY <1>2, ConcatsAssociate, SMTT(30)
<1>4. QED
  BY <1>1, <1>3 DEF a, b

LEMMA FramedIs ==
  ASSUME NEW c \in Dialers, NEW i \in Nat \ {0}, NEW cmd \in ClaimCmds \cup {"dataIn"}
  PROVE  /\ Framed(c, i, cmd) \in Seq(InputBytes)
         /\ PayloadLength(cmd) \in {1, 2} /\ Len(Framed(c, i, cmd)) = 1 + PayloadLength(cmd)
         /\ \A j \in 1 .. 1 + PayloadLength(cmd) : Framed(c, i, cmd)[j] = [conn |-> c, i |-> i, k |-> j - 1, cmd |-> cmd]
<1>1. PayloadLength(cmd) \in {1, 2}
  BY DEF PayloadLength
<1>2. \A k \in 1 .. 1 + PayloadLength(cmd) : [conn |-> c, i |-> i, k |-> k - 1, cmd |-> cmd] \in InputBytes
  BY <1>1 DEF InputBytes
<1>3. QED
  BY <1>1, <1>2 DEF Framed

LEMMA StreamStarts ==
  ASSUME NEW c \in Dialers, NEW cmd \in ClaimCmds \cup {"dataIn"}
  PROVE  StreamFrom(Framed(c, 1, cmd), c, <<cmd>>, 1)
<1> DEFINE s == Framed(c, 1, cmd)
<1>1. 1 \in Nat \ {0}
  OBVIOUS
<1>2. s \in Seq(InputBytes) /\ PayloadLength(cmd) \in {1, 2} /\ Len(s) = 1 + PayloadLength(cmd)
      /\ \A j \in 1 .. 1 + PayloadLength(cmd) : s[j] = [conn |-> c, i |-> 1, k |-> j - 1, cmd |-> cmd]
  BY <1>1, FramedIs, ZenonT(60)
<1> HIDE DEF s
<1>3. \A j \in 1 .. Len(s) : j < Len(s) => FollowedBy(s[j], s[j + 1])
  BY <1>2 DEF FollowedBy
<1>4. StreamFrom(s, c, <<cmd>>, 1)
  BY <1>2, <1>3 DEF StreamFrom
<1>5. QED
  BY <1>4 DEF s

LEMMA StreamGrows ==
  ASSUME NEW c \in Dialers, NEW flow \in Seq(ClaimCmds \cup {"dataIn"}), NEW s \in Seq(InputBytes), NEW n,
         StreamFrom(s, c, flow, n)
  PROVE  StreamFrom(s \o Framed(c, Len(flow) + 1, "dataIn"), c, Append(flow, "dataIn"), n)
<1> DEFINE t == Framed(c, Len(flow) + 1, "dataIn")
           u == s \o t
           more == Append(flow, "dataIn")
<1>1. Len(flow) + 1 \in Nat \ {0} /\ "dataIn" \in ClaimCmds \cup {"dataIn"} /\ PayloadLength("dataIn") = 2
  BY DEF PayloadLength
<1>2. t \in Seq(InputBytes) /\ Len(t) = 3
      /\ \A j \in 1 .. 3 : t[j] = [conn |-> c, i |-> Len(flow) + 1, k |-> j - 1, cmd |-> "dataIn"]
  <2>1. t \in Seq(InputBytes) /\ Len(t) = 1 + PayloadLength("dataIn")
        /\ \A j \in 1 .. 1 + PayloadLength("dataIn") : t[j] = [conn |-> c, i |-> Len(flow) + 1, k |-> j - 1, cmd |-> "dataIn"]
    BY <1>1, FramedIs, ZenonT(60)
  <2> HIDE DEF t
  <2>2. 1 + PayloadLength("dataIn") = 3
    BY <1>1
  <2>3. QED
    BY <2>1, <2>2
<1> HIDE DEF t
<1>3. Len(u) = Len(s) + 3 /\ u \in Seq(InputBytes) /\ u # <<>>
      /\ (\A j \in 1 .. Len(s) : u[j] = s[j])
      /\ (\A j \in 1 .. 3 : u[Len(s) + j] = t[j])
  <2>0. t \in Seq(InputBytes) /\ Len(t) = 3
    BY <1>2
  <2>1. u \in Seq(InputBytes) /\ Len(u) = Len(s) + 3
        /\ \A j \in 1 .. Len(s) + 3 : u[j] = IF j <= Len(s) THEN s[j] ELSE t[j - Len(s)]
    <3>1. u \in Seq(InputBytes) /\ Len(u) = Len(s) + Len(t)
          /\ \A j \in 1 .. Len(s) + Len(t) : u[j] = IF j <= Len(s) THEN s[j] ELSE t[j - Len(s)]
      BY <2>0, ConcatProperties
    <3>2. QED
      BY <3>1, <2>0
  <2> HIDE DEF u
  <2>2. ASSUME NEW j \in 1 .. 3 PROVE u[Len(s) + j] = t[j]
    <3>1. Len(s) + j \in 1 .. Len(s) + 3 /\ ~(Len(s) + j <= Len(s)) /\ Len(s) + j - Len(s) = j
      OBVIOUS
    <3>2. QED
      BY <2>1, <3>1
  <2>3. u # <<>>
    BY <2>1
  <2>4. QED
    BY <2>1, <2>2, <2>3
<1>4. Len(more) = Len(flow) + 1 /\ more[Len(flow) + 1] = "dataIn" /\ \A i \in 1 .. Len(flow) : more[i] = flow[i]
  OBVIOUS
<1> HIDE DEF u, more
<1>5. \A j \in Len(s) + 1 .. Len(u) : u[j] = [conn |-> c, i |-> Len(flow) + 1, k |-> j - Len(s) - 1, cmd |-> "dataIn"]
  <2> TAKE j \in Len(s) + 1 .. Len(u)
  <2>1. j - Len(s) \in 1 .. 3 /\ Len(s) + (j - Len(s)) = j
    BY <1>3
  <2>2. u[j] = t[j - Len(s)]
    BY <1>3, <2>1
  <2>3. QED
    BY <1>2, <2>1, <2>2
<1>6. \A j \in 1 .. Len(u) :
        u[j].conn = c /\ u[j].i \in 1 .. Len(more) /\ u[j].cmd = more[u[j].i] /\ u[j].k \in 0 .. PayloadLength(u[j].cmd)
  <2> TAKE j \in 1 .. Len(u)
  <2>1. CASE j \in 1 .. Len(s)
    BY <2>1, <1>3, <1>4, SMTT(30) DEF StreamFrom
  <2>2. CASE j \in Len(s) + 1 .. Len(u)
    <3>1. u[j] = [conn |-> c, i |-> Len(flow) + 1, k |-> j - Len(s) - 1, cmd |-> "dataIn"]
      BY <2>2, <1>5
    <3>2. Len(u) = Len(s) + 3
      BY <1>3
    <3>3. j - Len(s) - 1 \in 0 .. 2
      BY <2>2, <3>2
    <3>4. QED
      BY <3>1, <3>3, <1>1, <1>4
  <2>3. QED
    BY <2>1, <2>2, <1>3
<1>7. \A j \in 1 .. Len(u) : j < Len(u) => FollowedBy(u[j], u[j + 1])
  <2> TAKE j \in 1 .. Len(u)
  <2> HAVE j < Len(u)
  <2>1. CASE j < Len(s)
    <3>1. FollowedBy(s[j], s[j + 1]) /\ j \in 1 .. Len(s) /\ j + 1 \in 1 .. Len(s)
      BY <2>1 DEF StreamFrom
    <3>2. QED
      BY <3>1, <1>3
  <2>2. CASE j = Len(s)
    <3>1. s # <<>> /\ Len(s) \in 1 .. Len(s)
      BY <2>2
    <3>2. s[Len(s)].i = Len(flow) /\ s[Len(s)].k = PayloadLength(s[Len(s)].cmd) /\ s[Len(s)].k \in Int
      BY <3>1 DEF StreamFrom
    <3>3. u[j] = s[Len(s)] /\ u[j + 1].i = Len(flow) + 1 /\ u[j + 1].k = 0
      <4>1. Len(u) = Len(s) + 3
        BY <1>3
      <4>2. j + 1 \in Len(s) + 1 .. Len(u) /\ j + 1 - Len(s) - 1 = 0 /\ j \in 1 .. Len(s)
        BY <4>1, <2>2, <3>1
      <4>3. u[j + 1] = [conn |-> c, i |-> Len(flow) + 1, k |-> 0, cmd |-> "dataIn"]
        BY <4>2, <1>5
      <4>4. u[j] = s[j]
        BY <4>2, <1>3
      <4>5. QED
        BY <4>3, <4>4, <2>2
    <3>4. QED
      BY <3>2, <3>3, SMTT(30) DEF FollowedBy
  <2>3. CASE j > Len(s)
    <3>1. j \in Len(s) + 1 .. Len(u) /\ j + 1 \in Len(s) + 1 .. Len(u)
      BY <2>3, <1>3
    <3>2. u[j] = [conn |-> c, i |-> Len(flow) + 1, k |-> j - Len(s) - 1, cmd |-> "dataIn"]
      BY <3>1, <1>5, Zenon
    <3>3. u[j + 1] = [conn |-> c, i |-> Len(flow) + 1, k |-> (j + 1) - Len(s) - 1, cmd |-> "dataIn"]
      BY <3>1, <1>5, Zenon
    <3>4. Len(u) = Len(s) + 3
      BY <1>3
    <3>5. QED
      BY <2>3, <3>2, <3>3, <3>4, <1>1 DEF FollowedBy
  <2>4. QED
    BY <2>1, <2>2, <2>3
<1>8. u[1].i = n /\ u[1].k = 0
  <2>1. CASE s = <<>>
    <3>1. Len(s) = 0 /\ n = Len(flow) + 1
      BY <2>1 DEF StreamFrom
    <3>2. 1 \in Len(s) + 1 .. Len(u) /\ 1 - Len(s) - 1 = 0
      BY <3>1, <1>3
    <3>3. u[1] = [conn |-> c, i |-> Len(flow) + 1, k |-> 1 - Len(s) - 1, cmd |-> "dataIn"]
      BY <3>2, <1>5, Zenon
    <3>4. QED
      BY <3>1, <3>2, <3>3
  <2>2. CASE s # <<>>
    <3>1. 1 \in 1 .. Len(s) /\ s[1].i = n /\ s[1].k = 0
      BY <2>2 DEF StreamFrom
    <3>2. QED
      BY <3>1, <1>3
  <2>3. QED
    BY <2>1, <2>2
<1>9. u[Len(u)].i = Len(more) /\ u[Len(u)].k = PayloadLength(u[Len(u)].cmd)
  <2>1. Len(u) \in Len(s) + 1 .. Len(u) /\ Len(u) - Len(s) - 1 = 2
    BY <1>3
  <2>2. u[Len(u)] = [conn |-> c, i |-> Len(flow) + 1, k |-> 2, cmd |-> "dataIn"]
    BY <2>1, <1>5
  <2>3. QED
    BY <2>2, <1>1, <1>4
<1>10. n \in 1 .. Len(more) + 1 /\ n # Len(more) + 1
  BY <1>4 DEF StreamFrom
<1>11. StreamFrom(u, c, more, n)
  BY <1>3, <1>6, <1>7, <1>8, <1>9, <1>10 DEF StreamFrom
<1>12. QED
  BY <1>11 DEF u, more, t

(* A frame that is all there is the next one, and the next but one is behind it.         *)
LEMMA FrameIsNext ==
  ASSUME NEW c \in Dialers, NEW flow \in Seq(ClaimCmds \cup {"dataIn"}),
         NEW buf \in Seq(InputBytes), NEW sock \in Seq(InputBytes), NEW n,
         StreamFrom(buf \o sock, c, flow, n), HasFrame(buf)
  PROVE  /\ n \in 1 .. Len(flow) /\ Head(buf).cmd = flow[n]
         /\ \A j \in 1 .. 1 + PayloadLength(flow[n]) :
              j <= Len(buf) /\ buf[j].conn = c /\ buf[j].i = n /\ buf[j].k = j - 1 /\ buf[j].cmd = flow[n]
         /\ Rest(buf) \in Seq(InputBytes)
         /\ StreamFrom(Rest(buf) \o sock, c, flow, n + 1)
<1> DEFINE s == buf \o sock
           w == 1 + PayloadLength(flow[n])
           t == Rest(buf) \o sock
<1>1. buf # <<>> /\ Head(buf) = buf[1] /\ Len(buf) \in Nat /\ Len(sock) \in Nat /\ Len(buf) > 0
  BY DEF HasFrame
<1>2. s \in Seq(InputBytes) /\ Len(s) = Len(buf) + Len(sock)
      /\ \A j \in 1 .. Len(buf) + Len(sock) : s[j] = IF j <= Len(buf) THEN buf[j] ELSE sock[j - Len(buf)]
  BY ConcatProperties
<1>3. s # <<>> /\ StreamFrom(s, c, flow, n) /\ s[1] = buf[1]
  BY <1>1, <1>2
<1> HIDE DEF s
<1>4. n \in 1 .. Len(flow) /\ s[1].i = n /\ s[1].k = 0 /\ s[1].cmd = flow[n] /\ s[1].conn = c
  BY <1>1, <1>2, <1>3 DEF StreamFrom
<1>5. Head(buf).cmd = flow[n]
  BY <1>1, <1>3, <1>4
<1>6. PayloadLength(flow[n]) \in {1, 2} /\ w \in {2, 3} /\ w <= Len(buf)
  BY <1>1, <1>5 DEF HasFrame, PayloadLength
<1>7. \A j \in 1 .. w : s[j].conn = c /\ s[j].i = n /\ s[j].k = j - 1 /\ s[j].cmd = flow[n]
  <2>1. s[1].conn = c /\ s[1].i = n /\ s[1].k = 0 /\ s[1].cmd = flow[n]
    BY <1>4
  <2>2. s[2].conn = c /\ s[2].i = n /\ s[2].k = 1 /\ s[2].cmd = flow[n]
    <3>1. 1 \in 1 .. Len(s) /\ 2 \in 1 .. Len(s) /\ 1 < Len(s)
      BY <1>1, <1>2, <1>6
    <3>2. FollowedBy(s[1], s[2]) /\ s[2].conn = c /\ s[2].cmd = flow[s[2].i]
      BY <3>1, <1>3 DEF StreamFrom
    <3>3. s[2].i = n /\ s[2].k = 1
      BY <3>2, <2>1, <1>6 DEF FollowedBy
    <3>4. QED
      BY <3>2, <3>3
  <2>3. CASE w = 3
    <3>1. 3 \in 1 .. Len(s) /\ 2 \in 1 .. Len(s) /\ 2 < Len(s)
      BY <1>1, <1>2, <1>6, <2>3
    <3>2. FollowedBy(s[2], s[3]) /\ s[3].conn = c /\ s[3].cmd = flow[s[3].i]
      BY <3>1, <1>3 DEF StreamFrom
    <3>3. s[3].i = n /\ s[3].k = 2
      BY <3>2, <2>2, <2>3, <1>6 DEF FollowedBy
    <3>4. s[3].conn = c /\ s[3].cmd = flow[n]
      BY <3>2, <3>3
    <3>5. \A j \in 1 .. 3 : j = 1 \/ j = 2 \/ j = 3
      OBVIOUS
    <3>6. QED
      BY <2>1, <2>2, <2>3, <3>3, <3>4, <3>5
  <2>4. CASE w = 2
    <3>1. \A j \in 1 .. 2 : j = 1 \/ j = 2
      OBVIOUS
    <3>2. QED
      BY <2>1, <2>2, <2>4, <3>1
  <2>5. QED
    BY <2>3, <2>4, <1>6
<1>8. \A j \in 1 .. w : j <= Len(buf) /\ s[j] = buf[j]
  BY <1>1, <1>2, <1>6
<1>9. Rest(buf) \in Seq(InputBytes) /\ Len(Rest(buf)) = Len(buf) - w
      /\ \A j \in 1 .. Len(buf) - w : Rest(buf)[j] = buf[w + j]
  <2>1. Rest(buf) = SubSeq(buf, w + 1, Len(buf))
    BY <1>5, <1>6, SMTT(30) DEF Rest
  <2> HIDE DEF w
  <2>2. QED
    BY <2>1, <1>1, <1>6
<1>10. t \in Seq(InputBytes) /\ Len(t) = Len(s) - w /\ \A j \in 1 .. Len(t) : w + j \in 1 .. Len(s) /\ t[j] = s[w + j]
  <2> DEFINE b == Rest(buf)
  <2>1. b \in Seq(InputBytes)
    BY <1>9
  <2> HIDE DEF b
  <2>2. b \o sock \in Seq(InputBytes) /\ Len(b \o sock) = Len(b) + Len(sock)
        /\ \A j \in 1 .. Len(b) + Len(sock) : (b \o sock)[j] = IF j <= Len(b) THEN b[j] ELSE sock[j - Len(b)]
    BY <2>1, ConcatProperties
  <2>3. t \in Seq(InputBytes) /\ Len(t) = Len(b) + Len(sock)
        /\ \A j \in 1 .. Len(b) + Len(sock) : t[j] = IF j <= Len(b) THEN b[j] ELSE sock[j - Len(b)]
    BY <2>2 DEF b
  <2>4. Len(b) = Len(buf) - w /\ \A j \in 1 .. Len(buf) - w : b[j] = buf[w + j]
    BY <1>9 DEF b
  <2> HIDE DEF t, w
  <2>5. Len(t) = Len(s) - w
    BY <2>3, <2>4, <1>1, <1>2, <1>6
  <2>6. ASSUME NEW j \in 1 .. Len(t) PROVE w + j \in 1 .. Len(s) /\ t[j] = s[w + j]
    <3>1. w + j \in 1 .. Len(s) /\ j \in 1 .. Len(b) + Len(sock) /\ w + j \in 1 .. Len(buf) + Len(sock)
      BY <2>3, <2>5, <1>1, <1>2, <1>6
    <3>2. CASE j <= Len(buf) - w
      <4>1. w + j <= Len(buf) /\ j <= Len(b) /\ j \in 1 .. Len(buf) - w
        BY <3>2, <2>4, <1>1, <1>6
      <4>2. t[j] = buf[w + j]
        BY <4>1, <3>1, <2>3, <2>4
      <4>3. s[w + j] = buf[w + j]
        BY <4>1, <3>1, <1>2
      <4>4. QED
        BY <3>1, <4>2, <4>3
    <3>3. CASE ~(j <= Len(buf) - w)
      <4>1. ~(w + j <= Len(buf)) /\ ~(j <= Len(b)) /\ (w + j) - Len(buf) = j - Len(b)
        BY <3>3, <2>4, <1>1, <1>6
      <4>2. t[j] = sock[j - Len(b)]
        BY <4>1, <3>1, <2>3
      <4>3. s[w + j] = sock[(w + j) - Len(buf)]
        BY <4>1, <3>1, <1>2
      <4>4. QED
        BY <3>1, <4>1, <4>2, <4>3
    <3>4. QED
      BY <3>2, <3>3
  <2>7. QED
    BY <2>3, <2>5, <2>6
<1> HIDE DEF t, w
<1>11. \A j \in 1 .. Len(t) :
         t[j].conn = c /\ t[j].i \in 1 .. Len(flow) /\ t[j].cmd = flow[t[j].i] /\ t[j].k \in 0 .. PayloadLength(t[j].cmd)
  BY <1>3, <1>10, ZenonT(60) DEF StreamFrom
<1>12. \A j \in 1 .. Len(t) : j < Len(t) => FollowedBy(t[j], t[j + 1])
  <2> TAKE j \in 1 .. Len(t)
  <2> HAVE j < Len(t)
  <2>1. w + j \in 1 .. Len(s) /\ w + j < Len(s) /\ j + 1 \in 1 .. Len(t) /\ w + (j + 1) = (w + j) + 1
    BY <1>1, <1>2, <1>6, <1>10
  <2>2. FollowedBy(s[w + j], s[(w + j) + 1])
    BY <2>1, <1>3 DEF StreamFrom
  <2>3. t[j] = s[w + j] /\ t[j + 1] = s[(w + j) + 1]
    BY <2>1, <1>10
  <2>4. QED
    BY <2>2, <2>3
<1>13. s[w].i = n /\ s[w].cmd = flow[n] /\ s[w].k = PayloadLength(s[w].cmd) /\ w \in 1 .. Len(s)
  <2>1. w \in 1 .. w /\ w - 1 = PayloadLength(flow[n]) /\ w \in 1 .. Len(s)
    BY <1>1, <1>2, <1>6 DEF w
  <2>2. QED
    BY <2>1, <1>7
<1>14. CASE t = <<>>
  <2>1. w = Len(s)
    BY <1>14, <1>1, <1>2, <1>6, <1>10
  <2>2. n = Len(flow)
    BY <2>1, <1>3, <1>13 DEF StreamFrom
  <2>3. StreamFrom(t, c, flow, n + 1)
    BY <2>2, <1>4, <1>14, <1>11, <1>12 DEF StreamFrom
  <2>4. QED
    BY <2>3, <1>4, <1>5, <1>7, <1>8, <1>9 DEF t, w
<1>15. CASE t # <<>>
  <2>1. 1 \in 1 .. Len(t) /\ Len(t) \in 1 .. Len(t) /\ w < Len(s) /\ w + Len(t) = Len(s)
    BY <1>15, <1>1, <1>2, <1>6, <1>10
  <2>2. t[1] = s[w + 1] /\ t[Len(t)] = s[Len(s)]
    BY <2>1, <1>10
  <2>3. FollowedBy(s[w], s[w + 1])
    BY <2>1, <1>3, <1>13 DEF StreamFrom
  <2>4. t[1].i = n + 1 /\ t[1].k = 0
    <3>1. s[w].k >= PayloadLength(s[w].cmd)
      BY <1>13, <1>6
    <3>2. QED
      BY <3>1, <2>2, <2>3, <1>13 DEF FollowedBy
  <2>5. t[Len(t)].i = Len(flow) /\ t[Len(t)].k = PayloadLength(t[Len(t)].cmd)
    BY <2>2, <1>3 DEF StreamFrom
  <2>6. n + 1 \in 1 .. Len(flow)
    BY <2>1, <2>4, <1>11
  <2>7. n + 1 \in 1 .. Len(flow) + 1 /\ n + 1 # Len(flow) + 1
    BY <2>6
  <2>8. StreamFrom(t, c, flow, n + 1)
    BY <2>4, <2>5, <2>7, <1>15, <1>11, <1>12 DEF StreamFrom
  <2>9. QED
    BY <2>8, <1>4, <1>5, <1>7, <1>8, <1>9 DEF t, w
<1>16. QED
  BY <1>14, <1>15

(* A frame put back is as if it had never been read.                               *)
LEMMA PutBackIs ==
  ASSUME NEW buf \in Seq(InputBytes), HasFrame(buf)
  PROVE  PutBack(SubSeq(buf, 1, 1 + PayloadLength(Head(buf).cmd)), buf) = buf
<1> DEFINE w == 1 + PayloadLength(Head(buf).cmd)
<1>1. w \in 0 .. Len(buf)
  BY DEF HasFrame, PayloadLength
<1>2. Rest(buf) = SubSeq(buf, w + 1, Len(buf))
  <2>1. 2 + PayloadLength(Head(buf).cmd) = w + 1
    BY DEF PayloadLength
  <2>2. QED
    BY <2>1 DEF Rest
<1> HIDE DEF w
<1>3. SubSeq(buf, 1, w) \o SubSeq(buf, w + 1, Len(buf)) = buf
  BY <1>1, SplitWhole
<1>4. PutBack(SubSeq(buf, 1, w), buf) = buf
  BY <1>2, <1>3 DEF PutBack
<1>5. QED
  BY <1>4 DEF w

-----------------------------------------------------------------------------
(* What has been given.                                                         *)

LEMMA DataInIs ==
  ASSUME NEW c \in Dialers, NEW i \in Nat \ {0}
  PROVE  /\ Framed(c, i, "dataIn")[2] = [conn |-> c, i |-> i, k |-> 1, cmd |-> "dataIn"]
         /\ Framed(c, i, "dataIn")[3] = [conn |-> c, i |-> i, k |-> 2, cmd |-> "dataIn"]
  BY DEF Framed, PayloadLength

GivenBy(input, c, flow, after, n) ==
  /\ {l \in DOMAIN input : input[l].conn = c} = after + 1 .. after + 2 * n
  /\ \A j \in 0 .. n - 1 :
       /\ FirstInput(flow) + j \in DOMAIN flow /\ flow[FirstInput(flow) + j] = "dataIn"
       /\ input[after + 2 * j + 1] = Framed(c, FirstInput(flow) + j, "dataIn")[2]
       /\ input[after + 2 * j + 2] = Framed(c, FirstInput(flow) + j, "dataIn")[3]

LEMMA GivenIs ==
  ASSUME NEW input, NEW c, NEW flow, NEW after \in Nat, NEW n \in Nat
  PROVE  GivenOf(input, c, flow, after, n) <=> GivenBy(input, c, flow, after, n)
<1>1. PayloadLength("dataIn") = 2
  BY DEF PayloadLength
<1>2. n * 2 = 2 * n /\ \A j \in 0 .. n - 1 : j * 2 = 2 * j
  OBVIOUS
<1>3. ASSUME NEW j \in 0 .. n - 1, NEW i
      PROVE  (\A k \in 1 .. 2 : input[after + 2 * j + k] = Framed(c, i, "dataIn")[1 + k])
             <=> input[after + 2 * j + 1] = Framed(c, i, "dataIn")[2] /\ input[after + 2 * j + 2] = Framed(c, i, "dataIn")[3]
  <2>1. \A k \in 1 .. 2 : k = 1 \/ k = 2
    OBVIOUS
  <2>2. 1 \in 1 .. 2 /\ 2 \in 1 .. 2 /\ 1 + 1 = 2 /\ 1 + 2 = 3
    OBVIOUS
  <2>3. QED
    BY <2>1, <2>2
<1>4. 1 \in 1 .. 2
  OBVIOUS
<1>5. GivenOf(input, c, flow, after, n) <=>
        /\ {l \in DOMAIN input : input[l].conn = c} = after + 1 .. after + 2 * n
        /\ \A j \in 0 .. n - 1 : \A k \in 1 .. 2 :
             /\ FirstInput(flow) + j \in DOMAIN flow /\ flow[FirstInput(flow) + j] = "dataIn"
             /\ input[after + 2 * j + k] = Framed(c, FirstInput(flow) + j, "dataIn")[1 + k]
  <2> DEFINE p == PayloadLength("dataIn")
  <2>1. GivenOf(input, c, flow, after, n) <=>
          /\ {l \in DOMAIN input : input[l].conn = c} = after + 1 .. after + n * p
          /\ \A j \in 0 .. n - 1 : \A k \in 1 .. p :
               /\ FirstInput(flow) + j \in DOMAIN flow /\ flow[FirstInput(flow) + j] = "dataIn"
               /\ input[after + j * p + k] = Framed(c, FirstInput(flow) + j, "dataIn")[1 + k]
    BY Zenon DEF GivenOf
  <2> HIDE DEF p
  <2>2. p = 2
    BY <1>1 DEF p
  <2>3. QED
    BY <1>2, <2>1, <2>2
<1>6. QED
  BY <1>3, <1>4, <1>5 DEF GivenBy

LEMMA GivenNone ==
  ASSUME NEW input, NEW c, NEW flow, NEW after \in Nat
  PROVE  GivenOf(input, c, flow, after, 0) <=> NothingOf(input, c)
<1>1. after + 1 .. after + 2 * 0 = {} /\ 0 .. 0 - 1 = {}
  OBVIOUS
<1>2. GivenOf(input, c, flow, after, 0) <=> {l \in DOMAIN input : input[l].conn = c} = {}
  <2>1. GivenOf(input, c, flow, after, 0) <=> GivenBy(input, c, flow, after, 0)
    BY GivenIs
  <2>2. QED
    BY <1>1, <2>1 DEF GivenBy
<1>3. QED
  BY <1>2 DEF NothingOf

LEMMA GivenStays ==
  ASSUME NEW input, NEW c, NEW flow \in Seq(ClaimCmds \cup {"dataIn"}), NEW after \in Nat, NEW n \in Nat,
         flow # <<>>, GivenOf(input, c, flow, after, n)
  PROVE  GivenOf(input, c, Append(flow, "dataIn"), after, n)
<1> DEFINE more == Append(flow, "dataIn")
<1>1. DOMAIN flow \subseteq DOMAIN more /\ \A i \in DOMAIN flow : more[i] = flow[i]
  OBVIOUS
<1>2. FirstInput(more) = FirstInput(flow)
  BY DEF FirstInput
<1> HIDE DEF more
<1>3. GivenOf(input, c, more, after, n)
  <2>1. GivenBy(input, c, flow, after, n)
    BY GivenIs
  <2>2. GivenBy(input, c, more, after, n)
    BY <1>1, <1>2, <2>1 DEF GivenBy
  <2>3. QED
    BY <2>2, GivenIs
<1>4. QED
  BY <1>3 DEF more

(* Bytes of another.                                                            *)
LEMMA GivenApart ==
  ASSUME NEW input \in Seq(InputBytes), NEW p \in Seq(InputBytes), NEW d, NEW flow, NEW after \in Nat, NEW n \in Nat,
         GivenOf(input, d, flow, after, n), NothingOf(p, d)
  PROVE  GivenOf(input \o p, d, flow, after, n)
<1> DEFINE g == input \o p
<1>1. g \in Seq(InputBytes) /\ Len(g) = Len(input) + Len(p)
      /\ \A l \in 1 .. Len(input) + Len(p) : g[l] = IF l <= Len(input) THEN input[l] ELSE p[l - Len(input)]
  BY ConcatProperties
<1> HIDE DEF g
<1>2. \A l \in 1 .. Len(input) : l \in DOMAIN g /\ g[l] = input[l]
  BY <1>1
<1>3. ASSUME NEW l \in DOMAIN g, g[l].conn = d
      PROVE  l \in 1 .. Len(input)
  <2>1. l \in 1 .. Len(input) + Len(p)
    BY <1>1
  <2>2. ASSUME ~(l <= Len(input)) PROVE FALSE
    <3>1. l - Len(input) \in 1 .. Len(p)
      BY <2>1, <2>2
    <3>2. g[l] = p[l - Len(input)]
      BY <1>1, <2>1, <2>2
    <3>3. p[l - Len(input)].conn # d
      BY <3>1 DEF NothingOf
    <3>4. QED
      BY <1>3, <3>2, <3>3
  <2>3. QED
    BY <2>1, <2>2
<1>4. {l \in DOMAIN g : g[l].conn = d} = {l \in DOMAIN input : input[l].conn = d}
  BY <1>2, <1>3
<1>5. GivenBy(input, d, flow, after, n) /\ {l \in DOMAIN input : input[l].conn = d} = after + 1 .. after + 2 * n
  <2>1. GivenBy(input, d, flow, after, n)
    BY GivenIs
  <2>2. QED
    BY <2>1 DEF GivenBy
<1>6. ASSUME NEW j \in 0 .. n - 1
      PROVE  g[after + 2 * j + 1] = input[after + 2 * j + 1] /\ g[after + 2 * j + 2] = input[after + 2 * j + 2]
  <2>1. after + 2 * j + 1 \in after + 1 .. after + 2 * n /\ after + 2 * j + 2 \in after + 1 .. after + 2 * n
    OBVIOUS
  <2>2. after + 2 * j + 1 \in 1 .. Len(input) /\ after + 2 * j + 2 \in 1 .. Len(input)
    <3>1. \A l \in after + 1 .. after + 2 * n : l \in DOMAIN input
      BY <1>5
    <3>2. DOMAIN input = 1 .. Len(input)
      OBVIOUS
    <3>3. QED
      BY <2>1, <3>1, <3>2
  <2>3. QED
    BY <1>2, <2>2
<1>7. GivenOf(g, d, flow, after, n)
  <2>1. GivenBy(g, d, flow, after, n)
    BY <1>4, <1>5, <1>6 DEF GivenBy
  <2>2. QED
    BY <2>1, GivenIs
<1>8. QED
  BY <1>7 DEF g

(* The next frame of the one that gave last.                                       *)
LEMMA GivenNext ==
  ASSUME NEW input \in Seq(InputBytes), NEW p \in Seq(InputBytes), NEW c \in Dialers, NEW flow, NEW m \in Nat,
         2 * m <= Len(input), GivenOf(input, c, flow, Len(input) - 2 * m, m),
         FirstInput(flow) + m \in DOMAIN flow, flow[FirstInput(flow) + m] = "dataIn",
         Len(p) = 2,
         p[1] = Framed(c, FirstInput(flow) + m, "dataIn")[2], p[2] = Framed(c, FirstInput(flow) + m, "dataIn")[3]
  PROVE  /\ 2 * (m + 1) <= Len(input \o p)
         /\ GivenOf(input \o p, c, flow, Len(input \o p) - 2 * (m + 1), m + 1)
<1> DEFINE g == input \o p
           after == Len(input) - 2 * m
<1>1. g \in Seq(InputBytes) /\ Len(g) = Len(input) + 2
      /\ \A l \in 1 .. Len(input) + 2 : g[l] = IF l <= Len(input) THEN input[l] ELSE p[l - Len(input)]
  <2>1. g \in Seq(InputBytes) /\ Len(g) = Len(input) + Len(p)
        /\ \A l \in 1 .. Len(input) + Len(p) : g[l] = IF l <= Len(input) THEN input[l] ELSE p[l - Len(input)]
    BY ConcatProperties
  <2>2. QED
    BY <2>1
<1> HIDE DEF g
<1>2. after \in Nat /\ after + 2 * m = Len(input) /\ Len(g) - 2 * (m + 1) = after /\ after + 2 * (m + 1) = Len(g)
      /\ Len(input) \in Nat
  BY <1>1
<1>3. GivenBy(input, c, flow, after, m)
  <2> HIDE DEF after
  <2>1. GivenOf(input, c, flow, after, m)
    BY DEF after
  <2>2. QED
    BY <1>2, <2>1, GivenIs
<1> HIDE DEF after
<1>4. (\A l \in 1 .. Len(input) : l \in DOMAIN g /\ g[l] = input[l])
      /\ g[Len(input) + 1] = p[1] /\ g[Len(input) + 2] = p[2] /\ DOMAIN g = 1 .. Len(input) + 2
  <2>1. \A l \in 1 .. Len(input) : l \in DOMAIN g /\ g[l] = input[l]
    BY <1>1
  <2>2. Len(input) + 1 \in 1 .. Len(input) + 2 /\ Len(input) + 2 \in 1 .. Len(input) + 2
        /\ ~(Len(input) + 1 <= Len(input)) /\ ~(Len(input) + 2 <= Len(input))
        /\ (Len(input) + 1) - Len(input) = 1 /\ (Len(input) + 2) - Len(input) = 2
    BY <1>2
  <2>3. QED
    BY <1>1, <2>1, <2>2
<1>5. p[1].conn = c /\ p[2].conn = c
  <2>1. FirstInput(flow) + m \in Nat \ {0}
    BY DEF FirstInput
  <2>2. QED
    <3> DEFINE i == FirstInput(flow) + m
    <3> HIDE DEF i
    <3>1. i \in Nat \ {0} /\ p[1] = Framed(c, i, "dataIn")[2] /\ p[2] = Framed(c, i, "dataIn")[3]
      BY <2>1 DEF i
    <3>2. Framed(c, i, "dataIn")[2].conn = c /\ Framed(c, i, "dataIn")[3].conn = c
      <4>1. Framed(c, i, "dataIn")[2] = [conn |-> c, i |-> i, k |-> 1, cmd |-> "dataIn"]
            /\ Framed(c, i, "dataIn")[3] = [conn |-> c, i |-> i, k |-> 2, cmd |-> "dataIn"]
        BY <3>1, DataInIs, Zenon
      <4>2. QED
        BY <4>1
    <3>3. QED
      BY <3>1, <3>2
<1>6. {l \in DOMAIN g : g[l].conn = c} = after + 1 .. after + 2 * (m + 1)
  <2>1. ASSUME NEW l \in DOMAIN g, g[l].conn = c PROVE l \in after + 1 .. after + 2 * (m + 1)
    <3>1. CASE l <= Len(input)
      <4>1. l \in DOMAIN input /\ g[l] = input[l]
        BY <3>1, <1>4
      <4>2. l \in after + 1 .. after + 2 * m
        BY <2>1, <4>1, <1>3 DEF GivenBy
      <4>3. QED
        BY <4>2, <1>2
    <3>2. CASE ~(l <= Len(input))
      BY <3>2, <1>2, <1>4, SMTT(30)
    <3>3. QED
      BY <3>1, <3>2
  <2>2. ASSUME NEW l \in after + 1 .. after + 2 * (m + 1) PROVE l \in DOMAIN g /\ g[l].conn = c
    <3>1. CASE l <= Len(input)
      <4>1. l \in after + 1 .. after + 2 * m
        BY <3>1, <1>2
      <4>2. l \in DOMAIN input /\ input[l].conn = c
        BY <4>1, <1>3 DEF GivenBy
      <4>3. QED
        BY <4>2, <1>4
    <3>2. CASE ~(l <= Len(input))
      <4>1. l = Len(input) + 1 \/ l = Len(input) + 2
        BY <3>2, <1>1, <1>2
      <4>2. QED
        BY <4>1, <1>2, <1>4, <1>5
    <3>3. QED
      BY <3>1, <3>2
  <2>3. QED
    BY <2>1, <2>2
<1>7. ASSUME NEW j \in 0 .. (m + 1) - 1
      PROVE  /\ FirstInput(flow) + j \in DOMAIN flow /\ flow[FirstInput(flow) + j] = "dataIn"
             /\ g[after + 2 * j + 1] = Framed(c, FirstInput(flow) + j, "dataIn")[2]
             /\ g[after + 2 * j + 2] = Framed(c, FirstInput(flow) + j, "dataIn")[3]
  <2>1. CASE j < m
    <3>1. j \in 0 .. m - 1 /\ after + 2 * j + 1 \in 1 .. Len(input) /\ after + 2 * j + 2 \in 1 .. Len(input)
      <4>1. after \in Nat /\ after + 2 * m = Len(input) /\ j \in Nat /\ j + 1 <= m
        BY <2>1, <1>2
      <4>2. 2 * j + 2 <= 2 * m
        BY <4>1
      <4>3. QED
        BY <4>1, <4>2, SMTT(30)
    <3>2. g[after + 2 * j + 1] = input[after + 2 * j + 1] /\ g[after + 2 * j + 2] = input[after + 2 * j + 2]
      BY <3>1, <1>4
    <3>3. QED
      BY <3>1, <3>2, <1>3 DEF GivenBy
  <2>2. CASE ~(j < m)
    <3>1. j = m /\ after + 2 * j + 1 = Len(input) + 1 /\ after + 2 * j + 2 = Len(input) + 2
      BY <2>2, <1>2
    <3>2. QED
      BY <3>1, <1>4
  <2>3. QED
    BY <2>1, <2>2
<1>8. GivenOf(g, c, flow, after, m + 1)
  <2>1. m + 1 \in Nat
    OBVIOUS
  <2>2. QED
    <3>1. GivenBy(g, c, flow, after, m + 1)
      BY <1>6, <1>7 DEF GivenBy
    <3>2. QED
      BY <1>2, <2>1, <3>1, GivenIs
<1>9. 2 * (m + 1) <= Len(g) /\ GivenOf(g, c, flow, Len(g) - 2 * (m + 1), m + 1)
  BY <1>2, <1>8
<1>10. QED
  BY <1>9 DEF g

-----------------------------------------------------------------------------
(* The steps.                                                                  *)

(* What is read and what is left are what there was.                                *)
LEMMA ReadLeaves ==
  ASSUME NEW r \in Seq(InputBytes), NEW s \in Seq(InputBytes), NEW data, NEW gone,
         data \in {SubSeq(s, 1, n) : n \in 1 .. Len(s)} \cup (IF s = <<>> /\ gone THEN {<<>>} ELSE {})
  PROVE  /\ data \in Seq(InputBytes) /\ SubSeq(s, Len(data) + 1, Len(s)) \in Seq(InputBytes)
         /\ r \o data \in Seq(InputBytes)
         /\ (r \o data) \o SubSeq(s, Len(data) + 1, Len(s)) = r \o s
<1>1. CASE data = <<>> /\ s = <<>>
  <2>1. Len(data) = 0 /\ Len(s) = 0 /\ SubSeq(s, Len(data) + 1, Len(s)) = <<>> /\ data \in Seq(InputBytes)
    BY <1>1
  <2>2. r \o <<>> = r
    OBVIOUS
  <2>3. QED
    BY <1>1, <2>1, <2>2
<1>2. CASE \E n \in 1 .. Len(s) : data = SubSeq(s, 1, n)
  <2>1. PICK n \in 1 .. Len(s) : data = SubSeq(s, 1, n)
    BY <1>2
  <2>2. n \in 0 .. Len(s)
    OBVIOUS
  <2>3. data \in Seq(InputBytes) /\ SubSeq(s, n + 1, Len(s)) \in Seq(InputBytes) /\ Len(data) = n
    BY <2>1, <2>2, SplitWhole
  <2>4. (r \o data) \o SubSeq(s, n + 1, Len(s)) = r \o s
    BY <2>1, <2>2, ReadWhole, ZenonT(60)
  <2>5. r \o data \in Seq(InputBytes)
    BY <2>3
  <2>6. QED
    BY <2>3, <2>4, <2>5
<1>3. QED
  BY <1>1, <1>2

LEMMA ReadsWhole ==
  ASSUME InputTypes, NEW c \in Dialers, NEW r \in Seq(InputBytes), NEW data \in ReadsFrom(c), Consumes(c, data)
  PROVE  /\ socket' \in [Dialers -> Seq(InputBytes)]
         /\ \A d \in Dialers : d # c => socket'[d] = socket[d]
         /\ r \o data \in Seq(InputBytes)
         /\ (r \o data) \o socket'[c] = r \o socket[c]
<1> DEFINE s == socket[c]
<1>1. s \in Seq(InputBytes) /\ socket \in [Dialers -> Seq(InputBytes)]
  BY DEF InputTypes
<1>2. data \in {SubSeq(s, 1, n) : n \in 1 .. Len(s)} \cup (IF s = <<>> /\ c \in hungUp THEN {<<>>} ELSE {})
  BY DEF ReadsFrom
<1>3. socket' = [socket EXCEPT ![c] = SubSeq(s, Len(data) + 1, Len(s))]
  BY DEF Consumes
<1> HIDE DEF s
<1>4. /\ SubSeq(s, Len(data) + 1, Len(s)) \in Seq(InputBytes)
      /\ r \o data \in Seq(InputBytes)
      /\ (r \o data) \o SubSeq(s, Len(data) + 1, Len(s)) = r \o s
  BY <1>1, <1>2, ReadLeaves, ZenonT(60)
<1> DEFINE left == SubSeq(s, Len(data) + 1, Len(s))
<1>5. left \in Seq(InputBytes) /\ (r \o data) \o left = r \o s /\ socket' = [socket EXCEPT ![c] = left]
  BY <1>3, <1>4
<1> HIDE DEF left
<1>6. socket' \in [Dialers -> Seq(InputBytes)] /\ socket'[c] = left /\ \A d \in Dialers : d # c => socket'[d] = socket[d]
  BY <1>1, <1>5
<1>7. QED
  BY <1>4, <1>5, <1>6 DEF s

(* What a step that gives the program nothing leaves as it is.                         *)
LEMMA GivenKept ==
  ASSUME InputInv, UNCHANGED <<sentOn, taken, pendingInput>>, waiting' \subseteq waiting,
         pending' \in waiting \cup {pending, Nobody}
  PROVE  given' = given /\ OneClaim' /\ NothingEarly' /\ InputIsWhole'
<1>1. given' = given
  BY DEF given
<1>2. OneClaim'
  BY DEF InputInv, OneClaim
<1>3. InputIsWhole'
  BY <1>1 DEF InputInv, InputIsWhole
<1>4. NothingEarly'
  <2> SUFFICES ASSUME NEW c \in Dialers, c \in waiting' \/ c = pending' \/ sentOn'[c] = <<>>
               PROVE  NothingOf(given', c)
    BY DEF NothingEarly
  <2>1. c # Nobody
    BY InputAssumption
  <2>2. c \in waiting \/ c = pending \/ sentOn[c] = <<>>
    BY <2>1
  <2>3. NothingOf(given, c)
    BY <2>2 DEF InputInv, NothingEarly
  <2>4. QED
    BY <1>1, <2>3
<1>5. QED
  BY <1>1, <1>2, <1>3, <1>4

LEMMA DialsKeeps ==
  ASSUME InputInv, NEW c \in Dialers, Dials(c)
  PROVE  InputInv'
<1>1. PICK cmd \in ClaimCmds \cup {"dataIn"} :
        sentOn' = [sentOn EXCEPT ![c] = <<cmd>>] /\ socket' = [socket EXCEPT ![c] = Framed(c, 1, cmd)]
  BY DEF Dials
<1> USE DEF InputInv
<1>2. c \notin waiting /\ sentOn[c] = <<>> /\ c # client /\ c # pending /\ waiting' = waiting \cup {c} /\ c # Nobody
      /\ UNCHANGED <<at, ready, client, reader, pending, pendingReader, ptyAlive, pendingInput, taken>>
  BY InputAssumption DEF Dials
<1>3. StreamFrom(Framed(c, 1, cmd), c, <<cmd>>, 1) /\ Framed(c, 1, cmd) \in Seq(InputBytes)
  <2>1. 1 \in Nat \ {0}
    OBVIOUS
  <2>2. Framed(c, 1, cmd) \in Seq(InputBytes)
    BY <2>1, FramedIs, Zenon
  <2>3. QED
    BY <2>2, StreamStarts
<1>4. sentOn \in [Dialers -> Seq(ClaimCmds \cup {"dataIn"})] /\ socket \in [Dialers -> Seq(InputBytes)]
  BY DEF InputTypes
<1>5. /\ sentOn'[c] = <<cmd>> /\ socket'[c] = Framed(c, 1, cmd)
      /\ \A d \in Dialers : d # c => sentOn'[d] = sentOn[d] /\ socket'[d] = socket[d]
  BY <1>1, <1>4
<1>6. InputTypes'
  <2>1. sentOn' \in [Dialers -> Seq(ClaimCmds \cup {"dataIn"})] /\ socket' \in [Dialers -> Seq(InputBytes)]
    BY <1>1, <1>3, <1>4
  <2>2. QED
    BY <1>2, <2>1 DEF InputTypes
<1>7. InputRoles'
  <2>1. \A d \in StillRead' : sentOn'[d] # <<>>
    <3> TAKE d \in StillRead'
    <3>1. CASE d = c
      BY <3>1, <1>5
    <3>2. CASE d # c
      <4>1. d \in StillRead /\ d \in Dialers
        BY <3>2, <1>2 DEF StillRead, InputTypes
      <4>2. QED
        BY <4>1, <3>2, <1>5 DEF InputRoles
    <3>3. QED
      BY <3>1, <3>2
  <2>2. QED
    BY <1>2, <2>1 DEF InputRoles
<1>8. OneClaim'
  <2> SUFFICES ASSUME NEW d \in Dialers, NEW i \in DOMAIN sentOn'[d], i > 1
               PROVE  sentOn'[d][i] = "dataIn"
    BY DEF OneClaim
  <2>1. CASE d = c
    BY <2>1, <1>5
  <2>2. CASE d # c
    BY <2>2, <1>5 DEF OneClaim
  <2>3. QED
    BY <2>1, <2>2
<1>9. WaitingWhole'
  <2> SUFFICES ASSUME NEW d \in waiting' PROVE StreamFrom(socket'[d], d, sentOn'[d], 1)
    BY DEF WaitingWhole
  <2>1. CASE d = c
    BY <2>1, <1>3, <1>5
  <2>2. CASE d # c
    <3>1. d \in waiting /\ d \in Dialers
      BY <2>2, <1>2 DEF InputTypes
    <3>2. QED
      BY <3>1, <2>2, <1>5 DEF WaitingWhole
  <2>3. QED
    BY <2>1, <2>2
<1>10. given' = given
  BY <1>2 DEF given
<1>11. PendingWhole' /\ ClientWhole'
  <2>1. pending # Nobody => pending \in Dialers /\ socket'[pending] = socket[pending] /\ sentOn'[pending] = sentOn[pending]
    BY <1>2, <1>5 DEF InputTypes
  <2>2. client # Nobody => client \in Dialers /\ socket'[client] = socket[client] /\ sentOn'[client] = sentOn[client]
    BY <1>2, <1>5 DEF InputTypes
  <2>3. PendingWhole'
    BY <1>2, <2>1 DEF PendingWhole
  <2>4. ClientWhole'
    BY <1>2, <1>10, <2>2 DEF ClientWhole
  <2>5. QED
    BY <2>3, <2>4
<1>12. NothingEarly'
  <2> SUFFICES ASSUME NEW d \in Dialers, d \in waiting' \/ d = pending' \/ sentOn'[d] = <<>>
               PROVE  NothingOf(given', d)
    BY DEF NothingEarly
  <2>1. d \in waiting \/ d = pending \/ sentOn[d] = <<>>
    BY <1>2, <1>5
  <2>2. QED
    BY <2>1, <1>10 DEF NothingEarly
<1>13. InputIsWhole'
  <2> SUFFICES ASSUME NEW d \in Dialers
               PROVE  \E after, n \in 0 .. Len(given') : GivenOf(given', d, sentOn'[d], after, n)
    BY DEF InputIsWhole
  <2>0. given \in Seq(InputBytes)
    BY DEF InputTypes, given
  <2>1. CASE d = c
    <3>1. NothingOf(given', c)
      BY <1>2, <1>10 DEF NothingEarly
    <3>2. 0 \in Nat /\ 0 \in 0 .. Len(given')
      BY <1>10, <2>0
    <3>3. GivenOf(given', c, sentOn'[c], 0, 0)
      BY <3>1, <3>2, GivenNone
    <3>4. QED
      BY <2>1, <3>2, <3>3
  <2>2. CASE d # c
    BY <2>2, <1>5, <1>10 DEF InputIsWhole
  <2>3. QED
    BY <2>1, <2>2
<1>14. QED
  BY <1>6, <1>7, <1>8, <1>9, <1>11, <1>12, <1>13

LEMMA SendsKeeps ==
  ASSUME InputInv, NEW c \in Dialers, SendsOn(c)
  PROVE  InputInv'
<1> DEFINE flow == sentOn[c]
           more == Append(flow, "dataIn")
           f == Framed(c, Len(flow) + 1, "dataIn")
<1> USE DEF InputInv
<1>1. flow # <<>> /\ sentOn' = [sentOn EXCEPT ![c] = more] /\ socket' = [socket EXCEPT ![c] = socket[c] \o f]
      /\ UNCHANGED <<waiting, at, ready, client, reader, pending, pendingReader, ptyAlive, pendingInput, taken>>
  BY DEF SendsOn
<1>2. sentOn \in [Dialers -> Seq(ClaimCmds \cup {"dataIn"})] /\ socket \in [Dialers -> Seq(InputBytes)]
      /\ flow \in Seq(ClaimCmds \cup {"dataIn"}) /\ socket[c] \in Seq(InputBytes)
      /\ more \in Seq(ClaimCmds \cup {"dataIn"})
  BY DEF InputTypes
<1>3. f \in Seq(InputBytes)
  <2>1. Len(flow) + 1 \in Nat \ {0} /\ "dataIn" \in ClaimCmds \cup {"dataIn"}
    BY <1>2
  <2>2. QED
    BY <2>1, FramedIs, Zenon
<1> HIDE DEF f
<1>x. more # <<>>
  <2> HIDE DEF flow
  <2>1. flow \in Seq(ClaimCmds \cup {"dataIn"}) /\ "dataIn" \in ClaimCmds \cup {"dataIn"}
    BY <1>2
  <2>2. QED
    BY <2>1, AppendProperties
<1>4. /\ sentOn'[c] = more /\ socket'[c] = socket[c] \o f
      /\ \A d \in Dialers : d # c => sentOn'[d] = sentOn[d] /\ socket'[d] = socket[d]
  BY <1>1, <1>2
<1>5. InputTypes'
  <2>1. socket[c] \o f \in Seq(InputBytes)
    BY <1>2, <1>3
  <2>2. sentOn' \in [Dialers -> Seq(ClaimCmds \cup {"dataIn"})] /\ socket' \in [Dialers -> Seq(InputBytes)]
    BY <2>1, <1>1, <1>2
  <2>3. QED
    BY <1>1, <2>2 DEF InputTypes
<1>6. InputRoles'
  <2>1. StillRead' = StillRead /\ StillRead \subseteq Dialers
    BY <1>1 DEF StillRead, InputTypes
  <2>2. more # <<>>
    BY <1>x
  <2>3. \A d \in StillRead' : sentOn'[d] # <<>>
    BY <2>1, <2>2, <1>4 DEF InputRoles
  <2>4. QED
    BY <1>1, <2>3 DEF InputRoles
<1>7. OneClaim'
  <2> SUFFICES ASSUME NEW d \in Dialers, NEW i \in DOMAIN sentOn'[d], i > 1
               PROVE  sentOn'[d][i] = "dataIn"
    BY DEF OneClaim
  <2>1. CASE d = c
    <3>1. \A j \in DOMAIN flow : j > 1 => flow[j] = "dataIn"
      BY DEF OneClaim
    <3>2. i \in DOMAIN more
      BY <2>1, <1>4
    <3>3. more[i] = "dataIn"
      BY <3>1, <3>2, <1>2
    <3>4. QED
      BY <2>1, <3>3, <1>4
  <2>2. CASE d # c
    BY <2>2, <1>4 DEF OneClaim
  <2>3. QED
    BY <2>1, <2>2
<1>8. ASSUME NEW r \in Seq(InputBytes), NEW n, StreamFrom(r \o socket[c], c, flow, n)
      PROVE  StreamFrom(r \o socket'[c], c, sentOn'[c], n)
  <2> DEFINE s == r \o socket[c]
  <2>1. s \in Seq(InputBytes)
    BY <1>2
  <2>2. s \o f = r \o (socket[c] \o f)
    BY <1>2, <1>3, ConcatsAssociate, SMTT(30)
  <2>3. StreamFrom(s, c, flow, n)
    BY <1>8
  <2> HIDE DEF s, flow
  <2>4. StreamFrom(s \o f, c, more, n)
    BY <1>2, <2>1, <2>3, StreamGrows DEF f
  <2>5. QED
    BY <2>2, <2>4, <1>4
<1>9. WaitingWhole'
  <2> SUFFICES ASSUME NEW d \in waiting PROVE StreamFrom(socket'[d], d, sentOn'[d], 1)
    BY <1>1 DEF WaitingWhole
  <2>0. d \in Dialers /\ StreamFrom(socket[d], d, sentOn[d], 1)
    BY DEF WaitingWhole, InputTypes
  <2>1. CASE d = c
    <3>1. StreamFrom(socket[c] \o f, c, more, 1)
      <4>1. StreamFrom(socket[c], c, flow, 1)
        BY <2>0, <2>1
      <4> HIDE DEF flow
      <4>2. QED
        BY <4>1, <1>2, StreamGrows DEF f
    <3>2. QED
      BY <3>1, <2>1, <1>4
  <2>2. CASE d # c
    BY <2>0, <2>2, <1>4
  <2>3. QED
    BY <2>1, <2>2
<1>10. given' = given
  BY <1>1 DEF given
<1>11. PendingWhole'
  <2> SUFFICES ASSUME pending # Nobody PROVE StreamFrom(pendingReader \o socket'[pending], pending, sentOn'[pending], 1)
    BY <1>1 DEF PendingWhole
  <2>0. pending \in Dialers /\ pendingReader \in Seq(InputBytes)
        /\ StreamFrom(pendingReader \o socket[pending], pending, sentOn[pending], 1)
    BY DEF PendingWhole, InputTypes
  <2>1. CASE pending = c
    BY <2>0, <2>1, <1>8
  <2>2. CASE pending # c
    BY <2>0, <2>2, <1>4
  <2>3. QED
    BY <2>1, <2>2
<1>12. ASSUME NEW d \in Dialers, NEW after \in Nat, NEW n \in Nat, sentOn[d] # <<>>, GivenOf(given, d, sentOn[d], after, n)
       PROVE  GivenOf(given, d, sentOn'[d], after, n)
  <2>1. CASE d = c
    <3>1. GivenOf(given, c, flow, after, n)
      BY <1>12, <2>1
    <3> HIDE DEF flow
    <3>2. GivenOf(given, c, more, after, n)
      BY <3>1, <1>1, <1>2, GivenStays
    <3>3. QED
      BY <2>1, <3>2, <1>4
  <2>2. CASE d # c
    BY <1>12, <2>2, <1>4
  <2>3. QED
    BY <2>1, <2>2
<1>13. ClientWhole'
  <2> SUFFICES ASSUME client # Nobody
               PROVE  ClientGoesOn(given, client, sentOn'[client], reader \o socket'[client], ptyAlive)
    BY <1>1, <1>10 DEF ClientWhole
  <2>0. client \in Dialers /\ reader \in Seq(InputBytes) /\ sentOn[client] # <<>> /\ given \in Seq(InputBytes)
        /\ ClientGoesOn(given, client, sentOn[client], reader \o socket[client], ptyAlive)
    BY DEF ClientWhole, InputTypes, InputRoles, StillRead, given
  <2>1. PICK n \in Nat, m \in Nat :
          /\ StreamFrom(reader \o socket[client], client, sentOn[client], n)
          /\ 2 * m <= Len(given)
          /\ GivenOf(given, client, sentOn[client], Len(given) - 2 * m, m)
          /\ m > 0 => FirstInput(sentOn[client]) + m <= n
          /\ ptyAlive => (m = 0 /\ n <= FirstInput(sentOn[client])) \/ FirstInput(sentOn[client]) + m = n
    BY <2>0 DEF ClientGoesOn
  <2>2. StreamFrom(reader \o socket'[client], client, sentOn'[client], n)
    <3>1. CASE client = c
      BY <2>0, <2>1, <3>1, <1>8
    <3>2. CASE client # c
      BY <2>0, <2>1, <3>2, <1>4
    <3>3. QED
      BY <3>1, <3>2
  <2>3. GivenOf(given, client, sentOn'[client], Len(given) - 2 * m, m)
    <3>1. Len(given) - 2 * m \in Nat
      BY <2>0, <2>1
    <3>2. QED
      BY <3>1, <2>0, <2>1, <1>12
  <2>4. FirstInput(sentOn'[client]) = FirstInput(sentOn[client])
    <3>1. sentOn'[client][1] = sentOn[client][1]
      <4>1. CASE client = c
        <5>1. more[1] = flow[1]
          BY <1>1, <1>2
        <5>2. QED
          BY <4>1, <5>1, <1>4
      <4>2. CASE client # c
        BY <4>2, <2>0, <1>4
      <4>3. QED
        BY <4>1, <4>2
    <3>2. QED
      BY <3>1 DEF FirstInput
  <2>5. QED
    BY <2>1, <2>2, <2>3, <2>4 DEF ClientGoesOn
<1>14. NothingEarly'
  <2> SUFFICES ASSUME NEW d \in Dialers, d \in waiting' \/ d = pending' \/ sentOn'[d] = <<>>
               PROVE  NothingOf(given', d)
    BY DEF NothingEarly
  <2>1. more # <<>>
    BY <1>x
  <2>2. d \in waiting \/ d = pending \/ sentOn[d] = <<>>
    BY <2>1, <1>1, <1>4
  <2>3. QED
    BY <2>2, <1>10 DEF NothingEarly
<1>15. InputIsWhole'
  <2> SUFFICES ASSUME NEW d \in Dialers
               PROVE  \E after, n \in 0 .. Len(given) : GivenOf(given, d, sentOn'[d], after, n)
    BY <1>10 DEF InputIsWhole
  <2>0. given \in Seq(InputBytes)
    BY DEF InputTypes, given
  <2>1. PICK after \in 0 .. Len(given), n \in 0 .. Len(given) : GivenOf(given, d, sentOn[d], after, n)
    BY DEF InputIsWhole
  <2>2. after \in Nat /\ n \in Nat
    BY <2>0
  <2>3. CASE d # c
    BY <2>1, <2>3, <1>4
  <2>4. CASE d = c
    <3>1. GivenOf(given, d, sentOn'[d], after, n)
      BY <2>1, <2>2, <2>4, <1>1, <1>12
    <3>2. QED
      BY <3>1
  <2>5. QED
    BY <2>3, <2>4
<1>16. QED
  BY <1>5, <1>6, <1>7, <1>9, <1>11, <1>13, <1>14, <1>15

(* Nothing of what is known changes.                                               *)
LEMMA StandsKept ==
  ASSUME InputInv,
         UNCHANGED <<sentOn, socket, waiting, client, reader, pending, pendingReader, pendingInput, taken>>,
         ptyAlive' \in BOOLEAN, ptyAlive' => ptyAlive, at' \in {"accept", "pending"} => at = at' /\ ready' = ready
  PROVE  InputInv'
<1> USE DEF InputInv
<1>1. given' = given /\ OneClaim' /\ NothingEarly' /\ InputIsWhole'
  BY GivenKept
<1>2. InputTypes'
  BY DEF InputTypes
<1>3. InputRoles'
  BY DEF InputRoles, StillRead
<1>4. WaitingWhole' /\ PendingWhole'
  BY DEF WaitingWhole, PendingWhole
<1>5. ClientWhole'
  BY <1>1 DEF ClientWhole, ClientGoesOn
<1>6. QED
  BY <1>1, <1>2, <1>3, <1>4, <1>5

LEMMA PollsKeeps ==
  ASSUME InputInv, Polls
  PROVE  InputInv'
<1> USE DEF InputInv
<1>1. UNCHANGED <<sentOn, socket, waiting, pending, pendingReader, ptyAlive, pendingInput, taken>>
      /\ ((client' = client /\ reader' = reader) \/ (client' = Nobody /\ reader' = <<>>))
      /\ at' = "accept"
  <2>1. UNCHANGED <<servers, pending, pendingReader, ptyAlive, pendingInput, taken>> /\ at' = "accept"
    BY Zenon DEF Polls
  <2>2. UNCHANGED <<client, reader>> \/ (client \in hungUp /\ client' = Nobody /\ reader' = <<>>)
    BY Zenon DEF Polls
  <2>3. UNCHANGED servers
    BY <2>1
  <2>4. UNCHANGED <<sentOn, socket, waiting>>
    BY <2>3 DEF servers
  <2>5. UNCHANGED <<pending, pendingReader, ptyAlive, pendingInput, taken>> /\ at' = "accept"
    BY <2>1
  <2>6. QED
    <3>1. UNCHANGED <<sentOn, socket, waiting, pending, pendingReader, ptyAlive, pendingInput, taken>>
      BY <2>4, <2>5
    <3>2. (client' = client /\ reader' = reader) \/ (client' = Nobody /\ reader' = <<>>)
      BY <2>2
    <3>3. at' = "accept"
      BY <2>5
    <3>4. QED
      BY <3>1, <3>2, <3>3
<1>2. "parked" \in ready' => pending # Nobody
  <2> DEFINE Says(phase) == CASE phase = "accept" -> waiting # {}
                              [] phase = "pending" -> Readable(pending)
                              [] phase = "client" -> Readable(client)
  <2>1. ready' = {phase \in {"accept", "pending", "client"} : Says(phase)} \cup (IF pending # Nobody THEN {"parked"} ELSE {})
    BY DEF Polls
  <2> HIDE DEF Says
  <2>2. QED
    BY <2>1
<1>3. given' = given /\ OneClaim' /\ NothingEarly' /\ InputIsWhole'
  BY <1>1, GivenKept
<1>4. InputTypes'
  <2>1. client' \in Dialers \cup {Nobody} /\ reader' \in Seq(InputBytes)
    <3>1. <<>> \in Seq(InputBytes)
      OBVIOUS
    <3>2. QED
      BY <3>1, <1>1 DEF InputTypes
  <2>2. QED
    BY <2>1, <1>1 DEF InputTypes
<1>5. InputRoles'
  <2>1. Nobody \notin waiting
    BY InputAssumption DEF InputTypes
  <2>2. StillRead' \subseteq StillRead
    BY <1>1 DEF StillRead
  <2>3. \A c \in StillRead' : sentOn'[c] # <<>>
    BY <1>1, <2>2 DEF InputRoles
  <2>4. (client' = Nobody => reader' = <<>>) /\ client' \notin waiting' /\ (pending' # Nobody => pending' # client' /\ pending' \notin waiting')
    BY <1>1, <2>1 DEF InputRoles
  <2>5. QED
    BY <1>1, <1>2, <2>3, <2>4 DEF InputRoles
<1>6. WaitingWhole' /\ PendingWhole'
  BY <1>1 DEF WaitingWhole, PendingWhole
<1>7. ClientWhole'
  BY <1>1, <1>3 DEF ClientWhole, ClientGoesOn
<1>8. QED
  BY <1>3, <1>4, <1>5, <1>6, <1>7

LEMMA AcceptsKeeps ==
  ASSUME InputInv, Accepts
  PROVE  InputInv'
<1> USE DEF InputInv
<1>1. CASE "accept" \notin ready
  <2>1. UNCHANGED <<sentOn, socket, waiting, ready, client, reader, pending, pendingReader, ptyAlive, pendingInput, taken>>
        /\ at = "accept" /\ at' = "pending"
    BY <1>1 DEF Accepts
  <2>2. given' = given /\ OneClaim' /\ NothingEarly' /\ InputIsWhole'
    BY <2>1, GivenKept
  <2>3. InputTypes'
    BY <2>1 DEF InputTypes
  <2>4. InputRoles'
    BY <2>1 DEF InputRoles, StillRead
  <2>5. WaitingWhole' /\ PendingWhole'
    BY <2>1 DEF WaitingWhole, PendingWhole
  <2>6. ClientWhole'
    BY <2>1, <2>2 DEF ClientWhole, ClientGoesOn
  <2>7. QED
    BY <2>2, <2>3, <2>4, <2>5, <2>6
<1>2. CASE "accept" \in ready
  <2>1. PICK c \in waiting : pending' = c /\ pendingReader' = <<>> /\ waiting' = waiting \ {c}
    BY <1>2 DEF Accepts
  <2>2. UNCHANGED <<sentOn, socket, ready, client, reader, ptyAlive, pendingInput, taken>> /\ at' = "pending"
    BY DEF Accepts
  <2>3. c \in Dialers /\ c # Nobody /\ c # client /\ socket[c] \in Seq(InputBytes)
    BY InputAssumption DEF InputTypes, InputRoles
  <2>4. given' = given /\ OneClaim' /\ NothingEarly' /\ InputIsWhole'
    BY <2>1, <2>2, GivenKept
  <2>5. InputTypes'
    <3>1. pendingReader' \in Seq(InputBytes) /\ pending' \in Dialers \cup {Nobody} /\ waiting' \in SUBSET Dialers
      BY <2>1, <2>3 DEF InputTypes
    <3>2. QED
      BY <2>2, <3>1 DEF InputTypes
  <2>6. InputRoles'
    <3>1. \A d \in StillRead' : sentOn'[d] # <<>>
      BY <2>1, <2>2 DEF InputRoles, StillRead
    <3>2. QED
      BY <2>1, <2>2, <2>3, <3>1 DEF InputRoles
  <2>7. WaitingWhole'
    BY <2>1, <2>2 DEF WaitingWhole
  <2>8. PendingWhole'
    <3>1. <<>> \o socket[c] = socket[c]
      BY <2>3
    <3>2. StreamFrom(socket[c], c, sentOn[c], 1)
      BY DEF WaitingWhole
    <3>3. QED
      BY <2>1, <2>2, <3>1, <3>2 DEF PendingWhole
  <2>9. ClientWhole'
    BY <2>2, <2>4 DEF ClientWhole, ClientGoesOn
  <2>10. QED
    BY <2>4, <2>5, <2>6, <2>7, <2>8, <2>9
<1>3. QED
  BY <1>1, <1>2

LEMMA ReadsClientKeeps ==
  ASSUME InputInv, ReadsClient
  PROVE  InputInv'
<1> USE DEF InputInv
<1>1. UNCHANGED <<sentOn, waiting, ready, pending, pendingReader, ptyAlive, pendingInput, taken>> /\ at' = "frames"
  BY DEF ReadsClient
<1>2. given' = given /\ OneClaim' /\ NothingEarly' /\ InputIsWhole'
  BY <1>1, GivenKept
<1>3. CASE "client" \notin ready \/ client = Nobody
  <2>1. UNCHANGED <<socket, client, reader>>
    BY <1>3 DEF ReadsClient
  <2>2. QED
    BY <1>1, <2>1, StandsKept DEF InputTypes
<1>4. CASE ~("client" \notin ready \/ client = Nobody)
  <2>1. PICK data \in ReadsFrom(client) :
          /\ Consumes(client, data)
          /\ IF data = <<>> THEN client' = Nobody /\ reader' = <<>> ELSE reader' = reader \o data /\ UNCHANGED client
    BY <1>4 DEF ReadsClient
  <2>2. client \in Dialers /\ client # pending /\ client \notin waiting /\ reader \in Seq(InputBytes) /\ waiting \subseteq Dialers
    BY <1>4 DEF InputTypes, InputRoles
  <2>3. /\ socket' \in [Dialers -> Seq(InputBytes)]
        /\ \A d \in Dialers : d # client => socket'[d] = socket[d]
        /\ reader \o data \in Seq(InputBytes)
        /\ (reader \o data) \o socket'[client] = reader \o socket[client]
    BY <2>1, <2>2, ReadsWhole
  <2>4. client' \in {client, Nobody} /\ (client' = Nobody => reader' = <<>>) /\ (client' # Nobody => client' = client /\ reader' = reader \o data)
    <3>1. client # Nobody
      BY <1>4
    <3>2. CASE data = <<>>
      BY <2>1, <3>2
    <3>3. CASE data # <<>>
      BY <2>1, <3>1, <3>3
    <3>4. QED
      BY <3>2, <3>3
  <2>5. InputTypes'
    <3>1. <<>> \in Seq(InputBytes)
      OBVIOUS
    <3>2. reader' \in Seq(InputBytes) /\ client' \in Dialers \cup {Nobody}
      BY <3>1, <2>2, <2>3, <2>4
    <3>3. QED
      BY <1>1, <2>3, <3>2 DEF InputTypes
  <2>6. InputRoles'
    <3>1. Nobody \notin waiting
      BY <2>2, InputAssumption
    <3>2. StillRead' \subseteq StillRead
      BY <1>1, <2>4 DEF StillRead
    <3>3. \A c \in StillRead' : sentOn'[c] # <<>>
      BY <1>1, <3>2 DEF InputRoles
    <3>4. (pending' # Nobody => pending' # client' /\ pending' \notin waiting') /\ client' \notin waiting'
      BY <1>1, <2>4, <3>1 DEF InputRoles
    <3>5. QED
      BY <1>1, <2>4, <3>3, <3>4 DEF InputRoles
  <2>7. WaitingWhole'
    BY <1>1, <2>2, <2>3 DEF WaitingWhole
  <2>8. PendingWhole'
    <3>1. pending # Nobody => pending \in Dialers /\ socket'[pending] = socket[pending]
      BY <2>2, <2>3 DEF InputTypes
    <3>2. QED
      BY <1>1, <3>1 DEF PendingWhole
  <2>9. ClientWhole'
    <3>1. CASE client' = Nobody
      BY <3>1 DEF ClientWhole
    <3>2. CASE client' # Nobody
      <4>1. client' = client /\ reader' \o socket'[client'] = reader \o socket[client]
        BY <2>3, <2>4, <3>2
      <4>2. ClientGoesOn(given, client, sentOn[client], reader \o socket[client], ptyAlive)
        BY <1>4 DEF ClientWhole
      <4>3. ClientGoesOn(given', client', sentOn'[client'], reader' \o socket'[client'], ptyAlive')
        BY <1>1, <1>2, <4>1, <4>2
      <4>4. QED
        BY <4>3 DEF ClientWhole
    <3>3. QED
      BY <3>1, <3>2
  <2>10. QED
    BY <1>2, <2>5, <2>6, <2>7, <2>8, <2>9
<1>5. QED
  BY <1>3, <1>4

(* The parked connection becomes the controller, at the frame it is at.                  *)
LEMMA PromotesKeeps ==
  ASSUME InputInv, pending # Nobody, NEW rest \in Seq(InputBytes), NEW n \in Nat,
         Promotes(rest), n <= FirstInput(sentOn[pending]),
         StreamFrom(rest \o socket'[pending], pending, sentOn[pending], n),
         socket' \in [Dialers -> Seq(InputBytes)], \A d \in Dialers : d # pending => socket'[d] = socket[d],
         UNCHANGED <<sentOn, waiting, ready, ptyAlive, pendingInput, taken>>, at' = "client"
  PROVE  InputInv'
<1> USE DEF InputInv
<1>1. client' = pending /\ reader' = rest /\ pending' = Nobody /\ pendingReader' = <<>>
  BY DEF Promotes, Unparks
<1>2. given' = given /\ OneClaim' /\ NothingEarly' /\ InputIsWhole'
  BY <1>1, GivenKept
<1>3. pending \in Dialers /\ pending \notin waiting /\ waiting \subseteq Dialers /\ given \in Seq(InputBytes)
  BY DEF InputTypes, InputRoles, given
<1>4. InputTypes'
  <2>1. <<>> \in Seq(InputBytes)
    OBVIOUS
  <2>2. QED
    BY <1>1, <1>3, <2>1 DEF InputTypes
<1>5. InputRoles'
  <2>1. StillRead' \subseteq StillRead
    BY <1>1 DEF StillRead
  <2>2. \A c \in StillRead' : sentOn'[c] # <<>>
    BY <2>1 DEF InputRoles
  <2>3. QED
    BY <1>1, <1>3, <2>2, InputAssumption DEF InputRoles
<1>6. WaitingWhole'
  BY <1>3 DEF WaitingWhole
<1>7. PendingWhole'
  BY <1>1 DEF PendingWhole
<1>8. ClientWhole'
  <2>1. NothingOf(given, pending)
    BY <1>3 DEF NothingEarly
  <2>2. Len(given) \in Nat /\ Len(given) - 2 * 0 = Len(given) /\ 2 * 0 <= Len(given)
    BY <1>3
  <2>3. GivenOf(given, pending, sentOn[pending], Len(given) - 2 * 0, 0)
    BY <2>1, <2>2, GivenNone
  <2>4. /\ StreamFrom(rest \o socket'[pending], pending, sentOn[pending], n)
        /\ 2 * 0 <= Len(given)
        /\ GivenOf(given, pending, sentOn[pending], Len(given) - 2 * 0, 0)
        /\ 0 > 0 => FirstInput(sentOn[pending]) + 0 <= n
        /\ ptyAlive => (0 = 0 /\ n <= FirstInput(sentOn[pending])) \/ FirstInput(sentOn[pending]) + 0 = n
    BY <2>2, <2>3
  <2>5. 0 \in Nat /\ n \in Nat
    OBVIOUS
  <2>6. ClientGoesOn(given, pending, sentOn[pending], rest \o socket'[pending], ptyAlive)
    BY <2>4, <2>5, Zenon DEF ClientGoesOn
  <2>7. QED
    BY <1>1, <1>2, <2>6 DEF ClientWhole
<1>9. QED
  BY <1>2, <1>4, <1>5, <1>6, <1>7, <1>8

(* It is let go.                                                                *)
LEMMA UnparksKeeps ==
  ASSUME InputInv, pending # Nobody, Unparks,
         socket' \in [Dialers -> Seq(InputBytes)], \A d \in Dialers : d # pending => socket'[d] = socket[d],
         UNCHANGED <<sentOn, waiting, client, reader, ready, ptyAlive, pendingInput, taken>>, at' = "client"
  PROVE  InputInv'
<1> USE DEF InputInv
<1>1. pending' = Nobody /\ pendingReader' = <<>>
  BY DEF Unparks
<1>2. given' = given /\ OneClaim' /\ NothingEarly' /\ InputIsWhole'
  BY <1>1, GivenKept
<1>3. pending \notin waiting /\ waiting \subseteq Dialers /\ pending # client
  BY DEF InputTypes, InputRoles
<1>4. InputTypes'
  <2>1. <<>> \in Seq(InputBytes)
    OBVIOUS
  <2>2. QED
    BY <1>1, <2>1 DEF InputTypes
<1>5. InputRoles'
  <2>1. StillRead' \subseteq StillRead
    BY <1>1 DEF StillRead
  <2>2. \A c \in StillRead' : sentOn'[c] # <<>>
    BY <2>1 DEF InputRoles
  <2>3. QED
    BY <1>1, <2>2 DEF InputRoles
<1>6. WaitingWhole' /\ PendingWhole'
  BY <1>1, <1>3 DEF WaitingWhole, PendingWhole
<1>7. ClientWhole'
  <2>1. client # Nobody => client \in Dialers /\ socket'[client] = socket[client]
    BY <1>3 DEF InputTypes
  <2>2. QED
    BY <1>2, <2>1 DEF ClientWhole
<1>8. QED
  BY <1>2, <1>4, <1>5, <1>6, <1>7

LEMMA ResolvesKeeps ==
  ASSUME InputInv, pending # Nobody, NEW buf \in Seq(InputBytes), Resolves(buf),
         StreamFrom(buf \o socket'[pending], pending, sentOn[pending], 1),
         socket' \in [Dialers -> Seq(InputBytes)], \A d \in Dialers : d # pending => socket'[d] = socket[d],
         UNCHANGED <<sentOn, waiting, ready, ptyAlive, pendingInput, taken>>, at' = "client"
  PROVE  InputInv'
<1> DEFINE flow == sentOn[pending]
           sock == socket'[pending]
           cmd == Head(buf).cmd
<1>1. pending \in Dialers /\ flow \in Seq(ClaimCmds \cup {"dataIn"}) /\ sock \in Seq(InputBytes)
  BY DEF InputInv, InputTypes
<1>2. 1 \in Nat /\ 1 <= FirstInput(flow)
  BY DEF FirstInput
<1>3. CASE HasFrame(buf) /\ cmd \notin ClaimCmds
  <2>1. Promotes(PutBack(SubSeq(buf, 1, 1 + PayloadLength(cmd)), buf))
    BY <1>3 DEF Resolves
  <2>2. Promotes(buf)
    BY <1>3, <2>1, PutBackIs
  <2>3. QED
    BY <1>2, <2>2, PromotesKeeps
<1>4. CASE HasFrame(buf) /\ cmd \in ClaimCmds /\ client # Nobody /\ cmd # "takeover"
  <2>1. Unparks /\ UNCHANGED <<client, reader>>
    BY <1>4 DEF Resolves
  <2>2. QED
    BY <2>1, UnparksKeeps
<1>5. CASE HasFrame(buf) /\ cmd \in ClaimCmds /\ ~(client # Nobody /\ cmd # "takeover")
  <2>1. Promotes(Rest(buf))
    BY <1>5 DEF Resolves
  <2> HIDE DEF flow, sock
  <2>2. /\ 1 \in 1 .. Len(flow) /\ Head(buf).cmd = flow[1]
        /\ Rest(buf) \in Seq(InputBytes)
        /\ StreamFrom(Rest(buf) \o sock, pending, flow, 1 + 1)
    <3>1. StreamFrom(buf \o sock, pending, flow, 1) /\ HasFrame(buf)
      BY <1>5 DEF flow, sock
    <3>2. QED
      BY <1>1, <3>1, FrameIsNext, SMTT(30)
  <2>3. FirstInput(flow) = 2
    BY <1>5, <2>2 DEF FirstInput, ClaimCmds
  <2>4. 1 + 1 \in Nat /\ 1 + 1 <= FirstInput(flow)
    BY <2>3
  <2>5. StreamFrom(Rest(buf) \o socket'[pending], pending, sentOn[pending], 1 + 1) /\ 1 + 1 <= FirstInput(sentOn[pending])
    BY <2>2, <2>4 DEF flow, sock
  <2>6. QED
    BY <2>1, <2>2, <2>4, <2>5, PromotesKeeps
<1>6. CASE ~HasFrame(buf) /\ Promotes(buf)
  BY <1>2, <1>6, PromotesKeeps
<1>7. CASE ~HasFrame(buf) /\ pendingReader' = buf /\ UNCHANGED <<client, reader, pending>>
  <2> USE DEF InputInv
  <2>1. given' = given /\ OneClaim' /\ NothingEarly' /\ InputIsWhole'
    BY <1>7, GivenKept
  <2>2. pending \notin waiting /\ waiting \subseteq Dialers /\ pending # client
    BY DEF InputTypes, InputRoles
  <2>3. InputTypes'
    BY <1>7 DEF InputTypes
  <2>4. InputRoles'
    BY <1>7 DEF InputRoles, StillRead
  <2>5. WaitingWhole' /\ PendingWhole'
    BY <1>7, <2>2 DEF WaitingWhole, PendingWhole
  <2>6. ClientWhole'
    <3>1. client # Nobody => client \in Dialers /\ socket'[client] = socket[client]
      BY <2>2 DEF InputTypes
    <3>2. QED
      BY <1>7, <2>1, <3>1 DEF ClientWhole
  <2>7. QED
    BY <2>1, <2>3, <2>4, <2>5, <2>6
<1>8. QED
  BY <1>3, <1>4, <1>5, <1>6, <1>7 DEF Resolves

LEMMA ReadsPendingKeeps ==
  ASSUME InputInv, ReadsPending
  PROVE  InputInv'
<1>1. UNCHANGED <<sentOn, waiting, ready, ptyAlive, pendingInput, taken>> /\ at = "pending" /\ at' = "client"
  BY DEF ReadsPending
<1>2. socket \in [Dialers -> Seq(InputBytes)] /\ pendingReader \in Seq(InputBytes) /\ pending \in Dialers \cup {Nobody}
      /\ ptyAlive \in BOOLEAN
  BY DEF InputInv, InputTypes
<1>3. CASE "parked" \notin ready
  <2>1. UNCHANGED <<socket, client, reader, pending, pendingReader>>
    BY <1>3 DEF ReadsPending
  <2>2. QED
    BY <1>1, <1>2, <2>1, StandsKept
<1>4. CASE "parked" \in ready
  <2>1. pending # Nobody /\ pending \in Dialers
    BY <1>1, <1>2, <1>4 DEF InputInv, InputRoles
  <2>2. StreamFrom(pendingReader \o socket[pending], pending, sentOn[pending], 1)
    BY <2>1 DEF InputInv, PendingWhole
  <2>3. CASE "pending" \notin ready
    <3>1. Resolves(pendingReader) /\ UNCHANGED socket
      BY <1>4, <2>3 DEF ReadsPending
    <3>2. socket' \in [Dialers -> Seq(InputBytes)] /\ (\A d \in Dialers : d # pending => socket'[d] = socket[d])
          /\ StreamFrom(pendingReader \o socket'[pending], pending, sentOn[pending], 1)
      BY <1>2, <2>2, <3>1
    <3>3. QED
      BY <1>1, <1>2, <2>1, <3>1, <3>2, ResolvesKeeps
  <2>4. CASE "pending" \in ready
    <3>1. PICK data \in ReadsFrom(pending) :
            /\ Consumes(pending, data)
            /\ IF data = <<>> THEN Unparks /\ UNCHANGED <<client, reader>> ELSE Resolves(pendingReader \o data)
      BY <1>4, <2>4 DEF ReadsPending
    <3>2. /\ socket' \in [Dialers -> Seq(InputBytes)]
          /\ \A d \in Dialers : d # pending => socket'[d] = socket[d]
          /\ pendingReader \o data \in Seq(InputBytes)
          /\ (pendingReader \o data) \o socket'[pending] = pendingReader \o socket[pending]
      <4>1. InputTypes
        BY DEF InputInv
      <4>2. QED
        BY <1>2, <2>1, <3>1, <4>1, ReadsWhole
    <3>3. CASE data = <<>>
      <4>1. Unparks /\ UNCHANGED <<client, reader>>
        BY <3>1, <3>3
      <4>2. QED
        BY <1>1, <2>1, <3>2, <4>1, UnparksKeeps
    <3>4. CASE data # <<>>
      <4> DEFINE buf == pendingReader \o data
      <4>1. Resolves(buf)
        BY <3>1, <3>4
      <4>2. buf \in Seq(InputBytes) /\ StreamFrom(buf \o socket'[pending], pending, sentOn[pending], 1)
        BY <2>2, <3>2
      <4> HIDE DEF buf
      <4>3. QED
        BY <1>1, <2>1, <3>2, <4>1, <4>2, ResolvesKeeps
    <3>5. QED
      BY <3>3, <3>4
  <2>5. QED
    BY <2>3, <2>4
<1>5. QED
  BY <1>3, <1>4

(* The program's terminal takes some of what there is for it.                          *)
LEMMA FlushesWhole ==
  ASSUME NEW input \in Seq(InputBytes), NEW n \in 0 .. Len(input), taken \in Seq(InputBytes), FlushesInput(input, n)
  PROVE  taken' \in Seq(InputBytes) /\ pendingInput' \in Seq(InputBytes) /\ given' = taken \o input
<1> DEFINE a == SubSeq(input, 1, n)
           b == SubSeq(input, n + 1, Len(input))
<1>1. a \in Seq(InputBytes) /\ b \in Seq(InputBytes)
  BY SplitWhole
<1>2. (taken \o a) \o b = taken \o input
  BY ReadWhole
<1>3. taken' = taken \o a /\ pendingInput' = b
  BY DEF FlushesInput
<1> HIDE DEF a, b
<1>4. QED
  BY <1>1, <1>2, <1>3, SMTT(30) DEF given

LEMMA TakesMoreKeeps ==
  ASSUME InputInv, TakesMore
  PROVE  InputInv'
<1> USE DEF InputInv
<1>1. PICK n \in 1 .. Len(pendingInput) : FlushesInput(pendingInput, n)
  BY DEF TakesMore
<1>2. UNCHANGED <<sentOn, socket, waiting, at, ready, client, reader, pending, pendingReader, ptyAlive>>
  BY DEF TakesMore, servers
<1>3. pendingInput \in Seq(InputBytes) /\ taken \in Seq(InputBytes) /\ n \in 0 .. Len(pendingInput)
  BY DEF InputTypes
<1>4. taken' \in Seq(InputBytes) /\ pendingInput' \in Seq(InputBytes) /\ given' = taken \o pendingInput
  BY <1>1, <1>3, FlushesWhole
<1>5. given' = given
  BY <1>4 DEF given
<1>6. InputTypes'
  BY <1>2, <1>4 DEF InputTypes
<1>7. InputRoles' /\ OneClaim'
  BY <1>2 DEF InputRoles, StillRead, OneClaim
<1>8. WaitingWhole' /\ PendingWhole'
  BY <1>2 DEF WaitingWhole, PendingWhole
<1>9. ClientWhole'
  BY <1>2, <1>5 DEF ClientWhole, ClientGoesOn
<1>10. NothingEarly' /\ InputIsWhole'
  BY <1>2, <1>5 DEF NothingEarly, InputIsWhole
<1>11. QED
  BY <1>6, <1>7, <1>8, <1>9, <1>10

LEMMA HandlesFramesKeeps ==
  ASSUME InputInv, HandlesFrames
  PROVE  InputInv'
<1> USE DEF InputInv
<1>1. UNCHANGED <<sentOn, socket, waiting, ready, client, pending, pendingReader, ptyAlive>> /\ at = "frames" /\ at' \in {"frames", "poll"}
  BY DEF HandlesFrames, servers
<1>2. CASE ~HasFrame(reader)
  <2>1. at' = "poll" /\ UNCHANGED <<reader, pendingInput, taken>>
    BY <1>2 DEF HandlesFrames
  <2>2. QED
    BY <1>1, <2>1, StandsKept DEF InputTypes
<1>3. CASE HasFrame(reader)
  <2> DEFINE c == client
             flow == sentOn[c]
             sock == socket[c]
  <2>1. reader' = Rest(reader)
    BY <1>3 DEF HandlesFrames
  <2>2. c # Nobody
    BY <1>3 DEF InputRoles, HasFrame
  <2>3. c \in Dialers /\ reader \in Seq(InputBytes) /\ sock \in Seq(InputBytes) /\ flow \in Seq(ClaimCmds \cup {"dataIn"})
        /\ given \in Seq(InputBytes) /\ taken \in Seq(InputBytes) /\ pendingInput \in Seq(InputBytes) /\ ptyAlive \in BOOLEAN
        /\ Len(given) \in Nat
    BY <2>2 DEF InputTypes, given
  <2>4. PICK n \in Nat, m \in Nat :
          /\ StreamFrom(reader \o sock, c, flow, n)
          /\ 2 * m <= Len(given)
          /\ GivenOf(given, c, flow, Len(given) - 2 * m, m)
          /\ m > 0 => FirstInput(flow) + m <= n
          /\ ptyAlive => (m = 0 /\ n <= FirstInput(flow)) \/ FirstInput(flow) + m = n
    BY <2>2 DEF ClientWhole, ClientGoesOn
  <2> HIDE DEF sock, flow
  <2>5. /\ n \in 1 .. Len(flow) /\ Head(reader).cmd = flow[n]
        /\ \A j \in 1 .. 1 + PayloadLength(flow[n]) :
              j <= Len(reader) /\ reader[j].conn = c /\ reader[j].i = n /\ reader[j].k = j - 1 /\ reader[j].cmd = flow[n]
        /\ Rest(reader) \in Seq(InputBytes)
        /\ StreamFrom(Rest(reader) \o sock, c, flow, n + 1)
    <3>1. StreamFrom(reader \o sock, c, flow, n) /\ HasFrame(reader)
      BY <1>3, <2>4
    <3>2. QED
      BY <2>3, <3>1, FrameIsNext
  <2>6. InputRoles' /\ OneClaim' /\ WaitingWhole' /\ PendingWhole'
    <3>1. InputRoles'
      BY <1>1, <2>2 DEF InputRoles, StillRead
    <3>2. OneClaim'
      BY <1>1 DEF OneClaim
    <3>3. WaitingWhole' /\ PendingWhole'
      BY <1>1 DEF WaitingWhole, PendingWhole
    <3>4. QED
      BY <3>1, <3>2, <3>3
  <2>7. n + 1 \in Nat /\ n \in Nat /\ FirstInput(flow) \in {1, 2}
    BY DEF FirstInput
  <2>8. StreamFrom(reader' \o socket'[c], c, sentOn'[c], n + 1) /\ sentOn'[c] = flow
    BY <1>1, <2>1, <2>5 DEF flow, sock
  <2>9. CASE ~(Head(reader).cmd = "dataIn" /\ ptyAlive)
    <3>1. UNCHANGED <<pendingInput, taken>>
      BY <1>3, <2>9 DEF HandlesFrames
    <3>2. given' = given /\ NothingEarly' /\ InputIsWhole'
      BY <1>1, <3>1, GivenKept
    <3>3. InputTypes'
      BY <1>1, <2>1, <2>5, <3>1 DEF InputTypes
    <3>4. m > 0 => FirstInput(flow) + m <= n + 1
      BY <2>4, <2>7
    <3>5. ptyAlive => (m = 0 /\ n + 1 <= FirstInput(flow)) \/ FirstInput(flow) + m = n + 1
      <4> SUFFICES ASSUME ptyAlive PROVE m = 0 /\ n + 1 <= FirstInput(flow)
        OBVIOUS
      <4>1. flow[n] # "dataIn"
        BY <2>5, <2>9
      <4>2. n = 1
        BY <4>1, <2>3, <2>5 DEF OneClaim, flow
      <4>3. FirstInput(flow) = 2
        BY <4>1, <4>2 DEF FirstInput
      <4>4. QED
        BY <4>2, <4>3, <2>4, <2>7
    <3>6. ClientGoesOn(given, c, flow, reader' \o socket'[c], ptyAlive)
      BY <2>4, <2>7, <2>8, <3>4, <3>5, Zenon DEF ClientGoesOn
    <3>7. ClientWhole'
      BY <1>1, <2>8, <3>2, <3>6 DEF ClientWhole
    <3>8. QED
      BY <2>6, <3>2, <3>3, <3>7
  <2>10. CASE Head(reader).cmd = "dataIn" /\ ptyAlive
    <3> DEFINE p == PayloadAt(reader)
               input == pendingInput \o p
               i == FirstInput(flow) + m
    <3>1. PICK k \in 0 .. Len(input) : FlushesInput(input, k)
      BY <1>3, <2>10 DEF HandlesFrames
    <3>2. PayloadLength("dataIn") = 2 /\ flow[n] = "dataIn" /\ Len(reader) >= 3 /\ Head(reader).cmd = "dataIn"
      BY <1>3, <2>5, <2>10 DEF PayloadLength, HasFrame
    <3>3. p = SubSeq(reader, 2, 3)
      <4>1. 1 + PayloadLength(Head(reader).cmd) = 3
        BY <3>2
      <4>2. QED
        BY <4>1 DEF PayloadAt
    <3>4. p \in Seq(InputBytes) /\ Len(p) = 2 /\ p[1] = reader[2] /\ p[2] = reader[3]
      BY <2>3, <3>2, <3>3
    <3> HIDE DEF p
    <3>5. input \in Seq(InputBytes)
      BY <2>3, <3>4
    <3>6. taken' \in Seq(InputBytes) /\ pendingInput' \in Seq(InputBytes) /\ given' = taken \o input
      <4> HIDE DEF input
      <4>1. QED
        BY <2>3, <3>1, <3>5, FlushesWhole
    <3>7. given' = given \o p
      <4>1. (taken \o pendingInput) \o p = taken \o (pendingInput \o p)
        <5>1. taken \in Seq(InputBytes) /\ pendingInput \in Seq(InputBytes) /\ p \in Seq(InputBytes)
          BY <2>3, <3>4
        <5>2. QED
          BY <5>1, ConcatsAssociate, SMTT(30)
      <4>2. QED
        BY <3>6, <4>1 DEF given
    <3> HIDE DEF input
    <3>8. i = n /\ i \in DOMAIN flow /\ flow[i] = "dataIn"
      <4>1. n > 1 \/ FirstInput(flow) = 1
        BY <2>5, <3>2 DEF FirstInput
      <4>2. i = n
        BY <4>1, <2>4, <2>5, <2>7, <2>10
      <4>3. QED
        BY <4>2, <2>3, <2>5, <3>2, SMTT(30)
    <3> HIDE DEF i
    <3>9. p[1] = Framed(c, i, "dataIn")[2] /\ p[2] = Framed(c, i, "dataIn")[3]
      <4>1. i \in Nat \ {0}
        BY <3>8, <2>5
      <4>2. Framed(c, i, "dataIn")[2] = [conn |-> c, i |-> i, k |-> 1, cmd |-> "dataIn"]
            /\ Framed(c, i, "dataIn")[3] = [conn |-> c, i |-> i, k |-> 2, cmd |-> "dataIn"]
        BY <2>3, <4>1, DataInIs, Zenon
      <4>3. reader[2].conn = c /\ reader[2].i = n /\ reader[2].k = 1 /\ reader[2].cmd = "dataIn"
        BY <2>5, <3>2
      <4>4. reader[3].conn = c /\ reader[3].i = n /\ reader[3].k = 2 /\ reader[3].cmd = "dataIn"
        BY <2>5, <3>2
      <4>5. reader[2] \in InputBytes /\ reader[3] \in InputBytes
        BY <2>3, <3>2
      <4>6. reader[2] = [conn |-> c, i |-> n, k |-> 1, cmd |-> "dataIn"]
        BY <4>3, <4>5 DEF InputBytes
      <4>7. reader[3] = [conn |-> c, i |-> n, k |-> 2, cmd |-> "dataIn"]
        BY <4>4, <4>5 DEF InputBytes
      <4>8. QED
        BY <4>2, <4>6, <4>7, <3>4, <3>8
    <3>10. /\ 2 * (m + 1) <= Len(given \o p)
           /\ GivenOf(given \o p, c, flow, Len(given \o p) - 2 * (m + 1), m + 1)
      BY <2>3, <2>4, <3>4, <3>8, <3>9, GivenNext DEF i
    <3>11. given \o p \in Seq(InputBytes) /\ Len(given \o p) = Len(given) + 2
      <4>1. given \in Seq(InputBytes) /\ p \in Seq(InputBytes) /\ Len(p) = 2
        BY <2>3, <3>4
      <4>2. given \o p \in Seq(InputBytes) /\ Len(given \o p) = Len(given) + Len(p)
        BY <4>1, ConcatProperties
      <4>3. QED
        BY <4>1, <4>2
    <3>12. ClientWhole'
      <4> DEFINE g == given \o p
      <4> HIDE DEF g
      <4>1. m + 1 \in Nat /\ (m + 1 > 0 => FirstInput(flow) + (m + 1) <= n + 1) /\ FirstInput(flow) + (m + 1) = n + 1
        BY <2>7, <3>8 DEF i
      <4>2. ClientGoesOn(g, c, flow, reader' \o socket'[c], ptyAlive)
        <5>1. StreamFrom(reader' \o socket'[c], c, flow, n + 1)
          BY <2>8
        <5>2. 2 * (m + 1) <= Len(g) /\ GivenOf(g, c, flow, Len(g) - 2 * (m + 1), m + 1)
          BY <3>10 DEF g
        <5>3. ptyAlive => (m + 1 = 0 /\ n + 1 <= FirstInput(flow)) \/ FirstInput(flow) + (m + 1) = n + 1
          BY <4>1
        <5>4. QED
          BY <2>7, <4>1, <5>1, <5>2, <5>3, Zenon DEF ClientGoesOn
      <4>3. QED
        BY <1>1, <2>8, <3>7, <4>2 DEF ClientWhole, g
    <3>13. ASSUME NEW d \in Dialers, d # c PROVE NothingOf(p, d)
      <4>1. i \in Nat \ {0}
        BY <3>8, <2>5
      <4>2. p[1].conn = c /\ p[2].conn = c
        BY <2>5, <3>2, <3>4
      <4>3. DOMAIN p = {1, 2}
        BY <3>4
      <4>4. QED
        BY <3>13, <4>2, <4>3 DEF NothingOf
    <3>14. ASSUME NEW d \in Dialers, d # c, NEW after \in Nat, NEW l \in Nat, GivenOf(given, d, sentOn[d], after, l)
           PROVE  GivenOf(given', d, sentOn'[d], after, l)
      <4>1. NothingOf(p, d)
        BY <3>13, <3>14
      <4> DEFINE had == sentOn[d]
      <4> HIDE DEF had
      <4>2. GivenOf(given \o p, d, had, after, l)
        BY <2>3, <3>4, <3>14, <4>1, GivenApart DEF had
      <4>3. QED
        BY <1>1, <3>7, <4>2 DEF had
    <3>15. NothingEarly'
      <4> SUFFICES ASSUME NEW d \in Dialers, d \in waiting' \/ d = pending' \/ sentOn'[d] = <<>>
                   PROVE  NothingOf(given', d)
        BY DEF NothingEarly
      <4>1. d # c
        <5>1. c \notin waiting /\ c # pending /\ sentOn[c] # <<>>
          BY <2>2 DEF InputRoles, StillRead
        <5>2. QED
          BY <1>1, <5>1
      <4>2. NothingOf(given, d)
        BY <1>1 DEF NothingEarly
      <4>3. 0 \in Nat
        OBVIOUS
      <4>4. GivenOf(given, d, sentOn[d], 0, 0)
        BY <4>2, <4>3, GivenNone
      <4>5. GivenOf(given', d, sentOn'[d], 0, 0)
        BY <4>1, <4>3, <4>4, <3>14
      <4>6. QED
        BY <4>3, <4>5, GivenNone
    <3>16. InputIsWhole'
      <4> SUFFICES ASSUME NEW d \in Dialers
                   PROVE  \E after, l \in 0 .. Len(given') : GivenOf(given', d, sentOn'[d], after, l)
        BY DEF InputIsWhole
      <4>1. CASE d = c
        <5> DEFINE g == given \o p
        <5>1. Len(g) = Len(given) + 2 /\ 2 * (m + 1) <= Len(g)
          BY <3>10, <3>11
        <5>2. GivenOf(g, c, flow, Len(g) - 2 * (m + 1), m + 1)
          BY <3>10
        <5> HIDE DEF g
        <5>3. Len(g) - 2 * (m + 1) \in 0 .. Len(g) /\ m + 1 \in 0 .. Len(g)
          BY <2>3, <5>1
        <5>4. given' = g /\ sentOn'[d] = flow
          BY <1>1, <3>7, <4>1 DEF g, flow
        <5>5. QED
          BY <4>1, <5>2, <5>3, <5>4
      <4>2. CASE d # c
        <5>1. PICK after \in 0 .. Len(given), l \in 0 .. Len(given) : GivenOf(given, d, sentOn[d], after, l)
          BY DEF InputIsWhole
        <5>2. after \in Nat /\ l \in Nat /\ Len(given') = Len(given) + 2
          BY <2>3, <3>7, <3>11
        <5>3. GivenOf(given', d, sentOn'[d], after, l)
          BY <4>2, <5>1, <5>2, <3>14
        <5>4. after \in 0 .. Len(given') /\ l \in 0 .. Len(given')
          BY <2>3, <5>2
        <5>5. QED
          BY <5>3, <5>4
      <4>3. QED
        BY <4>1, <4>2
    <3>17. InputTypes'
      BY <1>1, <2>1, <2>5, <3>6 DEF InputTypes
    <3>18. QED
      BY <2>6, <3>12, <3>15, <3>16, <3>17
  <2>11. QED
    BY <2>9, <2>10
<1>4. QED
  BY <1>2, <1>3

(* As a holder begins.                                                            *)
LEMMA InputBegins == InputInit => InputInv
<1> SUFFICES ASSUME InputInit PROVE InputInv
  OBVIOUS
<1>1. <<>> \in Seq(InputBytes) /\ <<>> \in Seq(ClaimCmds \cup {"dataIn"})
  OBVIOUS
<1>2. InputTypes
  BY <1>1 DEF InputInit, InputTypes
<1>3. InputRoles /\ OneClaim
  BY DEF InputInit, InputRoles, StillRead, OneClaim
<1>4. WaitingWhole /\ PendingWhole /\ ClientWhole
  BY DEF InputInit, WaitingWhole, PendingWhole, ClientWhole
<1>5. given = <<>>
  BY DEF InputInit, given
<1>6. \A c \in Dialers : NothingOf(given, c)
  BY <1>5 DEF NothingOf
<1>7. InputIsWhole
  <2> SUFFICES ASSUME NEW c \in Dialers
               PROVE  \E after, n \in 0 .. Len(given) : GivenOf(given, c, sentOn[c], after, n)
    BY DEF InputIsWhole
  <2>1. 0 \in Nat /\ 0 \in 0 .. Len(given)
    BY <1>5
  <2>2. GivenOf(given, c, sentOn[c], 0, 0)
    BY <1>6, <2>1, GivenNone
  <2>3. QED
    BY <2>1, <2>2
<1>8. QED
  BY <1>2, <1>3, <1>4, <1>6, <1>7 DEF InputInv, NothingEarly

LEMMA InputKeeps ==
  ASSUME InputInv, [HolderInputNext]_inputVars
  PROVE  InputInv'
<1>0. ptyAlive \in BOOLEAN
  BY DEF InputInv, InputTypes
<1>1. CASE \E c \in Dialers : Dials(c)
  BY <1>1, DialsKeeps
<1>2. CASE \E c \in Dialers : SendsOn(c)
  BY <1>2, SendsKeeps
<1>3. CASE \E c \in Dialers : HangsUpOn(c)
  <2>1. UNCHANGED <<sentOn, socket, waiting, at, ready, client, reader, pending, pendingReader, ptyAlive, pendingInput, taken>>
    BY <1>3 DEF HangsUpOn
  <2>2. QED
    BY <1>0, <2>1, StandsKept
<1>4. CASE Polls
  BY <1>4, PollsKeeps
<1>5. CASE Accepts
  BY <1>5, AcceptsKeeps
<1>6. CASE ReadsPending
  BY <1>6, ReadsPendingKeeps
<1>7. CASE ReadsClient
  BY <1>7, ReadsClientKeeps
<1>8. CASE HandlesFrames
  BY <1>8, HandlesFramesKeeps
<1>9. CASE TakesMore
  BY <1>9, TakesMoreKeeps
<1>10. CASE ProgramEnds
  <2>1. UNCHANGED <<sentOn, socket, waiting, at, ready, client, reader, pending, pendingReader, pendingInput, taken>> /\ ptyAlive' = FALSE
    BY <1>10 DEF ProgramEnds, servers
  <2>2. QED
    BY <2>1, StandsKept
<1>11. CASE UNCHANGED inputVars
  <2>1. UNCHANGED <<sentOn, socket, waiting, at, ready, client, reader, pending, pendingReader, ptyAlive, pendingInput, taken>>
    BY <1>11 DEF inputVars
  <2>2. QED
    BY <1>0, <2>1, StandsKept
<1>12. QED
  BY <1>1, <1>2, <1>3, <1>4, <1>5, <1>6, <1>7, <1>8, <1>9, <1>10, <1>11 DEF HolderInputNext

(* The program is given whole frames of each controller, the first ones it sent and in     *)
(* their order, and nothing of one after the next took over (InputIsWhole), however the    *)
(* reads cut the frames and whoever is parked, promoted, denied or dropped meanwhile: for    *)
(* any number of connections and frames.                                           *)
THEOREM HolderInputIsWhole == HolderInputSpec => []InputIsWhole
<1>1. InputInit => InputInv
  BY InputBegins
<1>2. InputInv /\ [HolderInputNext]_inputVars => InputInv'
  BY InputKeeps
<1>3. InputInv => InputIsWhole
  BY DEF InputInv
<1>4. QED
  BY <1>1, <1>2, <1>3, PTL DEF HolderInputSpec
===============================================================================
