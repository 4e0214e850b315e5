----------------------------- MODULE TerminalProofs -----------------------------
(***************************************************************************)
(* What a page shows, end to end: for every number of connections, every    *)
(* threshold, every length of stream and any hiding, showing, unmounting     *)
(* and losing of connections, the frames on their way to the page lead from  *)
(* what it has painted, without a gap and without a repetition, to where the  *)
(* server goes on from.                                                    *)
(***************************************************************************)
EXTENDS TerminalStream, ViewerStreamProofs

(* Links lead from one place in the stream to a later one: a snapshot (no     *)
(* chunks) anywhere ahead, data by its chunks, which must be the next ones.  *)
Leads(x, a) ==
  IF x.seqs = <<>> THEN x.seq >= a
  ELSE /\ a >= BaseSeq - 1 /\ x.seq = a + Len(x.seqs)
       /\ \A i \in 1 .. Len(x.seqs) : x.seqs[i] = a + i

Tip(xs, a) == IF xs = <<>> THEN a ELSE xs[Len(xs)].seq

Chain(xs, a) ==
  /\ \A i \in 1 .. Len(xs) : xs[i].seq >= a
  /\ \A i, j \in 1 .. Len(xs) : i < j => xs[i].seq <= xs[j].seq
  /\ \A i \in 1 .. Len(xs) : Leads(xs[i], IF i = 1 THEN a ELSE xs[i - 1].seq)

(* A write of the page and a frame of the wire are links. *)
Links(T) == \A x \in T : x.seq \in Nat /\ x.seqs \in Seq(Nat)

(* A chain ends at or after each of its links. *)
LEMMA TipIs ==
  ASSUME NEW T, Links(T), NEW xs \in Seq(T), NEW a \in Nat, Chain(xs, a)
  PROVE  /\ Tip(xs, a) \in Nat /\ a <= Tip(xs, a)
         /\ \A i \in 1 .. Len(xs) : xs[i].seq \in Nat /\ xs[i].seq <= Tip(xs, a)
<1>1. Len(xs) \in Nat /\ \A i \in 1 .. Len(xs) : xs[i] \in T
  OBVIOUS
<1>2. \A i \in 1 .. Len(xs) : xs[i].seq \in Nat
  BY <1>1 DEF Links
<1>3. /\ \A i \in 1 .. Len(xs) : xs[i].seq >= a
      /\ \A i, j \in 1 .. Len(xs) : i < j => xs[i].seq <= xs[j].seq
  BY DEF Chain
<1>4. CASE xs = <<>>
  <2>1. Tip(xs, a) = a /\ Len(xs) = 0
    BY <1>4 DEF Tip
  <2>2. QED
    BY <2>1
<1>5. CASE xs /= <<>>
  <2>1. Tip(xs, a) = xs[Len(xs)].seq
    BY <1>5 DEF Tip
  <2>2. Len(xs) \in 1 .. Len(xs)
    BY <1>5
  <2>3. SUFFICES ASSUME NEW i \in 1 .. Len(xs)  PROVE xs[i].seq <= xs[Len(xs)].seq
    BY <1>2, <1>3, <2>1, <2>2
  <2>4. i < Len(xs) \/ i = Len(xs)
    BY <1>1
  <2>5. QED
    BY <1>2, <1>3, <2>2, <2>4
<1>6. QED
  BY <1>4, <1>5

(* Where a link leads to is not before where it starts. *)
LEMMA LeadsOn ==
  ASSUME NEW T, Links(T), NEW x \in T, NEW a \in Nat, Leads(x, a)
  PROVE  x.seq \in Nat /\ a <= x.seq
<1>1. x.seq \in Nat /\ Len(x.seqs) \in Nat
  BY DEF Links
<1>2. QED
  BY <1>1 DEF Leads

(* A chain goes on with a link that starts where it ends. *)
LEMMA ChainAppend ==
  ASSUME NEW T, Links(T), NEW xs \in Seq(T), NEW a \in Nat, Chain(xs, a),
         NEW x \in T, Leads(x, Tip(xs, a))
  PROVE  /\ Append(xs, x) \in Seq(T) /\ Append(xs, x) /= <<>>
         /\ Chain(Append(xs, x), a) /\ Tip(Append(xs, x), a) = x.seq
<1> DEFINE ys == Append(xs, x)
           n == Len(xs)
<1>1. /\ n \in Nat /\ ys \in Seq(T) /\ Len(ys) = n + 1 /\ ys[n + 1] = x
      /\ \A i \in 1 .. n : ys[i] = xs[i]
  OBVIOUS
<1>2. /\ Tip(xs, a) \in Nat /\ a <= Tip(xs, a)
      /\ \A i \in 1 .. n : xs[i].seq \in Nat /\ xs[i].seq <= Tip(xs, a)
  BY TipIs
<1>3. x.seq \in Nat /\ Tip(xs, a) <= x.seq
  BY <1>2, LeadsOn
<1> HIDE DEF ys
<1>4. \A i \in 1 .. Len(ys) : ys[i].seq >= a
  BY <1>1, <1>2, <1>3 DEF Chain
<1>5. \A i, j \in 1 .. Len(ys) : i < j => ys[i].seq <= ys[j].seq
  <2>1. SUFFICES ASSUME NEW i \in 1 .. Len(ys), NEW j \in 1 .. Len(ys), i < j
                 PROVE  ys[i].seq <= ys[j].seq
    OBVIOUS
  <2>2. i \in 1 .. n /\ ys[i] = xs[i]
    BY <1>1, <2>1
  <2>3. CASE j = n + 1
    BY <1>1, <1>2, <1>3, <2>2, <2>3
  <2>4. CASE j \in 1 .. n
    BY <1>1, <2>1, <2>2, <2>4 DEF Chain
  <2>5. QED
    BY <1>1, <2>3, <2>4
<1>6. \A i \in 1 .. Len(ys) : Leads(ys[i], IF i = 1 THEN a ELSE ys[i - 1].seq)
  <2>1. SUFFICES ASSUME NEW i \in 1 .. Len(ys)
                 PROVE  Leads(ys[i], IF i = 1 THEN a ELSE ys[i - 1].seq)
    OBVIOUS
  <2>2. CASE i \in 1 .. n
    <3>1. Leads(xs[i], IF i = 1 THEN a ELSE xs[i - 1].seq)
      BY <2>2 DEF Chain
    <3>2. ys[i] = xs[i] /\ (i /= 1 => ys[i - 1] = xs[i - 1])
      BY <1>1, <2>2
    <3>3. (IF i = 1 THEN a ELSE ys[i - 1].seq) = (IF i = 1 THEN a ELSE xs[i - 1].seq)
      BY <3>2
    <3>4. QED
      BY <3>1, <3>2, <3>3
  <2>3. CASE i = n + 1
    <3>1. (IF i = 1 THEN a ELSE ys[i - 1].seq) = Tip(xs, a)
      <4>1. CASE n = 0
        <5>1. xs = <<>>
          BY <4>1
        <5>2. QED
          BY <2>3, <4>1, <5>1 DEF Tip
      <4>2. CASE n > 0
        <5>1. xs /= <<>> /\ ys[n] = xs[n]
          BY <1>1, <4>2
        <5>2. QED
          BY <1>1, <2>3, <4>2, <5>1 DEF Tip
      <4>3. QED
        BY <1>1, <4>1, <4>2
    <3>2. ys[i] = x
      BY <1>1, <2>3
    <3>3. QED
      BY <3>1, <3>2
  <2>4. QED
    BY <1>1, <2>2, <2>3
<1>7. Chain(ys, a)
  BY <1>4, <1>5, <1>6 DEF Chain
<1>8. ys /= <<>>
  BY <1>1
<1>9. Tip(ys, a) = x.seq
  BY <1>1, <1>8 DEF Tip
<1>10. QED
  BY <1>1, <1>7, <1>8, <1>9 DEF ys

(* A chain without its first link is a chain from where that one leads to. *)
LEMMA ChainTail ==
  ASSUME NEW T, Links(T), NEW xs \in Seq(T), NEW a \in Nat, Chain(xs, a), xs /= <<>>
  PROVE  /\ Head(xs) \in T /\ Tail(xs) \in Seq(T) /\ Leads(Head(xs), a)
         /\ Head(xs).seq \in Nat /\ a <= Head(xs).seq /\ Head(xs).seq <= Tip(xs, a)
         /\ Chain(Tail(xs), Head(xs).seq) /\ Tip(Tail(xs), Head(xs).seq) = Tip(xs, a)
<1> DEFINE ys == Tail(xs)
           n == Len(xs)
<1>1. /\ n \in Nat /\ n > 0 /\ ys \in Seq(T) /\ Len(ys) = n - 1 /\ Head(xs) = xs[1]
      /\ \A i \in 1 .. n - 1 : ys[i] = xs[i + 1]
      /\ \A i \in 1 .. n : xs[i] \in T
  OBVIOUS
<1>2. /\ Tip(xs, a) = xs[n].seq
      /\ \A i \in 1 .. n : xs[i].seq \in Nat /\ xs[i].seq <= Tip(xs, a)
  BY TipIs DEF Tip
<1> HIDE DEF ys, n
<1>3. /\ \A i \in 1 .. n : xs[i].seq >= a
      /\ \A i, j \in 1 .. n : i < j => xs[i].seq <= xs[j].seq
      /\ \A i \in 1 .. n : Leads(xs[i], IF i = 1 THEN a ELSE xs[i - 1].seq)
  BY DEF Chain, n
<1>4. 1 \in 1 .. n /\ Leads(xs[1], a)
  BY <1>1, <1>3
<1>5. \A i \in 1 .. Len(ys) : ys[i].seq >= xs[1].seq
  <2>1. SUFFICES ASSUME NEW i \in 1 .. Len(ys)  PROVE ys[i].seq >= xs[1].seq
    OBVIOUS
  <2>2. ys[i] = xs[i + 1] /\ i + 1 \in 1 .. n /\ 1 < i + 1
    BY <1>1, <2>1
  <2>3. xs[1].seq <= xs[i + 1].seq /\ xs[1].seq \in Nat /\ xs[i + 1].seq \in Nat
    BY <1>2, <1>3, <1>4, <2>2
  <2>4. QED
    BY <2>2, <2>3
<1>6. \A i, j \in 1 .. Len(ys) : i < j => ys[i].seq <= ys[j].seq
  <2>1. SUFFICES ASSUME NEW i \in 1 .. Len(ys), NEW j \in 1 .. Len(ys), i < j
                 PROVE  ys[i].seq <= ys[j].seq
    OBVIOUS
  <2>2. /\ ys[i] = xs[i + 1] /\ ys[j] = xs[j + 1]
        /\ i + 1 \in 1 .. n /\ j + 1 \in 1 .. n /\ i + 1 < j + 1
    BY <1>1, <2>1
  <2>3. QED
    BY <1>3, <2>2
<1>7. \A i \in 1 .. Len(ys) : Leads(ys[i], IF i = 1 THEN xs[1].seq ELSE ys[i - 1].seq)
  <2>1. SUFFICES ASSUME NEW i \in 1 .. Len(ys)
                 PROVE  Leads(ys[i], IF i = 1 THEN xs[1].seq ELSE ys[i - 1].seq)
    OBVIOUS
  <2>2. /\ ys[i] = xs[i + 1] /\ i + 1 \in 1 .. n /\ i + 1 /= 1 /\ (i + 1) - 1 = i
        /\ i /= 1 => ys[i - 1] = xs[i]
    BY <1>1, <2>1
  <2>3. Leads(xs[i + 1], xs[i].seq)
    BY <1>3, <2>2
  <2>4. (IF i = 1 THEN xs[1].seq ELSE ys[i - 1].seq) = xs[i].seq
    BY <2>2
  <2>5. QED
    BY <2>2, <2>3, <2>4
<1>8. Chain(ys, xs[1].seq)
  BY <1>5, <1>6, <1>7 DEF Chain
<1>9. Tip(ys, xs[1].seq) = Tip(xs, a)
  <2>1. CASE n = 1
    <3>1. ys = <<>>
      BY <1>1, <2>1
    <3>2. QED
      BY <1>2, <2>1, <3>1 DEF Tip
  <2>2. CASE n > 1
    <3>1. ys /= <<>> /\ Len(ys) = n - 1 /\ ys[n - 1] = xs[n]
      <4>1. n - 1 \in 1 .. n - 1 /\ (n - 1) + 1 = n
        BY <1>1, <2>2
      <4>2. QED
        BY <1>1, <4>1
    <3>2. QED
      BY <1>2, <3>1 DEF Tip
  <2>3. QED
    BY <1>1, <2>1, <2>2
<1>10. xs[1].seq \in Nat /\ xs[1].seq >= a /\ xs[1].seq <= Tip(xs, a)
  BY <1>2, <1>3, <1>4
<1>11. QED
  BY <1>1, <1>4, <1>8, <1>9, <1>10 DEF ys

(* Two chains, the second from where the first ends, are one. *)
LEMMA ChainConcat ==
  ASSUME NEW T, Links(T), NEW xs \in Seq(T), NEW ys \in Seq(T), NEW a \in Nat,
         Chain(xs, a), Chain(ys, Tip(xs, a))
  PROVE  xs \o ys \in Seq(T) /\ Chain(xs \o ys, a) /\ Tip(xs \o ys, a) = Tip(ys, Tip(xs, a))
<1> DEFINE zs == xs \o ys
           m == Len(xs)
           n == Len(ys)
           t == Tip(xs, a)
<1>1. /\ m \in Nat /\ n \in Nat /\ zs \in Seq(T) /\ Len(zs) = m + n
      /\ \A i \in 1 .. m : zs[i] = xs[i]
      /\ \A i \in 1 .. n : zs[m + i] = ys[i]
  OBVIOUS
<1>2. /\ t \in Nat /\ a <= t
      /\ \A i \in 1 .. m : xs[i].seq \in Nat /\ xs[i].seq <= t
  BY TipIs
<1>3. \A i \in 1 .. n : ys[i].seq \in Nat
  BY <1>2, TipIs
<1>4. /\ \A i \in 1 .. m : xs[i].seq >= a
      /\ \A i, j \in 1 .. m : i < j => xs[i].seq <= xs[j].seq
      /\ \A i \in 1 .. m : Leads(xs[i], IF i = 1 THEN a ELSE xs[i - 1].seq)
  BY DEF Chain
<1>5. /\ \A i \in 1 .. n : ys[i].seq >= t
      /\ \A i, j \in 1 .. n : i < j => ys[i].seq <= ys[j].seq
      /\ \A i \in 1 .. n : Leads(ys[i], IF i = 1 THEN t ELSE ys[i - 1].seq)
  BY DEF Chain
<1>6. m = 0 => t = a
  BY DEF Tip
<1>7. m > 0 => t = xs[m].seq
  BY DEF Tip
<1>8. n = 0 => Tip(ys, t) = t
  BY DEF Tip
<1>9. n > 0 => Tip(ys, t) = ys[n].seq
  BY DEF Tip
<1>10. m + n = 0 => Tip(zs, a) = a
  BY <1>1 DEF Tip
<1>11. m + n > 0 => Tip(zs, a) = zs[m + n].seq
  BY <1>1 DEF Tip
<1> HIDE DEF zs, m, n, t
<1>12. Tip(zs, a) = Tip(ys, t)
  <2>1. CASE n > 0
    <3>1. n \in 1 .. n
      BY <1>1, <2>1
    <3>2. QED
      BY <1>1, <1>9, <1>11, <2>1, <3>1
  <2>2. CASE n = 0 /\ m > 0
    <3>1. m \in 1 .. m /\ m + n = m
      BY <1>1, <2>2
    <3>2. QED
      BY <1>1, <1>7, <1>8, <1>11, <2>2, <3>1
  <2>3. CASE n = 0 /\ m = 0
    BY <1>1, <1>6, <1>8, <1>10, <2>3
  <2>4. QED
    BY <1>1, <2>1, <2>2, <2>3
<1>13. \A i \in 1 .. m + n : i \in 1 .. m \/ (i - m \in 1 .. n /\ i = m + (i - m))
  BY <1>1
<1>14. \A i \in 1 .. m + n : zs[i].seq >= a
  <2>1. SUFFICES ASSUME NEW i \in 1 .. m + n  PROVE zs[i].seq >= a
    OBVIOUS
  <2>2. CASE i \in 1 .. m
    BY <1>1, <1>4, <2>2
  <2>3. CASE i - m \in 1 .. n /\ i = m + (i - m)
    <3>1. zs[i] = ys[i - m] /\ ys[i - m].seq >= t /\ ys[i - m].seq \in Nat
      BY <1>1, <1>3, <1>5, <2>3
    <3>2. QED
      BY <1>2, <3>1
  <2>4. QED
    BY <1>13, <2>2, <2>3
<1>15. \A i, j \in 1 .. m + n : i < j => zs[i].seq <= zs[j].seq
  <2>1. SUFFICES ASSUME NEW i \in 1 .. m + n, NEW j \in 1 .. m + n, i < j
                 PROVE  zs[i].seq <= zs[j].seq
    OBVIOUS
  <2>2. CASE j \in 1 .. m
    <3>1. i \in 1 .. m
      BY <1>1, <2>1, <2>2
    <3>2. QED
      BY <1>1, <1>4, <2>1, <2>2, <3>1
  <2>3. CASE i \in 1 .. m /\ j - m \in 1 .. n /\ j = m + (j - m)
    <3>1. /\ zs[i] = xs[i] /\ zs[j] = ys[j - m]
          /\ xs[i].seq \in Nat /\ xs[i].seq <= t /\ ys[j - m].seq >= t /\ ys[j - m].seq \in Nat
      BY <1>1, <1>2, <1>3, <1>5, <2>3
    <3>2. QED
      BY <1>2, <3>1
  <2>4. CASE /\ i - m \in 1 .. n /\ i = m + (i - m)
             /\ j - m \in 1 .. n /\ j = m + (j - m)
    <3>1. zs[i] = ys[i - m] /\ zs[j] = ys[j - m] /\ i - m < j - m
      BY <1>1, <2>1, <2>4, SMTT(30)
    <3>2. QED
      BY <1>5, <2>4, <3>1
  <2>5. QED
    BY <1>13, <2>2, <2>3, <2>4
<1>16. \A i \in 1 .. m + n : Leads(zs[i], IF i = 1 THEN a ELSE zs[i - 1].seq)
  <2>1. SUFFICES ASSUME NEW i \in 1 .. m + n
                 PROVE  Leads(zs[i], IF i = 1 THEN a ELSE zs[i - 1].seq)
    OBVIOUS
  <2>2. CASE i \in 1 .. m
    <3>1. zs[i] = xs[i] /\ (i /= 1 => zs[i - 1] = xs[i - 1])
      BY <1>1, <2>2
    <3>2. (IF i = 1 THEN a ELSE zs[i - 1].seq) = (IF i = 1 THEN a ELSE xs[i - 1].seq)
      BY <3>1
    <3>3. QED
      BY <1>4, <2>2, <3>1, <3>2
  <2>3. CASE i - m \in 1 .. n /\ i = m + (i - m)
    <3> DEFINE k == i - m
    <3>1. k \in 1 .. n /\ i = m + k /\ zs[i] = ys[k]
      BY <1>1, <2>3
    <3> HIDE DEF k
    <3>2. Leads(ys[k], IF k = 1 THEN t ELSE ys[k - 1].seq)
      BY <1>5, <3>1
    <3>3. (IF i = 1 THEN a ELSE zs[i - 1].seq) = (IF k = 1 THEN t ELSE ys[k - 1].seq)
      <4>1. CASE k /= 1
        <5>1. i /= 1 /\ k - 1 \in 1 .. n /\ i - 1 = m + (k - 1)
          BY <1>1, <3>1, <4>1
        <5>2. zs[i - 1] = ys[k - 1]
          BY <1>1, <5>1
        <5>3. QED
          BY <4>1, <5>1, <5>2
      <4>2. CASE k = 1 /\ m = 0
        BY <1>6, <3>1, <4>2
      <4>3. CASE k = 1 /\ m > 0
        <5>1. i /= 1 /\ i - 1 = m /\ m \in 1 .. m
          BY <1>1, <3>1, <4>3
        <5>2. zs[m] = xs[m] /\ t = xs[m].seq
          BY <1>1, <1>7, <4>3, <5>1
        <5>3. QED
          BY <4>3, <5>1, <5>2
      <4>4. QED
        BY <1>1, <4>1, <4>2, <4>3
    <3>4. QED
      BY <3>1, <3>2, <3>3
  <2>4. QED
    BY <1>13, <2>2, <2>3
<1>17. Chain(zs, a)
  BY <1>1, <1>14, <1>15, <1>16 DEF Chain
<1>18. QED
  BY <1>1, <1>12, <1>17 DEF zs, t

-----------------------------------------------------------------------------
(* Data frames.                                                            *)

(* How frames of f chunks cut a stretch of n: frame j ends with chunk j * f,  *)
(* the last frame with chunk n.                                            *)
LEMMA FrameCut ==
  ASSUME NEW n \in Nat, n > 0, NEW f \in Nat \ {0}
  PROVE  LET count == (n + f - 1) \div f IN
         /\ count \in Nat /\ count > 0
         /\ FrameEnd((count - 1) * f + 1, n, f) = n
         /\ \A j \in 1 .. count :
              /\ (j - 1) * f \in Nat /\ (j - 1) * f < n
              /\ FrameEnd((j - 1) * f + 1, n, f) = IF j * f <= n THEN j * f ELSE n
              /\ (j - 1) * f < FrameEnd((j - 1) * f + 1, n, f)
              /\ FrameEnd((j - 1) * f + 1, n, f) \in 1 .. n
              /\ j < count => FrameEnd((j - 1) * f + 1, n, f) = j * f
<1> DEFINE count == (n + f - 1) \div f
<1>1. /\ count \in Nat /\ count * f <= n + f - 1 /\ n + f - 1 < count * f + f
      /\ count * f \in Nat
  OBVIOUS
<1> HIDE DEF count
<1>2. count > 0
  <2>1. SUFFICES ASSUME count = 0  PROVE FALSE
    BY <1>1
  <2>2. count * f = 0
    BY <2>1
  <2>3. QED
    BY <1>1, <2>2
<1>3. \A j \in 1 .. count :
        /\ (j - 1) * f \in Nat /\ j * f \in Nat /\ j * f = (j - 1) * f + f
        /\ (j - 1) * f < n
        /\ ((j - 1) * f) \div f = j - 1
  <2>1. SUFFICES ASSUME NEW j \in 1 .. count
                 PROVE  /\ (j - 1) * f \in Nat /\ j * f \in Nat /\ j * f = (j - 1) * f + f
                        /\ (j - 1) * f < n
                        /\ ((j - 1) * f) \div f = j - 1
    OBVIOUS
  <2>2. j \in Nat /\ j - 1 \in Nat
    BY <1>1
  <2>3. (j - 1) * f \in Nat /\ j * f \in Nat /\ j * f = (j - 1) * f + f
    BY <2>2
  <2>4. j * f <= count * f
    BY <1>1, <2>1
  <2>5. (j - 1) * f < n
    BY <1>1, <2>3, <2>4
  <2>6. ((j - 1) * f) \div f = j - 1
    BY <2>2
  <2>7. QED
    BY <2>3, <2>5, <2>6
<1>4. \A j \in 1 .. count :
        FrameEnd((j - 1) * f + 1, n, f) = IF j * f <= n THEN j * f ELSE n
  <2>1. SUFFICES ASSUME NEW j \in 1 .. count
                 PROVE  FrameEnd((j - 1) * f + 1, n, f) = IF j * f <= n THEN j * f ELSE n
    OBVIOUS
  <2> DEFINE a == (j - 1) * f
  <2>2. a \in Nat /\ a \div f = j - 1
    BY <1>3
  <2>3. j \in Nat
    BY <1>1
  <2> HIDE DEF a
  <2>4. ((a + 1) - 1) \div f + 1 = j
    <3>1. (a + 1) - 1 = a
      BY <2>2
    <3>2. QED
      BY <2>2, <2>3, <3>1
  <2>5. FrameEnd(a + 1, n, f) = IF j * f <= n THEN j * f ELSE n
    BY <2>4 DEF FrameEnd
  <2>6. QED
    BY <2>5 DEF a
<1>5. \A j \in 1 .. count : j < count => j * f < n
  <2>1. SUFFICES ASSUME NEW j \in 1 .. count, j < count  PROVE j * f < n
    OBVIOUS
  <2>2. j + 1 \in 1 .. count /\ (j + 1) - 1 = j
    BY <1>1, <2>1
  <2>3. ((j + 1) - 1) * f < n
    BY <1>3, <2>2
  <2>4. QED
    BY <2>2, <2>3
<1>6. count * f >= n
  BY <1>1
<1>7. \A j \in 1 .. count :
        /\ (j - 1) * f \in Nat /\ (j - 1) * f < n
        /\ FrameEnd((j - 1) * f + 1, n, f) = IF j * f <= n THEN j * f ELSE n
        /\ (j - 1) * f < FrameEnd((j - 1) * f + 1, n, f)
        /\ FrameEnd((j - 1) * f + 1, n, f) \in 1 .. n
        /\ j < count => FrameEnd((j - 1) * f + 1, n, f) = j * f
  <2>1. SUFFICES ASSUME NEW j \in 1 .. count
                 PROVE  /\ (j - 1) * f \in Nat /\ (j - 1) * f < n
                        /\ FrameEnd((j - 1) * f + 1, n, f) = IF j * f <= n THEN j * f ELSE n
                        /\ (j - 1) * f < FrameEnd((j - 1) * f + 1, n, f)
                        /\ FrameEnd((j - 1) * f + 1, n, f) \in 1 .. n
                        /\ j < count => FrameEnd((j - 1) * f + 1, n, f) = j * f
    OBVIOUS
  <2> DEFINE a == (j - 1) * f
             b == j * f
             e == FrameEnd((j - 1) * f + 1, n, f)
  <2>2. a \in Nat /\ b \in Nat /\ b = a + f /\ a < n
    BY <1>3
  <2>3. e = IF b <= n THEN b ELSE n
    BY <1>4
  <2>4. j < count => b < n
    BY <1>5
  <2> HIDE DEF a, b, e
  <2>5. /\ a \in Nat /\ a < n /\ (e = IF b <= n THEN b ELSE n)
        /\ a < e /\ e \in 1 .. n /\ (j < count => e = b)
    BY <2>2, <2>3, <2>4
  <2>6. QED
    BY <2>5 DEF a, b, e
<1>8. FrameEnd((count - 1) * f + 1, n, f) = n
  <2>1. count \in 1 .. count
    BY <1>1, <1>2
  <2>2. FrameEnd((count - 1) * f + 1, n, f) = IF count * f <= n THEN count * f ELSE n
    BY <1>4, <2>1
  <2>3. QED
    BY <1>1, <1>6, <2>2
<1>9. QED
  BY <1>1, <1>2, <1>7, <1>8 DEF count

(* What the server sends is of two kinds. *)
Kinds(fs) ==
  \A i \in 1 .. Len(fs) : fs[i].cmd = IF fs[i].seqs = <<>> THEN "SNAPSHOT" ELSE "DATA"

LEMMA FrameLinks == Links(Frame)
BY DEF Links, Frame

(* A stretch of the stream, sent as data, is a chain over it. *)
LEMMA SendDataChain ==
  ASSUME NEW v \in View, v.out = <<>>, NEW seqs \in Seq(Nat), NEW f \in Nat \ {0},
         NEW a \in Nat, a >= BaseSeq - 1, \A i \in 1 .. Len(seqs) : seqs[i] = a + i
  PROVE  LET s == SendData(v, seqs, f) IN
         /\ s.out \in Seq(Frame) /\ Kinds(s.out)
         /\ Chain(s.out, a) /\ Tip(s.out, a) = a + Len(seqs)
<1> DEFINE s == SendData(v, seqs, f)
           n == Len(seqs)
<1>1. n \in Nat /\ s \in View
  BY SendDataType
<1>2. s.out \in Seq(Frame)
  BY <1>1, Zenon DEF View
<1>3. CASE n = 0
  <2>1. s.out = <<>>
    BY <1>3 DEF SendData
  <2> HIDE DEF s
  <2>2. Kinds(s.out)
    BY <2>1 DEF Kinds
  <2>3. Chain(s.out, a)
    BY <2>1 DEF Chain
  <2>4. Tip(s.out, a) = a + n
    BY <1>3, <2>1 DEF Tip
  <2>5. QED
    BY <1>2, <2>2, <2>3, <2>4 DEF s, n
<1>4. CASE n /= 0
  <2> DEFINE count == (n + f - 1) \div f
             end(j) == FrameEnd((j - 1) * f + 1, n, f)
             frame(j) == [cmd |-> "DATA", seqs |-> SubSeq(seqs, (j - 1) * f + 1, end(j)),
                          seq |-> seqs[end(j)]]
             out == [j \in 1 .. count |-> frame(j)]
  <2>1. n > 0
    BY <1>1, <1>4
  <2>2. /\ count \in Nat /\ count > 0 /\ end(count) = n
        /\ \A j \in 1 .. count :
              /\ (j - 1) * f \in Nat /\ (j - 1) * f < n
              /\ end(j) = IF j * f <= n THEN j * f ELSE n
              /\ (j - 1) * f < end(j) /\ end(j) \in 1 .. n
              /\ j < count => end(j) = j * f
    BY <1>1, <2>1, FrameCut
  <2>3. s.out = <<>> \o out
    BY <1>4, Zenon DEF SendData, View
  <2> HIDE DEF count, end, n
  <2>4. \A j \in 1 .. count : \A i \in 1 .. end(j) - (j - 1) * f :
           SubSeq(seqs, (j - 1) * f + 1, end(j))[i] = a + ((j - 1) * f + i)
    <3>1. SUFFICES ASSUME NEW j \in 1 .. count, NEW i \in 1 .. end(j) - (j - 1) * f
                   PROVE  SubSeq(seqs, (j - 1) * f + 1, end(j))[i] = a + ((j - 1) * f + i)
      OBVIOUS
    <3> DEFINE b == (j - 1) * f
               e == end(j)
    <3>2. b \in Nat /\ e \in 1 .. n /\ b < e
      BY <2>2
    <3> HIDE DEF b, e
    <3>3. i \in 1 .. e - b
      BY <3>1 DEF b, e
    <3>4. b + i \in 1 .. n /\ b + 1 + i - 1 = b + i
      BY <1>1, <3>2, <3>3
    <3>5. SubSeq(seqs, b + 1, e)[i] = seqs[b + 1 + i - 1]
      <4>1. i \in 1 .. e - (b + 1) + 1
        BY <1>1, <3>2, <3>3
      <4>2. QED
        BY <3>2, <4>1, <1>1 DEF n
    <3>6. seqs[b + i] = a + (b + i)
      BY <3>4 DEF n
    <3>7. QED
      BY <3>4, <3>5, <3>6 DEF b, e
  <2>5. \A j \in 1 .. count :
           /\ SubSeq(seqs, (j - 1) * f + 1, end(j)) \in Seq(Nat)
           /\ Len(SubSeq(seqs, (j - 1) * f + 1, end(j))) = end(j) - (j - 1) * f
    <3>1. SUFFICES ASSUME NEW j \in 1 .. count
                   PROVE  /\ SubSeq(seqs, (j - 1) * f + 1, end(j)) \in Seq(Nat)
                          /\ Len(SubSeq(seqs, (j - 1) * f + 1, end(j))) = end(j) - (j - 1) * f
      OBVIOUS
    <3> DEFINE b == (j - 1) * f
               e == end(j)
    <3>2. b \in Nat /\ e \in 1 .. n /\ b < e
      BY <2>2
    <3> HIDE DEF b, e
    <3>3. b + 1 \in 1 .. n /\ e - (b + 1) + 1 = e - b /\ b + 1 <= e
      BY <1>1, <3>2
    <3>4. /\ SubSeq(seqs, b + 1, e) \in Seq(Nat)
          /\ Len(SubSeq(seqs, b + 1, e)) = e - b
      BY <1>1, <3>2, <3>3, SMTT(30) DEF n
    <3>5. QED
      BY <3>4 DEF b, e
  <2>6. \A j \in 1 .. count : seqs[end(j)] = a + end(j)
    BY <2>2 DEF n
  <2> DEFINE fs == s.out
  <2>7. \A j \in 1 .. count : frame(j) \in Frame
    <3>1. SUFFICES ASSUME NEW j \in 1 .. count  PROVE frame(j) \in Frame
      OBVIOUS
    <3>2. SubSeq(seqs, (j - 1) * f + 1, end(j)) \in Seq(Nat)
      BY <2>5
    <3>3. seqs[end(j)] \in Nat
      <4>1. end(j) \in 1 .. n
        BY <2>2
      <4>2. QED
        BY <4>1, ElementOfSeq DEF n
    <3>4. QED
      BY <3>2, <3>3 DEF Frame
  <2>8. out \in Seq(Frame) /\ Len(out) = count /\ \A j \in 1 .. count : out[j] = frame(j)
    <3> HIDE DEF frame
    <3>1. QED
      BY <2>2, <2>7
  <2> HIDE DEF out, s
  <2>9. s.out = out
    BY <2>3, <2>8
  <2> HIDE DEF fs
  <2>10. \A j \in 1 .. count :
           /\ out[j].cmd = "DATA" /\ out[j].seq = a + end(j)
           /\ Len(out[j].seqs) = end(j) - (j - 1) * f /\ out[j].seqs /= <<>>
           /\ \A i \in 1 .. Len(out[j].seqs) : out[j].seqs[i] = a + ((j - 1) * f + i)
    <3>1. SUFFICES ASSUME NEW j \in 1 .. count
                   PROVE  /\ out[j].cmd = "DATA" /\ out[j].seq = a + end(j)
                          /\ Len(out[j].seqs) = end(j) - (j - 1) * f /\ out[j].seqs /= <<>>
                          /\ \A i \in 1 .. Len(out[j].seqs) :
                               out[j].seqs[i] = a + ((j - 1) * f + i)
      OBVIOUS
    <3>2. /\ out[j].cmd = "DATA" /\ out[j].seq = seqs[end(j)]
          /\ out[j].seqs = SubSeq(seqs, (j - 1) * f + 1, end(j))
      BY <2>8
    <3>3. /\ Len(out[j].seqs) = end(j) - (j - 1) * f
          /\ out[j].seqs \in Seq(Nat)
      BY <2>5, <3>2
    <3>4. end(j) - (j - 1) * f > 0
      BY <2>2
    <3>5. out[j].seqs /= <<>>
      BY <3>3, <3>4
    <3>6. \A i \in 1 .. Len(out[j].seqs) : out[j].seqs[i] = a + ((j - 1) * f + i)
      BY <2>4, <3>2, <3>3
    <3>7. QED
      BY <2>6, <3>2, <3>3, <3>5, <3>6
  <2> HIDE DEF frame
  <2>11. Kinds(out)
    BY <2>8, <2>10 DEF Kinds
  <2>12. \A i \in 1 .. Len(out) : out[i].seq >= a
    BY <2>2, <2>8, <2>10, <1>1, SMTT(30)
  <2>13. \A i, j \in 1 .. Len(out) : i < j => out[i].seq <= out[j].seq
    <3>1. SUFFICES ASSUME NEW i \in 1 .. count, NEW j \in 1 .. count, i < j
                   PROVE  a + end(i) <= a + end(j)
      BY <2>8, <2>10
    <3>2. end(i) = i * f /\ (j - 1) * f < end(j) /\ end(j) \in Nat
      <4>1. i < count
        BY <2>2, <3>1
      <4>2. end(j) \in 1 .. n /\ (j - 1) * f < end(j)
        BY <2>2
      <4>3. end(i) = i * f
        BY <2>2, <4>1
      <4>4. QED
        BY <1>1, <4>2, <4>3
    <3>3. i * f <= (j - 1) * f
      <4>1. i \in Nat /\ j - 1 \in Nat /\ i <= j - 1
        BY <2>2, <3>1
      <4>2. QED
        BY <4>1
    <3>4. i * f \in Nat /\ (j - 1) * f \in Nat
      BY <2>2
    <3> DEFINE b == i * f
               d == (j - 1) * f
    <3>5. end(i) = b /\ d < end(j) /\ b <= d /\ b \in Nat /\ d \in Nat
      BY <3>2, <3>3, <3>4
    <3> HIDE DEF b, d
    <3>6. QED
      BY <3>2, <3>5
  <2>14. \A i \in 1 .. Len(out) : Leads(out[i], IF i = 1 THEN a ELSE out[i - 1].seq)
    <3>1. SUFFICES ASSUME NEW i \in 1 .. count
                   PROVE  Leads(out[i], IF i = 1 THEN a ELSE out[i - 1].seq)
      BY <2>8
    <3> DEFINE b == (i - 1) * f
               e == end(i)
    <3>2. /\ out[i].seq = a + e /\ Len(out[i].seqs) = e - b /\ out[i].seqs /= <<>>
          /\ \A k \in 1 .. Len(out[i].seqs) : out[i].seqs[k] = a + (b + k)
      BY <2>10
    <3>3. b \in Nat /\ e \in Nat /\ b < e
      BY <2>2, <1>1
    <3>4. (IF i = 1 THEN a ELSE out[i - 1].seq) = a + b
      <4>1. CASE i = 1
        <5>1. b = 0
          BY <4>1
        <5>2. QED
          BY <4>1, <5>1
      <4>2. CASE i /= 1
        <5>1. i - 1 \in 1 .. count /\ i - 1 < count
          BY <2>2, <4>2
        <5>2. end(i - 1) = (i - 1) * f
          BY <2>2, <5>1
        <5>3. out[i - 1].seq = a + end(i - 1)
          BY <2>10, <5>1
        <5>4. QED
          BY <4>2, <5>2, <5>3
      <4>3. QED
        BY <4>1, <4>2
    <3> HIDE DEF b, e
    <3>5. /\ a + b >= BaseSeq - 1 /\ a + e = (a + b) + (e - b)
          /\ \A k \in 1 .. Len(out[i].seqs) : a + (b + k) = (a + b) + k
      <4>1. e - b \in Nat /\ BaseSeq \in Nat
        BY <3>3, RingAssumption
      <4>2. QED
        BY <3>2, <3>3, <4>1
    <3>6. Leads(out[i], a + b)
      BY <3>2, <3>5 DEF Leads
    <3>7. QED
      BY <3>4, <3>6
  <2>15. Chain(out, a)
    BY <2>12, <2>13, <2>14 DEF Chain
  <2>16. Tip(out, a) = a + n
    <3>1. out /= <<>> /\ count \in 1 .. count
      BY <2>2, <2>8
    <3>2. Tip(out, a) = out[count].seq
      BY <2>8, <3>1 DEF Tip
    <3>3. QED
      BY <2>2, <2>10, <3>1, <3>2
  <2>17. QED
    BY <1>2, <2>9, <2>11, <2>15, <2>16 DEF s, n
<1>5. QED
  BY <1>3, <1>4

(* A snapshot is a link from anywhere before it. *)
LEMMA SendSnapshotChain ==
  ASSUME NEW v \in View, v.out = <<>>, NEW w \in Nat, NEW a \in Nat, a <= w
  PROVE  LET s == SendSnapshot(v, w) IN
         /\ s.out \in Seq(Frame) /\ Kinds(s.out)
         /\ Chain(s.out, a) /\ Tip(s.out, a) = w
<1> DEFINE s == SendSnapshot(v, w)
           x == [cmd |-> "SNAPSHOT", seqs |-> <<>>, seq |-> w]
<1>1. s.out = Append(<<>>, x)
  BY Zenon DEF SendSnapshot, View
<1>2. x \in Frame
  BY DEF Frame
<1>3. x.seqs = <<>> /\ x.seq = w /\ x.cmd = "SNAPSHOT"
  OBVIOUS
<1> HIDE DEF x, s
<1>4. s.out \in Seq(Frame) /\ Len(s.out) = 1 /\ s.out[1] = x
  BY <1>1, <1>2
<1>5. Kinds(s.out)
  BY <1>3, <1>4 DEF Kinds
<1>6. Leads(x, a)
  BY <1>3 DEF Leads
<1>7. Chain(s.out, a)
  <2>1. \A i \in 1 .. 1 : i = 1
    OBVIOUS
  <2>2. QED
    BY <1>3, <1>4, <1>6, <2>1 DEF Chain
<1>8. s.out /= <<>>
  BY <1>4
<1>9. Tip(s.out, a) = w
  BY <1>3, <1>4, <1>8 DEF Tip
<1>10. QED
  BY <1>4, <1>5, <1>7, <1>9 DEF s

-----------------------------------------------------------------------------
(* The server's side of one connection: what its frames have led to is t,    *)
(* the newest chunk is h.                                                  *)

(* The batch goes on from t, and up to the newest chunk as long as the viewer  *)
(* is fed; the window is the page's to empty.                              *)
Feeds(v, t, h) ==
  /\ BaseSeq - 1 <= t /\ t + Len(v.pending) <= h
  /\ \A i \in 1 .. Len(v.pending) : v.pending[i] = t + i
  /\ Fed(v) => t + Len(v.pending) = h
  /\ v.sentEntries /= <<>> => v.lastSentSeq = t
  /\ \A i \in 1 .. Len(v.sentEntries) : v.sentEntries[i] <= t
  /\ v.pausedForBackpressure => v.acking /\ Len(v.sentEntries) > AckLow
  /\ v.paused => v.pausedForBackpressure \/ v.pausedView

(* s has sent frames that lead from t to where it goes on from. *)
Sends(s, t, h) ==
  /\ s.out \in Seq(Frame) /\ Kinds(s.out) /\ Chain(s.out, t)
  /\ Feeds(s, Tip(s.out, t), h)

(* Nothing of what Feeds is about has changed. *)
SameFeed(v, w) ==
  /\ w.pending = v.pending /\ w.sentEntries = v.sentEntries
  /\ w.lastSentSeq = v.lastSentSeq /\ SameFlags(v, w)

LEMMA SameFeeds ==
  ASSUME NEW v, NEW w, SameFeed(v, w), NEW t, NEW h, Feeds(v, t, h)
  PROVE  Feeds(w, t, h)
BY Zenon DEF SameFeed, SameFlags, Feeds, Fed

(* What says nothing has nothing to lead anywhere. *)
LEMMA SilentSends ==
  ASSUME NEW s, s.out = <<>>, NEW t, NEW h, Feeds(s, t, h)
  PROVE  Sends(s, t, h) /\ Tip(s.out, t) = t
<1>1. Tip(s.out, t) = t
  BY DEF Tip
<1>2. Kinds(s.out) /\ Chain(s.out, t)
  BY DEF Kinds, Chain
<1>3. s.out \in Seq(Frame)
  BY EmptyIn
<1>4. QED
  BY <1>1, <1>2, <1>3 DEF Sends

(* The entries of a window are numbers. *)
LEMMA ViewIn ==
  ASSUME NEW v \in View
  PROVE  /\ v.pending \in Seq(Nat) /\ v.sentEntries \in Seq(Nat) /\ v.lastSentSeq \in Nat
         /\ v.ack \in Nat /\ Len(v.pending) \in Nat /\ Len(v.sentEntries) \in Nat
         /\ \A i \in 1 .. Len(v.sentEntries) : v.sentEntries[i] \in Nat
         /\ v.out \in Seq(Frame)
<1>1. /\ v.pending \in Seq(Nat) /\ v.sentEntries \in Seq(Nat) /\ v.lastSentSeq \in Nat
      /\ v.ack \in Nat /\ v.out \in Seq(Frame)
  BY Zenon DEF View
<1>2. QED
  BY <1>1

(* Chunks t + 1 .. t + n, sent as data, lead from t to t + n, and join the     *)
(* window.                                                                 *)
LEMMA StretchSent ==
  ASSUME NEW v \in View, v.out = <<>>, NEW seqs \in Seq(Nat), Len(seqs) > 0,
         NEW f \in Nat \ {0}, NEW t \in Nat, BaseSeq - 1 <= t,
         \A i \in 1 .. Len(seqs) : seqs[i] = t + i,
         \A i \in 1 .. Len(v.sentEntries) : v.sentEntries[i] <= t
  PROVE  LET s == SendData(v, seqs, f) IN
         /\ s \in View /\ s.pending = v.pending /\ s.ack = v.ack /\ SameFlags(v, s)
         /\ s.out \in Seq(Frame) /\ Kinds(s.out) /\ Chain(s.out, t)
         /\ Tip(s.out, t) = t + Len(seqs) /\ s.lastSentSeq = t + Len(seqs)
         /\ Len(s.sentEntries) = Len(v.sentEntries) + Len(seqs)
         /\ \A i \in 1 .. Len(s.sentEntries) : s.sentEntries[i] <= t + Len(seqs)
<1> DEFINE s == SendData(v, seqs, f)
           n == Len(seqs)
<1>1. n \in Nat /\ n > 0 /\ n \in 1 .. n /\ seqs[n] = t + n
  OBVIOUS
<1>2. \A i \in 1 .. Len(seqs) : seqs[i] <= seqs[Len(seqs)]
  BY <1>1
<1>3. /\ s.out \in Seq(Frame) /\ Kinds(s.out) /\ Chain(s.out, t) /\ Tip(s.out, t) = t + n
  BY SendDataChain
<1>4. s \in View
  BY SendDataType
<1>5. /\ s.pending = v.pending /\ s.lastSentSeq = seqs[n] /\ s.ack = v.ack
      /\ Len(s.sentEntries) = Len(v.sentEntries) + n
      /\ \A i \in 1 .. Len(v.sentEntries) : s.sentEntries[i] = v.sentEntries[i]
      /\ \A i \in 1 .. Len(s.sentEntries) :
           i > Len(v.sentEntries) => s.sentEntries[i] <= seqs[n]
      /\ SameFlags(v, s)
  BY <1>1, <1>2, SendDataFields, ZenonT(60)
<1>6. Len(v.sentEntries) \in Nat /\ \A i \in 1 .. Len(v.sentEntries) : v.sentEntries[i] \in Nat
  BY ViewIn
<1> HIDE DEF s
<1>7. \A i \in 1 .. Len(s.sentEntries) : s.sentEntries[i] <= t + n
  <2>1. SUFFICES ASSUME NEW i \in 1 .. Len(s.sentEntries)  PROVE s.sentEntries[i] <= t + n
    OBVIOUS
  <2>2. CASE i > Len(v.sentEntries)
    BY <1>1, <1>5, <2>2
  <2>3. CASE i \in 1 .. Len(v.sentEntries)
    <3>1. s.sentEntries[i] = v.sentEntries[i] /\ v.sentEntries[i] <= t /\ v.sentEntries[i] \in Nat
      BY <1>5, <1>6, <2>3
    <3>2. QED
      BY <1>1, <3>1
  <2>4. QED
    BY <1>1, <1>5, <1>6, <2>2, <2>3
<1>8. QED
  BY <1>1, <1>3, <1>4, <1>5, <1>7, Zenon DEF s, n

(* The batch leaves as a link of the chain; only a window that is too full     *)
(* stalls the viewer.                                                      *)
LEMMA FlushFeeds ==
  ASSUME NEW v \in View, v.out = <<>>, v.joined, NEW t \in Nat, NEW h \in Nat, Feeds(v, t, h)
  PROVE  LET r == Flush(v, FALSE) IN
         /\ Sends(r, t, h) /\ r.joined /\ r.batcher = v.batcher /\ r.ack = v.ack
         /\ r.pausedView = v.pausedView
         /\ r.sentEntries = v.sentEntries \/ Tip(r.out, t) > t
<1> DEFINE r == Flush(v, FALSE)
           m == v.pending
           e == [v EXCEPT !.timer = FALSE, !.pending = <<>>]
           s == SendData(e, m, Len(m))
           p == [s EXCEPT !.pausedForBackpressure = TRUE, !.paused = s.joined,
                          !.drainTimer = s.drainTimer \/ ~s.acking]
<1>1. /\ m \in Seq(Nat) /\ v.sentEntries \in Seq(Nat) /\ Len(m) \in Nat
      /\ Len(v.sentEntries) \in Nat
  BY ViewIn
<1>2. CASE m = <<>>
  <2>1. r = [v EXCEPT !.timer = FALSE]
    BY <1>2, Zenon DEF Flush
  <2>2. SameFeed(v, r) /\ r.out = <<>> /\ r.ack = v.ack
    BY <2>1, Zenon DEF View, SameFeed, SameFlags
  <2> HIDE DEF r
  <2>3. Sends(r, t, h)
    BY <2>2, SameFeeds, SilentSends
  <2>4. QED
    BY <2>2, <2>3, Zenon DEF r, SameFeed, SameFlags
<1>3. CASE m /= <<>>
  <2>1. Len(m) \in Nat \ {0} /\ Len(m) > 0
    BY <1>1, <1>3
  <2>2. /\ e \in View /\ e.pending = <<>> /\ e.sentEntries = v.sentEntries
        /\ e.lastSentSeq = v.lastSentSeq /\ e.ack = v.ack /\ e.out = <<>>
        /\ SameFlags(v, e)
    BY EmptyIn, Zenon DEF View, SameFlags
  <2>3. /\ BaseSeq - 1 <= t /\ t + Len(m) <= h
        /\ \A i \in 1 .. Len(m) : m[i] = t + i
        /\ \A i \in 1 .. Len(v.sentEntries) : v.sentEntries[i] <= t
        /\ Fed(v) => t + Len(m) = h
        /\ v.pausedForBackpressure => v.acking /\ Len(v.sentEntries) > AckLow
        /\ v.paused => v.pausedForBackpressure \/ v.pausedView
    BY DEF Feeds
  <2> HIDE DEF e, m
  <2>4. /\ s \in View /\ s.pending = <<>> /\ s.ack = v.ack /\ SameFlags(e, s)
        /\ s.out \in Seq(Frame) /\ Kinds(s.out) /\ Chain(s.out, t)
        /\ Tip(s.out, t) = t + Len(m) /\ s.lastSentSeq = t + Len(m)
        /\ Len(s.sentEntries) = Len(v.sentEntries) + Len(m)
        /\ \A i \in 1 .. Len(s.sentEntries) : s.sentEntries[i] <= t + Len(m)
    <3>1. \A i \in 1 .. Len(e.sentEntries) : e.sentEntries[i] <= t
      BY <2>2, <2>3
    <3>2. /\ s \in View /\ s.pending = e.pending /\ s.ack = e.ack /\ SameFlags(e, s)
          /\ s.out \in Seq(Frame) /\ Kinds(s.out) /\ Chain(s.out, t)
          /\ Tip(s.out, t) = t + Len(m) /\ s.lastSentSeq = t + Len(m)
          /\ Len(s.sentEntries) = Len(e.sentEntries) + Len(m)
          /\ \A i \in 1 .. Len(s.sentEntries) : s.sentEntries[i] <= t + Len(m)
      BY <1>1, <2>1, <2>2, <2>3, <3>1, StretchSent
    <3> HIDE DEF s
    <3>3. QED
      BY <2>2, <3>2, Zenon
  <2>5. SameFlags(v, s)
    BY <2>2, <2>4, Zenon DEF SameFlags
  <2>6. r = IF s.pausedForBackpressure \/ ~Stalls(s, FALSE) THEN s ELSE p
    BY <1>3, Zenon DEF Flush, s, p, e, m
  <2>7. /\ p.pending = s.pending /\ p.sentEntries = s.sentEntries /\ p.lastSentSeq = s.lastSentSeq
        /\ p.out = s.out /\ p.ack = s.ack /\ p.batcher = s.batcher /\ p.pausedView = s.pausedView
        /\ p.acking = s.acking /\ p.joined = s.joined /\ p.paused = s.joined
        /\ p.pausedForBackpressure = TRUE
    BY <2>4, Zenon DEF View
  <2> HIDE DEF s, p, r
  <2>8. Len(s.sentEntries) \in Nat /\ AckLow \in Nat /\ AckHigh \in Nat /\ AckLow <= AckHigh
    BY <1>1, <2>4, ViewerAssumption
  <2>9. /\ BaseSeq - 1 <= t + Len(m) /\ (t + Len(m)) + 0 = t + Len(m) /\ t + Len(m) \in Nat
        /\ t + Len(m) > t
    BY <1>1, <2>1, <2>3, RingAssumption
  <2>10. Len(<<>>) = 0 /\ \A i \in 1 .. Len(<<>>) : FALSE
    OBVIOUS
  <2>11. Feeds(s, t + Len(m), h)
    <3>1. s.pausedForBackpressure => s.acking /\ Len(s.sentEntries) > AckLow
      <4>1. SUFFICES ASSUME s.pausedForBackpressure
                     PROVE  s.acking /\ Len(s.sentEntries) > AckLow
        OBVIOUS
      <4>2. v.acking /\ Len(v.sentEntries) > AckLow /\ s.acking
        BY <2>3, <2>5, <4>1 DEF SameFlags
      <4>3. QED
        BY <1>1, <2>1, <2>4, <2>8, <4>2
    <3>2. s.paused => s.pausedForBackpressure \/ s.pausedView
      BY <2>3, <2>5 DEF SameFlags
    <3>3. Fed(s) => t + Len(m) = h
      BY <2>3, <2>5 DEF SameFlags, Fed
    <3>4. /\ (t + Len(m)) + Len(s.pending) = t + Len(m)
          /\ \A i \in 1 .. Len(s.pending) : s.pending[i] = (t + Len(m)) + i
      BY <2>4, <2>9, <2>10
    <3>5. QED
      BY <2>3, <2>4, <2>9, <3>1, <3>2, <3>3, <3>4 DEF Feeds
  <2>12. CASE r = s
    <3>1. Sends(r, t, h)
      BY <2>4, <2>11, <2>12 DEF Sends
    <3>2. QED
      BY <2>4, <2>5, <2>9, <2>12, <3>1 DEF SameFlags, r
  <2>13. CASE r = p /\ Stalls(s, FALSE)
    <3>1. s.acking /\ Len(s.sentEntries) > AckHigh
      BY <2>13 DEF Stalls
    <3>2. Len(p.sentEntries) > AckLow
      BY <2>7, <2>8, <3>1
    <3>3. ~Fed(p)
      BY <2>7 DEF Fed
    <3>4. /\ (t + Len(m)) + Len(p.pending) = t + Len(m)
          /\ \A i \in 1 .. Len(p.pending) : p.pending[i] = (t + Len(m)) + i
      BY <2>4, <2>7, <2>9, <2>10
    <3>5. /\ \A i \in 1 .. Len(p.sentEntries) : p.sentEntries[i] <= t + Len(m)
          /\ p.lastSentSeq = t + Len(m)
      BY <2>4, <2>7
    <3>6. Feeds(p, t + Len(m), h)
      BY <2>3, <2>7, <2>9, <3>1, <3>2, <3>3, <3>4, <3>5 DEF Feeds
    <3>7. Sends(r, t, h)
      BY <2>4, <2>7, <2>13, <3>6 DEF Sends
    <3>8. QED
      BY <2>4, <2>5, <2>7, <2>9, <2>13, <3>7 DEF SameFlags, r
  <2>14. QED
    BY <2>6, <2>12, <2>13
<1>4. QED
  BY <1>2, <1>3

(* A viewer that is not fed need not hear of a new chunk. *)
LEMMA UnfedFeeds ==
  ASSUME NEW v \in View, NEW t \in Nat, NEW h \in Nat, Feeds(v, t, h), ~Fed(v)
  PROVE  Feeds(v, t, h + 1)
<1>1. Len(v.pending) \in Nat
  BY ViewIn
<1>2. t + Len(v.pending) <= h + 1
  BY <1>1 DEF Feeds
<1>3. QED
  BY <1>2 DEF Feeds

(* A new chunk joins the batch of a viewer that is fed. *)
LEMMA EnqueueFeeds ==
  ASSUME NEW v \in View, v.out = <<>>, v.joined, ~v.paused,
         NEW t \in Nat, NEW h \in Nat, Feeds(v, t, h), NEW n, n = h + 1, NEW small
  PROVE  LET r == Enqueue(v, n, small, FALSE) IN
         /\ Sends(r, t, n) /\ r.joined /\ r.batcher = v.batcher /\ r.ack = v.ack
         /\ r.pausedView = v.pausedView
         /\ r.sentEntries = v.sentEntries \/ Tip(r.out, t) > t
<1> DEFINE a == Append(v.pending, n)
           p == [v EXCEPT !.pending = Append(@, n)]
           q == [p EXCEPT !.timer = TRUE]
           r == Enqueue(v, n, small, FALSE)
<1>1. CASE v.pausedView \/ v.pausedForBackpressure
  <2>1. r = v
    BY <1>1, Zenon DEF Enqueue
  <2>2. ~Fed(v)
    BY <1>1 DEF Fed
  <2>3. Feeds(v, t, n)
    BY <2>2, UnfedFeeds
  <2>4. QED
    BY <2>1, <2>3, SilentSends
<1>2. CASE ~(v.pausedView \/ v.pausedForBackpressure)
  <2>1. Fed(v)
    BY <1>2 DEF Fed
  <2>2. v.pending \in Seq(Nat) /\ Len(v.pending) \in Nat /\ n \in Nat
    BY ViewIn
  <2>3. /\ BaseSeq - 1 <= t /\ t + Len(v.pending) = h
        /\ \A i \in 1 .. Len(v.pending) : v.pending[i] = t + i
    BY <2>1 DEF Feeds
  <2>4. /\ a \in Seq(Nat) /\ Len(a) = Len(v.pending) + 1
        /\ \A i \in 1 .. Len(a) : a[i] = t + i
        /\ t + Len(a) = n
    <3>1. /\ a \in Seq(Nat) /\ Len(a) = Len(v.pending) + 1 /\ a[Len(a)] = n
          /\ \A i \in 1 .. Len(v.pending) : a[i] = v.pending[i]
      BY <2>2, AppendedBatch
    <3> HIDE DEF a
    <3>2. t + Len(a) = n
      <4>1. Len(a) = Len(v.pending) + 1 /\ t + Len(v.pending) = h /\ Len(v.pending) \in Nat
        BY <2>2, <2>3, <3>1
      <4>2. QED
        BY <4>1
    <3>3. \A i \in 1 .. Len(a) : i \in 1 .. Len(v.pending) \/ i = Len(a)
      BY <2>2, <3>1
    <3>4. QED
      BY <2>3, <3>1, <3>2, <3>3
  <2>5. /\ p \in View /\ p.pending = a /\ p.sentEntries = v.sentEntries /\ p.out = <<>>
        /\ p.lastSentSeq = v.lastSentSeq /\ p.ack = v.ack /\ SameFlags(v, p)
    <3>1. Append(v.pending, n) \in Seq(Nat)
      BY <2>4
    <3>2. QED
      BY <3>1, Zenon DEF View, SameFlags
  <2>6. /\ q \in View /\ SameFeed(p, q) /\ q.out = <<>> /\ q.ack = v.ack
    BY <2>5, ZenonT(60) DEF View, SameFeed, SameFlags
  <2>7. r = IF Len(p.pending) >= MaxBatch \/ (small /\ ~p.timer) THEN Flush(p, FALSE) ELSE q
    BY <1>2, Zenon DEF Enqueue
  <2> HIDE DEF a, p, q, r
  <2>8. Feeds(p, t, n)
    <3>1. t + Len(p.pending) = n /\ \A i \in 1 .. Len(p.pending) : p.pending[i] = t + i
      BY <2>4, <2>5
    <3>2. n <= n
      BY <2>2
    <3>3. /\ v.sentEntries /= <<>> => v.lastSentSeq = t
          /\ \A i \in 1 .. Len(v.sentEntries) : v.sentEntries[i] <= t
          /\ v.pausedForBackpressure => v.acking /\ Len(v.sentEntries) > AckLow
          /\ v.paused => v.pausedForBackpressure \/ v.pausedView
      BY DEF Feeds
    <3>4. QED
      BY <2>3, <2>5, <3>1, <3>2, <3>3, Zenon DEF Feeds, SameFlags
  <2>9. p.joined /\ p.batcher = v.batcher /\ p.pausedView = v.pausedView
    BY <2>5, Zenon DEF SameFlags
  <2>10. CASE r = Flush(p, FALSE)
    <3>1. /\ Sends(r, t, n) /\ r.joined /\ r.batcher = p.batcher /\ r.ack = p.ack
          /\ r.pausedView = p.pausedView
          /\ r.sentEntries = p.sentEntries \/ Tip(r.out, t) > t
      BY <2>2, <2>5, <2>8, <2>9, <2>10, FlushFeeds
    <3>2. QED
      BY <2>5, <2>9, <3>1, Zenon DEF r
  <2>11. CASE r = q
    <3>1. Feeds(q, t, n)
      BY <2>6, <2>8, SameFeeds
    <3>2. Sends(q, t, n)
      BY <2>6, <3>1, SilentSends
    <3>3. QED
      BY <2>5, <2>6, <2>9, <2>11, <3>2, Zenon DEF r, SameFeed, SameFlags
  <2>12. QED
    BY <2>7, <2>10, <2>11
<1>3. QED
  BY <1>1, <1>2

(* The ring is about the stream from BaseSeq on. *)
LEMMA HeadIn ==
  ASSUME RingTypeOK, Window
  PROVE  LastSeq \in Nat /\ BaseSeq \in Nat /\ BaseSeq - 1 <= LastSeq /\ 0 < LastSeq
<1>1. LastSeq \in Nat
  BY LastSeqIn
<1>2. /\ baseSeq >= BaseSeq /\ baseSeq + Len(buf) = nextSeq /\ Len(buf) \in Nat
      /\ baseSeq \in Nat /\ nextSeq \in Nat
  BY DEF RingTypeOK, Window
<1>3. BaseSeq \in Nat /\ BaseSeq > 1
  BY RingAssumption
<1>4. QED
  BY <1>1, <1>2, <1>3 DEF LastSeq

(* A delta from s leads from s to the head; one that is empty says nothing.   *)
LEMMA DeltaSent ==
  ASSUME RingTypeOK, Window, NEW v \in View, v.out = <<>>, NEW s \in Nat, s <= LastSeq,
         CanReplaySince(s), \A i \in 1 .. Len(v.sentEntries) : v.sentEntries[i] <= s,
         NEW f \in Nat \ {0}
  PROVE  LET r == SendData(v, SinceSeqs(s), f) IN
         /\ r \in View /\ r.pending = v.pending /\ r.ack = v.ack /\ SameFlags(v, r)
         /\ r.out \in Seq(Frame) /\ Kinds(r.out) /\ Chain(r.out, s) /\ Tip(r.out, s) = LastSeq
         /\ \A i \in 1 .. Len(r.sentEntries) : r.sentEntries[i] <= LastSeq
         /\ \/ r.sentEntries = v.sentEntries /\ r.lastSentSeq = v.lastSentSeq /\ s = LastSeq
            \/ r.lastSentSeq = LastSeq /\ s < LastSeq
<1> DEFINE d == SinceSeqs(s)
           r == SendData(v, d, f)
<1>1. /\ d \in Seq(Nat) /\ Len(d) = LastSeq - s
      /\ \A i \in 1 .. Len(d) : d[i] = s + i
  BY SinceSeqsAre
<1>2. LastSeq \in Nat /\ BaseSeq - 1 <= s
  <2>1. baseSeq >= BaseSeq /\ baseSeq \in Nat /\ s >= baseSeq - 1
    BY DEF Window, RingTypeOK, CanReplaySince
  <2>2. QED
    BY <2>1, HeadIn
<1> HIDE DEF d
<1>3. CASE s = LastSeq
  <2>1. Len(d) = 0
    BY <1>1, <1>2, <1>3
  <2>2. r = v
    BY <2>1 DEF SendData
  <2>3. Kinds(v.out) /\ Chain(v.out, s) /\ Tip(v.out, s) = s
    BY DEF Kinds, Chain, Tip
  <2>4. v.out \in Seq(Frame) /\ SameFlags(v, v)
    BY EmptyIn DEF SameFlags
  <2> HIDE DEF r
  <2>5. QED
    BY <1>3, <2>2, <2>3, <2>4 DEF r, d
<1>4. CASE s < LastSeq
  <2>1. Len(d) > 0 /\ s + Len(d) = LastSeq
    BY <1>1, <1>2, <1>4
  <2>2. /\ r \in View /\ r.pending = v.pending /\ r.ack = v.ack /\ SameFlags(v, r)
        /\ r.out \in Seq(Frame) /\ Kinds(r.out) /\ Chain(r.out, s)
        /\ Tip(r.out, s) = s + Len(d) /\ r.lastSentSeq = s + Len(d)
        /\ \A i \in 1 .. Len(r.sentEntries) : r.sentEntries[i] <= s + Len(d)
    BY <1>1, <1>2, <2>1, StretchSent, SMTT(30)
  <2> HIDE DEF r
  <2>3. QED
    BY <1>4, <2>1, <2>2 DEF r, d
<1>5. QED
  BY <1>2, <1>3, <1>4

(* A resync leads from where the page says it is to the head, and starts the  *)
(* viewer's accounting over.                                               *)
Resynced(v, from, forced) ==
  SendResync([ResetBatcherForResync(WithBatcher(v)) EXCEPT !.pausedView = FALSE], from, forced)

LEMMA ResyncLeads ==
  ASSUME RingTypeOK, Window, frozen = NotFrozen, NEW v \in View, v.out = <<>>,
         NEW from \in Nat, from <= LastSeq, NEW forced
  PROVE  LET s == Resynced(v, from, forced) IN
         /\ s \in View /\ s.pending = <<>> /\ s.ack = v.ack /\ s.joined = v.joined
         /\ s.batcher = TRUE /\ s.pausedForBackpressure = FALSE /\ s.pausedView = FALSE
         /\ s.out \in Seq(Frame) /\ Kinds(s.out)
         /\ Chain(s.out, from) /\ Tip(s.out, from) = LastSeq
         /\ \A i \in 1 .. Len(s.sentEntries) : s.sentEntries[i] <= LastSeq
         /\ \/ s.sentEntries = <<>>
            \/ s.lastSentSeq = LastSeq /\ from < LastSeq
<1> DEFINE b == [ResetBatcherForResync(WithBatcher(v)) EXCEPT !.pausedView = FALSE]
           c == [b EXCEPT !.have = Claimed(from)]
           s == SendResync(b, from, forced)
<1>1. LastSeq \in Nat
  BY HeadIn
<1>2. /\ b \in View /\ b.pending = <<>> /\ b.sentEntries = <<>> /\ b.out = <<>>
      /\ b.ack = v.ack /\ b.joined = v.joined /\ b.batcher = TRUE
      /\ b.pausedForBackpressure = FALSE /\ b.pausedView = FALSE
  <2>1. /\ ResetBatcherForResync(WithBatcher(v)) \in View
        /\ ResetBatcherForResync(WithBatcher(v)).pending = <<>>
        /\ ResetBatcherForResync(WithBatcher(v)).sentEntries = <<>>
        /\ ResetBatcherForResync(WithBatcher(v)).out = <<>>
        /\ ResetBatcherForResync(WithBatcher(v)).ack = v.ack
        /\ ResetBatcherForResync(WithBatcher(v)).joined = v.joined
        /\ ResetBatcherForResync(WithBatcher(v)).batcher = TRUE
        /\ ResetBatcherForResync(WithBatcher(v)).pausedForBackpressure = FALSE
    BY EmptyIn, Zenon DEF ResetBatcherForResync, WithBatcher, View
  <2>2. QED
    BY <2>1, Zenon DEF View
<1>3. Resynced(v, from, forced) = s
  BY DEF Resynced
<1> HIDE DEF b
<1>4. CASE ~forced /\ from > 0 /\ CanReplaySince(from) /\ Len(Since(from)) <= ReplayMax
  <2>1. s = SendData(c, SinceSeqs(from), ReplayFrame)
    BY <1>4, Zenon DEF SendResync
  <2>2. Claimed(from) \in SUBSET Nat
    BY RingAssumption DEF Claimed
  <2>3. /\ c \in View /\ c.pending = <<>> /\ c.sentEntries = <<>> /\ c.out = <<>>
        /\ c.ack = v.ack /\ c.joined = v.joined /\ c.batcher = TRUE
        /\ c.pausedForBackpressure = FALSE /\ c.pausedView = FALSE
    BY <1>2, <2>2, Zenon DEF View
  <2> HIDE DEF c, s
  <2>4. ReplayFrame \in Nat \ {0} /\ \A i \in 1 .. Len(c.sentEntries) : c.sentEntries[i] <= from
    BY <2>3, ViewerAssumption
  <2>5. /\ s \in View /\ s.pending = c.pending /\ s.ack = c.ack /\ SameFlags(c, s)
        /\ s.out \in Seq(Frame) /\ Kinds(s.out) /\ Chain(s.out, from) /\ Tip(s.out, from) = LastSeq
        /\ \A i \in 1 .. Len(s.sentEntries) : s.sentEntries[i] <= LastSeq
        /\ \/ s.sentEntries = c.sentEntries /\ s.lastSentSeq = c.lastSentSeq /\ from = LastSeq
           \/ s.lastSentSeq = LastSeq /\ from < LastSeq
    BY <1>4, <2>1, <2>3, <2>4, DeltaSent
  <2>6. QED
    BY <1>3, <2>3, <2>5, Zenon DEF SameFlags
<1>5. CASE ~(~forced /\ from > 0 /\ CanReplaySince(from) /\ Len(Since(from)) <= ReplayMax)
  <2>1. s = SendSnapshot(b, LastSeq)
    BY <1>5, Zenon DEF SendResync
  <2>2. /\ s.out \in Seq(Frame) /\ Kinds(s.out) /\ Chain(s.out, from) /\ Tip(s.out, from) = LastSeq
    BY <1>1, <1>2, <2>1, SendSnapshotChain
  <2>3. s \in View
    BY <1>1, <1>2, <2>1, SendSnapshotType
  <2> HIDE DEF s
  <2>4. s.pending = b.pending /\ s.sentEntries = <<>> /\ s.ack = b.ack /\ SameFlags(b, s)
    BY <1>1, <1>2, <2>1, SendSnapshotFields
  <2>5. \A i \in 1 .. Len(s.sentEntries) : s.sentEntries[i] <= LastSeq
    BY <2>4
  <2>6. QED
    BY <1>2, <1>3, <2>2, <2>3, <2>4, <2>5, Zenon DEF SameFlags
<1>6. QED
  BY <1>4, <1>5

(* What RESUME_VIEW makes of it. *)
Resumed(v, from, forced) == [Resynced(v, from, forced) EXCEPT !.paused = FALSE]

(* A resynced viewer is fed from the head on, once it is in and unpaused. *)
LEMMA ResyncFeeds ==
  ASSUME RingTypeOK, Window, frozen = NotFrozen, NEW v \in View, v.out = <<>>,
         NEW from \in Nat, from <= LastSeq, NEW forced,
         NEW r, \/ r = WireSession(Resynced(v, from, forced))
                \/ r = Resumed(v, from, forced) /\ v.joined
  PROVE  /\ r.joined /\ r.batcher /\ r.ack = v.ack /\ r.pausedView = FALSE
         /\ r.out \in Seq(Frame) /\ Kinds(r.out) /\ Chain(r.out, from)
         /\ Feeds(r, Tip(r.out, from), LastSeq)
         /\ r.sentEntries = <<>> \/ Tip(r.out, from) > from
<1> DEFINE s == Resynced(v, from, forced)
<1>1. /\ s \in View /\ s.pending = <<>> /\ s.ack = v.ack /\ s.joined = v.joined
      /\ s.batcher = TRUE /\ s.pausedForBackpressure = FALSE /\ s.pausedView = FALSE
      /\ s.out \in Seq(Frame) /\ Kinds(s.out)
      /\ Chain(s.out, from) /\ Tip(s.out, from) = LastSeq
      /\ \A i \in 1 .. Len(s.sentEntries) : s.sentEntries[i] <= LastSeq
      /\ \/ s.sentEntries = <<>>
         \/ s.lastSentSeq = LastSeq /\ from < LastSeq
  BY ResyncLeads
<1> HIDE DEF s
<1>2. r = WireSession(s) \/ (r = [s EXCEPT !.paused = FALSE] /\ v.joined)
  BY Zenon DEF s, Resumed
<1>3. /\ r.pending = <<>> /\ r.ack = v.ack /\ r.joined /\ r.paused = FALSE
      /\ r.batcher = TRUE /\ r.pausedForBackpressure = FALSE /\ r.pausedView = FALSE
      /\ r.out = s.out /\ r.sentEntries = s.sentEntries /\ r.lastSentSeq = s.lastSentSeq
  <2>1. CASE r = WireSession(s)
    BY <1>1, <2>1, Zenon DEF WireSession, WithBatcher, View
  <2>2. CASE r = [s EXCEPT !.paused = FALSE] /\ v.joined
    BY <1>1, <2>2, Zenon DEF View
  <2>3. QED
    BY <1>2, <2>1, <2>2
<1>4. LastSeq \in Nat /\ BaseSeq - 1 <= LastSeq
  BY HeadIn
<1>5. Len(r.pending) = 0 /\ LastSeq + 0 = LastSeq /\ \A i \in 1 .. Len(r.pending) : FALSE
  BY <1>3, <1>4
<1>6. Feeds(r, LastSeq, LastSeq)
  BY <1>1, <1>3, <1>4, <1>5 DEF Feeds
<1>7. QED
  BY <1>1, <1>3, <1>6

(* An ack opens the window; a stalled viewer whose window is open enough gets  *)
(* the rest of the stream.                                                 *)
LEMMA AckFeeds ==
  ASSUME RingTypeOK, Window, NEW v \in View, v.out = <<>>, v.joined,
         v.pausedForBackpressure => v.pending = <<>>,
         NEW t \in Nat, Feeds(v, t, LastSeq), NEW seq \in Nat, NEW forced
  PROVE  LET r == HandleViewerAck(v, seq, forced) IN
         /\ Sends(r, t, LastSeq) /\ r.joined /\ r.batcher = v.batcher /\ r.ack = seq
         /\ r.pausedView = v.pausedView
         /\ r.sentEntries = <<>> \/ Tip(r.out, t) > t \/ (t > seq /\ v.sentEntries /= <<>>)
<1> DEFINE n == Len(v.sentEntries)
           k == Acked(v, seq)
           q == SubSeq(v.sentEntries, k + 1, n)
           a == [v EXCEPT !.ack = seq, !.acking = TRUE, !.sentEntries = q]
           r == [a EXCEPT !.pausedForBackpressure = FALSE, !.paused = FALSE]
           s == HandleViewerAck(v, seq, forced)
<1>1. /\ v.sentEntries \in Seq(Nat) /\ n \in Nat /\ Len(v.pending) \in Nat
      /\ \A i \in 1 .. n : v.sentEntries[i] \in Nat
  BY ViewIn
<1>2. /\ k \in 0 .. n
      /\ k < n => v.sentEntries[k + 1] > seq
  BY <1>1, AckedIn
<1>3. /\ BaseSeq - 1 <= t /\ t + Len(v.pending) <= LastSeq
      /\ \A i \in 1 .. Len(v.pending) : v.pending[i] = t + i
      /\ Fed(v) => t + Len(v.pending) = LastSeq
      /\ v.sentEntries /= <<>> => v.lastSentSeq = t
      /\ \A i \in 1 .. n : v.sentEntries[i] <= t
      /\ v.pausedForBackpressure => v.acking /\ n > AckLow
      /\ v.paused => v.pausedForBackpressure \/ v.pausedView
  BY DEF Feeds
<1>4. LastSeq \in Nat /\ AckLow \in Nat /\ t <= LastSeq
  BY <1>1, <1>3, HeadIn, ViewerAssumption
<1> HIDE DEF k, n
<1>5. q \in Seq(Nat) /\ Len(q) = n - k /\ \A i \in 1 .. Len(q) : q[i] = v.sentEntries[k + i]
  <2>1. n = Len(v.sentEntries)
    BY DEF n
  <2>2. QED
    BY <1>1, <1>2, <2>1
<1> HIDE DEF q
<1>6. \A i \in 1 .. Len(q) : q[i] <= t
  <2>1. SUFFICES ASSUME NEW i \in 1 .. Len(q)  PROVE q[i] <= t
    OBVIOUS
  <2>2. q[i] = v.sentEntries[k + i] /\ k + i \in 1 .. n
    BY <1>1, <1>2, <1>5
  <2>3. QED
    BY <1>3, <2>2
<1>7. q /= <<>> => v.sentEntries /= <<>> /\ v.lastSentSeq = t /\ t > seq
  <2>1. SUFFICES ASSUME q /= <<>>  PROVE v.sentEntries /= <<>> /\ v.lastSentSeq = t /\ t > seq
    OBVIOUS
  <2>2. k < n /\ k + 1 \in 1 .. n
    BY <1>1, <1>2, <1>5, <2>1
  <2>3. v.sentEntries[k + 1] > seq /\ v.sentEntries[k + 1] <= t /\ v.sentEntries[k + 1] \in Nat
    BY <1>1, <1>2, <1>3, <2>2
  <2>4. v.sentEntries /= <<>>
    BY <1>1, <2>2 DEF n
  <2>5. QED
    BY <1>3, <2>3, <2>4
<1>8. /\ a \in View /\ a.pending = v.pending /\ a.sentEntries = q /\ a.out = <<>>
      /\ a.lastSentSeq = v.lastSentSeq /\ a.ack = seq /\ a.acking = TRUE
      /\ a.joined = v.joined /\ a.paused = v.paused /\ a.batcher = v.batcher
      /\ a.pausedForBackpressure = v.pausedForBackpressure /\ a.pausedView = v.pausedView
  BY <1>5, Zenon DEF View
<1>9. /\ r \in View /\ r.pending = v.pending /\ r.sentEntries = q /\ r.out = <<>>
      /\ r.lastSentSeq = v.lastSentSeq /\ r.ack = seq /\ r.acking = TRUE
      /\ r.joined = v.joined /\ r.paused = FALSE /\ r.batcher = v.batcher
      /\ r.pausedForBackpressure = FALSE /\ r.pausedView = v.pausedView
  BY <1>8, ZenonT(60) DEF View
<1>10. s = IF ~a.pausedForBackpressure \/ Len(a.sentEntries) > AckLow THEN a
           ELSE IF ~forced /\ CanReplaySince(r.lastSentSeq)
                THEN SendData(r, SinceSeqs(r.lastSentSeq), 1)
                ELSE SendSnapshot(r, LastSeq)
  BY Zenon DEF HandleViewerAck, a, r, q, k, n
<1> HIDE DEF a, r, s
<1>11. CASE ~v.pausedForBackpressure \/ Len(q) > AckLow
  <2>1. s = a
    BY <1>8, <1>10, <1>11
  <2>2. Fed(a) => Fed(v)
    BY <1>8 DEF Fed
  <2>3. Feeds(a, t, LastSeq)
    BY <1>3, <1>6, <1>7, <1>8, <1>11, <2>2 DEF Feeds
  <2>4. Sends(a, t, LastSeq)
    BY <1>8, <2>3, SilentSends
  <2>5. QED
    BY <1>7, <1>8, <2>1, <2>4 DEF s
<1>12. CASE ~(~v.pausedForBackpressure \/ Len(q) > AckLow)
  <2>1. v.pending = <<>> /\ v.sentEntries /= <<>> /\ v.lastSentSeq = t
    <3>1. v.pausedForBackpressure /\ n > AckLow
      BY <1>3, <1>12
    <3>2. v.sentEntries /= <<>>
      BY <1>1, <1>4, <3>1 DEF n
    <3>3. QED
      BY <1>3, <3>1, <3>2
  <2>2. s = IF ~forced /\ CanReplaySince(t) THEN SendData(r, SinceSeqs(t), 1)
            ELSE SendSnapshot(r, LastSeq)
    BY <1>8, <1>9, <1>10, <1>12, <2>1
  <2>3. Len(<<>>) = 0 /\ LastSeq + 0 = LastSeq /\ \A i \in 1 .. Len(<<>>) : FALSE
    BY <1>4
  <2>4. BaseSeq - 1 <= LastSeq
    BY HeadIn
  <2>5. CASE s = SendData(r, SinceSeqs(t), 1) /\ CanReplaySince(t)
    <3>1. \A i \in 1 .. Len(r.sentEntries) : r.sentEntries[i] <= t
      BY <1>6, <1>9
    <3>2. /\ s.pending = r.pending /\ s.ack = r.ack /\ SameFlags(r, s)
          /\ s.out \in Seq(Frame) /\ Kinds(s.out) /\ Chain(s.out, t) /\ Tip(s.out, t) = LastSeq
          /\ \A i \in 1 .. Len(s.sentEntries) : s.sentEntries[i] <= LastSeq
          /\ \/ s.sentEntries = r.sentEntries /\ s.lastSentSeq = r.lastSentSeq /\ t = LastSeq
             \/ s.lastSentSeq = LastSeq /\ t < LastSeq
      <4>1. 1 \in Nat \ {0}
        OBVIOUS
      <4>2. QED
        BY <1>4, <1>9, <2>5, <3>1, <4>1, DeltaSent
    <3>3. s.lastSentSeq = LastSeq
      BY <1>9, <2>1, <3>2
    <3>4. /\ s.joined = v.joined /\ s.paused = FALSE /\ s.batcher = v.batcher
          /\ s.pausedForBackpressure = FALSE /\ s.pausedView = v.pausedView
          /\ s.pending = <<>> /\ s.ack = seq
      BY <1>9, <2>1, <3>2, Zenon DEF SameFlags
    <3>5. Feeds(s, LastSeq, LastSeq)
      BY <1>4, <2>3, <2>4, <3>2, <3>3, <3>4 DEF Feeds
    <3>6. Sends(s, t, LastSeq)
      BY <3>2, <3>5 DEF Sends
    <3>7. s.sentEntries = <<>> \/ Tip(s.out, t) > t \/ (t > seq /\ v.sentEntries /= <<>>)
      BY <1>4, <1>7, <1>9, <3>2
    <3>8. QED
      BY <3>4, <3>6, <3>7 DEF s
  <2>6. CASE s = SendSnapshot(r, LastSeq)
    <3>1. /\ s.out \in Seq(Frame) /\ Kinds(s.out) /\ Chain(s.out, t) /\ Tip(s.out, t) = LastSeq
      BY <1>4, <1>9, <2>6, SendSnapshotChain
    <3>2. /\ s.pending = r.pending /\ s.sentEntries = <<>> /\ s.ack = r.ack
          /\ s.lastSentSeq = LastSeq /\ SameFlags(r, s)
      BY <1>4, <1>9, <2>6, SendSnapshotFields, Zenon
    <3>3. /\ s.joined = v.joined /\ s.paused = FALSE /\ s.batcher = v.batcher
          /\ s.pausedForBackpressure = FALSE /\ s.pausedView = v.pausedView
          /\ s.pending = <<>> /\ s.ack = seq
      BY <1>9, <2>1, <3>2, Zenon DEF SameFlags
    <3>4. Feeds(s, LastSeq, LastSeq)
      BY <1>4, <2>3, <2>4, <3>2, <3>3 DEF Feeds
    <3>5. Sends(s, t, LastSeq)
      BY <3>1, <3>4 DEF Sends
    <3>6. QED
      BY <3>2, <3>3, <3>5 DEF s
  <2>7. QED
    BY <2>2, <2>5, <2>6
<1>13. QED
  BY <1>11, <1>12

(* A paused view goes on with its batch and nothing more. *)
LEMMA PauseFeeds ==
  ASSUME NEW v \in View, v.joined, v.batcher, NEW t, NEW h, Feeds(v, t, h)
  PROVE  LET r == [v EXCEPT !.paused = v.joined, !.pausedView = v.batcher] IN
         /\ Feeds(r, t, h) /\ r.joined /\ r.batcher /\ r.ack = v.ack /\ r.out = v.out
         /\ r.sentEntries = v.sentEntries /\ r.pausedView
<1> DEFINE r == [v EXCEPT !.paused = v.joined, !.pausedView = v.batcher]
<1>1. /\ r.pending = v.pending /\ r.sentEntries = v.sentEntries /\ r.out = v.out
      /\ r.lastSentSeq = v.lastSentSeq /\ r.ack = v.ack /\ r.acking = v.acking
      /\ r.joined = v.joined /\ r.batcher = v.batcher /\ r.pausedView = v.batcher
      /\ r.pausedForBackpressure = v.pausedForBackpressure
  BY Zenon DEF View
<1> HIDE DEF r
<1>2. ~Fed(r) /\ r.pausedView
  BY <1>1 DEF Fed
<1>3. Feeds(r, t, h)
  BY <1>1, <1>2, Zenon DEF Feeds
<1>4. QED
  BY <1>1, <1>2, <1>3 DEF r

-----------------------------------------------------------------------------
(* The wire and the page.                                                  *)

Msg == Frame \cup {AttachReply}

LEMMA MsgLinks ==
  /\ Links(Msg) /\ Links(Write) /\ Frame \subseteq Msg
  /\ AttachReply \in Msg /\ AttachReply.cmd = "ATTACH"
<1>1. Links(Write)
  BY DEF Links, Write
<1>2. AttachReply.seq \in Nat /\ AttachReply.seqs \in Seq(Nat) /\ AttachReply.cmd = "ATTACH"
  BY EmptyIn DEF AttachReply
<1>3. Links(Msg)
  BY <1>2, FrameLinks DEF Links, Msg
<1>4. QED
  BY <1>1, <1>2, <1>3 DEF Msg

(* The answer to an attach comes before the frames it brings.               *)
Replied(wire) == wire /= <<>> /\ Head(wire).cmd = "ATTACH"
Frames(wire) == IF Replied(wire) THEN Tail(wire) ELSE wire

(* What the server says after is said at the end. *)
LEMMA FramesConcat ==
  ASSUME NEW wire \in Seq(Msg), NEW out \in Seq(Frame), Kinds(out)
  PROVE  /\ Frames(wire) \in Seq(Msg) /\ wire \o out \in Seq(Msg)
         /\ Frames(wire \o out) = Frames(wire) \o out
         /\ Replied(wire \o out) <=> Replied(wire)
         /\ Kinds(Frames(wire)) => Kinds(Frames(wire) \o out)
<1>1. out \in Seq(Msg)
  BY MsgLinks
<1>2. Frames(wire) \in Seq(Msg) /\ wire \o out \in Seq(Msg)
  BY <1>1 DEF Frames, Replied
<1>3. out /= <<>> => Head(out).cmd /= "ATTACH"
  <2>1. SUFFICES ASSUME out /= <<>>  PROVE Head(out).cmd /= "ATTACH"
    OBVIOUS
  <2>2. 1 \in 1 .. Len(out) /\ Head(out) = out[1]
    BY <2>1
  <2>3. out[1].cmd = IF out[1].seqs = <<>> THEN "SNAPSHOT" ELSE "DATA"
    BY <2>2 DEF Kinds
  <2>4. QED
    BY <2>2, <2>3
<1>4. /\ Frames(wire \o out) = Frames(wire) \o out
      /\ Replied(wire \o out) <=> Replied(wire)
  <2>1. CASE wire = <<>>
    <3>1. wire \o out = out /\ ~Replied(wire) /\ ~Replied(out)
      BY <1>3, <2>1 DEF Replied
    <3>2. Frames(wire) = wire /\ Frames(out) = out
      BY <3>1 DEF Frames
    <3>3. QED
      BY <3>1, <3>2
  <2>2. CASE wire /= <<>>
    <3>1. /\ wire \o out /= <<>> /\ Head(wire \o out) = Head(wire)
          /\ Tail(wire \o out) = Tail(wire) \o out
      BY <1>1, <2>2
    <3>2. Replied(wire \o out) <=> Replied(wire)
      BY <2>2, <3>1 DEF Replied
    <3>3. CASE Replied(wire)
      BY <3>1, <3>2, <3>3 DEF Frames
    <3>4. CASE ~Replied(wire)
      BY <3>2, <3>4 DEF Frames
    <3>5. QED
      BY <3>2, <3>3, <3>4
  <2>3. QED
    BY <2>1, <2>2
<1>5. Kinds(Frames(wire)) => Kinds(Frames(wire) \o out)
  <2>1. SUFFICES ASSUME Kinds(Frames(wire))  PROVE Kinds(Frames(wire) \o out)
    OBVIOUS
  <2> DEFINE fs == Frames(wire)
             m == Len(fs)
             n == Len(out)
  <2>2. /\ m \in Nat /\ n \in Nat /\ Len(fs \o out) = m + n
        /\ \A i \in 1 .. m : (fs \o out)[i] = fs[i]
        /\ \A i \in 1 .. n : (fs \o out)[m + i] = out[i]
    BY <1>1, <1>2
  <2>3. \A i \in 1 .. m + n : i \in 1 .. m \/ (i - m \in 1 .. n /\ i = m + (i - m))
    BY <2>2
  <2>4. /\ \A i \in 1 .. m : fs[i].cmd = IF fs[i].seqs = <<>> THEN "SNAPSHOT" ELSE "DATA"
        /\ \A i \in 1 .. n : out[i].cmd = IF out[i].seqs = <<>> THEN "SNAPSHOT" ELSE "DATA"
    BY <2>1 DEF Kinds
  <2> HIDE DEF fs, m, n
  <2>5. \A i \in 1 .. m + n :
          (fs \o out)[i].cmd = IF (fs \o out)[i].seqs = <<>> THEN "SNAPSHOT" ELSE "DATA"
    <3>1. SUFFICES ASSUME NEW i \in 1 .. m + n
                   PROVE  (fs \o out)[i].cmd
                            = IF (fs \o out)[i].seqs = <<>> THEN "SNAPSHOT" ELSE "DATA"
      OBVIOUS
    <3>2. CASE i \in 1 .. m
      BY <2>2, <2>4, <3>2
    <3>3. CASE i - m \in 1 .. n /\ i = m + (i - m)
      <4>1. (fs \o out)[i] = out[i - m]
        BY <2>2, <3>3
      <4>2. QED
        BY <2>4, <3>3, <4>1
    <3>4. QED
      BY <2>3, <3>2, <3>3
  <2>6. QED
    BY <2>2, <2>5 DEF Kinds, fs
<1>6. QED
  BY <1>2, <1>4, <1>5

(* A frame that is taken off the wire. *)
LEMMA FramesTail ==
  ASSUME NEW wire \in Seq(Msg), wire /= <<>>, Kinds(Frames(wire))
  PROVE  /\ Tail(wire) \in Seq(Msg) /\ ~Replied(Tail(wire)) /\ Frames(Tail(wire)) = Tail(wire)
         /\ Kinds(Tail(wire))
         /\ Replied(wire) => Frames(wire) = Tail(wire)
         /\ ~Replied(wire) => Frames(wire) = wire
         /\ ~Replied(wire) => Head(wire).cmd = IF Head(wire).seqs = <<>> THEN "SNAPSHOT" ELSE "DATA"
<1>1. /\ Tail(wire) \in Seq(Msg) /\ Head(wire) = wire[1] /\ 1 \in 1 .. Len(wire)
      /\ Len(wire) \in Nat /\ Len(Tail(wire)) = Len(wire) - 1
      /\ \A i \in 1 .. Len(Tail(wire)) : Tail(wire)[i] = wire[i + 1] /\ i + 1 \in 1 .. Len(wire)
  OBVIOUS
<1>2. Replied(wire) => Frames(wire) = Tail(wire)
  BY DEF Frames
<1>3. ~Replied(wire) => Frames(wire) = wire
  BY DEF Frames
<1>4. ~Replied(wire) => Head(wire).cmd = IF Head(wire).seqs = <<>> THEN "SNAPSHOT" ELSE "DATA"
  BY <1>1, <1>3 DEF Kinds
<1>5. Kinds(Tail(wire))
  <2>1. CASE Replied(wire)
    BY <1>2, <2>1
  <2>2. CASE ~Replied(wire)
    <3>1. \A i \in 1 .. Len(wire) :
            wire[i].cmd = IF wire[i].seqs = <<>> THEN "SNAPSHOT" ELSE "DATA"
      BY <1>3, <2>2 DEF Kinds
    <3>2. \A i \in 1 .. Len(Tail(wire)) :
            Tail(wire)[i].cmd = IF Tail(wire)[i].seqs = <<>> THEN "SNAPSHOT" ELSE "DATA"
      BY <1>1, <3>1
    <3>3. QED
      BY <3>2 DEF Kinds
  <2>3. QED
    BY <2>1, <2>2
<1>6. ~Replied(Tail(wire))
  <2>1. SUFFICES ASSUME Tail(wire) /= <<>>  PROVE Head(Tail(wire)).cmd /= "ATTACH"
    BY DEF Replied
  <2>2. 1 \in 1 .. Len(Tail(wire)) /\ Head(Tail(wire)) = Tail(wire)[1]
    BY <1>1, <2>1
  <2>3. Tail(wire)[1].cmd = IF Tail(wire)[1].seqs = <<>> THEN "SNAPSHOT" ELSE "DATA"
    BY <1>5, <2>2 DEF Kinds
  <2>4. QED
    BY <2>2, <2>3
<1>7. Frames(Tail(wire)) = Tail(wire)
  BY <1>6 DEF Frames
<1>8. QED
  BY <1>1, <1>2, <1>3, <1>4, <1>5, <1>6, <1>7

(* Where what was written, and what was received, ends. *)
Written(p) == Tip(p.writing, p.watermark)
Reached(p) == IF p.queue = <<>> THEN Written(p) ELSE p.pendingAckSeq

Queued(p) == [seqs |-> p.queue, seq |-> p.pendingAckSeq]

(* The screen is exactly what the watermark says, and all the page has still   *)
(* to paint goes on from there, to somewhere in the stream.                 *)
PageSound(p, h) ==
  /\ p.exact /\ p.painted = BaseSeq .. p.watermark
  /\ Chain(p.writing, p.watermark)
  /\ \A i \in 1 .. Len(p.writing) : p.writing[i].snapshot <=> p.writing[i].seqs = <<>>
  /\ p.queue /= <<>> => Leads(Queued(p), Written(p))
  /\ Reached(p) <= h

LEMMA PageIn ==
  ASSUME NEW p \in Page
  PROVE  /\ p.watermark \in Nat /\ p.writing \in Seq(Write)
         /\ p.queue \in Seq(Nat) /\ p.pendingAckSeq \in Nat /\ p.sends \in Seq(Request)
         /\ Len(p.queue) \in Nat
<1>1. /\ p.watermark \in Nat /\ p.writing \in Seq(Write)
      /\ p.queue \in Seq(Nat) /\ p.pendingAckSeq \in Nat /\ p.sends \in Seq(Request)
  BY Zenon DEF Page
<1>2. QED
  BY <1>1

LEMMA ReachedIn ==
  ASSUME NEW p \in Page, NEW h \in Nat, PageSound(p, h)
  PROVE  /\ Written(p) \in Nat /\ p.watermark <= Written(p)
         /\ Reached(p) \in Nat /\ Written(p) <= Reached(p) /\ Reached(p) <= h
<1>1. /\ p.watermark \in Nat /\ p.writing \in Seq(Write) /\ p.queue \in Seq(Nat)
      /\ p.pendingAckSeq \in Nat /\ Len(p.queue) \in Nat
  BY PageIn
<1>2. Chain(p.writing, p.watermark)
  BY DEF PageSound
<1>3. Written(p) \in Nat /\ p.watermark <= Written(p)
  BY <1>1, <1>2, TipIs, MsgLinks DEF Written
<1>4. p.queue /= <<>> => p.pendingAckSeq = Written(p) + Len(p.queue)
  BY DEF PageSound, Leads, Queued
<1>5. QED
  BY <1>1, <1>3, <1>4 DEF Reached, PageSound

-----------------------------------------------------------------------------
(* A stream between a page p and its view v on the server, R being the         *)
(* requests on their way up and wire the frames on their way down.           *)

Streaming(p) == p.stream \in {"attached", "paused"}

Asks(R) == R /= <<>> /\ Head(R).cmd \in {"ATTACH", "RESUME_VIEW"}

NoPause(R) == \A i \in 1 .. Len(R) : R[i].cmd /= "PAUSE_VIEW"

(* A stream has been asked for, and nothing of an earlier one is left.       *)
Asked(p, v, R, wire) ==
  /\ Asks(R) /\ Head(R).seq = p.watermark
  /\ \A i \in 2 .. Len(R) : R[i].cmd = "PAUSE_VIEW"
  /\ wire = <<>> /\ p.writing = <<>> /\ p.queue = <<>>
  /\ ~Fed(v) /\ v.pending = <<>>
  /\ Head(R).cmd = "RESUME_VIEW" => v.joined
  /\ Streaming(p) \/ (p.waiting /\ Head(R).cmd = "ATTACH")

(* The window is empty, will be smaller, or the ack that empties it is on its  *)
(* way.                                                                    *)
Drains(w, v, R, t) ==
  \/ v.sentEntries = <<>> \/ t > w
  \/ \E i \in 1 .. Len(R) : R[i].cmd = "ACK" /\ R[i].seq = w

(* The stream runs: from what the page has painted, by what is written, queued *)
(* and on the wire, to what the server sends next.                          *)
Flowing(p, v, R, wire, h) ==
  LET t == Tip(Frames(wire), Reached(p))
  IN  /\ \A i \in 1 .. Len(R) : R[i].cmd \in {"ACK", "PAUSE_VIEW"}
      /\ v.joined /\ v.batcher
      /\ Kinds(Frames(wire)) /\ Chain(Frames(wire), Reached(p))
      /\ Feeds(v, t, h) /\ Drains(p.watermark, v, R, t)
      /\ p.stream /= "paused" => ~v.pausedView
      /\ Streaming(p) \/ (Replied(wire) /\ p.waiting /\ p.queue = <<>> /\ p.writing = <<>>)

(* No ack is ahead of the watermark. *)
AcksBehind(w, v, R) ==
  /\ v.ack <= w
  /\ \A i \in 1 .. Len(R) : R[i].cmd = "ACK" => R[i].seq <= w

Streams(p, v, R, wire, h) ==
  /\ AcksBehind(p.watermark, v, R)
  /\ p.callbacks =>
       /\ Asked(p, v, R, wire) \/ Flowing(p, v, R, wire, h)
       /\ p.stream /= "paused" => NoPause(R)

(* What a stream leads to is within the stream of the session. *)
LEMMA FlowEnds ==
  ASSUME NEW p \in Page, NEW v \in View, NEW R, NEW wire \in Seq(Msg), NEW h \in Nat,
         PageSound(p, h), Flowing(p, v, R, wire, h)
  PROVE  LET t == Tip(Frames(wire), Reached(p)) IN
         /\ Frames(wire) \in Seq(Msg)
         /\ t \in Nat /\ Reached(p) <= t /\ p.watermark <= t /\ t <= h
         /\ p.watermark \in Nat
<1> DEFINE t == Tip(Frames(wire), Reached(p))
<1>1. Reached(p) \in Nat /\ p.watermark \in Nat /\ p.watermark <= Reached(p)
  BY ReachedIn, PageIn
<1>2. Frames(wire) \in Seq(Msg)
  BY DEF Frames, Replied
<1>3. Chain(Frames(wire), Reached(p)) /\ Feeds(v, t, h)
  BY DEF Flowing
<1>4. t \in Nat /\ Reached(p) <= t
  BY <1>1, <1>2, <1>3, TipIs, MsgLinks
<1>5. Len(v.pending) \in Nat
  BY ViewIn
<1>6. t + Len(v.pending) <= h
  BY <1>3 DEF Feeds
<1> HIDE DEF t
<1>7. t <= h
  BY <1>4, <1>5, <1>6
<1>8. QED
  BY <1>1, <1>2, <1>4, <1>7 DEF t

(* What the server sends goes on from where the stream has led to. *)
LEMMA FlowOn ==
  ASSUME NEW p \in Page, NEW v \in View, NEW R, NEW wire \in Seq(Msg), NEW h \in Nat,
         PageSound(p, h), Flowing(p, v, R, wire, h),
         NEW s, NEW g, Sends(s, Tip(Frames(wire), Reached(p)), g), s.joined, s.batcher,
         s.pausedView => v.pausedView \/ p.stream = "paused",
         NEW Q, \A i \in 1 .. Len(Q) : Q[i].cmd \in {"ACK", "PAUSE_VIEW"},
         \/ Tip(s.out, Tip(Frames(wire), Reached(p))) > Tip(Frames(wire), Reached(p))
         \/ Drains(p.watermark, s, Q, Tip(Frames(wire), Reached(p)))
  PROVE  Flowing(p, s, Q, wire \o s.out, g)
<1> DEFINE t == Tip(Frames(wire), Reached(p))
           u == Tip(s.out, t)
<1>1. /\ Frames(wire) \in Seq(Msg) /\ t \in Nat /\ p.watermark <= t /\ p.watermark \in Nat
  BY FlowEnds
<1>2. /\ s.out \in Seq(Frame) /\ Kinds(s.out) /\ Chain(s.out, t) /\ Feeds(s, u, g)
  BY DEF Sends
<1>3. s.out \in Seq(Msg)
  BY <1>2, MsgLinks
<1>4. Kinds(Frames(wire)) /\ Chain(Frames(wire), Reached(p))
  BY DEF Flowing
<1>5. Reached(p) \in Nat
  BY ReachedIn
<1>6. /\ Chain(Frames(wire) \o s.out, Reached(p))
      /\ Tip(Frames(wire) \o s.out, Reached(p)) = u
  BY <1>1, <1>2, <1>3, <1>4, <1>5, ChainConcat, MsgLinks
<1>7. /\ Frames(wire \o s.out) = Frames(wire) \o s.out
      /\ Replied(wire \o s.out) <=> Replied(wire)
      /\ Kinds(Frames(wire) \o s.out)
  BY <1>2, <1>4, FramesConcat
<1>8. t <= u /\ u \in Nat
  BY <1>1, <1>2, <1>3, TipIs, MsgLinks
<1>9. u > t \/ Drains(p.watermark, s, Q, t)
  OBVIOUS
<1> HIDE DEF t, u
<1>10. Drains(p.watermark, s, Q, u)
  <2>1. CASE u > t
    <3>1. u > p.watermark
      BY <1>1, <1>8, <2>1
    <3>2. QED
      BY <3>1 DEF Drains
  <2>2. CASE Drains(p.watermark, s, Q, t)
    <3>1. t > p.watermark => u > p.watermark
      BY <1>1, <1>8
    <3>2. QED
      BY <2>2, <3>1 DEF Drains
  <2>3. QED
    BY <1>9, <2>1, <2>2
<1>11. p.stream /= "paused" => ~s.pausedView
  BY DEF Flowing
<1>12. Streaming(p) \/ (Replied(wire \o s.out) /\ p.waiting /\ p.queue = <<>> /\ p.writing = <<>>)
  BY <1>7, Zenon DEF Flowing
<1>13. QED
  BY <1>2, <1>6, <1>7, <1>10, <1>11, <1>12 DEF Flowing

(* The requests that are left, when the first is taken up. *)
LEMMA RequestsTail ==
  ASSUME NEW R \in Seq(Request), R /= <<>>
  PROVE  /\ Head(R) \in Request /\ Head(R) = R[1] /\ 1 \in 1 .. Len(R) /\ Head(R).seq \in Nat
         /\ Tail(R) \in Seq(Request) /\ Len(R) \in Nat /\ Len(Tail(R)) = Len(R) - 1
         /\ \A i \in 1 .. Len(Tail(R)) : Tail(R)[i] = R[i + 1] /\ i + 1 \in 2 .. Len(R)
         /\ \A i \in 2 .. Len(R) : i - 1 \in 1 .. Len(Tail(R)) /\ R[i] = Tail(R)[i - 1]
<1>1. /\ Head(R) \in Request /\ Head(R) = R[1] /\ 1 \in 1 .. Len(R)
      /\ Tail(R) \in Seq(Request) /\ Len(R) \in Nat /\ Len(Tail(R)) = Len(R) - 1
  OBVIOUS
<1>2. \A i \in 1 .. Len(Tail(R)) : Tail(R)[i] = R[i + 1] /\ i + 1 \in 2 .. Len(R)
  BY <1>1
<1>3. \A i \in 2 .. Len(R) : i - 1 \in 1 .. Len(Tail(R)) /\ R[i] = Tail(R)[i - 1]
  <2>1. SUFFICES ASSUME NEW i \in 2 .. Len(R)
                 PROVE  i - 1 \in 1 .. Len(Tail(R)) /\ R[i] = Tail(R)[i - 1]
    OBVIOUS
  <2>2. i - 1 \in 1 .. Len(Tail(R)) /\ (i - 1) + 1 = i
    BY <1>1
  <2>3. QED
    BY <1>2, <2>2
<1>4. Head(R).seq \in Nat
  BY <1>1 DEF Request
<1>5. QED
  BY <1>1, <1>2, <1>3, <1>4

LEMMA TailBehind ==
  ASSUME NEW R \in Seq(Request), R /= <<>>, NEW w, NEW v, AcksBehind(w, v, R),
         NEW s, s.ack = v.ack
  PROVE  AcksBehind(w, s, Tail(R)) /\ (NoPause(R) => NoPause(Tail(R)))
<1>1. \A i \in 1 .. Len(Tail(R)) : Tail(R)[i] = R[i + 1] /\ i + 1 \in 1 .. Len(R)
  BY RequestsTail
<1>2. AcksBehind(w, s, Tail(R))
  BY <1>1 DEF AcksBehind
<1>3. NoPause(R) => NoPause(Tail(R))
  BY <1>1 DEF NoPause
<1>4. QED
  BY <1>2, <1>3

(* The server takes up an ATTACH or a RESUME_VIEW: a stream that was asked for *)
(* runs, from what the page has painted.                                   *)
LEMMA AskAnswered ==
  ASSUME RingTypeOK, Window, frozen = NotFrozen,
         NEW p \in Page, NEW v \in View, v.out = <<>>, NEW R \in Seq(Request), R /= <<>>,
         NEW wire \in Seq(Msg), PageSound(p, LastSeq), Streams(p, v, R, wire, LastSeq),
         NEW forced, NEW s, NEW reply,
         \/ /\ Head(R).cmd = "ATTACH" /\ reply = <<AttachReply>>
            /\ s = WireSession(Resynced(v, Head(R).seq, forced))
         \/ /\ Head(R).cmd = "RESUME_VIEW" /\ reply = <<>>
            /\ s = Resumed(v, Head(R).seq, forced)
         , s.ack = v.ack
  PROVE  Streams(p, s, Tail(R), (wire \o reply) \o s.out, LastSeq)
<1>1. AcksBehind(p.watermark, v, R)
  BY DEF Streams
<1>2. AcksBehind(p.watermark, s, Tail(R)) /\ (NoPause(R) => NoPause(Tail(R)))
  BY <1>1, TailBehind
<1>3. SUFFICES ASSUME p.callbacks
               PROVE  /\ Flowing(p, s, Tail(R), (wire \o reply) \o s.out, LastSeq)
                      /\ p.stream /= "paused" => NoPause(Tail(R))
  BY <1>2 DEF Streams
<1>4. p.stream /= "paused" => NoPause(Tail(R))
  BY <1>2, <1>3 DEF Streams
<1>5. Asked(p, v, R, wire)
  <2>1. SUFFICES ASSUME Flowing(p, v, R, wire, LastSeq)  PROVE FALSE
    BY <1>3 DEF Streams
  <2>2. R[1].cmd \in {"ACK", "PAUSE_VIEW"} /\ Head(R) = R[1]
    BY <2>1, RequestsTail DEF Flowing
  <2>3. QED
    BY <2>2
<1>6. /\ Head(R).seq = p.watermark /\ \A i \in 2 .. Len(R) : R[i].cmd = "PAUSE_VIEW"
      /\ wire = <<>> /\ p.writing = <<>> /\ p.queue = <<>>
      /\ Head(R).cmd = "RESUME_VIEW" => v.joined
      /\ Streaming(p) \/ (p.waiting /\ Head(R).cmd = "ATTACH")
  BY <1>5 DEF Asked
<1>7. p.watermark \in Nat /\ LastSeq \in Nat
  BY PageIn, HeadIn
<1>8. Reached(p) = p.watermark /\ p.watermark <= LastSeq
  <2>1. Reached(p) = p.watermark
    BY <1>6 DEF Reached, Written, Tip
  <2>2. QED
    BY <2>1 DEF PageSound
<1>9. /\ s.joined /\ s.batcher /\ s.pausedView = FALSE
      /\ s.out \in Seq(Frame) /\ Kinds(s.out) /\ Chain(s.out, p.watermark)
      /\ Feeds(s, Tip(s.out, p.watermark), LastSeq)
      /\ s.sentEntries = <<>> \/ Tip(s.out, p.watermark) > p.watermark
  <2>1. \/ s = WireSession(Resynced(v, p.watermark, forced))
        \/ s = Resumed(v, p.watermark, forced) /\ v.joined
    BY <1>6, Zenon
  <2>2. p.watermark <= LastSeq
    BY <1>8
  <2>3. p.watermark \in Nat
    BY <1>7
  <2>4. RingTypeOK /\ Window /\ frozen = NotFrozen /\ v \in View /\ v.out = <<>>
    OBVIOUS
  <2>5. /\ s.joined /\ s.batcher /\ s.ack = v.ack /\ s.pausedView = FALSE
        /\ s.out \in Seq(Frame) /\ Kinds(s.out) /\ Chain(s.out, p.watermark)
        /\ Feeds(s, Tip(s.out, p.watermark), LastSeq)
        /\ s.sentEntries = <<>> \/ Tip(s.out, p.watermark) > p.watermark
    BY <2>1, <2>2, <2>3, <2>4, ResyncFeeds, ZenonT(60)
  <2>6. QED
    BY <2>5
<1>10. /\ wire \o reply = reply
       /\ Replied((wire \o reply) \o s.out) <=> Head(R).cmd = "ATTACH"
       /\ Frames((wire \o reply) \o s.out) = s.out
  <2>1. s.out \in Seq(Msg) /\ AttachReply \in Msg /\ AttachReply.cmd = "ATTACH"
    BY <1>9, MsgLinks
  <2>2. CASE reply = <<>> /\ Head(R).cmd = "RESUME_VIEW"
    <3>1. (wire \o reply) \o s.out = s.out /\ wire \o reply = reply /\ s.out = <<>> \o s.out
      BY <1>6, <2>1, <2>2
    <3>2. <<>> \in Seq(Msg) /\ ~Replied(<<>>) /\ Frames(<<>>) = <<>>
      BY DEF Replied, Frames
    <3>3. ~Replied(s.out) /\ Frames(s.out) = s.out
      <4>1. /\ Frames(<<>> \o s.out) = <<>> \o s.out
            /\ ~Replied(<<>> \o s.out)
        BY <1>9, <3>2, FramesConcat, ZenonT(60)
      <4>2. <<>> \o s.out = s.out
        BY <3>1
      <4>3. QED
        BY <4>1, <4>2
    <3>4. QED
      BY <2>2, <3>1, <3>3
  <2>3. CASE reply = <<AttachReply>> /\ Head(R).cmd = "ATTACH"
    <3>1. wire \o reply = reply /\ reply \in Seq(Msg) /\ reply /= <<>>
          /\ Head(reply) = AttachReply /\ Tail(reply) = <<>>
      BY <1>6, <2>1, <2>3
    <3>2. Replied(reply) /\ Frames(reply) = <<>>
      BY <2>1, <3>1 DEF Replied, Frames
    <3>3. /\ Replied(reply \o s.out) /\ Frames(reply \o s.out) = <<>> \o s.out
      BY <1>9, <3>1, <3>2, FramesConcat
    <3>4. <<>> \o s.out = s.out
      BY <2>1
    <3>5. QED
      BY <2>3, <3>1, <3>3, <3>4
  <2>4. Head(R).cmd = "ATTACH" => reply = <<AttachReply>>
    OBVIOUS
  <2>5. QED
    BY <2>2, <2>3
<1>11. \A i \in 1 .. Len(Tail(R)) : Tail(R)[i].cmd \in {"ACK", "PAUSE_VIEW"}
  <2>1. \A i \in 1 .. Len(Tail(R)) : Tail(R)[i] = R[i + 1] /\ i + 1 \in 2 .. Len(R)
    BY RequestsTail
  <2>2. QED
    BY <1>6, <2>1
<1>12. Drains(p.watermark, s, Tail(R), Tip(s.out, p.watermark))
  BY <1>9 DEF Drains
<1> DEFINE down == (wire \o reply) \o s.out
<1>13. Frames(down) = s.out /\ (Replied(down) <=> Head(R).cmd = "ATTACH")
  BY <1>10
<1> HIDE DEF down
<1>14. Streaming(p) \/ (Replied(down) /\ p.waiting /\ p.queue = <<>> /\ p.writing = <<>>)
  BY <1>6, <1>13
<1>15. Flowing(p, s, Tail(R), down, LastSeq)
  BY <1>8, <1>9, <1>11, <1>12, <1>13, <1>14 DEF Flowing
<1>16. QED
  BY <1>4, <1>15 DEF down

-----------------------------------------------------------------------------
(* What the server does, under a stream.                                   *)

(* A view that differs in nothing a stream is about. *)
SameView(v, w) == SameFeed(v, w) /\ w.ack = v.ack

LEMMA QuietSame ==
  ASSUME NEW v \in View
  PROVE  SameView(v, Quiet(v)) /\ Quiet(v) \in View /\ Quiet(v).out = <<>>
BY EmptyIn, Zenon DEF Quiet, View, SameView, SameFeed, SameFlags

(* Nothing is heard of it on the wire. *)
LEMMA SameStreams ==
  ASSUME NEW p, NEW v, NEW w, SameView(v, w), NEW R, NEW wire, NEW h, Streams(p, v, R, wire, h)
  PROVE  Streams(p, w, R, wire, h)
<1>1. /\ w.pending = v.pending /\ w.sentEntries = v.sentEntries
      /\ w.lastSentSeq = v.lastSentSeq /\ SameFlags(v, w) /\ w.ack = v.ack
  BY DEF SameView, SameFeed
<1>2. /\ w.joined = v.joined /\ w.paused = v.paused /\ w.batcher = v.batcher
      /\ w.pausedForBackpressure = v.pausedForBackpressure /\ w.pausedView = v.pausedView
  BY <1>1, Zenon DEF SameFlags
<1>3. Fed(w) <=> Fed(v)
  BY <1>2, Zenon DEF Fed
<1>4. AcksBehind(p.watermark, w, R)
  BY <1>1, Zenon DEF Streams, AcksBehind
<1>5. Asked(p, v, R, wire) => Asked(p, w, R, wire)
  BY <1>1, <1>2, <1>3, Zenon DEF Asked
<1>6. Flowing(p, v, R, wire, h) => Flowing(p, w, R, wire, h)
  <2>1. SUFFICES ASSUME Flowing(p, v, R, wire, h)  PROVE Flowing(p, w, R, wire, h)
    OBVIOUS
  <2> DEFINE t == Tip(Frames(wire), Reached(p))
  <2>2. Feeds(v, t, h) /\ SameFeed(v, w)
    BY <2>1 DEF Flowing, SameView
  <2>3. Feeds(w, t, h)
    BY <2>2, SameFeeds
  <2>4. Drains(p.watermark, w, R, t)
    BY <1>1, <2>1, Zenon DEF Flowing, Drains
  <2>5. QED
    BY <1>2, <2>1, <2>3, <2>4, Zenon DEF Flowing
<1>7. QED
  BY <1>4, <1>5, <1>6, Zenon DEF Streams

(* The empty message goes without saying. *)
LEMMA NothingSaid ==
  ASSUME NEW T, NEW wire \in Seq(T)
  PROVE  wire \o <<>> = wire
OBVIOUS

(* A chunk comes. *)
LEMMA OutputStreams ==
  ASSUME NEW p \in Page, NEW v \in View, v.out = <<>>, NEW R, NEW wire \in Seq(Msg), NEW h \in Nat,
         PageSound(p, h), Streams(p, v, R, wire, h), NEW n, n = h + 1, NEW small,
         NEW s, s = IF v.joined /\ ~v.paused THEN Enqueue(v, n, small, FALSE) ELSE v,
         s.ack = v.ack
  PROVE  PageSound(p, n) /\ Streams(p, s, R, wire \o s.out, n)
<1>1. n \in Nat
  OBVIOUS
<1>2. PageSound(p, n)
  <2>1. Reached(p) \in Nat /\ Reached(p) <= h
    BY ReachedIn
  <2>2. Reached(p) <= n
    BY <2>1
  <2>3. QED
    BY <2>2 DEF PageSound
<1>3. AcksBehind(p.watermark, s, R)
  BY Zenon DEF Streams, AcksBehind
<1>4. ASSUME p.callbacks, Asked(p, v, R, wire)
      PROVE  Asked(p, s, R, wire \o s.out)
  <2>1. ~Fed(v) /\ wire = <<>>
    BY <1>4 DEF Asked
  <2>2. s = v
    BY <2>1, Zenon DEF Fed, Enqueue
  <2>3. wire \o s.out = wire
    BY <2>2, NothingSaid
  <2>4. QED
    BY <1>4, <2>2, <2>3
<1>5. ASSUME p.callbacks, Flowing(p, v, R, wire, h)
      PROVE  Flowing(p, s, R, wire \o s.out, n)
  <2> DEFINE t == Tip(Frames(wire), Reached(p))
  <2>1. t \in Nat
    BY <1>5, FlowEnds
  <2>2. /\ Feeds(v, t, h) /\ v.joined /\ v.batcher /\ Drains(p.watermark, v, R, t)
        /\ \A i \in 1 .. Len(R) : R[i].cmd \in {"ACK", "PAUSE_VIEW"}
    BY <1>5 DEF Flowing
  <2> HIDE DEF t
  <2>3. /\ Sends(s, t, n) /\ s.joined /\ s.batcher /\ s.pausedView = v.pausedView
        /\ s.sentEntries = v.sentEntries \/ Tip(s.out, t) > t
    <3>1. CASE v.joined /\ ~v.paused
      <4>1. s = Enqueue(v, n, small, FALSE) /\ ~v.paused
        BY <3>1
      <4>2. v \in View /\ v.out = <<>> /\ h \in Nat /\ n = h + 1
        OBVIOUS
      <4>3. v.joined /\ ~v.paused /\ Feeds(v, t, h)
        BY <2>2, <3>1
      <4>4. LET r == Enqueue(v, n, small, FALSE) IN
            /\ Sends(r, t, n) /\ r.joined /\ r.batcher = v.batcher /\ r.ack = v.ack
            /\ r.pausedView = v.pausedView
            /\ r.sentEntries = v.sentEntries \/ Tip(r.out, t) > t
        BY <2>1, <4>2, <4>3, EnqueueFeeds, Zenon
      <4>5. QED
        BY <2>2, <4>1, <4>4, Zenon
    <3>2. CASE ~(v.joined /\ ~v.paused)
      <4>1. s = v /\ ~Fed(v)
        BY <3>2, Zenon DEF Fed
      <4>2. Feeds(v, t, n)
        BY <2>1, <2>2, <4>1, UnfedFeeds
      <4>3. Sends(s, t, n)
        BY <4>1, <4>2, SilentSends
      <4>4. QED
        BY <2>2, <4>1, <4>3, Zenon
    <3>3. QED
      BY <3>1, <3>2
  <2>4. Tip(s.out, t) > t \/ Drains(p.watermark, s, R, t)
    BY <2>2, <2>3 DEF Drains
  <2>5. s.pausedView => v.pausedView \/ p.stream = "paused"
    BY <2>3
  <2>6. QED
    BY <1>5, <2>2, <2>3, <2>4, <2>5, FlowOn DEF t
<1>6. QED
  BY <1>2, <1>3, <1>4, <1>5, Zenon DEF Streams

(* The batch timer fires. *)
LEMMA TimerStreams ==
  ASSUME NEW p \in Page, NEW v \in View, v.out = <<>>, NEW R, NEW wire \in Seq(Msg), NEW h \in Nat,
         PageSound(p, h), Streams(p, v, R, wire, h), NEW s, s = Flush(v, FALSE), s.ack = v.ack
  PROVE  Streams(p, s, R, wire \o s.out, h)
<1>1. AcksBehind(p.watermark, s, R)
  BY Zenon DEF Streams, AcksBehind
<1>2. ASSUME p.callbacks, Asked(p, v, R, wire)
      PROVE  Asked(p, s, R, wire \o s.out)
  <2>1. v.pending = <<>>
    BY <1>2 DEF Asked
  <2>2. s = [v EXCEPT !.timer = FALSE]
    BY <2>1, Zenon DEF Flush
  <2>3. s.out = <<>> /\ s.pending = v.pending /\ s.joined = v.joined /\ (Fed(s) <=> Fed(v))
    BY <2>2, Zenon DEF View, Fed
  <2>4. wire \o s.out = wire
    BY <2>3, NothingSaid
  <2>5. QED
    BY <1>2, <2>3, <2>4, Zenon DEF Asked
<1>3. ASSUME p.callbacks, Flowing(p, v, R, wire, h)
      PROVE  Flowing(p, s, R, wire \o s.out, h)
  <2> DEFINE t == Tip(Frames(wire), Reached(p))
  <2>1. t \in Nat
    BY <1>3, FlowEnds
  <2>2. /\ Feeds(v, t, h) /\ v.joined /\ v.batcher /\ Drains(p.watermark, v, R, t)
        /\ \A i \in 1 .. Len(R) : R[i].cmd \in {"ACK", "PAUSE_VIEW"}
    BY <1>3 DEF Flowing
  <2> HIDE DEF t
  <2>3. LET r == Flush(v, FALSE) IN
        /\ Sends(r, t, h) /\ r.joined /\ r.batcher = v.batcher /\ r.ack = v.ack
        /\ r.pausedView = v.pausedView
        /\ r.sentEntries = v.sentEntries \/ Tip(r.out, t) > t
    BY <2>1, <2>2, FlushFeeds
  <2>4. /\ Sends(s, t, h) /\ s.joined /\ s.batcher /\ s.pausedView = v.pausedView
        /\ s.sentEntries = v.sentEntries \/ Tip(s.out, t) > t
    BY <2>2, <2>3, Zenon
  <2>5. Tip(s.out, t) > t \/ Drains(p.watermark, s, R, t)
    BY <2>2, <2>4 DEF Drains
  <2>6. s.pausedView => v.pausedView \/ p.stream = "paused"
    BY <2>4
  <2>7. QED
    BY <1>3, <2>2, <2>4, <2>5, <2>6, FlowOn DEF t
<1>4. QED
  BY <1>1, <1>2, <1>3, Zenon DEF Streams

(* A request that asks for no stream is taken up only in one that runs. *)
LEMMA NotAsked ==
  ASSUME NEW p, NEW v, NEW R \in Seq(Request), R /= <<>>, NEW wire, NEW h,
         Streams(p, v, R, wire, h), p.callbacks, ~Asks(R)
  PROVE  Flowing(p, v, R, wire, h) /\ Head(R).cmd \in {"ACK", "PAUSE_VIEW"}
         /\ \A i \in 1 .. Len(Tail(R)) : Tail(R)[i].cmd \in {"ACK", "PAUSE_VIEW"}
<1>1. Flowing(p, v, R, wire, h)
  BY DEF Streams, Asked
<1>2. \A i \in 1 .. Len(R) : R[i].cmd \in {"ACK", "PAUSE_VIEW"}
  BY <1>1 DEF Flowing
<1>3. /\ Head(R) = R[1] /\ 1 \in 1 .. Len(R)
      /\ \A i \in 1 .. Len(Tail(R)) : Tail(R)[i] = R[i + 1] /\ i + 1 \in 1 .. Len(R)
  BY RequestsTail
<1>4. QED
  BY <1>1, <1>2, <1>3

(* An ack in flight is the one taken up, or still in flight after. *)
LEMMA DrainsOn ==
  ASSUME NEW w, NEW v, NEW R \in Seq(Request), R /= <<>>, NEW t, Drains(w, v, R, t),
         NEW s, s.sentEntries = v.sentEntries
  PROVE  Drains(w, s, Tail(R), t) \/ (v.sentEntries /= <<>> /\ Head(R).cmd = "ACK" /\ Head(R).seq = w)
<1>1. CASE v.sentEntries = <<>> \/ t > w
  BY <1>1 DEF Drains
<1>2. CASE v.sentEntries /= <<>> /\ ~(t > w)
  <2>1. PICK i \in 1 .. Len(R) : R[i].cmd = "ACK" /\ R[i].seq = w
    BY <1>2 DEF Drains
  <2>2. CASE i = 1
    BY <1>2, <2>1, <2>2, RequestsTail
  <2>3. CASE i /= 1
    <3>1. i - 1 \in 1 .. Len(Tail(R)) /\ R[i] = Tail(R)[i - 1]
      <4>1. Len(R) \in Nat
        BY RequestsTail
      <4>2. i \in 2 .. Len(R)
        BY <2>3, <4>1
      <4>3. QED
        BY <4>2, RequestsTail
    <3>2. QED
      BY <2>1, <3>1 DEF Drains
  <2>4. QED
    BY <2>2, <2>3
<1>3. QED
  BY <1>1, <1>2

(* An ack is taken up. *)
LEMMA AckStreams ==
  ASSUME RingTypeOK, Window, NEW p \in Page, NEW v \in View, v.out = <<>>,
         v.pausedForBackpressure => v.pending = <<>>,
         NEW R \in Seq(Request), R /= <<>>, NEW wire \in Seq(Msg),
         PageSound(p, LastSeq), Streams(p, v, R, wire, LastSeq), Head(R).cmd = "ACK",
         NEW forced, NEW s, s = HandleViewerAck(v, Head(R).seq, forced), s.ack = Head(R).seq
  PROVE  Streams(p, s, Tail(R), wire \o s.out, LastSeq)
<1> DEFINE seq == Head(R).seq
<1>1. /\ seq \in Nat /\ Head(R) = R[1] /\ 1 \in 1 .. Len(R)
      /\ \A i \in 1 .. Len(Tail(R)) : Tail(R)[i] = R[i + 1] /\ i + 1 \in 1 .. Len(R)
  BY RequestsTail
<1>2. AcksBehind(p.watermark, s, Tail(R)) /\ (NoPause(R) => NoPause(Tail(R)))
  <2>1. \A i \in 1 .. Len(R) : R[i].cmd = "ACK" => R[i].seq <= p.watermark
    BY DEF Streams, AcksBehind
  <2>2. AcksBehind(p.watermark, s, Tail(R))
    BY <1>1, <2>1 DEF AcksBehind
  <2>3. NoPause(R) => NoPause(Tail(R))
    BY <1>1 DEF NoPause
  <2>4. QED
    BY <2>2, <2>3
<1>3. ASSUME p.callbacks  PROVE Flowing(p, s, Tail(R), wire \o s.out, LastSeq)
  <2> DEFINE t == Tip(Frames(wire), Reached(p))
  <2>1. /\ Flowing(p, v, R, wire, LastSeq)
        /\ \A i \in 1 .. Len(Tail(R)) : Tail(R)[i].cmd \in {"ACK", "PAUSE_VIEW"}
    BY <1>3, NotAsked DEF Asks
  <2>2. LastSeq \in Nat
    BY HeadIn
  <2>3. t \in Nat
    BY <2>1, <2>2, FlowEnds
  <2>4. Feeds(v, t, LastSeq) /\ v.joined /\ v.batcher /\ Drains(p.watermark, v, R, t)
    BY <2>1 DEF Flowing
  <2> HIDE DEF t
  <2>5. LET r == HandleViewerAck(v, seq, forced) IN
        /\ Sends(r, t, LastSeq) /\ r.joined /\ r.batcher = v.batcher /\ r.ack = seq
        /\ r.pausedView = v.pausedView
        /\ r.sentEntries = <<>> \/ Tip(r.out, t) > t \/ (t > seq /\ v.sentEntries /= <<>>)
    BY <1>1, <2>3, <2>4, AckFeeds
  <2>6. /\ Sends(s, t, LastSeq) /\ s.joined /\ s.batcher /\ s.pausedView = v.pausedView
        /\ s.sentEntries = <<>> \/ Tip(s.out, t) > t \/ (t > seq /\ v.sentEntries /= <<>>)
    BY <2>4, <2>5, Zenon
  <2>7. Tip(s.out, t) > t \/ Drains(p.watermark, s, Tail(R), t)
    <3>1. CASE s.sentEntries = <<>>
      BY <3>1 DEF Drains
    <3>2. CASE t > seq /\ v.sentEntries /= <<>>
      <4>1. Drains(p.watermark, v, Tail(R), t) \/ (v.sentEntries /= <<>> /\ seq = p.watermark)
        BY <2>4, DrainsOn
      <4>2. t > p.watermark => Drains(p.watermark, s, Tail(R), t)
        BY DEF Drains
      <4>3. CASE Drains(p.watermark, v, Tail(R), t)
        BY <3>2, <4>3 DEF Drains
      <4>4. QED
        BY <3>2, <4>1, <4>2, <4>3
    <3>3. QED
      BY <2>6, <3>1, <3>2
  <2>8. s.pausedView => v.pausedView \/ p.stream = "paused"
    BY <2>6
  <2>9. QED
    BY <2>1, <2>2, <2>6, <2>7, <2>8, FlowOn DEF t
<1>4. QED
  BY <1>2, <1>3, Zenon DEF Streams

(* An ack is turned down: then it is not the one that empties the window. *)
LEMMA AckRefused ==
  ASSUME RingTypeOK, Window, NEW p \in Page, NEW v \in View,
         NEW R \in Seq(Request), R /= <<>>, NEW wire \in Seq(Msg),
         PageSound(p, LastSeq), Streams(p, v, R, wire, LastSeq), Head(R).cmd = "ACK",
         ~AckAccepted(v, Head(R).seq)
  PROVE  Streams(p, v, Tail(R), wire, LastSeq)
<1> DEFINE seq == Head(R).seq
           w == p.watermark
<1>1. seq \in Nat
  BY RequestsTail
<1>2. AcksBehind(w, v, R)
  BY DEF Streams
<1>3. AcksBehind(w, v, Tail(R)) /\ (NoPause(R) => NoPause(Tail(R)))
  BY <1>2, TailBehind
<1>4. ASSUME p.callbacks  PROVE Flowing(p, v, Tail(R), wire, LastSeq)
  <2> DEFINE t == Tip(Frames(wire), Reached(p))
  <2>1. /\ Flowing(p, v, R, wire, LastSeq)
        /\ \A i \in 1 .. Len(Tail(R)) : Tail(R)[i].cmd \in {"ACK", "PAUSE_VIEW"}
    BY <1>4, NotAsked DEF Asks
  <2>2. LastSeq \in Nat /\ BaseSeq \in Nat /\ BaseSeq > 1
    BY HeadIn, RingAssumption
  <2>3. t \in Nat /\ w <= t /\ w \in Nat
    BY <2>1, <2>2, FlowEnds
  <2>4. Feeds(v, t, LastSeq) /\ v.batcher /\ Drains(w, v, R, t)
    BY <2>1 DEF Flowing
  <2> HIDE DEF t
  <2>5. Drains(w, v, Tail(R), t)
    <3>1. Drains(w, v, Tail(R), t) \/ (v.sentEntries /= <<>> /\ seq = w)
      BY <2>4, DrainsOn
    <3>2. ASSUME v.sentEntries /= <<>>, seq = w  PROVE t > w
      <4>1. v.lastSentSeq = t /\ BaseSeq - 1 <= t
        BY <2>4, <3>2 DEF Feeds
      <4>2. v.ack <= seq /\ v.ack \in Nat
        BY <1>2, <3>2, ViewIn DEF AcksBehind
      <4>3. ~(seq > 0) \/ ~(seq <= t)
        BY <2>4, <4>1, <4>2 DEF AckAccepted
      <4>4. QED
        BY <1>1, <2>2, <2>3, <3>2, <4>1, <4>3
    <3>3. t > w => Drains(w, v, Tail(R), t)
      BY DEF Drains
    <3>4. QED
      BY <3>1, <3>2, <3>3
  <2>6. QED
    BY <2>1, <2>5, Zenon DEF Flowing, t, w
<1>5. QED
  BY <1>3, <1>4, Zenon DEF Streams, w

(* A PAUSE_VIEW is taken up: the pane is hidden. *)
LEMMA PauseStreams ==
  ASSUME NEW p \in Page, NEW v \in View, v.out = <<>>, NEW R \in Seq(Request), R /= <<>>,
         NEW wire \in Seq(Msg), NEW h \in Nat, PageSound(p, h), Streams(p, v, R, wire, h),
         Head(R).cmd = "PAUSE_VIEW",
         NEW s, s = [v EXCEPT !.paused = v.joined, !.pausedView = v.batcher]
  PROVE  Streams(p, s, Tail(R), wire \o s.out, h)
<1>1. s.ack = v.ack /\ s.out = <<>> /\ s.sentEntries = v.sentEntries
  BY Zenon DEF View
<1>2. AcksBehind(p.watermark, v, R)
  BY DEF Streams
<1>3. AcksBehind(p.watermark, s, Tail(R)) /\ (NoPause(R) => NoPause(Tail(R)))
  BY <1>1, <1>2, TailBehind
<1>4. ASSUME p.callbacks  PROVE Flowing(p, s, Tail(R), wire \o s.out, h)
  <2> DEFINE t == Tip(Frames(wire), Reached(p))
  <2>1. /\ Flowing(p, v, R, wire, h)
        /\ \A i \in 1 .. Len(Tail(R)) : Tail(R)[i].cmd \in {"ACK", "PAUSE_VIEW"}
    BY <1>4, NotAsked DEF Asks
  <2>2. t \in Nat
    BY <2>1, FlowEnds
  <2>3. Feeds(v, t, h) /\ v.joined /\ v.batcher /\ Drains(p.watermark, v, R, t)
    BY <2>1 DEF Flowing
  <2>4. p.stream = "paused"
    <3>1. Head(R) = R[1] /\ 1 \in 1 .. Len(R)
      BY RequestsTail
    <3>2. ~NoPause(R)
      BY <3>1 DEF NoPause
    <3>3. QED
      BY <1>4, <3>2 DEF Streams
  <2> HIDE DEF t
  <2>5. LET r == [v EXCEPT !.paused = v.joined, !.pausedView = v.batcher] IN
        /\ Feeds(r, t, h) /\ r.joined /\ r.batcher /\ r.ack = v.ack /\ r.out = v.out
        /\ r.sentEntries = v.sentEntries /\ r.pausedView
    BY <2>3, PauseFeeds, Zenon
  <2>6. Feeds(s, t, h) /\ s.joined /\ s.batcher
    BY <2>5, Zenon
  <2>7. Sends(s, t, h)
    BY <1>1, <2>6, SilentSends
  <2>8. Drains(p.watermark, s, Tail(R), t)
    <3>1. Head(R).cmd /= "ACK"
      OBVIOUS
    <3>2. QED
      BY <1>1, <2>3, <3>1, DrainsOn
  <2>9. s.pausedView => v.pausedView \/ p.stream = "paused"
    BY <2>4
  <2>10. QED
    BY <2>1, <2>6, <2>7, <2>8, <2>9, FlowOn DEF t
<1>5. QED
  BY <1>3, <1>4, Zenon DEF Streams

(* A DETACH is taken up: nobody listens any more. *)
LEMMA DetachStreams ==
  ASSUME NEW p \in Page, NEW v, NEW R \in Seq(Request), R /= <<>>,
         NEW wire, NEW h, Streams(p, v, R, wire, h), Head(R).cmd = "DETACH",
         NEW s, s.ack = 0, NEW down
  PROVE  ~p.callbacks /\ Streams(p, s, Tail(R), down, h)
<1>1. ~p.callbacks
  <2>1. ~Asks(R)
    BY DEF Asks
  <2>2. QED
    BY <2>1, NotAsked
<1>2. p.watermark \in Nat
  BY PageIn
<1>3. \A i \in 1 .. Len(Tail(R)) : Tail(R)[i] = R[i + 1] /\ i + 1 \in 1 .. Len(R)
  BY RequestsTail
<1>4. AcksBehind(p.watermark, s, Tail(R))
  BY <1>2, <1>3 DEF Streams, AcksBehind
<1>5. QED
  BY <1>1, <1>4 DEF Streams

-----------------------------------------------------------------------------
(* What the page does to itself.                                           *)

SameLink(p, q) ==
  q.connection = p.connection /\ q.dialed = p.dialed /\ q.callbacks = p.callbacks /\ q.waiting = p.waiting
SameScreen(p, q) ==
  q.watermark = p.watermark /\ q.writing = p.writing /\ q.painted = p.painted /\ q.exact = p.exact
SameQueue(p, q) == q.queue = p.queue /\ q.pendingAckSeq = p.pendingAckSeq
SamePane(p, q) == q.stream = p.stream /\ q.mounted = p.mounted

(* What a page asks for goes out if it has a connection. *)
Said(p, q, x) ==
  q.sends = IF p.connection = NoConnection THEN p.sends ELSE Append(p.sends, x)

LEMMA SendFields ==
  ASSUME NEW p \in Page, NEW cmd \in {"ATTACH", "DETACH", "ACK", "PAUSE_VIEW", "RESUME_VIEW"},
         NEW seq \in Nat
  PROVE  LET q == Send(p, cmd, seq) IN
         /\ q \in Page /\ SameLink(p, q) /\ SameScreen(p, q) /\ SameQueue(p, q) /\ SamePane(p, q)
         /\ q.crossed = p.crossed /\ Said(p, q, [cmd |-> cmd, seq |-> seq])
         /\ [cmd |-> cmd, seq |-> seq] \in Request
<1> DEFINE x == [cmd |-> cmd, seq |-> seq]
           q == Send(p, cmd, seq)
<1>1. x \in Request
  BY Zenon DEF Request
<1>2. p.sends \in Seq(Request)
  BY PageIn
<1> HIDE DEF x
<1>3. Append(p.sends, x) \in Seq(Request)
  BY <1>1, <1>2
<1>4. CASE p.connection = NoConnection
  <2>1. q = p
    BY <1>4, Zenon DEF Send
  <2>2. QED
    BY <1>1, <1>4, <2>1, Zenon DEF SameLink, SameScreen, SameQueue, SamePane, Said, x
<1>5. CASE p.connection /= NoConnection
  <2>1. q = [p EXCEPT !.sends = Append(@, x)]
    BY <1>5, Zenon DEF Send, x
  <2>2. q \in Page
    BY <1>3, <2>1, ZenonT(60) DEF Page
  <2>3. /\ SameLink(p, q) /\ SameScreen(p, q) /\ SameQueue(p, q) /\ SamePane(p, q)
        /\ q.crossed = p.crossed /\ q.sends = Append(p.sends, x)
    BY <2>1, Zenon DEF Page, SameLink, SameScreen, SameQueue, SamePane
  <2>4. QED
    BY <1>1, <1>5, <2>2, <2>3, Zenon DEF Said, x
<1>6. QED
  BY <1>4, <1>5

LEMMA CancelFields ==
  ASSUME NEW p \in Page
  PROVE  LET q == CancelPendingWrites(p) IN
         /\ q \in Page /\ SameLink(p, q) /\ SameScreen(p, q) /\ SamePane(p, q)
         /\ q.crossed = p.crossed /\ q.sends = p.sends /\ q.queue = <<>> /\ q.pendingAckSeq = 0
<1>1. 0 \in Nat
  OBVIOUS
<1>2. QED
  BY <1>1, EmptyIn, Zenon DEF Page, CancelPendingWrites, SameLink, SameScreen, SamePane

LEMMA ActivateFields ==
  ASSUME NEW p \in Page
  PROVE  LET q == Activate(p) IN
         /\ q \in Page /\ SameLink(p, q) /\ SameScreen(p, q) /\ SameQueue(p, q)
         /\ q.crossed = p.crossed /\ q.sends = p.sends /\ q.mounted = p.mounted
         /\ q.stream = IF p.stream = "idle" THEN "queued" ELSE p.stream
<1> DEFINE s == IF p.stream = "idle" THEN "queued" ELSE p.stream
           q == Activate(p)
<1>1. s \in {"idle", "queued", "attaching", "attached", "paused"}
  <2>1. p.stream \in {"idle", "queued", "attaching", "attached", "paused"}
    BY Zenon DEF Page
  <2>2. QED
    BY <2>1
<1>2. q = [p EXCEPT !.wants = TRUE, !.stream = s]
  BY Zenon DEF Activate
<1> HIDE DEF s, q
<1>3. q \in Page
  BY <1>1, <1>2, Zenon DEF Page
<1>4. /\ SameLink(p, q) /\ SameScreen(p, q) /\ SameQueue(p, q)
      /\ q.crossed = p.crossed /\ q.sends = p.sends /\ q.mounted = p.mounted /\ q.stream = s
  BY <1>2, Zenon DEF Page, SameLink, SameScreen, SameQueue
<1>5. QED
  BY <1>3, <1>4, Zenon DEF s, q

(* A stream is let go of: with a DETACH if it ran. *)
LEMMA DetachFields ==
  ASSUME NEW p \in Page
  PROVE  LET q == DetachSession(p) IN
         /\ q \in Page /\ SameScreen(p, q) /\ SameQueue(p, q) /\ SamePane(p, q)
         /\ q.connection = p.connection /\ q.dialed = p.dialed /\ q.waiting = p.waiting
         /\ ~q.callbacks /\ q.crossed = p.crossed /\ Said(p, q, [cmd |-> "DETACH", seq |-> 0])
         /\ [cmd |-> "DETACH", seq |-> 0] \in Request
<1> DEFINE s == Send(p, "DETACH", 0)
           q == DetachSession(p)
<1>1. 0 \in Nat
  OBVIOUS
<1>2. /\ s \in Page /\ SameLink(p, s) /\ SameScreen(p, s) /\ SameQueue(p, s) /\ SamePane(p, s)
      /\ s.crossed = p.crossed /\ Said(p, s, [cmd |-> "DETACH", seq |-> 0])
      /\ [cmd |-> "DETACH", seq |-> 0] \in Request
  BY <1>1, SendFields, Zenon
<1>3. q = [s EXCEPT !.callbacks = FALSE]
  BY Zenon DEF DetachSession
<1> HIDE DEF s, q
<1>4. q \in Page
  BY <1>2, <1>3, Zenon DEF Page
<1>5. /\ SameScreen(s, q) /\ SameQueue(s, q) /\ SamePane(s, q)
      /\ q.connection = s.connection /\ q.dialed = s.dialed /\ q.waiting = s.waiting
      /\ ~q.callbacks /\ q.crossed = s.crossed /\ q.sends = s.sends
  BY <1>2, <1>3, Zenon DEF Page, SameScreen, SameQueue, SamePane
<1>6. QED
  BY <1>2, <1>4, <1>5, Zenon DEF SameLink, SameScreen, SameQueue, SamePane, Said, q

LEMMA DisconnectFields ==
  ASSUME NEW p \in Page
  PROVE  LET q == Disconnect(p) IN
         /\ q \in Page /\ SameScreen(p, q) /\ SameQueue(p, q) /\ q.stream = "idle"
         /\ q.connection = p.connection /\ q.dialed = p.dialed /\ q.waiting = p.waiting
         /\ q.mounted = p.mounted /\ q.crossed = p.crossed
         /\ Streaming(p) => ~q.callbacks /\ Said(p, q, [cmd |-> "DETACH", seq |-> 0])
         /\ ~Streaming(p) => q.callbacks = p.callbacks /\ q.sends = p.sends
<1> DEFINE e == [p EXCEPT !.stream = "idle", !.retryTimer = FALSE, !.retries = 0]
           q == Disconnect(p)
<1>1. 0 \in Nat
  OBVIOUS
<1>2. /\ e \in Page /\ SameScreen(p, e) /\ SameQueue(p, e) /\ SameLink(p, e)
      /\ e.stream = "idle" /\ e.mounted = p.mounted /\ e.crossed = p.crossed /\ e.sends = p.sends
  BY <1>1, Zenon DEF Page, SameScreen, SameQueue, SameLink
<1>3. CASE p.stream = "idle"
  <2>1. q = p /\ ~Streaming(p)
    BY <1>3, Zenon DEF Disconnect, Streaming
  <2>2. QED
    BY <1>3, <2>1, Zenon DEF SameScreen, SameQueue
<1>4. CASE p.stream /= "idle" /\ ~Streaming(p)
  <2>1. q = e
    BY <1>4, Zenon DEF Disconnect, Streaming
  <2>2. QED
    BY <1>2, <1>4, <2>1, Zenon DEF SameLink
<1>5. CASE Streaming(p)
  <2>1. q = DetachSession(e)
    BY <1>5, Zenon DEF Disconnect, Streaming
  <2> HIDE DEF e
  <2>2. /\ q \in Page /\ SameScreen(e, q) /\ SameQueue(e, q) /\ SamePane(e, q)
        /\ q.connection = e.connection /\ q.dialed = e.dialed /\ q.waiting = e.waiting
        /\ ~q.callbacks /\ q.crossed = e.crossed /\ Said(e, q, [cmd |-> "DETACH", seq |-> 0])
    BY <1>2, <2>1, DetachFields, ZenonT(60)
  <2>3. QED
    BY <1>2, <1>5, <2>2, Zenon DEF SameLink, SameScreen, SameQueue, SamePane, Said
<1>6. QED
  BY <1>3, <1>4, <1>5

LEMMA AttachFailedFields ==
  ASSUME NEW p \in Page
  PROVE  LET q == AttachFailed(p) IN
         /\ q \in Page /\ SameLink(p, q) /\ SameScreen(p, q) /\ SameQueue(p, q)
         /\ q.crossed = p.crossed /\ q.sends = p.sends /\ q.mounted = p.mounted
         /\ q.stream = IF p.stream = "attaching" THEN "idle" ELSE p.stream
<1> DEFINE q == AttachFailed(p)
           a == [p EXCEPT !.stream = "idle", !.retries = @ + 1, !.retryTimer = TRUE]
           b == [p EXCEPT !.stream = "idle"]
<1>1. p.retries + 1 \in Nat
  <2>1. p.retries \in Nat
    BY Zenon DEF Page
  <2>2. QED
    BY <2>1
<1>2. CASE p.stream /= "attaching"
  <2>1. q = p
    BY <1>2, Zenon DEF AttachFailed
  <2>2. QED
    BY <1>2, <2>1, Zenon DEF SameLink, SameScreen, SameQueue
<1>3. CASE p.stream = "attaching"
  <2>1. q = a \/ q = b
    BY <1>3, Zenon DEF AttachFailed
  <2>2. CASE q = a
    BY <1>1, <1>3, <2>2, ZenonT(60) DEF Page, SameLink, SameScreen, SameQueue
  <2>3. CASE q = b
    BY <1>3, <2>3, ZenonT(60) DEF Page, SameLink, SameScreen, SameQueue
  <2>4. QED
    BY <2>1, <2>2, <2>3
<1>4. QED
  BY <1>2, <1>3

(* A stream that does not cross another finds everything still. *)
Settled(c, p) ==
  /\ p.queue = <<>> /\ p.writing = <<>>
  /\ toServer[c] = <<>> /\ toClient[c] = <<>>
  /\ view[c].pending = <<>> /\ ~Fed(view[c])

LEMMA BeginsFields ==
  ASSUME NEW p \in Page
  PROVE  LET q == Begins(p) IN
         /\ q \in Page /\ SameLink(p, q) /\ SameScreen(p, q) /\ SameQueue(p, q) /\ SamePane(p, q)
         /\ q.sends = p.sends /\ (q.crossed <=> p.crossed \/ ~Settled(p.connection, p))
<1> DEFINE b == p.crossed \/ ~Settled(p.connection, p)
           q == Begins(p)
<1>1. q = [p EXCEPT !.crossed = b]
  BY Zenon DEF Begins, Settled
<1>2. b \in BOOLEAN
  BY Zenon
<1> HIDE DEF b, q
<1>3. q \in Page
  BY <1>1, <1>2, Zenon DEF Page
<1>4. /\ SameLink(p, q) /\ SameScreen(p, q) /\ SameQueue(p, q) /\ SamePane(p, q)
      /\ q.sends = p.sends /\ q.crossed = b
  BY <1>1, Zenon DEF Page, SameLink, SameScreen, SameQueue, SamePane
<1>5. QED
  BY <1>3, <1>4, Zenon DEF b, q

-----------------------------------------------------------------------------
(* A page and its stream.                                                  *)

PageOK(p) ==
  /\ p.stream \in {"attaching", "attached", "paused"} => p.callbacks
  /\ Streaming(p) => ~p.waiting
  /\ ~p.mounted => p.stream = "idle"
  /\ p.callbacks => p.connection /= NoConnection
  /\ p.waiting => p.connection /= NoConnection
  /\ p.connection /= NoConnection => p.connection \in p.dialed

(* Once all requests have been taken up, the server has the viewer. *)
EndsJoined(v, R) ==
  \/ \E i \in 1 .. Len(R) : R[i].cmd = "ATTACH" /\ \A j \in 1 .. Len(R) : j > i => R[j].cmd /= "DETACH"
  \/ v.joined /\ \A j \in 1 .. Len(R) : R[j].cmd /= "DETACH"

Follows(p, v, R, wire, h) ==
  /\ ~p.crossed => /\ PageSound(p, h)
                   /\ p.connection /= NoConnection => Streams(p, v, R, wire, h)
  /\ p.connection /= NoConnection /\ EndsJoined(v, R) => p.waiting \/ Streaming(p)

(* The other end of a page's connection. *)
Typed(p, v, R, wire) ==
  p.connection /= NoConnection => v \in View /\ R \in Seq(Request) /\ wire \in Seq(Msg)

(* One more request. *)
LEMMA RequestsOn ==
  ASSUME NEW R \in Seq(Request), NEW x \in Request
  PROVE  /\ Append(R, x) \in Seq(Request) /\ R \o Append(<<>>, x) = Append(R, x)
         /\ Len(R) \in Nat /\ Len(Append(R, x)) = Len(R) + 1 /\ Append(R, x) /= <<>>
         /\ Len(R) + 1 \in 1 .. Len(Append(R, x)) /\ Append(R, x)[Len(R) + 1] = x
         /\ \A i \in 1 .. Len(R) : i \in 1 .. Len(Append(R, x)) /\ Append(R, x)[i] = R[i]
         /\ \A i \in 1 .. Len(Append(R, x)) : i \in 1 .. Len(R) \/ i = Len(R) + 1
         /\ R = <<>> => Len(Append(R, x)) = 1 /\ Head(Append(R, x)) = x
         /\ R /= <<>> => Head(Append(R, x)) = Head(R)
OBVIOUS

LEMMA NoRequests ==
  ASSUME NEW R \in Seq(Request)
  PROVE  R \o <<>> = R
OBVIOUS

LEMMA AcksOn ==
  ASSUME NEW w, NEW v, NEW R \in Seq(Request), NEW x \in Request, AcksBehind(w, v, R),
         x.cmd = "ACK" => x.seq <= w
  PROVE  AcksBehind(w, v, Append(R, x))
<1> DEFINE Q == Append(R, x)
<1>1. /\ \A i \in 1 .. Len(R) : Q[i] = R[i]
      /\ \A i \in 1 .. Len(Q) : i \in 1 .. Len(R) \/ i = Len(R) + 1
      /\ Q[Len(R) + 1] = x
  BY RequestsOn
<1> HIDE DEF Q
<1>2. \A i \in 1 .. Len(Q) : Q[i].cmd = "ACK" => Q[i].seq <= w
  <2>1. SUFFICES ASSUME NEW i \in 1 .. Len(Q), Q[i].cmd = "ACK"  PROVE Q[i].seq <= w
    OBVIOUS
  <2>2. CASE i \in 1 .. Len(R)
    BY <1>1, <2>1, <2>2 DEF AcksBehind
  <2>3. CASE i = Len(R) + 1
    BY <1>1, <2>1, <2>3
  <2>4. QED
    BY <1>1, <2>2, <2>3
<1>3. QED
  BY <1>2 DEF AcksBehind, Q

(* A DETACH is the end of it, what is neither that nor an ATTACH changes       *)
(* nothing.                                                                *)
LEMMA JoinedOn ==
  ASSUME NEW v, NEW R \in Seq(Request), NEW x \in Request
  PROVE  /\ x.cmd = "DETACH" => ~EndsJoined(v, Append(R, x))
         /\ x.cmd /= "ATTACH" /\ EndsJoined(v, Append(R, x)) => EndsJoined(v, R)
<1> DEFINE Q == Append(R, x)
           n == Len(R)
<1>1. /\ n \in Nat /\ n + 1 \in 1 .. Len(Q) /\ Len(Q) = n + 1 /\ Q[n + 1] = x
      /\ \A i \in 1 .. n : i \in 1 .. Len(Q) /\ Q[i] = R[i]
      /\ \A i \in 1 .. Len(Q) : i \in 1 .. n \/ i = n + 1
  BY RequestsOn
<1> HIDE DEF Q, n
<1>2. ASSUME x.cmd = "DETACH"  PROVE ~EndsJoined(v, Q)
  <2>1. ASSUME NEW i \in 1 .. Len(Q), Q[i].cmd = "ATTACH",
               \A j \in 1 .. Len(Q) : j > i => Q[j].cmd /= "DETACH"
        PROVE  FALSE
    <3>1. CASE i = n + 1
      BY <1>1, <1>2, <2>1, <3>1
    <3>2. CASE i \in 1 .. n
      <4>1. n + 1 > i
        BY <1>1, <3>2
      <4>2. QED
        BY <1>1, <1>2, <2>1, <4>1
    <3>3. QED
      BY <1>1, <3>1, <3>2
  <2>2. ~(\A j \in 1 .. Len(Q) : Q[j].cmd /= "DETACH")
    BY <1>1, <1>2
  <2>3. QED
    BY <2>1, <2>2 DEF EndsJoined
<1>3. ASSUME x.cmd /= "ATTACH", EndsJoined(v, Q)  PROVE EndsJoined(v, R)
  <2>1. CASE v.joined /\ \A j \in 1 .. Len(Q) : Q[j].cmd /= "DETACH"
    <3>1. \A j \in 1 .. n : R[j].cmd /= "DETACH"
      BY <1>1, <2>1
    <3>2. QED
      BY <2>1, <3>1 DEF EndsJoined, n
  <2>2. ASSUME NEW i \in 1 .. Len(Q), Q[i].cmd = "ATTACH",
               \A j \in 1 .. Len(Q) : j > i => Q[j].cmd /= "DETACH"
        PROVE  EndsJoined(v, R)
    <3>1. i \in 1 .. n
      BY <1>1, <1>3, <2>2
    <3>2. R[i].cmd = "ATTACH" /\ \A j \in 1 .. n : j > i => R[j].cmd /= "DETACH"
      BY <1>1, <2>2, <3>1
    <3>3. QED
      BY <3>1, <3>2 DEF EndsJoined, n
  <2>3. QED
    BY <1>3, <2>1, <2>2 DEF EndsJoined
<1>4. QED
  BY <1>2, <1>3 DEF Q

(* What is on the screen and to be painted is what it was, but for what waited *)
(* for a frame perhaps.                                                    *)
LEMMA ScreenKept ==
  ASSUME NEW p \in Page, NEW h \in Nat, PageSound(p, h), NEW q, SameScreen(p, q)
  PROVE  /\ Written(q) = Written(p)
         /\ SameQueue(p, q) => PageSound(q, h) /\ Reached(q) = Reached(p)
         /\ q.queue = <<>> => PageSound(q, h) /\ Reached(q) = Written(p)
<1>1. /\ q.watermark = p.watermark /\ q.writing = p.writing /\ q.painted = p.painted
      /\ q.exact = p.exact
  BY DEF SameScreen
<1>2. Written(q) = Written(p)
  BY <1>1 DEF Written
<1>3. Written(p) <= h
  BY ReachedIn
<1>4. ASSUME SameQueue(p, q)  PROVE PageSound(q, h) /\ Reached(q) = Reached(p)
  <2>1. q.queue = p.queue /\ q.pendingAckSeq = p.pendingAckSeq
    BY <1>4 DEF SameQueue
  <2>2. Reached(q) = Reached(p) /\ Queued(q) = Queued(p)
    BY <1>2, <2>1 DEF Reached, Queued
  <2>3. QED
    BY <1>1, <1>2, <2>1, <2>2, Zenon DEF PageSound
<1>5. ASSUME q.queue = <<>>  PROVE PageSound(q, h) /\ Reached(q) = Written(p)
  <2>1. Reached(q) = Written(p)
    BY <1>2, <1>5 DEF Reached
  <2>2. QED
    BY <1>1, <1>2, <1>3, <1>5, <2>1, Zenon DEF PageSound
<1>6. QED
  BY <1>2, <1>4, <1>5

(* Nothing that a stream is about has moved. *)
Unmoved(p, q) ==
  /\ q.connection = p.connection /\ q.callbacks = p.callbacks /\ q.waiting = p.waiting
  /\ SameScreen(p, q) /\ q.crossed = p.crossed
  /\ Streaming(q) <=> Streaming(p)
  /\ q.stream = "paused" <=> p.stream = "paused"
  /\ SameQueue(p, q) \/ (q.queue = <<>> /\ ~Streaming(p))

LEMMA UnmovedStreams ==
  ASSUME NEW p \in Page, NEW h \in Nat, PageSound(p, h), NEW q, Unmoved(p, q),
         NEW v, NEW R, NEW wire, Streams(p, v, R, wire, h)
  PROVE  Streams(q, v, R, wire, h)
<1>1. /\ q.watermark = p.watermark /\ q.writing = p.writing /\ q.waiting = p.waiting
      /\ q.callbacks = p.callbacks /\ (Streaming(q) <=> Streaming(p))
      /\ (q.stream = "paused" <=> p.stream = "paused")
  BY Zenon DEF Unmoved, SameScreen
<1>2. SUFFICES ASSUME p.callbacks
               PROVE  Asked(q, v, R, wire) \/ Flowing(q, v, R, wire, h)
  BY <1>1, Zenon DEF Streams
<1>3. CASE Asked(p, v, R, wire)
  <2>1. q.queue = <<>>
    BY <1>3, Zenon DEF Asked, Unmoved, SameQueue
  <2>2. QED
    BY <1>1, <1>3, <2>1, Zenon DEF Asked
<1>4. CASE Flowing(p, v, R, wire, h)
  <2>1. ~Streaming(p) => p.queue = <<>>
    BY <1>4 DEF Flowing
  <2>2. q.queue = p.queue /\ Reached(q) = Reached(p)
    <3>1. CASE SameQueue(p, q)
      BY <3>1, ScreenKept DEF Unmoved, SameQueue
    <3>2. CASE q.queue = <<>> /\ ~Streaming(p)
      <4>1. Reached(q) = Written(p)
        BY <3>2, ScreenKept DEF Unmoved
      <4>2. QED
        BY <2>1, <3>2, <4>1 DEF Reached
    <3>3. QED
      BY <3>1, <3>2 DEF Unmoved
  <2>3. QED
    BY <1>1, <1>4, <2>2, Zenon DEF Flowing
<1>5. QED
  BY <1>2, <1>3, <1>4 DEF Streams

LEMMA UnmovedFollows ==
  ASSUME NEW p \in Page, NEW h \in Nat, NEW q, Unmoved(p, q),
         NEW v, NEW R, NEW wire, Follows(p, v, R, wire, h)
  PROVE  Follows(q, v, R, wire, h)
<1>1. /\ q.crossed = p.crossed /\ q.connection = p.connection /\ q.waiting = p.waiting
      /\ (Streaming(q) <=> Streaming(p))
  BY Zenon DEF Unmoved
<1>2. ASSUME ~p.crossed  PROVE PageSound(q, h)
  <2>1. PageSound(p, h)
    BY <1>2 DEF Follows
  <2>2. SameScreen(p, q) /\ (SameQueue(p, q) \/ q.queue = <<>>)
    BY DEF Unmoved
  <2>3. QED
    BY <2>1, <2>2, ScreenKept
<1>3. ASSUME ~p.crossed, p.connection /= NoConnection  PROVE Streams(q, v, R, wire, h)
  <2>1. PageSound(p, h) /\ Streams(p, v, R, wire, h)
    BY <1>3 DEF Follows
  <2>2. QED
    BY <2>1, UnmovedStreams
<1>4. QED
  BY <1>1, <1>2, <1>3, Zenon DEF Follows

(* A stream is let go of. *)
LEMMA LetGo ==
  ASSUME NEW p \in Page, NEW h \in Nat, NEW q,
         q.connection = p.connection, SameScreen(p, q), q.crossed = p.crossed, ~q.callbacks,
         SameQueue(p, q) \/ q.queue = <<>>,
         NEW v, NEW R, NEW wire, Typed(p, v, R, wire), Follows(p, v, R, wire, h),
         NEW x \in Request, x.cmd = "DETACH", NEW down
  PROVE  Follows(q, v, Append(R, x), down, h)
<1>1. ASSUME ~p.crossed  PROVE PageSound(q, h)
  <2>1. PageSound(p, h)
    BY <1>1 DEF Follows
  <2>2. QED
    BY <2>1, ScreenKept
<1>2. ASSUME ~p.crossed, p.connection /= NoConnection
      PROVE  Streams(q, v, Append(R, x), down, h)
  <2>1. AcksBehind(p.watermark, v, R) /\ R \in Seq(Request)
    BY <1>2 DEF Follows, Streams, Typed
  <2>2. x.cmd = "ACK" => x.seq <= p.watermark
    OBVIOUS
  <2>3. AcksBehind(p.watermark, v, Append(R, x))
    BY <2>1, <2>2, AcksOn
  <2>4. QED
    BY <2>3 DEF Streams, SameScreen
<1>3. p.connection /= NoConnection => ~EndsJoined(v, Append(R, x))
  BY JoinedOn DEF Typed
<1>4. QED
  BY <1>1, <1>2, <1>3, Zenon DEF Follows

-----------------------------------------------------------------------------
(* The steps of the page, above a stream.                                  *)

LEMMA SaidFollows ==
  ASSUME NEW p, p.sends = <<>>, NEW q, q.connection = p.connection, NEW x \in Request,
         Said(p, q, x), NEW v, NEW R, NEW wire, Typed(p, v, R, wire), NEW down, NEW h,
         Follows(q, v, Append(R, x), down, h)
  PROVE  Follows(q, v, R \o q.sends, down, h)
<1>1. CASE p.connection = NoConnection
  BY <1>1, Zenon DEF Follows
<1>2. CASE p.connection /= NoConnection
  <2>1. q.sends = Append(<<>>, x)
    BY <1>2 DEF Said
  <2>2. R \o Append(<<>>, x) = Append(R, x)
    BY <1>2, RequestsOn DEF Typed
  <2>3. QED
    BY <2>1, <2>2
<1>3. QED
  BY <1>1, <1>2

LEMMA QuietFollows ==
  ASSUME NEW q, q.sends = <<>>, NEW p, q.connection = p.connection,
         NEW v, NEW R, NEW wire, Typed(p, v, R, wire), NEW down, NEW h, Follows(q, v, R, down, h)
  PROVE  Follows(q, v, R \o q.sends, down, h)
<1>1. CASE p.connection = NoConnection
  BY <1>1, Zenon DEF Follows
<1>2. CASE p.connection /= NoConnection
  <2>1. R \o <<>> = R
    BY <1>2, NoRequests DEF Typed
  <2>2. QED
    BY <2>1
<1>3. QED
  BY <1>1, <1>2

(* The pane is unmounted. *)
LEMMA UnmountStep ==
  ASSUME NEW p \in Page, PageOK(p), p.sends = <<>>,
         NEW q, q = CancelPendingWrites(Disconnect([p EXCEPT !.mounted = FALSE])),
         NEW v, NEW R, NEW wire, Typed(p, v, R, wire), NEW h \in Nat
  PROVE  /\ q \in Page /\ PageOK(q) /\ q.connection = p.connection /\ q.dialed = p.dialed
         /\ Follows(p, v, R, wire, h) => Follows(q, v, R \o q.sends, wire, h)
<1> DEFINE m == [p EXCEPT !.mounted = FALSE]
           d == Disconnect(m)
           x == [cmd |-> "DETACH", seq |-> 0]
<1>1. /\ m \in Page /\ SameLink(p, m) /\ SameScreen(p, m) /\ SameQueue(p, m)
      /\ m.stream = p.stream /\ m.mounted = FALSE /\ m.crossed = p.crossed /\ m.sends = p.sends
  BY Zenon DEF Page, SameLink, SameScreen, SameQueue
<1> HIDE DEF m
<1>2. /\ d \in Page /\ SameScreen(m, d) /\ SameQueue(m, d) /\ d.stream = "idle"
      /\ d.connection = m.connection /\ d.dialed = m.dialed /\ d.waiting = m.waiting
      /\ d.mounted = m.mounted /\ d.crossed = m.crossed
      /\ Streaming(m) => ~d.callbacks /\ Said(m, d, x)
      /\ ~Streaming(m) => d.callbacks = m.callbacks /\ d.sends = m.sends
  BY <1>1, DisconnectFields, Zenon
<1> HIDE DEF d
<1>3. /\ q \in Page /\ SameLink(d, q) /\ SameScreen(d, q) /\ SamePane(d, q)
      /\ q.crossed = d.crossed /\ q.sends = d.sends /\ q.queue = <<>>
  BY <1>2, CancelFields, Zenon DEF d, m
<1>4. /\ q.connection = p.connection /\ q.dialed = p.dialed /\ q.waiting = p.waiting
      /\ q.stream = "idle" /\ q.mounted = FALSE /\ q.crossed = p.crossed /\ SameScreen(p, q)
  BY <1>1, <1>2, <1>3, Zenon DEF SameLink, SameScreen, SamePane
<1>5. /\ Streaming(p) <=> Streaming(m)
      /\ Streaming(p) => ~q.callbacks /\ Said(p, q, x)
      /\ ~Streaming(p) => q.callbacks = p.callbacks /\ q.sends = <<>>
  BY <1>1, <1>2, <1>3, Zenon DEF Streaming, SameLink, Said
<1>6. ~Streaming(q) /\ q.stream /= "paused" /\ PageOK(q)
  BY <1>4, <1>5 DEF PageOK, Streaming
<1>7. ASSUME Follows(p, v, R, wire, h)  PROVE Follows(q, v, R \o q.sends, wire, h)
  <2>1. CASE Streaming(p)
    <3>1. x \in Request /\ x.cmd = "DETACH"
      BY DEF Request
    <3> HIDE DEF x
    <3>2. Follows(q, v, Append(R, x), wire, h)
      BY <1>3, <1>4, <1>5, <1>7, <2>1, <3>1, LetGo
    <3>3. QED
      BY <1>4, <1>5, <2>1, <3>1, <3>2, SaidFollows
  <2>2. CASE ~Streaming(p)
    <3>1. p.stream /= "paused"
      BY <2>2 DEF Streaming
    <3>2. Unmoved(p, q)
      BY <1>3, <1>4, <1>5, <1>6, <2>2, <3>1, Zenon DEF Unmoved
    <3>3. Follows(q, v, R, wire, h)
      BY <1>7, <3>2, UnmovedFollows
    <3>4. QED
      BY <1>4, <1>5, <2>2, <3>3, QuietFollows
  <2>3. QED
    BY <2>1, <2>2
<1>8. QED
  BY <1>3, <1>4, <1>6, <1>7

(* The pane is hidden. *)
LEMMA HideStep ==
  ASSUME NEW p \in Page, PageOK(p), p.sends = <<>>, p.mounted, NEW q, q = HostPauseView(p),
         NEW v, NEW R, NEW wire, Typed(p, v, R, wire), NEW h \in Nat
  PROVE  /\ q \in Page /\ PageOK(q) /\ q.connection = p.connection /\ q.dialed = p.dialed
         /\ Follows(p, v, R, wire, h) => Follows(q, v, R \o q.sends, wire, h)
<1> DEFINE m == [p EXCEPT !.wants = FALSE]
           s == [m EXCEPT !.stream = "paused"]
           x == [cmd |-> "PAUSE_VIEW", seq |-> 0]
<1>1. /\ m \in Page /\ SameLink(p, m) /\ SameScreen(p, m) /\ SameQueue(p, m) /\ SamePane(p, m)
      /\ m.crossed = p.crossed /\ m.sends = p.sends
  BY Zenon DEF Page, SameLink, SameScreen, SameQueue, SamePane
<1>2. CASE p.stream /= "attached"
  <2>1. q = m
    BY <1>2, Zenon DEF HostPauseView
  <2>2. Unmoved(p, q)
    BY <1>1, <2>1, Zenon DEF Unmoved, SameLink, SamePane, Streaming
  <2>3. PageOK(q)
    BY <1>1, <2>1, Zenon DEF PageOK, SameLink, SamePane, Streaming
  <2>4. q.connection = p.connection /\ q.dialed = p.dialed /\ q.sends = <<>>
    BY <1>1, <2>1, Zenon DEF SameLink
  <2>5. ASSUME Follows(p, v, R, wire, h)  PROVE Follows(q, v, R \o q.sends, wire, h)
    <3>1. Follows(q, v, R, wire, h)
      BY <2>2, <2>5, UnmovedFollows
    <3>2. QED
      BY <2>4, <3>1, QuietFollows
  <2>6. QED
    BY <1>1, <2>1, <2>3, <2>4, <2>5
<1>3. CASE p.stream = "attached"
  <2>1. q = Send(s, "PAUSE_VIEW", 0)
    BY <1>3, Zenon DEF HostPauseView
  <2>2. /\ s \in Page /\ SameLink(m, s) /\ SameScreen(m, s) /\ SameQueue(m, s)
        /\ s.stream = "paused" /\ s.mounted = m.mounted /\ s.crossed = m.crossed /\ s.sends = m.sends
    BY <1>1, Zenon DEF Page, SameLink, SameScreen, SameQueue
  <2> HIDE DEF m, s
  <2>3. 0 \in Nat
    OBVIOUS
  <2>4. /\ q \in Page /\ SameLink(s, q) /\ SameScreen(s, q) /\ SameQueue(s, q) /\ SamePane(s, q)
        /\ q.crossed = s.crossed /\ Said(s, q, x) /\ x \in Request
    <3>1. LET r == Send(s, "PAUSE_VIEW", 0) IN
          /\ r \in Page /\ SameLink(s, r) /\ SameScreen(s, r) /\ SameQueue(s, r) /\ SamePane(s, r)
          /\ r.crossed = s.crossed /\ Said(s, r, x) /\ x \in Request
      BY <2>2, <2>3, SendFields, Zenon
    <3>2. QED
      BY <2>1, <3>1, Zenon
  <2>5. /\ SameLink(p, q) /\ SameScreen(p, q) /\ SameQueue(p, q) /\ q.stream = "paused"
        /\ q.mounted = p.mounted /\ q.crossed = p.crossed /\ Said(p, q, x)
    BY <1>1, <2>2, <2>4, ZenonT(60) DEF SameLink, SameScreen, SameQueue, SamePane, Said
  <2>6. /\ q.connection = p.connection /\ q.dialed = p.dialed /\ q.waiting = p.waiting
        /\ q.callbacks = p.callbacks /\ Streaming(q) /\ Streaming(p)
    BY <1>3, <2>5 DEF SameLink, Streaming
  <2>7. PageOK(q)
    BY <2>5, <2>6, <1>3 DEF PageOK, Streaming
  <2>8. ASSUME Follows(p, v, R, wire, h)  PROVE Follows(q, v, R \o q.sends, wire, h)
    <3> DEFINE Q == Append(R, x)
    <3>1. p.connection /= NoConnection /\ p.callbacks /\ R \in Seq(Request)
      BY <1>3 DEF PageOK, Typed
    <3>2. x.cmd = "PAUSE_VIEW"
      OBVIOUS
    <3> HIDE DEF x
    <3>3. /\ Q \in Seq(Request) /\ Len(R) \in Nat /\ Q /= <<>> /\ Q[Len(R) + 1] = x
          /\ \A i \in 1 .. Len(R) : i \in 1 .. Len(Q) /\ Q[i] = R[i]
          /\ \A i \in 1 .. Len(Q) : i \in 1 .. Len(R) \/ i = Len(R) + 1
          /\ R /= <<>> => Head(Q) = Head(R)
      BY <2>4, <3>1, RequestsOn
    <3> HIDE DEF Q
    <3>4. ASSUME ~p.crossed  PROVE PageSound(q, h) /\ Streams(q, v, Q, wire, h)
      <4>1. PageSound(p, h) /\ Streams(p, v, R, wire, h)
        BY <2>8, <3>1, <3>4 DEF Follows
      <4>2. PageSound(q, h) /\ Reached(q) = Reached(p)
        BY <2>5, <4>1, ScreenKept
      <4>3. q.watermark = p.watermark /\ q.writing = p.writing /\ q.queue = p.queue
        BY <2>5 DEF SameScreen, SameQueue
      <4>4. AcksBehind(q.watermark, v, Q)
        <5>1. AcksBehind(p.watermark, v, R)
          BY <4>1 DEF Streams
        <5>2. QED
          BY <2>4, <3>1, <3>2, <4>3, <5>1, AcksOn DEF Q
      <4>5. CASE Asked(p, v, R, wire)
        <5>1. R /= <<>> /\ \A i \in 2 .. Len(R) : R[i].cmd = "PAUSE_VIEW"
          BY <4>5 DEF Asked, Asks
        <5>2. \A i \in 2 .. Len(Q) : Q[i].cmd = "PAUSE_VIEW"
          BY <3>2, <3>3, <5>1
        <5>3. Asked(q, v, Q, wire)
          BY <2>6, <3>3, <4>3, <4>5, <5>1, <5>2 DEF Asked, Asks
        <5>4. QED
          BY <2>5, <4>2, <4>4, <5>3 DEF Streams
      <4>6. CASE Flowing(p, v, R, wire, h)
        <5>1. \A i \in 1 .. Len(Q) : Q[i].cmd \in {"ACK", "PAUSE_VIEW"}
          BY <3>2, <3>3, <4>6 DEF Flowing
        <5>2. Drains(q.watermark, v, Q, Tip(Frames(wire), Reached(q)))
          <6>1. Drains(p.watermark, v, R, Tip(Frames(wire), Reached(p)))
            BY <4>6 DEF Flowing
          <6>2. QED
            BY <3>3, <4>2, <4>3, <6>1 DEF Drains
        <5>3. Flowing(q, v, Q, wire, h)
          BY <2>5, <2>6, <4>2, <4>6, <5>1, <5>2 DEF Flowing
        <5>4. QED
          BY <2>5, <4>2, <4>4, <5>3 DEF Streams
      <4>7. QED
        BY <3>1, <4>1, <4>5, <4>6 DEF Streams
    <3>5. Follows(q, v, Q, wire, h)
      BY <2>5, <2>6, <3>4 DEF Follows
    <3>6. QED
      BY <2>4, <2>5, <2>6, <3>5, SaidFollows DEF Q
  <2>9. QED
    BY <2>4, <2>6, <2>7, <2>8
<1>4. QED
  BY <1>2, <1>3

(* The pane is shown. *)
LEMMA ShowStep ==
  ASSUME NEW p \in Page, PageOK(p), p.sends = <<>>, p.mounted,
         NEW q, q = HostResumeView(Activate(p)),
         NEW v, NEW R, NEW wire, Typed(p, v, R, wire), NEW h \in Nat,
         p.connection /= NoConnection =>
           v = view[p.connection] /\ R = toServer[p.connection] /\ wire = toClient[p.connection]
  PROVE  /\ q \in Page /\ PageOK(q) /\ q.connection = p.connection /\ q.dialed = p.dialed
         /\ Follows(p, v, R, wire, h) => Follows(q, v, R \o q.sends, wire, h)
<1> DEFINE e == Activate(p)
           m == [e EXCEPT !.wants = TRUE]
           s == [m EXCEPT !.stream = "attached"]
           c == CancelPendingWrites(s)
           b == Begins(c)
           x == [cmd |-> "RESUME_VIEW", seq |-> p.watermark]
<1>1. /\ e \in Page /\ SameLink(p, e) /\ SameScreen(p, e) /\ SameQueue(p, e)
      /\ e.crossed = p.crossed /\ e.sends = p.sends /\ e.mounted = p.mounted
      /\ e.stream = IF p.stream = "idle" THEN "queued" ELSE p.stream
  BY ActivateFields, Zenon
<1> HIDE DEF e
<1>2. /\ m \in Page /\ SameLink(e, m) /\ SameScreen(e, m) /\ SameQueue(e, m) /\ SamePane(e, m)
      /\ m.crossed = e.crossed /\ m.sends = e.sends
  BY <1>1, Zenon DEF Page, SameLink, SameScreen, SameQueue, SamePane
<1>3. /\ SameLink(p, m) /\ SameScreen(p, m) /\ SameQueue(p, m)
      /\ m.crossed = p.crossed /\ m.sends = p.sends /\ m.mounted = p.mounted
      /\ m.stream = IF p.stream = "idle" THEN "queued" ELSE p.stream
  BY <1>1, <1>2, Zenon DEF SameLink, SameScreen, SameQueue, SamePane
<1>4. /\ q = IF m.stream /= "paused" THEN m ELSE Send(b, "RESUME_VIEW", m.watermark)
  <2>1. e.stream = m.stream /\ m.watermark = e.watermark
    BY <1>2, Zenon DEF SamePane, SameScreen
  <2>2. q = IF e.stream /= "paused" THEN m ELSE Send(b, "RESUME_VIEW", e.watermark)
    BY Zenon DEF HostResumeView, e
  <2>3. QED
    BY <2>1, <2>2, Zenon
<1> HIDE DEF m
<1>5. CASE p.stream /= "paused"
  <2>1. m.stream /= "paused" /\ (Streaming(m) <=> Streaming(p))
    BY <1>3, <1>5 DEF Streaming
  <2>2. q = m
    BY <1>4, <2>1, Zenon
  <2>3. Unmoved(p, q)
    BY <1>3, <1>5, <2>1, <2>2, Zenon DEF Unmoved, SameLink
  <2>4. PageOK(q)
    <3>1. /\ m.callbacks = p.callbacks /\ m.connection = p.connection /\ m.waiting = p.waiting
          /\ m.dialed = p.dialed /\ m.mounted = p.mounted
      BY <1>3 DEF SameLink
    <3>2. m.stream \in {"attaching", "attached", "paused"} => m.stream = p.stream
      BY <1>3
    <3>3. QED
      BY <2>1, <2>2, <3>1, <3>2 DEF PageOK
  <2>5. q.connection = p.connection /\ q.dialed = p.dialed /\ q.sends = <<>>
    BY <1>3, <2>2, Zenon DEF SameLink
  <2>6. ASSUME Follows(p, v, R, wire, h)  PROVE Follows(q, v, R \o q.sends, wire, h)
    <3>1. Follows(q, v, R, wire, h)
      BY <2>3, <2>6, UnmovedFollows
    <3>2. QED
      BY <2>5, <3>1, QuietFollows
  <2>7. QED
    BY <1>2, <2>2, <2>4, <2>5, <2>6
<1>6. CASE p.stream = "paused"
  <2>1. m.stream = "paused"
    BY <1>3, <1>6
  <2>2. q = Send(b, "RESUME_VIEW", p.watermark)
    BY <1>3, <1>4, <2>1, Zenon DEF SameScreen
  <2>3. /\ s \in Page /\ SameLink(m, s) /\ SameScreen(m, s) /\ s.stream = "attached"
        /\ s.mounted = m.mounted /\ s.crossed = m.crossed /\ s.sends = m.sends
    BY <1>2, Zenon DEF Page, SameLink, SameScreen, m
  <2> HIDE DEF s
  <2>4. /\ c \in Page /\ SameLink(s, c) /\ SameScreen(s, c) /\ SamePane(s, c)
        /\ c.crossed = s.crossed /\ c.sends = s.sends /\ c.queue = <<>>
    BY <2>3, CancelFields, Zenon
  <2> HIDE DEF c
  <2>5. /\ b \in Page /\ SameLink(c, b) /\ SameScreen(c, b) /\ SameQueue(c, b) /\ SamePane(c, b)
        /\ b.sends = c.sends /\ (b.crossed <=> c.crossed \/ ~Settled(c.connection, c))
    BY <2>4, BeginsFields, Zenon
  <2> HIDE DEF b
  <2>6. p.watermark \in Nat
    BY PageIn
  <2>7. /\ q \in Page /\ SameLink(b, q) /\ SameScreen(b, q) /\ SameQueue(b, q) /\ SamePane(b, q)
        /\ q.crossed = b.crossed /\ Said(b, q, x) /\ x \in Request
    <3>1. LET r == Send(b, "RESUME_VIEW", p.watermark) IN
          /\ r \in Page /\ SameLink(b, r) /\ SameScreen(b, r) /\ SameQueue(b, r) /\ SamePane(b, r)
          /\ r.crossed = b.crossed /\ Said(b, r, x) /\ x \in Request
      BY <2>5, <2>6, SendFields, Zenon
    <3>2. QED
      BY <2>2, <3>1, Zenon
  <2> HIDE DEF x
  <2>8. /\ SameLink(p, q) /\ SameScreen(p, q) /\ q.queue = <<>> /\ q.stream = "attached"
        /\ q.mounted = p.mounted /\ Said(p, q, x)
    <3>1. /\ SameLink(p, b) /\ SameScreen(p, b) /\ b.queue = <<>> /\ b.stream = "attached"
          /\ b.mounted = p.mounted /\ b.sends = p.sends
      BY <1>3, <2>3, <2>4, <2>5, ZenonT(60) DEF SameLink, SameScreen, SameQueue, SamePane
    <3>2. QED
      BY <2>7, <3>1, Zenon DEF SameLink, SameScreen, SameQueue, SamePane, Said
  <2>9. /\ q.connection = p.connection /\ q.dialed = p.dialed /\ q.waiting = p.waiting
        /\ q.callbacks = p.callbacks /\ Streaming(q) /\ Streaming(p)
    BY <1>6, <2>8 DEF SameLink, Streaming
  <2>10. p.connection /= NoConnection /\ p.callbacks
    BY <1>6 DEF PageOK
  <2>11. ~q.crossed => ~p.crossed /\ p.writing = <<>> /\ R = <<>> /\ wire = <<>>
                       /\ v.pending = <<>> /\ ~Fed(v)
    <3>1. ~q.crossed => ~p.crossed /\ Settled(c.connection, c)
      BY <1>3, <2>3, <2>4, <2>5, <2>7, Zenon
    <3>2. c.connection = p.connection /\ c.writing = p.writing
      BY <1>3, <2>3, <2>4, Zenon DEF SameLink, SameScreen
    <3>3. QED
      BY <2>10, <3>1, <3>2, Zenon DEF Settled
  <2>12. PageOK(q)
    BY <2>8, <2>9, <1>6 DEF PageOK, Streaming
  <2>13. ASSUME Follows(p, v, R, wire, h)  PROVE Follows(q, v, R \o q.sends, wire, h)
    <3> DEFINE Q == Append(R, x)
    <3>1. R \in Seq(Request)
      BY <2>10 DEF Typed
    <3>2. x.cmd = "RESUME_VIEW" /\ x.seq = p.watermark
      BY DEF x
    <3>3. /\ Q \in Seq(Request) /\ Q /= <<>> /\ Q[Len(R) + 1] = x
          /\ \A i \in 1 .. Len(Q) : i \in 1 .. Len(R) \/ i = Len(R) + 1
          /\ R = <<>> => Len(Q) = 1 /\ Head(Q) = x
      BY <2>7, <3>1, RequestsOn
    <3> HIDE DEF Q
    <3>4. ASSUME ~q.crossed  PROVE PageSound(q, h) /\ Streams(q, v, Q, wire, h)
      <4>1. PageSound(p, h) /\ Streams(p, v, R, wire, h)
        BY <2>10, <2>11, <2>13, <3>4 DEF Follows
      <4>2. PageSound(q, h)
        BY <2>8, <4>1, ScreenKept
      <4>3. q.watermark = p.watermark /\ q.writing = <<>> /\ R = <<>>
        BY <2>8, <2>11, <3>4 DEF SameScreen
      <4>4. AcksBehind(q.watermark, v, Q)
        <5>1. AcksBehind(p.watermark, v, R) /\ x.cmd /= "ACK"
          BY <3>2, <4>1 DEF Streams
        <5>2. QED
          BY <2>7, <3>1, <4>3, <5>1, AcksOn DEF Q
      <4>5. v.joined
        <5>1. ~Asked(p, v, R, wire)
          BY <4>3 DEF Asked, Asks
        <5>2. QED
          BY <2>10, <4>1, <5>1 DEF Streams, Flowing
      <4>6. Asked(q, v, Q, wire)
        <5>1. Head(Q).cmd = "RESUME_VIEW" /\ Head(Q).seq = q.watermark /\ Len(Q) = 1
          BY <3>2, <3>3, <4>3
        <5>2. \A i \in 2 .. Len(Q) : Q[i].cmd = "PAUSE_VIEW"
          BY <5>1
        <5>3. QED
          BY <2>8, <2>9, <2>11, <3>3, <3>4, <4>3, <4>5, <5>1, <5>2 DEF Asked, Asks
      <4>7. NoPause(Q)
        <5>1. \A i \in 1 .. Len(Q) : Q[i] = x
          BY <3>3, <4>3
        <5>2. QED
          BY <3>2, <5>1 DEF NoPause
      <4>8. QED
        BY <4>2, <4>4, <4>6, <4>7 DEF Streams
    <3>5. Follows(q, v, Q, wire, h)
      BY <2>9, <3>4 DEF Follows
    <3>6. QED
      BY <2>7, <2>8, <2>9, <3>5, SaidFollows DEF Q
  <2>14. QED
    BY <2>7, <2>9, <2>12, <2>13
<1>7. QED
  BY <1>5, <1>6

(* The activation queue gets to the host. *)
LEMMA AttachStep ==
  ASSUME NEW p \in Page, PageOK(p), p.sends = <<>>, p.stream = "queued",
         NEW q, q = DoAttach(p),
         NEW v, NEW R, NEW wire, Typed(p, v, R, wire), NEW h \in Nat,
         p.connection /= NoConnection =>
           v = view[p.connection] /\ R = toServer[p.connection] /\ wire = toClient[p.connection]
  PROVE  /\ q \in Page /\ PageOK(q) /\ q.connection = p.connection /\ q.dialed = p.dialed
         /\ Follows(p, v, R, wire, h) => Follows(q, v, R \o q.sends, wire, h)
<1> DEFINE m == [p EXCEPT !.stream = "attaching"]
           b == Begins(m)
           s == [b EXCEPT !.callbacks = TRUE, !.waiting = TRUE,
                          !.orphans = IF p.waiting THEN @ + 1 ELSE @]
           x == [cmd |-> "ATTACH", seq |-> p.watermark]
<1>1. /\ m \in Page /\ SameLink(p, m) /\ SameScreen(p, m) /\ SameQueue(p, m)
      /\ m.stream = "attaching" /\ m.mounted = p.mounted /\ m.crossed = p.crossed
      /\ m.sends = p.sends
  BY Zenon DEF Page, SameLink, SameScreen, SameQueue
<1>2. ~Streaming(p) /\ p.stream /= "paused"
  BY DEF Streaming
<1>3. CASE p.connection = NoConnection
  <2>1. q = AttachFailed(m)
    BY <1>3, Zenon DEF DoAttach
  <2> HIDE DEF m
  <2>2. LET r == AttachFailed(m) IN
         /\ r \in Page /\ SameLink(m, r) /\ SameScreen(m, r) /\ SameQueue(m, r)
         /\ r.crossed = m.crossed /\ r.sends = m.sends /\ r.mounted = m.mounted
         /\ r.stream = IF m.stream = "attaching" THEN "idle" ELSE m.stream
    BY <1>1, AttachFailedFields, Zenon
  <2>3. /\ q \in Page /\ SameLink(p, q) /\ SameScreen(p, q) /\ SameQueue(p, q)
        /\ q.crossed = p.crossed /\ q.sends = <<>> /\ q.mounted = p.mounted /\ q.stream = "idle"
    BY <1>1, <2>1, <2>2, Zenon DEF SameLink, SameScreen, SameQueue
  <2>4. ~Streaming(q) /\ q.stream /= "paused"
    BY <2>3 DEF Streaming
  <2>5. Unmoved(p, q)
    BY <1>2, <2>3, <2>4, Zenon DEF Unmoved, SameLink
  <2>6. PageOK(q)
    BY <2>3, <2>4 DEF PageOK, SameLink
  <2>7. q.connection = p.connection /\ q.dialed = p.dialed
    BY <2>3 DEF SameLink
  <2>8. ASSUME Follows(p, v, R, wire, h)  PROVE Follows(q, v, R \o q.sends, wire, h)
    <3>1. Follows(q, v, R, wire, h)
      BY <2>5, <2>8, UnmovedFollows
    <3>2. QED
      BY <2>3, <2>7, <3>1, QuietFollows
  <2>9. QED
    BY <2>3, <2>6, <2>7, <2>8
<1>4. CASE p.connection /= NoConnection
  <2>1. q = Send(s, "ATTACH", p.watermark)
    BY <1>4, Zenon DEF DoAttach
  <2> HIDE DEF m
  <2>2. /\ b \in Page /\ SameLink(m, b) /\ SameScreen(m, b) /\ SameQueue(m, b) /\ SamePane(m, b)
        /\ b.sends = m.sends /\ (b.crossed <=> m.crossed \/ ~Settled(m.connection, m))
    BY <1>1, BeginsFields, Zenon
  <2> HIDE DEF b
  <2>3. /\ s \in Page /\ s.connection = b.connection /\ s.dialed = b.dialed
        /\ s.callbacks /\ s.waiting /\ SameScreen(b, s) /\ SameQueue(b, s) /\ SamePane(b, s)
        /\ s.crossed = b.crossed /\ s.sends = b.sends
    <3>1. b.orphans \in Nat
      BY <2>2, Zenon DEF Page
    <3> DEFINE o == IF p.waiting THEN b.orphans + 1 ELSE b.orphans
    <3>2. o \in Nat
      BY <3>1
    <3>3. s = [b EXCEPT !.callbacks = TRUE, !.waiting = TRUE, !.orphans = o]
      OBVIOUS
    <3> HIDE DEF o, s
    <3>4. s \in Page
      BY <2>2, <3>2, <3>3, Zenon DEF Page
    <3>5. QED
      BY <2>2, <3>3, <3>4, ZenonT(60) DEF Page, SameScreen, SameQueue, SamePane
  <2> HIDE DEF s
  <2>4. p.watermark \in Nat
    BY PageIn
  <2>5. /\ q \in Page /\ SameLink(s, q) /\ SameScreen(s, q) /\ SameQueue(s, q) /\ SamePane(s, q)
        /\ q.crossed = s.crossed /\ Said(s, q, x) /\ x \in Request
    <3>1. LET r == Send(s, "ATTACH", p.watermark) IN
          /\ r \in Page /\ SameLink(s, r) /\ SameScreen(s, r) /\ SameQueue(s, r) /\ SamePane(s, r)
          /\ r.crossed = s.crossed /\ Said(s, r, x) /\ x \in Request
      BY <2>3, <2>4, SendFields, Zenon
    <3>2. QED
      BY <2>1, <3>1, Zenon
  <2> HIDE DEF x
  <2>6. /\ q.connection = p.connection /\ q.dialed = p.dialed /\ q.callbacks /\ q.waiting
        /\ SameScreen(p, q) /\ SameQueue(p, q) /\ q.stream = "attaching"
        /\ q.mounted = p.mounted /\ Said(p, q, x)
    <3>1. /\ s.connection = p.connection /\ s.dialed = p.dialed /\ s.callbacks /\ s.waiting
          /\ SameScreen(p, s) /\ SameQueue(p, s) /\ s.stream = "attaching"
          /\ s.mounted = p.mounted /\ s.sends = p.sends
      BY <1>1, <2>2, <2>3, ZenonT(60) DEF SameLink, SameScreen, SameQueue, SamePane
    <3>2. QED
      BY <2>5, <3>1, ZenonT(60) DEF SameLink, SameScreen, SameQueue, SamePane, Said
  <2>7. ~Streaming(q) /\ q.stream /= "paused"
    BY <2>6 DEF Streaming
  <2>8. ~q.crossed => ~p.crossed /\ p.queue = <<>> /\ p.writing = <<>> /\ R = <<>> /\ wire = <<>>
                      /\ v.pending = <<>> /\ ~Fed(v)
    <3>1. ~q.crossed => ~p.crossed /\ Settled(m.connection, m)
      BY <1>1, <2>2, <2>3, <2>5, Zenon
    <3>2. m.connection = p.connection /\ m.writing = p.writing /\ m.queue = p.queue
      BY <1>1, Zenon DEF SameLink, SameScreen, SameQueue
    <3>3. QED
      BY <1>4, <3>1, <3>2, Zenon DEF Settled
  <2>9. PageOK(q)
    BY <1>4, <2>6, <2>7 DEF PageOK
  <2>10. ASSUME Follows(p, v, R, wire, h)  PROVE Follows(q, v, R \o q.sends, wire, h)
    <3> DEFINE Q == Append(R, x)
    <3>1. R \in Seq(Request)
      BY <1>4 DEF Typed
    <3>2. x.cmd = "ATTACH" /\ x.seq = p.watermark
      BY DEF x
    <3>3. /\ Q \in Seq(Request) /\ Q /= <<>> /\ Q[Len(R) + 1] = x
          /\ \A i \in 1 .. Len(Q) : i \in 1 .. Len(R) \/ i = Len(R) + 1
          /\ R = <<>> => Len(Q) = 1 /\ Head(Q) = x
      BY <2>5, <3>1, RequestsOn
    <3> HIDE DEF Q
    <3>4. ASSUME ~q.crossed  PROVE PageSound(q, h) /\ Streams(q, v, Q, wire, h)
      <4>1. PageSound(p, h) /\ Streams(p, v, R, wire, h)
        BY <1>4, <2>8, <2>10, <3>4 DEF Follows
      <4>2. PageSound(q, h)
        BY <2>6, <4>1, ScreenKept
      <4>3. q.watermark = p.watermark /\ q.writing = <<>> /\ q.queue = <<>> /\ R = <<>>
        BY <2>6, <2>8, <3>4 DEF SameScreen, SameQueue
      <4>4. AcksBehind(q.watermark, v, Q)
        <5>1. AcksBehind(p.watermark, v, R) /\ x.cmd /= "ACK"
          BY <3>2, <4>1 DEF Streams
        <5>2. QED
          BY <2>5, <3>1, <4>3, <5>1, AcksOn DEF Q
      <4>5. Asked(q, v, Q, wire)
        <5>1. Head(Q).cmd = "ATTACH" /\ Head(Q).seq = q.watermark /\ Len(Q) = 1
          BY <3>2, <3>3, <4>3
        <5>2. \A i \in 2 .. Len(Q) : Q[i].cmd = "PAUSE_VIEW"
          BY <5>1
        <5>3. QED
          BY <2>6, <2>8, <3>3, <3>4, <4>3, <5>1, <5>2 DEF Asked, Asks
      <4>6. NoPause(Q)
        <5>1. \A i \in 1 .. Len(Q) : Q[i] = x
          BY <3>3, <4>3
        <5>2. QED
          BY <3>2, <5>1 DEF NoPause
      <4>7. QED
        BY <4>2, <4>4, <4>5, <4>6 DEF Streams
    <3>5. Follows(q, v, Q, wire, h)
      BY <2>6, <3>4 DEF Follows
    <3>6. QED
      BY <2>5, <2>6, <3>5, SaidFollows DEF Q
  <2>11. QED
    BY <2>5, <2>6, <2>9, <2>10
<1>5. QED
  BY <1>3, <1>4

(* One more write, from where the last one ends. *)
LEMMA WriteOn ==
  ASSUME NEW p \in Page, NEW h \in Nat, PageSound(p, h), NEW x \in Write,
         Leads(x, Written(p)), x.snapshot <=> x.seqs = <<>>, x.seq <= h,
         NEW q, q.watermark = p.watermark, q.painted = p.painted, q.exact = p.exact,
         q.writing = Append(p.writing, x), q.queue = <<>>
  PROVE  PageSound(q, h) /\ Reached(q) = x.seq /\ q.writing \in Seq(Write)
<1> DEFINE n == Len(p.writing)
           ws == Append(p.writing, x)
<1>1. p.watermark \in Nat /\ p.writing \in Seq(Write) /\ Chain(p.writing, p.watermark)
  BY PageIn DEF PageSound
<1>2. ws \in Seq(Write) /\ Chain(ws, p.watermark) /\ Tip(ws, p.watermark) = x.seq
  BY <1>1, ChainAppend, MsgLinks DEF Written
<1>3. Reached(q) = x.seq
  BY <1>2 DEF Reached, Written
<1>4. /\ n \in Nat /\ Len(ws) = n + 1 /\ ws[n + 1] = x /\ \A i \in 1 .. n : ws[i] = p.writing[i]
  BY <1>1
<1>5. \A i \in 1 .. n : p.writing[i].snapshot <=> p.writing[i].seqs = <<>>
  BY DEF PageSound
<1> HIDE DEF ws, n
<1>6. \A i \in 1 .. Len(ws) : ws[i].snapshot <=> ws[i].seqs = <<>>
  <2>1. SUFFICES ASSUME NEW i \in 1 .. Len(ws)  PROVE ws[i].snapshot <=> ws[i].seqs = <<>>
    OBVIOUS
  <2>2. i \in 1 .. n \/ i = n + 1
    BY <1>4
  <2>3. CASE i = n + 1
    <3>1. ws[i] = x
      BY <1>4, <2>3
    <3>2. QED
      BY <3>1, Zenon
  <2>4. CASE i \in 1 .. n
    <3>1. ws[i] = p.writing[i]
      BY <1>4, <2>4
    <3>2. QED
      BY <1>5, <2>4, <3>1, Zenon
  <2>5. QED
    BY <2>2, <2>3, <2>4
<1>7. q.exact /\ q.painted = BaseSeq .. q.watermark
  BY DEF PageSound
<1>8. q.writing = ws
  BY DEF ws
<1>9. QED
  BY <1>2, <1>3, <1>6, <1>7, <1>8 DEF PageSound

(* What the page has got moves on, the place the stream leads to does not. *)
LEMMA FlowMoves ==
  ASSUME NEW p, NEW q, q.watermark = p.watermark, q.stream = p.stream, q.callbacks = p.callbacks,
         NEW v, NEW R, NEW wire, NEW down, NEW h, Streams(p, v, R, wire, h),
         wire /= <<>> \/ p.queue /= <<>>,
         p.callbacks /\ Flowing(p, v, R, wire, h) =>
           /\ Streaming(p) /\ Kinds(Frames(down)) /\ Chain(Frames(down), Reached(q))
           /\ Tip(Frames(down), Reached(q)) = Tip(Frames(wire), Reached(p))
  PROVE  Streams(q, v, R, down, h)
<1>1. ~Asked(p, v, R, wire)
  BY DEF Asked
<1>2. AcksBehind(q.watermark, v, R)
  BY DEF Streams
<1>3. ASSUME p.callbacks  PROVE Flowing(q, v, R, down, h)
  <2>1. Flowing(p, v, R, wire, h)
    BY <1>1, <1>3 DEF Streams
  <2>2. /\ Streaming(p) /\ Kinds(Frames(down)) /\ Chain(Frames(down), Reached(q))
        /\ Tip(Frames(down), Reached(q)) = Tip(Frames(wire), Reached(p))
    BY <1>3, <2>1
  <2>3. Streaming(q)
    BY <2>2 DEF Streaming
  <2>4. QED
    BY <2>1, <2>2, <2>3, Zenon DEF Flowing
<1>4. QED
  BY <1>2, <1>3, Zenon DEF Streams

(* The writes of an animation frame. *)
LEMMA FrameStep ==
  ASSUME NEW p \in Page, PageOK(p), p.sends = <<>>, p.queue /= <<>>, NEW q, q = FlushWrites(p),
         NEW v, NEW R, NEW wire, Typed(p, v, R, wire), NEW h \in Nat
  PROVE  /\ q \in Page /\ PageOK(q) /\ q.connection = p.connection /\ q.dialed = p.dialed
         /\ Follows(p, v, R, wire, h) => Follows(q, v, R \o q.sends, wire, h)
<1> DEFINE x == [snapshot |-> FALSE, seqs |-> p.queue, seq |-> p.pendingAckSeq]
           c == CancelPendingWrites(p)
<1>1. /\ p.writing \in Seq(Write) /\ p.queue \in Seq(Nat) /\ p.pendingAckSeq \in Nat
  BY PageIn
<1>2. x \in Write
  BY <1>1, Zenon DEF Write
<1>3. x.seqs = p.queue /\ x.seq = p.pendingAckSeq /\ x.snapshot = FALSE
  BY Zenon
<1>4. /\ c \in Page /\ SameLink(p, c) /\ SameScreen(p, c) /\ SamePane(p, c)
      /\ c.crossed = p.crossed /\ c.sends = p.sends /\ c.queue = <<>>
  BY CancelFields, Zenon
<1>5. q = [c EXCEPT !.writing = Append(@, x)]
  BY Zenon DEF FlushWrites
<1> HIDE DEF x, c
<1>6. c.writing = p.writing
  BY <1>4 DEF SameScreen
<1>7. Append(c.writing, x) \in Seq(Write)
  BY <1>1, <1>2, <1>6
<1>8. q \in Page
  BY <1>4, <1>5, <1>7, ZenonT(60) DEF Page
<1>9. /\ SameLink(c, q) /\ SamePane(c, q) /\ q.crossed = c.crossed /\ q.sends = c.sends
      /\ q.queue = c.queue /\ q.watermark = c.watermark /\ q.painted = c.painted
      /\ q.exact = c.exact /\ q.writing = Append(c.writing, x)
  BY <1>4, <1>5, Zenon DEF Page, SameLink, SamePane
<1>10. /\ SameLink(p, q) /\ SamePane(p, q) /\ q.crossed = p.crossed /\ q.sends = <<>>
       /\ q.queue = <<>> /\ q.watermark = p.watermark /\ q.painted = p.painted
       /\ q.exact = p.exact /\ q.writing = Append(p.writing, x)
  BY <1>4, <1>6, <1>9, Zenon DEF SameLink, SamePane, SameScreen
<1>11. /\ q.connection = p.connection /\ q.dialed = p.dialed /\ q.callbacks = p.callbacks
       /\ q.waiting = p.waiting /\ q.stream = p.stream /\ q.mounted = p.mounted
       /\ (Streaming(q) <=> Streaming(p))
  BY <1>10, Zenon DEF SameLink, SamePane, Streaming
<1>12. PageOK(q)
  BY <1>11, Zenon DEF PageOK
<1>13. ASSUME Follows(p, v, R, wire, h)  PROVE Follows(q, v, R \o q.sends, wire, h)
  <2>1. ASSUME PageSound(p, h)  PROVE PageSound(q, h) /\ Reached(q) = Reached(p)
    <3>1. Leads(Queued(p), Written(p)) /\ Reached(p) = p.pendingAckSeq /\ Reached(p) <= h
      BY <2>1 DEF PageSound, Reached
    <3>2. Queued(p).seqs = p.queue /\ Queued(p).seq = p.pendingAckSeq
      BY Zenon DEF Queued
    <3>3. Leads(x, Written(p))
      BY <1>3, <3>1, <3>2 DEF Leads
    <3>4. x.snapshot <=> x.seqs = <<>>
      BY <1>3
    <3>5. QED
      BY <1>2, <1>3, <1>10, <2>1, <3>1, <3>3, <3>4, WriteOn
  <2>2. ASSUME PageSound(p, h), Streams(p, v, R, wire, h)  PROVE Streams(q, v, R, wire, h)
    <3>1. Reached(q) = Reached(p)
      BY <2>1, <2>2
    <3>2. p.callbacks /\ Flowing(p, v, R, wire, h) =>
            /\ Streaming(p) /\ Kinds(Frames(wire)) /\ Chain(Frames(wire), Reached(q))
            /\ Tip(Frames(wire), Reached(q)) = Tip(Frames(wire), Reached(p))
      BY <3>1 DEF Flowing
    <3>3. q.watermark = p.watermark /\ q.stream = p.stream /\ q.callbacks = p.callbacks
      BY <1>10, <1>11
    <3>4. QED
      BY <2>2, <3>2, <3>3, FlowMoves
  <2>3. Follows(q, v, R, wire, h)
    BY <1>10, <1>11, <1>13, <2>1, <2>2, Zenon DEF Follows
  <2>4. QED
    BY <1>10, <1>11, <2>3, QuietFollows
<1>14. QED
  BY <1>8, <1>11, <1>12, <1>13

(* The last chunk of a screen that is painted up to m. *)
LEMMA TopIs ==
  ASSUME NEW m \in Nat, BaseSeq - 1 <= m
  PROVE  Top(BaseSeq .. m) = m
<1>1. BaseSeq \in Nat
  BY RingAssumption
<1> DEFINE S == (BaseSeq .. m) \cup {BaseSeq - 1}
<1>2. m \in S /\ \A s \in BaseSeq .. m : s <= m
  BY <1>1
<1>3. \A t \in S : (\A s \in BaseSeq .. m : s <= t) => t = m
  <2>1. SUFFICES ASSUME NEW t \in S, \A s \in BaseSeq .. m : s <= t  PROVE t = m
    OBVIOUS
  <2>2. CASE BaseSeq <= m
    <3>1. m <= t /\ t <= m
      BY <1>1, <2>1, <2>2
    <3>2. QED
      BY <1>1, <3>1
  <2>3. CASE ~(BaseSeq <= m)
    BY <1>1, <2>3
  <2>4. QED
    BY <2>2, <2>3
<1>4. QED
  BY <1>2, <1>3, Zenon DEF Top

(* A write of what comes next is painted where it belongs. *)
LEMMA PaintedOn ==
  ASSUME NEW m \in Nat, NEW w \in Write, Leads(w, m), w.seqs /= <<>>
  PROVE  /\ (BaseSeq .. m) \cup {w.seqs[i] : i \in 1 .. Len(w.seqs)} = BaseSeq .. w.seq
         /\ \A i \in 1 .. Len(w.seqs) : w.seqs[i] = Top(BaseSeq .. m) + i
<1>1. BaseSeq \in Nat /\ w.seqs \in Seq(Nat) /\ Len(w.seqs) \in Nat
  BY RingAssumption, MsgLinks DEF Links
<1>2. /\ BaseSeq - 1 <= m /\ w.seq = m + Len(w.seqs)
      /\ \A i \in 1 .. Len(w.seqs) : w.seqs[i] = m + i
  BY DEF Leads
<1>3. Top(BaseSeq .. m) = m
  BY <1>2, TopIs
<1> DEFINE n == Len(w.seqs)
           P == {w.seqs[i] : i \in 1 .. n}
<1>4. P \subseteq BaseSeq .. w.seq /\ BaseSeq .. m \subseteq BaseSeq .. w.seq
  BY <1>1, <1>2, SMTT(30)
<1>5. \A s \in BaseSeq .. w.seq : s \in BaseSeq .. m \/ s \in P
  <2>1. SUFFICES ASSUME NEW s \in BaseSeq .. w.seq, ~(s \in BaseSeq .. m)  PROVE s \in P
    OBVIOUS
  <2>2. s - m \in 1 .. n /\ m + (s - m) = s
    BY <1>1, <1>2, <2>1
  <2>3. w.seqs[s - m] = s
    BY <1>2, <2>2
  <2>4. QED
    BY <2>2, <2>3
<1>6. (BaseSeq .. m) \cup P = BaseSeq .. w.seq
  BY <1>4, <1>5
<1>7. \A i \in 1 .. Len(w.seqs) : w.seqs[i] = Top(BaseSeq .. m) + i
  BY <1>2, <1>3
<1>8. QED
  BY <1>6, <1>7

(* xterm parses the oldest write, and acks it. *)
LEMMA ParseStep ==
  ASSUME NEW p \in Page, PageOK(p), p.sends = <<>>, p.writing /= <<>>, NEW q, q = Parse(p),
         NEW v, NEW R, NEW wire, Typed(p, v, R, wire), NEW h \in Nat
  PROVE  /\ q \in Page /\ PageOK(q) /\ q.connection = p.connection /\ q.dialed = p.dialed
         /\ Follows(p, v, R, wire, h) => Follows(q, v, R \o q.sends, wire, h)
<1> DEFINE w == Head(p.writing)
           new == {w.seqs[i] : i \in 1 .. Len(w.seqs)}
           P == IF w.snapshot THEN BaseSeq .. w.seq ELSE p.painted \cup new
           E == IF w.snapshot THEN TRUE
                ELSE p.exact /\ \A i \in 1 .. Len(w.seqs) : w.seqs[i] = Top(p.painted) + i
           g == [p EXCEPT !.writing = Tail(p.writing), !.painted = P, !.exact = E]
           s == Send(g, "ACK", w.seq)
           x == [cmd |-> "ACK", seq |-> w.seq]
<1>1. /\ p.writing \in Seq(Write) /\ p.watermark \in Nat /\ Len(p.writing) \in Nat
      /\ p.painted \in SUBSET Nat
  <2>1. p.painted \in SUBSET Nat
    BY Zenon DEF Page
  <2>2. QED
    BY <2>1, PageIn
<1>2. /\ w \in Write /\ Tail(p.writing) \in Seq(Write) /\ w = p.writing[1] /\ 1 \in 1 .. Len(p.writing)
      /\ Len(Tail(p.writing)) = Len(p.writing) - 1
      /\ \A i \in 1 .. Len(Tail(p.writing)) :
           Tail(p.writing)[i] = p.writing[i + 1] /\ i + 1 \in 1 .. Len(p.writing)
  BY <1>1
<1> HIDE DEF w
<1>3. w.seq \in Nat /\ w.seqs \in Seq(Nat) /\ w.snapshot \in BOOLEAN
  BY <1>2 DEF Write
<1>4. P \in SUBSET Nat /\ E \in BOOLEAN
  <2>1. BaseSeq .. w.seq \in SUBSET Nat
    BY <1>3, RingAssumption
  <2>2. new \in SUBSET Nat
    BY <1>3
  <2>3. p.exact \in BOOLEAN
    BY Zenon DEF Page
  <2>4. P \in SUBSET Nat
    BY <1>1, <2>1, <2>2
  <2>5. E \in BOOLEAN
    BY <2>3, ZenonT(60)
  <2>6. QED
    BY <2>4, <2>5
<1>5. q = [s EXCEPT !.watermark = w.seq]
  <2>1. CASE w.snapshot
    <3>1. P = BaseSeq .. w.seq /\ E = TRUE
      BY <2>1, Zenon
    <3>2. g = [p EXCEPT !.writing = Tail(p.writing), !.painted = BaseSeq .. w.seq, !.exact = TRUE]
      BY <3>1, Zenon
    <3> HIDE DEF P, E, g
    <3>3. g = [[p EXCEPT !.writing = Tail(@)] EXCEPT !.painted = BaseSeq .. w.seq, !.exact = TRUE]
      BY <3>2, Zenon DEF Page
    <3>4. QED
      BY <2>1, <3>3, Zenon DEF Parse, AckParsed, w
  <2>2. CASE ~w.snapshot
    <3> DEFINE e == p.exact /\ \A i \in 1 .. Len(w.seqs) : w.seqs[i] = Top(p.painted) + i
    <3>1. P = p.painted \cup new /\ E = e
      BY <2>2, Zenon
    <3>2. g = [p EXCEPT !.writing = Tail(p.writing), !.painted = p.painted \cup new, !.exact = e]
      BY <3>1, Zenon
    <3> HIDE DEF P, E, g
    <3>3. g = [[p EXCEPT !.writing = Tail(@)] EXCEPT
                 !.painted = @ \cup new,
                 !.exact = @ /\ \A i \in 1 .. Len(w.seqs) : w.seqs[i] = Top(p.painted) + i]
      BY <3>2, Zenon DEF Page
    <3>4. QED
      BY <2>2, <3>3, Zenon DEF Parse, AckParsed, w
  <2>3. QED
    BY <2>1, <2>2
<1> HIDE DEF P, E
<1>6. /\ g \in Page /\ SameLink(p, g) /\ SamePane(p, g) /\ SameQueue(p, g) /\ g.crossed = p.crossed
      /\ g.sends = p.sends /\ g.writing = Tail(p.writing) /\ g.painted = P /\ g.exact = E
  <2>1. g \in Page
    BY <1>2, <1>4, Zenon DEF Page
  <2>2. QED
    BY <2>1, Zenon DEF Page, SameLink, SamePane, SameQueue
<1> HIDE DEF g
<1>7. /\ s \in Page /\ SameLink(g, s) /\ SameScreen(g, s) /\ SameQueue(g, s) /\ SamePane(g, s)
      /\ s.crossed = g.crossed /\ Said(g, s, x) /\ x \in Request
  BY <1>3, <1>6, SendFields, Zenon
<1> HIDE DEF s
<1>8. q \in Page
  BY <1>3, <1>5, <1>7, ZenonT(60) DEF Page
<1>9. /\ SameLink(s, q) /\ SameQueue(s, q) /\ SamePane(s, q) /\ q.crossed = s.crossed
      /\ q.sends = s.sends /\ q.writing = s.writing /\ q.painted = s.painted /\ q.exact = s.exact
      /\ q.watermark = w.seq
  BY <1>3, <1>5, <1>7, Zenon DEF Page, SameLink, SameQueue, SamePane
<1> HIDE DEF x
<1>10. /\ SameLink(p, q) /\ SameQueue(p, q) /\ SamePane(p, q) /\ q.crossed = p.crossed
       /\ Said(p, q, x) /\ q.writing = Tail(p.writing) /\ q.painted = P /\ q.exact = E
  <2>1. /\ SameLink(p, s) /\ SameQueue(p, s) /\ SamePane(p, s) /\ s.crossed = p.crossed
        /\ s.writing = Tail(p.writing) /\ s.painted = P /\ s.exact = E
    BY <1>6, <1>7, Zenon DEF SameLink, SameQueue, SamePane, SameScreen
  <2>2. Said(p, s, x)
    BY <1>6, <1>7, Zenon DEF SameLink, Said
  <2>3. QED
    BY <1>9, <2>1, <2>2, Zenon DEF SameLink, SameQueue, SamePane, Said
<1>11. /\ q.connection = p.connection /\ q.dialed = p.dialed /\ q.callbacks = p.callbacks
       /\ q.waiting = p.waiting /\ q.stream = p.stream /\ q.mounted = p.mounted
       /\ q.queue = p.queue /\ (Streaming(q) <=> Streaming(p))
  BY <1>10, Zenon DEF SameLink, SamePane, SameQueue, Streaming
<1>12. PageOK(q)
  BY <1>11, Zenon DEF PageOK
<1>13. x.cmd = "ACK" /\ x.seq = w.seq
  BY DEF x
<1>14. ASSUME PageSound(p, h)
       PROVE  PageSound(q, h) /\ Reached(q) = Reached(p) /\ p.watermark <= w.seq
  <2>1. /\ Chain(p.writing, p.watermark) /\ p.exact /\ p.painted = BaseSeq .. p.watermark
        /\ \A i \in 1 .. Len(p.writing) : p.writing[i].snapshot <=> p.writing[i].seqs = <<>>
        /\ p.queue /= <<>> => Leads(Queued(p), Written(p))
        /\ Reached(p) <= h
    BY <1>14 DEF PageSound
  <2>2. /\ Leads(w, p.watermark) /\ p.watermark <= w.seq /\ Chain(Tail(p.writing), w.seq)
        /\ Tip(Tail(p.writing), w.seq) = Tip(p.writing, p.watermark)
    BY <1>1, <2>1, ChainTail, MsgLinks DEF w
  <2>3. Written(q) = Written(p)
    BY <1>9, <1>10, <2>2 DEF Written
  <2>4. Reached(q) = Reached(p) /\ Queued(q) = Queued(p)
    BY <1>10, <2>3 DEF Reached, Queued, SameQueue
  <2>5. w.snapshot <=> w.seqs = <<>>
    BY <1>2, <2>1, Zenon
  <2>6. P = BaseSeq .. w.seq /\ E
    <3>1. CASE w.snapshot
      BY <3>1, Zenon DEF P, E
    <3>2. CASE ~w.snapshot
      <4>1. w.seqs /= <<>>
        BY <2>5, <3>2, Zenon
      <4>2. /\ (BaseSeq .. p.watermark) \cup new = BaseSeq .. w.seq
            /\ \A i \in 1 .. Len(w.seqs) : w.seqs[i] = Top(BaseSeq .. p.watermark) + i
        BY <1>1, <1>2, <2>2, <4>1, PaintedOn
      <4>3. QED
        BY <2>1, <3>2, <4>2, Zenon DEF P, E
    <3>3. QED
      BY <3>1, <3>2
  <2>7. \A i \in 1 .. Len(Tail(p.writing)) :
          Tail(p.writing)[i].snapshot <=> Tail(p.writing)[i].seqs = <<>>
    <3>1. SUFFICES ASSUME NEW i \in 1 .. Len(Tail(p.writing))
                   PROVE  Tail(p.writing)[i].snapshot <=> Tail(p.writing)[i].seqs = <<>>
      OBVIOUS
    <3>2. Tail(p.writing)[i] = p.writing[i + 1] /\ i + 1 \in 1 .. Len(p.writing)
      BY <1>2
    <3>3. QED
      BY <2>1, <3>2, Zenon
  <2>8. PageSound(q, h)
    BY <1>9, <1>10, <1>11, <2>1, <2>2, <2>3, <2>4, <2>6, <2>7, ZenonT(60) DEF PageSound
  <2>9. QED
    BY <2>2, <2>4, <2>8
<1>15. ASSUME Follows(p, v, R, wire, h)  PROVE Follows(q, v, R \o q.sends, wire, h)
  <2> DEFINE Q == Append(R, x)
  <2>1. ASSUME p.connection /= NoConnection
        PROVE  /\ Q \in Seq(Request) /\ Len(R) + 1 \in 1 .. Len(Q) /\ Q[Len(R) + 1] = x
               /\ \A i \in 1 .. Len(R) : i \in 1 .. Len(Q) /\ Q[i] = R[i]
               /\ \A i \in 1 .. Len(Q) : i \in 1 .. Len(R) \/ i = Len(R) + 1
               /\ EndsJoined(v, Q) => EndsJoined(v, R)
    <3>1. R \in Seq(Request)
      BY <2>1 DEF Typed
    <3>2. EndsJoined(v, Q) => EndsJoined(v, R)
      BY <1>7, <1>13, <3>1, JoinedOn
    <3>3. QED
      BY <1>7, <3>1, <3>2, RequestsOn
  <2>2. ASSUME ~p.crossed, p.connection /= NoConnection  PROVE Streams(q, v, Q, wire, h)
    <3>1. PageSound(p, h) /\ Streams(p, v, R, wire, h) /\ R \in Seq(Request)
      BY <1>15, <2>2 DEF Follows, Typed
    <3>2. Reached(q) = Reached(p) /\ p.watermark <= w.seq
      BY <1>14, <3>1
    <3>3. AcksBehind(q.watermark, v, Q)
      <4>1. AcksBehind(p.watermark, v, R)
        BY <3>1 DEF Streams
      <4>2. AcksBehind(w.seq, v, R)
        <5>1. v.ack \in Nat /\ \A i \in 1 .. Len(R) : R[i].seq \in Nat
          <6>1. v \in View
            BY <2>2 DEF Typed
          <6>2. \A i \in 1 .. Len(R) : R[i] \in Request
            BY <3>1
          <6>3. QED
            BY <6>1, <6>2, ViewIn DEF Request
        <5>2. QED
          BY <1>1, <1>3, <3>2, <4>1, <5>1 DEF AcksBehind
      <4>3. x.cmd = "ACK" => x.seq <= w.seq
        BY <1>3, <1>13
      <4>4. QED
        BY <1>7, <1>9, <3>1, <4>2, <4>3, AcksOn
    <3>4. ASSUME p.callbacks  PROVE Flowing(q, v, Q, wire, h)
      <4>1. Flowing(p, v, R, wire, h)
        BY <3>1, <3>4 DEF Streams, Asked
      <4>2. Streaming(p)
        BY <4>1 DEF Flowing
      <4>3. \A i \in 1 .. Len(Q) : Q[i].cmd \in {"ACK", "PAUSE_VIEW"}
        <5>1. \A i \in 1 .. Len(R) : R[i].cmd \in {"ACK", "PAUSE_VIEW"}
          BY <4>1 DEF Flowing
        <5> HIDE DEF Q
        <5>2. QED
          BY <1>13, <2>1, <2>2, <5>1
      <4>4. Drains(q.watermark, v, Q, Tip(Frames(wire), Reached(q)))
        <5> HIDE DEF Q
        <5>1. QED
          BY <1>9, <1>13, <2>1, <2>2 DEF Drains
      <4> HIDE DEF Q
      <4>5. QED
        BY <1>11, <3>2, <4>1, <4>2, <4>3, <4>4, Zenon DEF Flowing
    <3>5. ASSUME p.callbacks, p.stream /= "paused"  PROVE NoPause(Q)
      <4>1. NoPause(R)
        BY <3>1, <3>5 DEF Streams
      <4> HIDE DEF Q
      <4>2. QED
        BY <1>13, <2>1, <2>2, <4>1 DEF NoPause
    <3> HIDE DEF Q
    <3>6. QED
      BY <1>11, <3>3, <3>4, <3>5, Zenon DEF Streams
  <2> HIDE DEF Q
  <2>3. ~p.crossed => PageSound(q, h)
    BY <1>14, <1>15 DEF Follows
  <2>4. Follows(q, v, Q, wire, h)
    BY <1>10, <1>11, <1>15, <2>1, <2>2, <2>3, Zenon DEF Follows
  <2>5. QED
    BY <1>7, <1>10, <1>11, <2>4, SaidFollows DEF Q
<1>16. QED
  BY <1>8, <1>11, <1>12, <1>15

(* The answer to an attach comes. *)
LEMMA AnswerStep ==
  ASSUME NEW p \in Page, PageOK(p), p.sends = <<>>, NEW q, q = AttachAnswered(p),
         NEW v, NEW R, NEW wire, Typed(p, v, R, wire), NEW h \in Nat,
         p.connection /= NoConnection, wire /= <<>>, Head(wire).cmd = "ATTACH"
  PROVE  /\ q \in Page /\ PageOK(q) /\ q.connection = p.connection /\ q.dialed = p.dialed
         /\ Follows(p, v, R, wire, h) => Follows(q, v, R \o q.sends, Tail(wire), h)
<1> DEFINE m == [p EXCEPT !.waiting = FALSE]
           x == [cmd |-> "DETACH", seq |-> 0]
<1>1. /\ R \in Seq(Request) /\ wire \in Seq(Msg) /\ Tail(wire) \in Seq(Msg)
  BY DEF Typed
<1>2. Replied(wire) /\ Frames(wire) = Tail(wire)
  BY DEF Replied, Frames
<1>3. Kinds(Frames(wire)) => Frames(Tail(wire)) = Tail(wire)
  BY <1>1, FramesTail
<1>4. /\ m \in Page /\ m.connection = p.connection /\ m.dialed = p.dialed /\ ~m.waiting
      /\ m.callbacks = p.callbacks /\ SameScreen(p, m) /\ SameQueue(p, m) /\ SamePane(p, m)
      /\ m.crossed = p.crossed /\ m.sends = p.sends
  BY Zenon DEF Page, SameScreen, SameQueue, SamePane
<1>5. CASE ~p.waiting
  <2>1. q = p
    BY <1>5, Zenon DEF AttachAnswered
  <2>2. ASSUME Follows(p, v, R, wire, h)  PROVE Follows(p, v, R, Tail(wire), h)
    <3>1. ASSUME ~p.crossed  PROVE Streams(p, v, R, Tail(wire), h)
      <4>1. Streams(p, v, R, wire, h)
        BY <2>2, <3>1 DEF Follows
      <4>2. p.callbacks /\ Flowing(p, v, R, wire, h) =>
              /\ Streaming(p) /\ Kinds(Frames(Tail(wire))) /\ Chain(Frames(Tail(wire)), Reached(p))
              /\ Tip(Frames(Tail(wire)), Reached(p)) = Tip(Frames(wire), Reached(p))
        BY <1>2, <1>3, <1>5 DEF Flowing
      <4>3. QED
        BY <4>1, <4>2, FlowMoves
    <3>2. QED
      BY <2>2, <3>1, Zenon DEF Follows
  <2>3. R \o p.sends = R
    BY <1>1, NoRequests
  <2>4. QED
    BY <2>1, <2>2, <2>3
<1>6. CASE p.waiting /\ p.stream /= "attaching"
  <2>1. q = DetachSession(m)
    BY <1>6, Zenon DEF AttachAnswered
  <2> HIDE DEF m
  <2>2. /\ q \in Page /\ SameScreen(m, q) /\ SameQueue(m, q) /\ SamePane(m, q)
        /\ q.connection = m.connection /\ q.dialed = m.dialed /\ q.waiting = m.waiting
        /\ ~q.callbacks /\ q.crossed = m.crossed /\ Said(m, q, x) /\ x \in Request
    <3>1. LET r == DetachSession(m) IN
          /\ r \in Page /\ SameScreen(m, r) /\ SameQueue(m, r) /\ SamePane(m, r)
          /\ r.connection = m.connection /\ r.dialed = m.dialed /\ r.waiting = m.waiting
          /\ ~r.callbacks /\ r.crossed = m.crossed /\ Said(m, r, x) /\ x \in Request
      BY <1>4, DetachFields, Zenon
    <3>2. QED
      BY <2>1, <3>1, Zenon
  <2>3. /\ SameScreen(p, q) /\ SameQueue(p, q) /\ q.stream = p.stream /\ q.mounted = p.mounted
        /\ q.connection = p.connection /\ q.dialed = p.dialed /\ ~q.waiting
        /\ q.crossed = p.crossed /\ Said(p, q, x)
    BY <1>4, <2>2, Zenon DEF SameScreen, SameQueue, SamePane, Said
  <2>4. q.stream \notin {"attaching", "attached", "paused"} /\ ~Streaming(q)
    BY <1>6, <2>3 DEF PageOK, Streaming
  <2>5. PageOK(q)
    BY <2>2, <2>3, <2>4 DEF PageOK
  <2>6. ASSUME Follows(p, v, R, wire, h)  PROVE Follows(q, v, R \o q.sends, Tail(wire), h)
    <3>1. x.cmd = "DETACH"
      OBVIOUS
    <3> HIDE DEF x
    <3>2. Follows(q, v, Append(R, x), Tail(wire), h)
      BY <2>2, <2>3, <2>6, <3>1, LetGo
    <3>3. QED
      BY <2>2, <2>3, <3>2, SaidFollows
  <2>7. QED
    BY <2>2, <2>3, <2>5, <2>6
<1>7. CASE p.waiting /\ p.stream = "attaching"
  <2> DEFINE a == [m EXCEPT !.stream = "attached", !.retries = 0]
  <2>1. q = a
    BY <1>7, Zenon DEF AttachAnswered
  <2>2. 0 \in Nat
    OBVIOUS
  <2>3. /\ q \in Page /\ q.connection = m.connection /\ q.dialed = m.dialed /\ q.waiting = m.waiting
        /\ q.callbacks = m.callbacks /\ SameScreen(m, q) /\ SameQueue(m, q)
        /\ q.stream = "attached" /\ q.mounted = m.mounted /\ q.crossed = m.crossed
        /\ q.sends = m.sends
    BY <1>4, <2>1, <2>2, ZenonT(60) DEF Page, SameScreen, SameQueue
  <2>4. /\ q.connection = p.connection /\ q.dialed = p.dialed /\ ~q.waiting
        /\ q.callbacks = p.callbacks /\ SameScreen(p, q) /\ SameQueue(p, q)
        /\ q.mounted = p.mounted /\ q.crossed = p.crossed /\ q.sends = <<>>
    BY <1>4, <2>3, Zenon DEF SameScreen, SameQueue, SamePane
  <2>5. Streaming(q) /\ ~Streaming(p) /\ q.stream /= "paused" /\ p.callbacks /\ p.mounted
    BY <1>7, <2>3 DEF Streaming, PageOK
  <2>6. PageOK(q)
    BY <2>3, <2>4, <2>5 DEF PageOK
  <2>7. ASSUME Follows(p, v, R, wire, h)  PROVE Follows(q, v, R \o q.sends, Tail(wire), h)
    <3>1. ASSUME ~p.crossed
          PROVE  PageSound(q, h) /\ Streams(q, v, R, Tail(wire), h)
      <4>1. PageSound(p, h) /\ Streams(p, v, R, wire, h)
        BY <2>7, <3>1 DEF Follows
      <4>2. PageSound(q, h) /\ Reached(q) = Reached(p)
        BY <2>4, <4>1, ScreenKept
      <4>3. Flowing(p, v, R, wire, h) /\ NoPause(R) /\ AcksBehind(p.watermark, v, R)
        <5>1. wire /= <<>>
          OBVIOUS
        <5>2. QED
          BY <1>7, <2>5, <4>1, <5>1 DEF Streams, Asked
      <4>4. q.watermark = p.watermark
        BY <2>4 DEF SameScreen
      <4>5. p.stream /= "paused"
        BY <1>7
      <4>6. Frames(Tail(wire)) = Frames(wire)
        BY <1>2, <1>3, <4>3 DEF Flowing
      <4>7. Flowing(q, v, R, Tail(wire), h)
        BY <2>5, <4>2, <4>3, <4>4, <4>5, <4>6, Zenon DEF Flowing
      <4>8. QED
        BY <4>2, <4>3, <4>4, <4>7, Zenon DEF Streams
    <3>2. Follows(q, v, R, Tail(wire), h)
      BY <2>4, <2>5, <3>1, Zenon DEF Follows
    <3>3. R \o q.sends = R
      BY <1>1, <2>4, NoRequests
    <3>4. QED
      BY <3>2, <3>3
  <2>8. QED
    BY <2>3, <2>4, <2>6, <2>7
<1>8. QED
  BY <1>5, <1>6, <1>7

(* A frame that the page takes in leads on from where it had got to. *)
LEMMA FrameTaken ==
  ASSUME NEW p \in Page, NEW h \in Nat, PageSound(p, h), p.callbacks, NEW v \in View, NEW R,
         NEW wire \in Seq(Msg), wire /= <<>>, Head(wire).cmd /= "ATTACH",
         Streams(p, v, R, wire, h)
  PROVE  LET f == Head(wire) IN
         /\ Flowing(p, v, R, wire, h) /\ Streaming(p)
         /\ f.cmd = IF f.seqs = <<>> THEN "SNAPSHOT" ELSE "DATA"
         /\ Leads(f, Reached(p)) /\ f.seq \in Nat /\ Reached(p) <= f.seq /\ f.seq <= h
         /\ Kinds(Frames(Tail(wire))) /\ Chain(Frames(Tail(wire)), f.seq)
         /\ Tip(Frames(Tail(wire)), f.seq) = Tip(Frames(wire), Reached(p))
<1> DEFINE f == Head(wire)
<1>1. Flowing(p, v, R, wire, h)
  BY DEF Streams, Asked
<1>2. ~Replied(wire) /\ Frames(wire) = wire
  BY DEF Replied, Frames
<1>3. Kinds(wire) /\ Chain(wire, Reached(p)) /\ Streaming(p)
  BY <1>1, <1>2 DEF Flowing
<1>4. Reached(p) \in Nat
  BY ReachedIn
<1>5. /\ Leads(f, Reached(p)) /\ f.seq \in Nat /\ Reached(p) <= f.seq
      /\ f.seq <= Tip(wire, Reached(p))
      /\ Chain(Tail(wire), f.seq) /\ Tip(Tail(wire), f.seq) = Tip(wire, Reached(p))
  BY <1>3, <1>4, ChainTail, MsgLinks
<1>6. /\ Frames(Tail(wire)) = Tail(wire) /\ Kinds(Tail(wire))
      /\ f.cmd = IF f.seqs = <<>> THEN "SNAPSHOT" ELSE "DATA"
  BY <1>2, <1>3, FramesTail
<1>7. Tip(wire, Reached(p)) \in Nat /\ Tip(wire, Reached(p)) <= h
  BY <1>1, <1>2, FlowEnds
<1> HIDE DEF f
<1>8. f.seq <= h
  BY <1>5, <1>7
<1>9. QED
  BY <1>1, <1>2, <1>3, <1>5, <1>6, <1>8 DEF f

(* What a frame becomes is taken in, and the stream goes on. *)
LEMMA Taken ==
  ASSUME NEW p \in Page, NEW q, PageOK(p), p.callbacks, p.sends = <<>>,
         SameLink(p, q), SamePane(p, q), q.crossed = p.crossed, q.sends = p.sends,
         q.watermark = p.watermark,
         NEW v, NEW R, NEW wire, Typed(p, v, R, wire), NEW h \in Nat,
         wire /= <<>>, Head(wire).cmd /= "ATTACH",
         PageSound(p, h) /\ Streams(p, v, R, wire, h) =>
           PageSound(q, h) /\ Reached(q) = Head(wire).seq,
         Follows(p, v, R, wire, h)
  PROVE  PageOK(q) /\ Follows(q, v, R \o q.sends, Tail(wire), h)
<1>1. /\ q.connection = p.connection /\ q.dialed = p.dialed /\ q.callbacks = p.callbacks
      /\ q.waiting = p.waiting /\ q.stream = p.stream /\ q.mounted = p.mounted
      /\ (Streaming(q) <=> Streaming(p)) /\ p.connection /= NoConnection
  BY Zenon DEF SameLink, SamePane, Streaming, PageOK
<1>2. PageOK(q)
  BY <1>1, Zenon DEF PageOK
<1>3. v \in View /\ R \in Seq(Request) /\ wire \in Seq(Msg)
  BY <1>1 DEF Typed
<1>4. ASSUME ~p.crossed  PROVE PageSound(q, h) /\ Streams(q, v, R, Tail(wire), h)
  <2>1. PageSound(p, h) /\ Streams(p, v, R, wire, h)
    BY <1>1, <1>4 DEF Follows
  <2>2. PageSound(q, h) /\ Reached(q) = Head(wire).seq
    BY <2>1
  <2>3. /\ Flowing(p, v, R, wire, h) /\ Streaming(p)
        /\ Kinds(Frames(Tail(wire))) /\ Chain(Frames(Tail(wire)), Reached(q))
        /\ Tip(Frames(Tail(wire)), Reached(q)) = Tip(Frames(wire), Reached(p))
    BY <1>3, <2>1, <2>2, FrameTaken
  <2>4. q.watermark = p.watermark /\ q.stream = p.stream /\ q.callbacks = p.callbacks
    BY <1>1
  <2>5. Streams(q, v, R, Tail(wire), h)
    BY <2>1, <2>3, <2>4, FlowMoves
  <2>6. QED
    BY <2>2, <2>5
<1>5. Follows(q, v, R, Tail(wire), h)
  BY <1>1, <1>4, Zenon DEF Follows
<1>6. R \o q.sends = R
  BY <1>3, NoRequests
<1>7. QED
  BY <1>2, <1>5, <1>6

(* Two runs of chunks, one after the other.                                  *)
LEMMA RunsJoin ==
  ASSUME NEW a \in Seq(Nat), NEW b \in Seq(Nat), NEW t \in Nat,
         \A i \in 1 .. Len(a) : a[i] = t + i,
         \A i \in 1 .. Len(b) : b[i] = t + Len(a) + i
  PROVE  /\ a \o b \in Seq(Nat) /\ Len(a \o b) = Len(a) + Len(b)
         /\ \A i \in 1 .. Len(a \o b) : (a \o b)[i] = t + i
<1>1. /\ a \o b \in Seq(Nat) /\ Len(a \o b) = Len(a) + Len(b)
      /\ Len(a) \in Nat /\ Len(b) \in Nat
  OBVIOUS
<1>2. SUFFICES ASSUME NEW i \in 1 .. Len(a) + Len(b)  PROVE (a \o b)[i] = t + i
  BY <1>1
<1>3. CASE i <= Len(a)
  <2>1. (a \o b)[i] = a[i] /\ i \in 1 .. Len(a)
    BY <1>1, <1>3
  <2>2. QED
    BY <2>1
<1>4. CASE i > Len(a)
  <2>1. (a \o b)[i] = b[i - Len(a)] /\ i - Len(a) \in 1 .. Len(b)
    BY <1>1, <1>4
  <2>2. b[i - Len(a)] = t + Len(a) + (i - Len(a))
    BY <2>1
  <2>3. QED
    BY <1>1, <2>1, <2>2
<1>5. QED
  BY <1>1, <1>3, <1>4

LEMMA Added ==
  ASSUME NEW w \in Nat, NEW m \in Nat, NEW n \in Nat
  PROVE  (w + m) + n = w + (m + n)
OBVIOUS

LEMMA RunGrows ==
  ASSUME NEW a \in Seq(Nat), NEW b \in Seq(Nat), b /= <<>>
  PROVE  a \o b /= <<>>
<1>1. Len(a \o b) = Len(a) + Len(b) /\ Len(b) > 0 /\ Len(a) \in Nat
  OBVIOUS
<1>2. QED
  BY <1>1

(* Output comes. *)
LEMMA DataStep ==
  ASSUME NEW p \in Page, PageOK(p), p.callbacks, p.sends = <<>>, NEW small,
         NEW v, NEW R, NEW wire, Typed(p, v, R, wire), NEW h \in Nat,
         wire /= <<>>, Head(wire).cmd = "DATA",
         NEW q, q = HandleData(p, Head(wire).seqs, Head(wire).seq, small)
  PROVE  /\ q \in Page /\ q.connection = p.connection /\ q.dialed = p.dialed
         /\ SameLink(p, q) /\ SamePane(p, q)
         /\ Follows(p, v, R, wire, h) => Follows(q, v, R \o q.sends, Tail(wire), h)
<1> DEFINE f == Head(wire)
           x == [snapshot |-> FALSE, seqs |-> f.seqs, seq |-> f.seq]
           a == [p EXCEPT !.writing = Append(@, x)]
           b == [p EXCEPT !.queue = @ \o f.seqs, !.pendingAckSeq = f.seq]
<1>1. /\ wire \in Seq(Msg) /\ f \in Msg /\ f.seqs \in Seq(Nat) /\ f.seq \in Nat
  <2>1. wire \in Seq(Msg) /\ f \in Msg
    BY DEF PageOK, Typed
  <2>2. QED
    BY <2>1, MsgLinks DEF Links
<1>2. f.cmd = "DATA" /\ f.cmd /= "ATTACH" /\ f.cmd /= "SNAPSHOT"
  OBVIOUS
<1>3. q = IF p.queue = <<>> /\ small THEN a ELSE b
  BY Zenon DEF HandleData
<1> HIDE DEF f
<1>4. x \in Write /\ x.seqs = f.seqs /\ x.seq = f.seq /\ x.snapshot = FALSE
  BY <1>1, Zenon DEF Write
<1>5. p.writing \in Seq(Write) /\ p.queue \in Seq(Nat)
  BY PageIn
<1>6. Append(p.writing, x) \in Seq(Write) /\ p.queue \o f.seqs \in Seq(Nat)
  BY <1>1, <1>4, <1>5
<1> HIDE DEF x
<1>7. CASE q = a /\ p.queue = <<>>
  <2>1. /\ q \in Page /\ SameLink(p, q) /\ SamePane(p, q) /\ q.crossed = p.crossed
        /\ q.sends = p.sends /\ q.watermark = p.watermark /\ q.painted = p.painted
        /\ q.exact = p.exact /\ q.queue = p.queue /\ q.writing = Append(p.writing, x)
    <3>1. q \in Page
      BY <1>6, <1>7, ZenonT(60) DEF Page
    <3>2. QED
      BY <1>6, <1>7, <3>1, Zenon DEF Page, SameLink, SamePane
  <2>2. ASSUME PageSound(p, h), Streams(p, v, R, wire, h)
        PROVE  PageSound(q, h) /\ Reached(q) = f.seq
    <3>1. /\ f.cmd = IF f.seqs = <<>> THEN "SNAPSHOT" ELSE "DATA"
          /\ Leads(f, Reached(p)) /\ f.seq <= h
      BY <1>1, <1>2, <2>2, FrameTaken DEF f, Typed, PageOK
    <3>2. f.seqs /= <<>>
      BY <1>2, <3>1
    <3>3. Reached(p) = Written(p)
      BY <1>7 DEF Reached
    <3>4. Leads(x, Written(p)) /\ (x.snapshot <=> x.seqs = <<>>)
      BY <1>4, <3>1, <3>2, <3>3 DEF Leads
    <3>5. x.seq <= h /\ q.queue = <<>>
      BY <1>4, <1>7, <2>1, <3>1
    <3>6. QED
      BY <1>4, <2>1, <2>2, <3>4, <3>5, WriteOn
  <2>3. ASSUME Follows(p, v, R, wire, h)  PROVE Follows(q, v, R \o q.sends, Tail(wire), h)
    <3>1. PageSound(p, h) /\ Streams(p, v, R, wire, h) =>
            PageSound(q, h) /\ Reached(q) = Head(wire).seq
      BY <2>2 DEF f
    <3>2. Head(wire).cmd /= "ATTACH"
      BY <1>2 DEF f
    <3>3. QED
      BY <2>1, <2>3, <3>1, <3>2, Taken
  <2>4. QED
    BY <2>1, <2>3, Zenon DEF SameLink
<1>8. CASE q = b
  <2>1. /\ q \in Page /\ SameLink(p, q) /\ SamePane(p, q) /\ SameScreen(p, q)
        /\ q.crossed = p.crossed /\ q.sends = p.sends
        /\ q.queue = p.queue \o f.seqs /\ q.pendingAckSeq = f.seq
    <3>1. q \in Page
      BY <1>1, <1>6, <1>8, ZenonT(60) DEF Page
    <3>2. QED
      BY <1>6, <1>8, <3>1, ZenonT(60) DEF Page, SameLink, SamePane, SameScreen
  <2>2. ASSUME PageSound(p, h), Streams(p, v, R, wire, h)
        PROVE  PageSound(q, h) /\ Reached(q) = f.seq
    <3>1. /\ f.cmd = IF f.seqs = <<>> THEN "SNAPSHOT" ELSE "DATA"
          /\ Leads(f, Reached(p)) /\ f.seq <= h
      BY <1>1, <1>2, <2>2, FrameTaken DEF f, Typed, PageOK
    <3>2. f.seqs /= <<>>
      BY <1>2, <3>1
    <3>3. /\ Reached(p) >= BaseSeq - 1 /\ f.seq = Reached(p) + Len(f.seqs)
          /\ \A i \in 1 .. Len(f.seqs) : f.seqs[i] = Reached(p) + i
      BY <3>1, <3>2 DEF Leads
    <3>4. /\ Written(p) \in Nat /\ Reached(p) \in Nat /\ Written(q) = Written(p)
      BY <2>1, <2>2, ReachedIn, ScreenKept
    <3>5. Reached(q) = f.seq /\ q.queue /= <<>>
      <4>1. p.queue \o f.seqs /= <<>>
        BY <1>1, <1>5, <3>2, RunGrows, Zenon
      <4>2. QED
        BY <2>1, <4>1, Zenon DEF Reached
    <3>6. Leads(Queued(q), Written(q))
      <4>1. Queued(q).seqs = q.queue /\ Queued(q).seq = f.seq
        BY <2>1 DEF Queued
      <4>2. CASE p.queue = <<>>
        <5>1. q.queue = f.seqs /\ Reached(p) = Written(p)
          BY <1>1, <2>1, <4>2 DEF Reached
        <5>2. QED
          BY <3>1, <3>4, <4>1, <5>1 DEF Leads
      <4>3. CASE p.queue /= <<>>
        <5>1. /\ Written(p) >= BaseSeq - 1 /\ Reached(p) = Written(p) + Len(p.queue)
              /\ \A i \in 1 .. Len(p.queue) : p.queue[i] = Written(p) + i
          BY <2>2, <4>3 DEF PageSound, Leads, Queued, Reached
        <5> DEFINE z == p.queue \o f.seqs
        <5>2. \A i \in 1 .. Len(f.seqs) : f.seqs[i] = Written(p) + Len(p.queue) + i
          BY <3>3, <5>1
        <5>3. Len(z) = Len(p.queue) + Len(f.seqs) /\ \A i \in 1 .. Len(z) : z[i] = Written(p) + i
          BY <1>1, <1>5, <3>4, <5>1, <5>2, RunsJoin, ZenonT(60)
        <5>4. f.seq = Written(p) + Len(z)
          <6>1. f.seq = Reached(p) + Len(f.seqs) /\ Reached(p) = Written(p) + Len(p.queue)
            BY <3>3, <5>1
          <6>2. Len(f.seqs) \in Nat /\ Len(p.queue) \in Nat
            BY <1>1, <1>5
          <6>3. Len(z) = Len(p.queue) + Len(f.seqs)
            BY <5>3
          <6> HIDE DEF z
          <6>4. f.seq = (Written(p) + Len(p.queue)) + Len(f.seqs)
            BY <6>1, Zenon
          <6>5. Written(p) \in Nat
            BY <3>4
          <6>6. (Written(p) + Len(p.queue)) + Len(f.seqs) = Written(p) + (Len(p.queue) + Len(f.seqs))
            BY <6>2, <6>5, Added, Zenon
          <6>7. QED
            BY <6>3, <6>4, <6>6, Zenon
        <5> HIDE DEF z
        <5>5. q.queue = z
          BY <2>1 DEF z
        <5>6. QED
          BY <3>4, <3>5, <4>1, <5>1, <5>3, <5>4, <5>5, ZenonT(60) DEF Leads
      <4>4. QED
        BY <4>2, <4>3
    <3>7. PageSound(q, h)
      BY <2>1, <2>2, <3>1, <3>5, <3>6, ZenonT(60) DEF PageSound, SameScreen
    <3>8. QED
      BY <3>5, <3>7
  <2>3. ASSUME Follows(p, v, R, wire, h)  PROVE Follows(q, v, R \o q.sends, Tail(wire), h)
    <3>1. PageSound(p, h) /\ Streams(p, v, R, wire, h) =>
            PageSound(q, h) /\ Reached(q) = Head(wire).seq
      BY <2>2 DEF f
    <3>2. Head(wire).cmd /= "ATTACH" /\ q.watermark = p.watermark
      BY <1>2, <2>1 DEF f, SameScreen
    <3>3. QED
      BY <2>1, <2>3, <3>1, <3>2, Taken
  <2>4. QED
    BY <2>1, <2>3, Zenon DEF SameLink
<1>9. QED
  BY <1>3, <1>7, <1>8, Zenon

(* A snapshot comes: what waited for a frame is gone. *)
LEMMA SnapshotStep ==
  ASSUME NEW p \in Page, PageOK(p), p.callbacks, p.sends = <<>>,
         NEW v, NEW R, NEW wire, Typed(p, v, R, wire), NEW h \in Nat,
         wire /= <<>>, Head(wire).cmd = "SNAPSHOT",
         NEW q, q = HandleSnapshot(p, Head(wire).seq)
  PROVE  /\ q \in Page /\ q.connection = p.connection /\ q.dialed = p.dialed
         /\ SameLink(p, q) /\ SamePane(p, q)
         /\ Follows(p, v, R, wire, h) => Follows(q, v, R \o q.sends, Tail(wire), h)
<1> DEFINE f == Head(wire)
           x == [snapshot |-> TRUE, seqs |-> <<>>, seq |-> f.seq]
           c == CancelPendingWrites(p)
<1>1. /\ wire \in Seq(Msg) /\ f \in Msg /\ f.seqs \in Seq(Nat) /\ f.seq \in Nat
  <2>1. wire \in Seq(Msg) /\ f \in Msg
    BY DEF PageOK, Typed
  <2>2. QED
    BY <2>1, MsgLinks DEF Links
<1>2. f.cmd = "SNAPSHOT" /\ f.cmd /= "ATTACH" /\ f.cmd /= "DATA"
  OBVIOUS
<1>3. q = [c EXCEPT !.writing = Append(@, x)]
  BY Zenon DEF HandleSnapshot
<1> HIDE DEF f
<1>4. x \in Write /\ x.seqs = <<>> /\ x.seq = f.seq /\ x.snapshot = TRUE
  BY <1>1, EmptyIn, Zenon DEF Write
<1> HIDE DEF x
<1>5. /\ c \in Page /\ SameLink(p, c) /\ SameScreen(p, c) /\ SamePane(p, c)
      /\ c.crossed = p.crossed /\ c.sends = p.sends /\ c.queue = <<>>
  BY CancelFields, Zenon
<1> HIDE DEF c
<1>6. c.writing = p.writing
  BY <1>5 DEF SameScreen
<1>7. Append(c.writing, x) \in Seq(Write)
  BY <1>4, <1>6, PageIn
<1>8. q \in Page
  BY <1>3, <1>5, <1>7, ZenonT(60) DEF Page
<1>9. /\ SameLink(c, q) /\ SamePane(c, q) /\ q.crossed = c.crossed /\ q.sends = c.sends
      /\ q.queue = c.queue /\ q.watermark = c.watermark /\ q.painted = c.painted
      /\ q.exact = c.exact /\ q.writing = Append(c.writing, x)
  BY <1>3, <1>5, Zenon DEF Page, SameLink, SamePane
<1>10. /\ SameLink(p, q) /\ SamePane(p, q) /\ q.crossed = p.crossed /\ q.sends = p.sends
       /\ q.queue = <<>> /\ q.watermark = p.watermark /\ q.painted = p.painted
       /\ q.exact = p.exact /\ q.writing = Append(p.writing, x)
  BY <1>5, <1>6, <1>9, Zenon DEF SameLink, SamePane, SameScreen
<1>11. ASSUME PageSound(p, h), Streams(p, v, R, wire, h)
       PROVE  PageSound(q, h) /\ Reached(q) = f.seq
  <2>1. Reached(p) <= f.seq /\ f.seq <= h
    BY <1>1, <1>2, <1>11, FrameTaken DEF f, Typed, PageOK
  <2>2. Written(p) \in Nat /\ Reached(p) \in Nat /\ Written(p) <= Reached(p)
    BY <1>11, ReachedIn
  <2>3. Leads(x, Written(p)) /\ (x.snapshot <=> x.seqs = <<>>) /\ x.seq <= h
    BY <1>1, <1>4, <2>1, <2>2 DEF Leads
  <2>4. QED
    BY <1>4, <1>10, <1>11, <2>3, WriteOn
<1>12. ASSUME Follows(p, v, R, wire, h)  PROVE Follows(q, v, R \o q.sends, Tail(wire), h)
  <2>1. PageSound(p, h) /\ Streams(p, v, R, wire, h) =>
          PageSound(q, h) /\ Reached(q) = Head(wire).seq
    BY <1>11 DEF f
  <2>2. Head(wire).cmd /= "ATTACH"
    BY <1>2 DEF f
  <2>3. QED
    BY <1>10, <1>12, <2>1, <2>2, Taken
<1>13. QED
  BY <1>8, <1>10, <1>12, Zenon DEF SameLink

(* A frame nobody listens to is lost. *)
LEMMA LostFrame ==
  ASSUME NEW p, ~p.callbacks, p.sends = <<>>, p.connection /= NoConnection,
         NEW v, NEW R, NEW wire, Typed(p, v, R, wire), NEW h, Follows(p, v, R, wire, h), NEW down
  PROVE  Follows(p, v, R \o p.sends, down, h)
<1>1. R \o p.sends = R
  BY NoRequests DEF Typed
<1>2. Follows(p, v, R, down, h)
  BY Zenon DEF Follows, Streams
<1>3. QED
  BY <1>1, <1>2


-----------------------------------------------------------------------------
(* What the page does while its stream stays where it is.                   *)

LEMMA RestsFollows ==
  ASSUME NEW p \in Page, p.sends = <<>>, NEW q, SameLink(p, q), SameScreen(p, q),
         SameQueue(p, q), q.crossed = p.crossed, q.sends = p.sends,
         Streaming(q) <=> Streaming(p), q.stream = "paused" <=> p.stream = "paused",
         NEW v, NEW R, NEW wire, Typed(p, v, R, wire), NEW h \in Nat
  PROVE  Follows(p, v, R, wire, h) => Follows(q, v, R \o q.sends, wire, h)
<1>1. Unmoved(p, q)
  BY Zenon DEF Unmoved, SameLink
<1>2. ASSUME Follows(p, v, R, wire, h)  PROVE Follows(q, v, R, wire, h)
  BY <1>1, <1>2, UnmovedFollows
<1>3. q.sends = <<>> /\ q.connection = p.connection
  BY DEF SameLink
<1>4. QED
  BY <1>2, <1>3, QuietFollows

(* The pane is mounted. *)
LEMMA MountStep ==
  ASSUME NEW p \in Page, PageOK(p), p.sends = <<>>, NEW q, q = [p EXCEPT !.mounted = TRUE],
         NEW v, NEW R, NEW wire, Typed(p, v, R, wire), NEW h \in Nat
  PROVE  /\ q \in Page /\ PageOK(q) /\ q.connection = p.connection /\ q.dialed = p.dialed
         /\ Follows(p, v, R, wire, h) => Follows(q, v, R \o q.sends, wire, h)
<1>1. /\ q \in Page /\ SameLink(p, q) /\ SameScreen(p, q) /\ SameQueue(p, q)
      /\ q.crossed = p.crossed /\ q.sends = p.sends /\ q.stream = p.stream /\ q.mounted = TRUE
  BY Zenon DEF Page, SameLink, SameScreen, SameQueue
<1>2. (Streaming(q) <=> Streaming(p)) /\ (q.stream = "paused" <=> p.stream = "paused")
  BY <1>1, Zenon DEF Streaming
<1>3. PageOK(q)
  BY <1>1, <1>2, Zenon DEF PageOK, SameLink
<1>4. Follows(p, v, R, wire, h) => Follows(q, v, R \o q.sends, wire, h)
  BY <1>1, <1>2, RestsFollows
<1>5. QED
  BY <1>1, <1>3, <1>4, Zenon DEF SameLink

(* A timer of the page or a new connection puts the pane in the queue again.   *)
LEMMA WakeStep ==
  ASSUME NEW p \in Page, PageOK(p), p.sends = <<>>,
         NEW m \in Page, SameLink(p, m), SameScreen(p, m), SameQueue(p, m), SamePane(p, m),
         m.crossed = p.crossed, m.sends = p.sends,
         NEW q, q = m \/ (q = Activate(m) /\ m.mounted),
         NEW v, NEW R, NEW wire, Typed(p, v, R, wire), NEW h \in Nat
  PROVE  /\ q \in Page /\ PageOK(q) /\ q.connection = p.connection /\ q.dialed = p.dialed
         /\ Follows(p, v, R, wire, h) => Follows(q, v, R \o q.sends, wire, h)
<1>1. /\ q \in Page /\ SameLink(m, q) /\ SameScreen(m, q) /\ SameQueue(m, q)
      /\ q.crossed = m.crossed /\ q.sends = m.sends /\ q.mounted = m.mounted
      /\ q.stream = m.stream \/ (m.mounted /\ m.stream = "idle" /\ q.stream = "queued")
  <2>1. CASE q = m
    BY <2>1, Zenon DEF SameLink, SameScreen, SameQueue
  <2>2. CASE q = Activate(m) /\ m.mounted
    <3>1. LET r == Activate(m) IN
          /\ r \in Page /\ SameLink(m, r) /\ SameScreen(m, r) /\ SameQueue(m, r)
          /\ r.crossed = m.crossed /\ r.sends = m.sends /\ r.mounted = m.mounted
          /\ r.stream = IF m.stream = "idle" THEN "queued" ELSE m.stream
      BY ActivateFields, Zenon
    <3>2. q.stream = IF m.stream = "idle" THEN "queued" ELSE m.stream
      BY <2>2, <3>1, Zenon
    <3>3. QED
      BY <2>2, <3>1, <3>2, Zenon
  <2>3. QED
    BY <2>1, <2>2
<1>2. /\ SameLink(p, q) /\ SameScreen(p, q) /\ SameQueue(p, q)
      /\ q.crossed = p.crossed /\ q.sends = p.sends /\ q.mounted = p.mounted
      /\ q.stream = p.stream \/ (p.mounted /\ p.stream = "idle" /\ q.stream = "queued")
  BY <1>1, ZenonT(60) DEF SameLink, SameScreen, SameQueue, SamePane
<1>3. (Streaming(q) <=> Streaming(p)) /\ (q.stream = "paused" <=> p.stream = "paused")
  BY <1>2, Zenon DEF Streaming
<1>4. PageOK(q)
  BY <1>2, <1>3, Zenon DEF PageOK, SameLink
<1>5. Follows(p, v, R, wire, h) => Follows(q, v, R \o q.sends, wire, h)
  BY <1>2, <1>3, RestsFollows
<1>6. QED
  BY <1>1, <1>2, <1>4, <1>5, Zenon DEF SameLink

LEMMA RetryStep ==
  ASSUME NEW p \in Page, PageOK(p), p.sends = <<>>,
         NEW q, q = LET m == [p EXCEPT !.retryTimer = FALSE]
                    IN  IF m.stream = "idle" /\ m.mounted THEN Activate(m) ELSE m,
         NEW v, NEW R, NEW wire, Typed(p, v, R, wire), NEW h \in Nat
  PROVE  /\ q \in Page /\ PageOK(q) /\ q.connection = p.connection /\ q.dialed = p.dialed
         /\ Follows(p, v, R, wire, h) => Follows(q, v, R \o q.sends, wire, h)
<1> DEFINE m == [p EXCEPT !.retryTimer = FALSE]
<1>1. /\ m \in Page /\ SameLink(p, m) /\ SameScreen(p, m) /\ SameQueue(p, m) /\ SamePane(p, m)
      /\ m.crossed = p.crossed /\ m.sends = p.sends
  BY Zenon DEF Page, SameLink, SameScreen, SameQueue, SamePane
<1>2. q = m \/ (q = Activate(m) /\ m.mounted)
  BY Zenon
<1> HIDE DEF m
<1>3. QED
  BY <1>1, <1>2, WakeStep, ZenonT(60)

LEMMA ReactivateStep ==
  ASSUME NEW p \in Page, PageOK(p), p.sends = <<>>,
         NEW q, q = LET m == [p EXCEPT !.reactivate = FALSE]
                    IN  IF m.mounted /\ m.wants THEN Activate(m) ELSE m,
         NEW v, NEW R, NEW wire, Typed(p, v, R, wire), NEW h \in Nat
  PROVE  /\ q \in Page /\ PageOK(q) /\ q.connection = p.connection /\ q.dialed = p.dialed
         /\ Follows(p, v, R, wire, h) => Follows(q, v, R \o q.sends, wire, h)
<1> DEFINE m == [p EXCEPT !.reactivate = FALSE]
<1>1. /\ m \in Page /\ SameLink(p, m) /\ SameScreen(p, m) /\ SameQueue(p, m) /\ SamePane(p, m)
      /\ m.crossed = p.crossed /\ m.sends = p.sends
  BY Zenon DEF Page, SameLink, SameScreen, SameQueue, SamePane
<1>2. q = m \/ (q = Activate(m) /\ m.mounted)
  BY Zenon
<1> HIDE DEF m
<1>3. QED
  BY <1>1, <1>2, WakeStep, ZenonT(60)

(* The socket is lost: the screen stays. *)
LEMMA DropStep ==
  ASSUME NEW p \in Page, PageOK(p), p.sends = <<>>,
         NEW q, q = Disconnect([p EXCEPT !.connection = NoConnection, !.callbacks = FALSE,
                                         !.waiting = FALSE, !.reactivate = FALSE]),
         NEW v, NEW R, NEW wire, NEW h \in Nat
  PROVE  /\ q \in Page /\ PageOK(q) /\ q.connection = NoConnection /\ q.dialed = p.dialed
         /\ Follows(p, v, R, wire, h) => \A s, Q, down : Follows(q, s, Q, down, h)
<1> DEFINE m == [p EXCEPT !.connection = NoConnection, !.callbacks = FALSE,
                          !.waiting = FALSE, !.reactivate = FALSE]
<1>1. /\ m \in Page /\ SameScreen(p, m) /\ SameQueue(p, m) /\ m.connection = NoConnection
      /\ m.dialed = p.dialed /\ ~m.waiting /\ ~m.callbacks /\ m.crossed = p.crossed
  BY Zenon DEF Page, SameScreen, SameQueue
<1>2. q = Disconnect(m)
  BY Zenon
<1> HIDE DEF m
<1>3. LET r == Disconnect(m) IN
      /\ r \in Page /\ SameScreen(m, r) /\ SameQueue(m, r) /\ r.stream = "idle"
      /\ r.connection = m.connection /\ r.dialed = m.dialed /\ r.waiting = m.waiting
      /\ r.mounted = m.mounted /\ r.crossed = m.crossed
      /\ Streaming(m) => ~r.callbacks
      /\ ~Streaming(m) => r.callbacks = m.callbacks
  BY <1>1, DisconnectFields, Zenon
<1>4. /\ q \in Page /\ SameScreen(p, q) /\ SameQueue(p, q) /\ q.stream = "idle"
      /\ q.connection = NoConnection /\ q.dialed = p.dialed /\ ~q.waiting
      /\ ~q.callbacks /\ q.crossed = p.crossed
  BY <1>1, <1>2, <1>3, Zenon DEF SameScreen, SameQueue
<1>5. PageOK(q)
  BY <1>4, Zenon DEF PageOK, Streaming
<1>6. ASSUME Follows(p, v, R, wire, h), NEW s, NEW Q, NEW down
      PROVE  Follows(q, s, Q, down, h)
  <2>1. ASSUME ~p.crossed  PROVE PageSound(q, h)
    <3>1. PageSound(p, h)
      BY <1>6, <2>1 DEF Follows
    <3>2. QED
      BY <1>4, <3>1, ScreenKept
  <2>2. QED
    BY <1>4, <2>1, Zenon DEF Follows
<1>7. QED
  BY <1>4, <1>5, <1>6, Zenon

(* A page dials. *)
Dialed(p, c, D) == [p EXCEPT !.connection = c, !.dialed = D, !.reactivate = TRUE]

LEMMA DialStep ==
  ASSUME NEW p \in Page, PageOK(p), p.sends = <<>>, p.connection = NoConnection,
         NEW c \in Viewers, NEW D, D = p.dialed \cup {c},
         NEW q, q = Dialed(p, c, D),
         NEW v \in View, NEW R, R = <<>>, NEW wire, ~v.joined, v.ack = 0, NEW h \in Nat,
         NEW s, NEW Q, NEW down
  PROVE  /\ q \in Page /\ PageOK(q) /\ q.connection = c /\ q.dialed = D /\ q.sends = <<>>
         /\ Follows(p, s, Q, down, h) => Follows(q, v, R, wire, h)
<1>1. D \in SUBSET Viewers /\ c \in D
  BY Zenon DEF Page
<1>2. /\ q \in Page /\ SameScreen(p, q) /\ SameQueue(p, q) /\ q.connection = c
      /\ q.dialed = D /\ q.callbacks = p.callbacks /\ q.waiting = p.waiting
      /\ q.crossed = p.crossed /\ q.stream = p.stream /\ q.mounted = p.mounted /\ q.sends = p.sends
  BY <1>1, ZenonT(60) DEF Page, SameScreen, SameQueue, Dialed
<1>3. ~p.callbacks /\ ~p.waiting /\ ~q.callbacks
  BY <1>2, Zenon DEF PageOK
<1>4. (Streaming(q) <=> Streaming(p)) /\ c /= NoConnection
  BY <1>2, TerminalAssumption, Zenon DEF Streaming
<1>5. PageOK(q)
  BY <1>1, <1>2, <1>3, <1>4, Zenon DEF PageOK
<1>6. ASSUME Follows(p, s, Q, down, h)  PROVE Follows(q, v, R, wire, h)
  <2>1. ~EndsJoined(v, R)
    BY DEF EndsJoined
  <2>2. ASSUME ~p.crossed  PROVE PageSound(q, h) /\ Streams(q, v, R, wire, h)
    <3>1. PageSound(p, h)
      BY <1>6, <2>2 DEF Follows
    <3>2. PageSound(q, h)
      BY <1>2, <3>1, ScreenKept
    <3>3. q.watermark \in Nat
      BY <1>2, PageIn
    <3>4. AcksBehind(q.watermark, v, R)
      BY <3>3 DEF AcksBehind
    <3>5. QED
      BY <1>3, <3>2, <3>4, Zenon DEF Streams
  <2>3. QED
    BY <1>2, <2>1, <2>2, Zenon DEF Follows
<1>7. QED
  BY <1>2, <1>5, <1>6, Zenon

(* An attach is given up on. *)
LEMMA TimeoutStep ==
  ASSUME NEW p \in Page, PageOK(p), p.sends = <<>>, NEW n \in Nat,
         NEW q, \/ q = AttachFailed([p EXCEPT !.waiting = FALSE])
                \/ q = AttachFailed([p EXCEPT !.waiting = FALSE, !.orphans = n])
  PROVE  q \in Page /\ PageOK(q) /\ q.connection = p.connection /\ q.dialed = p.dialed
         /\ q.sends = <<>>
<1>1. PICK m \in Page :
        /\ q = AttachFailed(m) /\ m.connection = p.connection /\ m.dialed = p.dialed
        /\ m.callbacks = p.callbacks /\ ~m.waiting /\ m.stream = p.stream
        /\ m.mounted = p.mounted /\ m.sends = p.sends
  <2> DEFINE a == [p EXCEPT !.waiting = FALSE]
             b == [p EXCEPT !.waiting = FALSE, !.orphans = n]
  <2>1. /\ a \in Page /\ a.connection = p.connection /\ a.dialed = p.dialed
        /\ a.callbacks = p.callbacks /\ ~a.waiting /\ a.stream = p.stream
        /\ a.mounted = p.mounted /\ a.sends = p.sends
    BY Zenon DEF Page
  <2>2. /\ b \in Page /\ b.connection = p.connection /\ b.dialed = p.dialed
        /\ b.callbacks = p.callbacks /\ ~b.waiting /\ b.stream = p.stream
        /\ b.mounted = p.mounted /\ b.sends = p.sends
    BY Zenon DEF Page
  <2>3. q = AttachFailed(a) \/ q = AttachFailed(b)
    OBVIOUS
  <2> HIDE DEF a, b
  <2>4. QED
    BY <2>1, <2>2, <2>3, Zenon
<1>2. LET r == AttachFailed(m) IN
      /\ r \in Page /\ SameLink(m, r) /\ r.sends = m.sends /\ r.mounted = m.mounted
      /\ r.stream = IF m.stream = "attaching" THEN "idle" ELSE m.stream
  BY AttachFailedFields, Zenon
<1>3. q.stream = IF p.stream = "attaching" THEN "idle" ELSE p.stream
  BY <1>1, <1>2, Zenon
<1>4. /\ q \in Page /\ q.connection = p.connection /\ q.dialed = p.dialed
      /\ q.callbacks = p.callbacks /\ ~q.waiting /\ q.mounted = p.mounted /\ q.sends = p.sends
  BY <1>1, <1>2, Zenon DEF SameLink
<1>5. q.stream = p.stream \/ q.stream = "idle"
  BY <1>3
<1>6. PageOK(q)
  BY <1>4, <1>5, Zenon DEF PageOK, Streaming
<1>7. QED
  BY <1>4, <1>6

LEMMA DataTaken ==
  ASSUME NEW p \in Page, PageOK(p), p.callbacks, p.sends = <<>>, NEW small,
         NEW v, NEW R, NEW wire, Typed(p, v, R, wire), NEW h \in Nat,
         wire /= <<>>, Head(wire).cmd = "DATA"
  PROVE  LET q == HandleData(p, Head(wire).seqs, Head(wire).seq, small) IN
         /\ q \in Page /\ PageOK(q) /\ q.connection = p.connection /\ q.dialed = p.dialed
         /\ Follows(p, v, R, wire, h) => Follows(q, v, R \o q.sends, Tail(wire), h)
<1> DEFINE q == HandleData(p, Head(wire).seqs, Head(wire).seq, small)
<1>1. /\ q \in Page /\ q.connection = p.connection /\ q.dialed = p.dialed
      /\ SameLink(p, q) /\ SamePane(p, q)
      /\ Follows(p, v, R, wire, h) => Follows(q, v, R \o q.sends, Tail(wire), h)
  BY DataStep
<1> HIDE DEF q
<1>2. PageOK(q)
  BY <1>1, Zenon DEF PageOK, SameLink, SamePane, Streaming
<1>3. QED
  BY <1>1, <1>2 DEF q

(* handleMessage *)
TakenIn(p, f, small) ==
  CASE f.cmd = "ATTACH" -> AttachAnswered(p)
    [] f.cmd = "DATA" /\ p.callbacks -> HandleData(p, f.seqs, f.seq, small)
    [] f.cmd = "SNAPSHOT" /\ p.callbacks -> HandleSnapshot(p, f.seq)
    [] OTHER -> p

(* A message is taken in, in one of four ways. *)
LEMMA ReceiveStep ==
  ASSUME NEW p \in Page, PageOK(p), p.sends = <<>>, p.connection /= NoConnection, NEW small,
         NEW v, NEW R, NEW wire, Typed(p, v, R, wire), NEW h \in Nat, wire /= <<>>,
         NEW q, q = TakenIn(p, Head(wire), small)
  PROVE  /\ q \in Page /\ PageOK(q) /\ q.connection = p.connection /\ q.dialed = p.dialed
         /\ Follows(p, v, R, wire, h) => Follows(q, v, R \o q.sends, Tail(wire), h)
<1>1. \/ Head(wire).cmd = "ATTACH" /\ q = AttachAnswered(p)
      \/ Head(wire).cmd = "DATA" /\ p.callbacks /\ q = HandleData(p, Head(wire).seqs, Head(wire).seq, small)
      \/ Head(wire).cmd = "SNAPSHOT" /\ p.callbacks /\ q = HandleSnapshot(p, Head(wire).seq)
      \/ /\ q = p /\ Head(wire).cmd /= "ATTACH"
         /\ ~p.callbacks \/ (Head(wire).cmd /= "DATA" /\ Head(wire).cmd /= "SNAPSHOT")
  <2>2. CASE Head(wire).cmd = "ATTACH"
    BY <2>2 DEF TakenIn
  <2>3. CASE Head(wire).cmd = "DATA" /\ p.callbacks
    BY <2>3 DEF TakenIn
  <2>4. CASE Head(wire).cmd = "SNAPSHOT" /\ p.callbacks
    BY <2>4 DEF TakenIn
  <2>5. CASE Head(wire).cmd /= "ATTACH" /\ (~p.callbacks \/ (Head(wire).cmd /= "DATA" /\ Head(wire).cmd /= "SNAPSHOT"))
    BY <2>5 DEF TakenIn
  <2>6. QED
    BY <2>2, <2>3, <2>4, <2>5
<1>2. CASE Head(wire).cmd = "ATTACH" /\ q = AttachAnswered(p)
  BY <1>2, AnswerStep
<1>3. CASE Head(wire).cmd = "DATA" /\ p.callbacks /\ q = HandleData(p, Head(wire).seqs, Head(wire).seq, small)
  <2>1. LET r == HandleData(p, Head(wire).seqs, Head(wire).seq, small) IN
        /\ r \in Page /\ PageOK(r) /\ r.connection = p.connection /\ r.dialed = p.dialed
        /\ Follows(p, v, R, wire, h) => Follows(r, v, R \o r.sends, Tail(wire), h)
    <3>1. p.callbacks /\ Head(wire).cmd = "DATA"
      BY <1>3
    <3>2. QED
      BY <3>1, DataTaken
  <2>2. q = HandleData(p, Head(wire).seqs, Head(wire).seq, small)
    BY <1>3
  <2>3. QED
    BY <2>1, <2>2, Zenon
<1>4. CASE Head(wire).cmd = "SNAPSHOT" /\ p.callbacks /\ q = HandleSnapshot(p, Head(wire).seq)
  <2>1. /\ q \in Page /\ q.connection = p.connection /\ q.dialed = p.dialed
        /\ SameLink(p, q) /\ SamePane(p, q)
        /\ Follows(p, v, R, wire, h) => Follows(q, v, R \o q.sends, Tail(wire), h)
    <3>1. p.callbacks /\ Head(wire).cmd = "SNAPSHOT"
      BY <1>4
    <3>2. q = HandleSnapshot(p, Head(wire).seq)
      BY <1>4
    <3>3. QED
      BY <3>1, <3>2, SnapshotStep, ZenonT(60)
  <2>2. PageOK(q)
    BY <2>1, Zenon DEF PageOK, SameLink, SamePane, Streaming
  <2>3. QED
    BY <2>1, <2>2
<1>5. CASE q = p /\ ~p.callbacks
  <2>1. ASSUME Follows(p, v, R, wire, h)  PROVE Follows(p, v, R \o p.sends, Tail(wire), h)
    BY <1>5, <2>1, LostFrame
  <2>2. QED
    BY <1>5, <2>1
<1>6. CASE /\ q = p /\ p.callbacks /\ Head(wire).cmd /= "ATTACH" /\ Head(wire).cmd /= "DATA"
           /\ Head(wire).cmd /= "SNAPSHOT"
  <2>1. v \in View /\ R \in Seq(Request) /\ wire \in Seq(Msg)
    BY DEF Typed
  <2>2. ASSUME Follows(p, v, R, wire, h)  PROVE Follows(p, v, R, Tail(wire), h)
    <3>1. ASSUME ~p.crossed  PROVE FALSE
      <4>1. PageSound(p, h) /\ Streams(p, v, R, wire, h)
        BY <2>2, <3>1 DEF Follows
      <4>2. Head(wire).cmd = IF Head(wire).seqs = <<>> THEN "SNAPSHOT" ELSE "DATA"
        BY <1>6, <2>1, <4>1, FrameTaken
      <4>3. QED
        BY <1>6, <4>2
    <3>2. QED
      BY <2>2, <3>1, Zenon DEF Follows
  <2>3. R \o p.sends = R
    BY <2>1, NoRequests
  <2>4. QED
    BY <1>6, <2>2, <2>3
<1>7. QED
  BY <1>1, <1>2, <1>3, <1>4, <1>5, <1>6, Zenon

-----------------------------------------------------------------------------
(* What the server does for the page's connection.                          *)

(* What was going on goes on, when nobody joins who had not asked to.        *)
LEMMA ServedFollows ==
  ASSUME NEW p \in Page, NEW v, NEW R, NEW wire, NEW h, Follows(p, v, R, wire, h),
         p.connection /= NoConnection,
         NEW s, NEW Q, NEW down, NEW g,
         PageSound(p, h) /\ Streams(p, v, R, wire, h) =>
           PageSound(p, g) /\ Streams(p, s, Q, down, g),
         EndsJoined(s, Q) => EndsJoined(v, R)
  PROVE  Follows(p, s, Q, down, g)
BY Zenon DEF Follows

LEMMA HushedFollows ==
  ASSUME NEW p, NEW v, NEW w, SameView(v, w), NEW R, NEW wire, NEW h,
         Follows(p, v, R, wire, h)
  PROVE  Follows(p, w, R, wire, h)
<1>1. w.joined = v.joined
  BY DEF SameView, SameFeed, SameFlags
<1>2. EndsJoined(w, R) => EndsJoined(v, R)
  BY <1>1, Zenon DEF EndsJoined
<1>3. ASSUME Streams(p, v, R, wire, h)  PROVE Streams(p, w, R, wire, h)
  BY <1>3, SameStreams
<1>4. QED
  BY <1>2, <1>3, Zenon DEF Follows

(* A request is taken up. *)
LEMMA JoinedTail ==
  ASSUME NEW R \in Seq(Request), R /= <<>>, NEW v, NEW s,
         s.joined => \/ Head(R).cmd = "ATTACH"
                     \/ v.joined /\ Head(R).cmd /= "DETACH"
  PROVE  EndsJoined(s, Tail(R)) => EndsJoined(v, R)
<1> DEFINE Q == Tail(R)
           n == Len(R)
<1>1. /\ Head(R) = R[1] /\ 1 \in 1 .. n /\ n \in Nat /\ Len(Q) = n - 1
      /\ \A i \in 1 .. Len(Q) : Q[i] = R[i + 1] /\ i + 1 \in 2 .. n
      /\ \A i \in 2 .. n : i - 1 \in 1 .. Len(Q) /\ R[i] = Q[i - 1]
  BY RequestsTail
<1> HIDE DEF Q, n
<1>2. \A j \in 1 .. n : j = 1 \/ j \in 2 .. n
  BY <1>1
<1>3. ASSUME NEW i \in 1 .. Len(Q), Q[i].cmd = "ATTACH",
             \A j \in 1 .. Len(Q) : j > i => Q[j].cmd /= "DETACH"
      PROVE  EndsJoined(v, R)
  <2>1. i + 1 \in 1 .. n /\ R[i + 1].cmd = "ATTACH"
    BY <1>1, <1>3
  <2>2. ASSUME NEW j \in 1 .. n, j > i + 1  PROVE R[j].cmd /= "DETACH"
    <3>1. j \in 2 .. n
      BY <1>1, <2>2
    <3>2. j - 1 \in 1 .. Len(Q) /\ R[j] = Q[j - 1]
      BY <1>1, <3>1
    <3>3. j - 1 > i
      BY <1>1, <2>2, <1>3
    <3>4. QED
      BY <1>3, <3>2, <3>3
  <2>3. QED
    BY <2>1, <2>2 DEF EndsJoined, n
<1>4. ASSUME s.joined, \A j \in 1 .. Len(Q) : Q[j].cmd /= "DETACH"
      PROVE  EndsJoined(v, R)
  <2>1. \A j \in 2 .. n : R[j].cmd /= "DETACH"
    BY <1>1, <1>4
  <2>2. CASE R[1].cmd = "ATTACH"
    <3>1. \A j \in 1 .. n : j > 1 => j \in 2 .. n
      BY <1>1
    <3>2. \A j \in 1 .. n : j > 1 => R[j].cmd /= "DETACH"
      BY <2>1, <3>1
    <3>3. QED
      BY <1>1, <2>2, <3>2 DEF EndsJoined, n
  <2>3. CASE v.joined /\ R[1].cmd /= "DETACH"
    <3>1. \A j \in 1 .. n : R[j].cmd /= "DETACH"
      BY <1>2, <2>1, <2>3
    <3>2. QED
      BY <2>3, <3>1 DEF EndsJoined, n
  <2>4. QED
    BY <1>1, <1>4, <2>2, <2>3
<1>5. QED
  BY <1>3, <1>4 DEF EndsJoined, Q

-----------------------------------------------------------------------------
(* Who is in, and what it acknowledged, changes only where the code says so. *)
SameSeat(v, s) == s.joined = v.joined /\ s.ack = v.ack

LEMMA FlushSeat ==
  ASSUME NEW v \in View, NEW congested
  PROVE  SameSeat(v, Flush(v, congested))
<1> DEFINE e == [v EXCEPT !.timer = FALSE, !.pending = <<>>]
           n == [v EXCEPT !.timer = FALSE]
           s == SendData(e, v.pending, Len(v.pending))
           p == [s EXCEPT !.pausedForBackpressure = TRUE, !.paused = s.joined,
                          !.drainTimer = s.drainTimer \/ ~s.acking]
           r == Flush(v, congested)
<1>1. CASE v.pending = <<>>
  <2>1. r = n
    BY <1>1, Zenon DEF Flush
  <2>2. SameSeat(v, n)
    BY Zenon DEF View, SameSeat
  <2>3. QED
    BY <2>1, <2>2, Zenon
<1>2. CASE v.pending /= <<>>
  <2>1. v.pending \in Seq(Nat) /\ Len(v.pending) \in Nat \ {0}
    BY <1>2, ViewIn
  <2>2. e \in View /\ SameSeat(v, e)
    BY EmptyIn, Zenon DEF View, SameSeat
  <2> HIDE DEF e
  <2>3. s \in View /\ SendsOnly(e, s)
    BY <2>1, <2>2, SendDataType, SendDataKeeps
  <2>4. SameSeat(v, s)
    BY <2>2, <2>3, Zenon DEF SameSeat, SendsOnly
  <2>5. r = s \/ r = p
    BY <1>2, Zenon DEF Flush, e
  <2> HIDE DEF s
  <2>6. SameSeat(s, p)
    BY <2>3, Zenon DEF View, SameSeat
  <2> HIDE DEF p, r
  <2>7. SameSeat(v, r)
    BY <2>4, <2>5, <2>6, Zenon DEF SameSeat
  <2>8. QED
    BY <2>7 DEF r
<1>3. QED
  BY <1>1, <1>2

LEMMA EnqueueSeat ==
  ASSUME NEW v \in View, NEW n \in Nat, NEW small, NEW congested
  PROVE  SameSeat(v, Enqueue(v, n, small, congested))
<1> DEFINE p == [v EXCEPT !.pending = Append(@, n)]
           t == [p EXCEPT !.timer = TRUE]
           r == Enqueue(v, n, small, congested)
<1>1. r = v \/ r = Flush(p, congested) \/ r = t
  BY Zenon DEF Enqueue
<1>2. Append(v.pending, n) \in Seq(Nat)
  BY ViewIn
<1>3. p \in View /\ SameSeat(v, p)
  BY <1>2, Zenon DEF View, SameSeat
<1> HIDE DEF p, r
<1>4. SameSeat(p, Flush(p, congested))
  BY <1>3, FlushSeat
<1>5. SameSeat(p, t)
  BY <1>3, Zenon DEF View, SameSeat
<1> HIDE DEF t
<1>6. SameSeat(v, r)
  BY <1>1, <1>3, <1>4, <1>5, Zenon DEF SameSeat
<1>7. QED
  BY <1>6 DEF r

LEMMA AckSeat ==
  ASSUME RingTypeOK, Window, NEW v \in View, NEW seq \in Nat, NEW forced
  PROVE  HandleViewerAck(v, seq, forced).joined = v.joined
         /\ HandleViewerAck(v, seq, forced).ack = seq
<1> DEFINE n == Len(v.sentEntries)
           k == Acked(v, seq)
           q == SubSeq(v.sentEntries, k + 1, n)
           a == [v EXCEPT !.ack = seq, !.acking = TRUE, !.sentEntries = q]
           r == [a EXCEPT !.pausedForBackpressure = FALSE, !.paused = FALSE]
           d == SinceSeqs(r.lastSentSeq)
           s == HandleViewerAck(v, seq, forced)
<1>1. v.sentEntries \in Seq(Nat) /\ n \in Nat
  BY ViewIn
<1>2. k \in 0 .. n
  BY <1>1, AckedIn
<1> HIDE DEF k
<1>3. q \in Seq(Nat)
  BY <1>1, <1>2, SubSeqProperties, ElementOfSeq
<1>4. s = a \/ s = SendData(r, d, 1) \/ s = SendSnapshot(r, LastSeq)
  BY Zenon DEF HandleViewerAck, k
<1> HIDE DEF q, n
<1>5. a \in View /\ a.joined = v.joined /\ a.ack = seq
  BY <1>3, Zenon DEF View
<1> HIDE DEF a
<1>6. r \in View /\ r.joined = a.joined /\ r.ack = a.ack
  BY <1>5, Zenon DEF View
<1> HIDE DEF r, s
<1>7. r.lastSentSeq \in Nat
  BY <1>6, ViewIn
<1>8. d \in Seq(Nat) /\ LastSeq \in Nat /\ 1 \in Nat \ {0}
  BY <1>7, SinceSeqsIn, LastSeqIn
<1> HIDE DEF d
<1>9. SendsOnly(r, SendData(r, d, 1)) /\ SendsOnly(r, SendSnapshot(r, LastSeq))
  BY <1>6, <1>8, SendDataKeeps, SendSnapshotKeeps
<1>10. s.joined = v.joined /\ s.ack = seq
  BY <1>4, <1>5, <1>6, <1>9, Zenon DEF SendsOnly
<1>11. QED
  BY <1>10 DEF s

(* A resync takes no seat either. *)
LEMMA ResyncSeat ==
  ASSUME RingTypeOK, Window, frozen \in Nat, frozen <= LastSeq,
         NEW v, Good(v, LastSeq), v.out = <<>>, NEW from \in Nat, NEW forced
  PROVE  /\ SameSeat(v, Resumed(v, from, forced))
         /\ WireSession(Resynced(v, from, forced)).ack = v.ack
<1> DEFINE b == [ResetBatcherForResync(WithBatcher(v)) EXCEPT !.pausedView = FALSE]
           s == SendResync(b, from, forced)
<1>1. v \in View /\ Quiet(v) = v
  <2>1. v \in View
    BY DEF Good
  <2>2. QED
    BY <2>1, Zenon DEF Quiet, View
<1>2. Good(b, LastSeq)
  <2>1. LET c == [ResetBatcherForResync(WithBatcher(Quiet(v))) EXCEPT !.pausedView = FALSE] IN
        Good(c, LastSeq)
    BY PreparedGood
  <2>2. QED
    BY <1>1, <2>1, Zenon
<1>3. SameSeat(v, b)
  BY <1>1, Zenon DEF ResetBatcherForResync, WithBatcher, View, SameSeat
<1> HIDE DEF b
<1>4. Good(s, LastSeq) /\ SendsOnly(b, s)
  BY <1>2, SendResyncGood
<1>5. Resynced(v, from, forced) = s
  BY Zenon DEF Resynced, b
<1> HIDE DEF s
<1>6. s \in View /\ SameSeat(v, s)
  BY <1>3, <1>4, Zenon DEF SameSeat, SendsOnly, Good
<1>7. SameSeat(s, [s EXCEPT !.paused = FALSE])
  BY <1>6, Zenon DEF View, SameSeat
<1>8. WireSession(s).ack = s.ack
  BY <1>6, Zenon DEF WireSession, WithBatcher, View
<1>9. QED
  BY <1>5, <1>6, <1>7, <1>8, Zenon DEF Resumed, SameSeat

-----------------------------------------------------------------------------
(* The requests, one by one, for the page's connection.                     *)

(* ATTACH and RESUME_VIEW *)
LEMMA AskHandled ==
  ASSUME RingTypeOK, Window, frozen = NotFrozen,
         NEW p \in Page, p.connection /= NoConnection,
         NEW v, Good(v, LastSeq), v.out = <<>>, NEW R \in Seq(Request), R /= <<>>,
         NEW wire \in Seq(Msg), Follows(p, v, R, wire, LastSeq), NEW forced, NEW s, NEW reply,
         \/ /\ Head(R).cmd = "ATTACH" /\ reply = <<AttachReply>>
            /\ s = WireSession(Resynced(v, Head(R).seq, forced))
         \/ /\ Head(R).cmd = "RESUME_VIEW" /\ reply = <<>>
            /\ s = Resumed(v, Head(R).seq, forced)
  PROVE  Follows(p, s, Tail(R), (wire \o reply) \o s.out, LastSeq)
<1>1. /\ v \in View /\ LastSeq \in Nat /\ frozen \in Nat /\ frozen <= LastSeq
      /\ Head(R).seq \in Nat
  <2>1. LastSeq \in Nat
    BY LastSeqIn
  <2>2. Head(R).seq \in Nat
    BY RequestsTail
  <2>3. frozen \in Nat /\ frozen <= LastSeq
    BY <2>1 DEF NotFrozen
  <2>4. QED
    BY <2>1, <2>2, <2>3 DEF Good
<1>2. /\ SameSeat(v, Resumed(v, Head(R).seq, forced))
      /\ WireSession(Resynced(v, Head(R).seq, forced)).ack = v.ack
  BY <1>1, ResyncSeat
<1>3. s.ack = v.ack
  BY <1>2, Zenon DEF SameSeat
<1>4. ASSUME PageSound(p, LastSeq), Streams(p, v, R, wire, LastSeq)
      PROVE  Streams(p, s, Tail(R), (wire \o reply) \o s.out, LastSeq)
  BY <1>1, <1>3, <1>4, AskAnswered
<1>5. s.joined => \/ Head(R).cmd = "ATTACH"
                  \/ v.joined /\ Head(R).cmd /= "DETACH"
  <2>1. CASE Head(R).cmd = "ATTACH"
    BY <2>1
  <2>2. CASE Head(R).cmd = "RESUME_VIEW" /\ s = Resumed(v, Head(R).seq, forced)
    <3>1. s.joined = v.joined
      BY <1>2, <2>2, Zenon DEF SameSeat
    <3>2. QED
      BY <2>2, <3>1
  <2>3. QED
    BY <2>1, <2>2
<1>6. EndsJoined(s, Tail(R)) => EndsJoined(v, R)
  BY <1>5, JoinedTail
<1>7. QED
  BY <1>4, <1>6, ServedFollows

LEMMA DetachHandled ==
  ASSUME NEW p \in Page, p.connection /= NoConnection,
         NEW v, NEW R \in Seq(Request), R /= <<>>, Head(R).cmd = "DETACH",
         NEW wire, NEW h \in Nat, Follows(p, v, R, wire, h), NEW s, s.ack = 0, ~s.joined, NEW down
  PROVE  Follows(p, s, Tail(R), down, h)
<1>1. ASSUME PageSound(p, h), Streams(p, v, R, wire, h)
      PROVE  Streams(p, s, Tail(R), down, h)
  BY <1>1, DetachStreams
<1>2. EndsJoined(s, Tail(R)) => EndsJoined(v, R)
  BY JoinedTail
<1>3. QED
  BY <1>1, <1>2, ServedFollows

LEMMA PauseHandled ==
  ASSUME NEW p \in Page, p.connection /= NoConnection,
         NEW v \in View, v.out = <<>>, NEW R \in Seq(Request), R /= <<>>,
         Head(R).cmd = "PAUSE_VIEW", NEW wire \in Seq(Msg), NEW h \in Nat,
         Follows(p, v, R, wire, h),
         NEW s, s = [v EXCEPT !.paused = v.joined, !.pausedView = v.batcher]
  PROVE  Follows(p, s, Tail(R), wire \o s.out, h)
<1>1. ASSUME PageSound(p, h), Streams(p, v, R, wire, h)
      PROVE  Streams(p, s, Tail(R), wire \o s.out, h)
  BY <1>1, PauseStreams
<1>2. s.joined = v.joined
  BY Zenon DEF View
<1>3. Head(R).cmd /= "DETACH"
  OBVIOUS
<1>4. EndsJoined(s, Tail(R)) => EndsJoined(v, R)
  BY <1>2, <1>3, JoinedTail
<1>5. QED
  BY <1>1, <1>4, ServedFollows

LEMMA AckHandled ==
  ASSUME RingTypeOK, Window, NEW p \in Page, p.connection /= NoConnection,
         NEW v, Good(v, LastSeq), v.out = <<>>, NEW R \in Seq(Request), R /= <<>>,
         Head(R).cmd = "ACK", NEW wire \in Seq(Msg), Follows(p, v, R, wire, LastSeq),
         NEW forced, NEW s, s = HandleViewerAck(v, Head(R).seq, forced)
  PROVE  Follows(p, s, Tail(R), wire \o s.out, LastSeq)
<1>1. v \in View /\ (v.pausedForBackpressure => v.pending = <<>>)
  BY DEF Good, BatchOK, StallOK
<1>2. Head(R).seq \in Nat
  BY RequestsTail
<1>3. s.joined = v.joined /\ s.ack = Head(R).seq
  BY <1>1, <1>2, AckSeat
<1>4. ASSUME PageSound(p, LastSeq), Streams(p, v, R, wire, LastSeq)
      PROVE  Streams(p, s, Tail(R), wire \o s.out, LastSeq)
  BY <1>1, <1>3, <1>4, AckStreams
<1>5. Head(R).cmd /= "DETACH"
  OBVIOUS
<1>6. EndsJoined(s, Tail(R)) => EndsJoined(v, R)
  BY <1>3, <1>5, JoinedTail
<1>7. QED
  BY <1>4, <1>6, ServedFollows

LEMMA AckIgnored ==
  ASSUME RingTypeOK, Window, NEW p \in Page, p.connection /= NoConnection,
         NEW v \in View, NEW R \in Seq(Request), R /= <<>>,
         Head(R).cmd = "ACK", ~AckAccepted(v, Head(R).seq),
         NEW wire \in Seq(Msg), Follows(p, v, R, wire, LastSeq)
  PROVE  Follows(p, v, Tail(R), wire, LastSeq)
<1>1. ASSUME PageSound(p, LastSeq), Streams(p, v, R, wire, LastSeq)
      PROVE  Streams(p, v, Tail(R), wire, LastSeq)
  BY <1>1, AckRefused
<1>2. Head(R).cmd /= "DETACH"
  OBVIOUS
<1>3. EndsJoined(v, Tail(R)) => EndsJoined(v, R)
  BY <1>2, JoinedTail
<1>4. QED
  BY <1>1, <1>3, ServedFollows

(* The batch timer, and a chunk of output. *)
LEMMA TimerHandled ==
  ASSUME NEW p \in Page, p.connection /= NoConnection, NEW v \in View, v.out = <<>>, NEW R,
         NEW wire \in Seq(Msg), NEW h \in Nat, Follows(p, v, R, wire, h),
         NEW s, s = Flush(v, FALSE)
  PROVE  Follows(p, s, R, wire \o s.out, h)
<1>1. s.joined = v.joined /\ s.ack = v.ack
  BY FlushSeat DEF SameSeat
<1>2. ASSUME PageSound(p, h), Streams(p, v, R, wire, h)
      PROVE  Streams(p, s, R, wire \o s.out, h)
  BY <1>1, <1>2, TimerStreams
<1>3. EndsJoined(s, R) => EndsJoined(v, R)
  BY <1>1, Zenon DEF EndsJoined
<1>4. QED
  BY <1>2, <1>3, ServedFollows, ZenonT(60)

LEMMA OutputHandled ==
  ASSUME NEW p \in Page, p.connection /= NoConnection, NEW v \in View, v.out = <<>>, NEW R,
         NEW wire \in Seq(Msg), NEW h \in Nat, Follows(p, v, R, wire, h),
         NEW n, n = h + 1, NEW small,
         NEW s, s = IF v.joined /\ ~v.paused THEN Enqueue(v, n, small, FALSE) ELSE v
  PROVE  Follows(p, s, R, wire \o s.out, n)
<1>1. n \in Nat
  OBVIOUS
<1>2. SameSeat(v, Enqueue(v, n, small, FALSE))
  BY <1>1, EnqueueSeat
<1>3. s.joined = v.joined /\ s.ack = v.ack
  BY <1>2, Zenon DEF SameSeat
<1>4. ASSUME PageSound(p, h), Streams(p, v, R, wire, h)
      PROVE  PageSound(p, n) /\ Streams(p, s, R, wire \o s.out, n)
  BY <1>3, <1>4, OutputStreams
<1>5. EndsJoined(s, R) => EndsJoined(v, R)
  BY <1>3, Zenon DEF EndsJoined
<1>6. PageSound(p, h) /\ Streams(p, v, R, wire, h) =>
        PageSound(p, n) /\ Streams(p, s, R, wire \o s.out, n)
  BY <1>4
<1>7. QED
  BY <1>5, <1>6, Zenon DEF Follows

(* Without a connection only the screen is left to speak of. *)
LEMMA AloneFollows ==
  ASSUME NEW p \in Page, p.connection = NoConnection, NEW v, NEW R, NEW wire, NEW h \in Nat,
         Follows(p, v, R, wire, h), NEW s, NEW Q, NEW down, NEW g \in Nat, h <= g
  PROVE  Follows(p, s, Q, down, g)
<1>1. ASSUME ~p.crossed  PROVE PageSound(p, g)
  <2>1. PageSound(p, h)
    BY <1>1 DEF Follows
  <2>2. Reached(p) \in Nat /\ Reached(p) <= h
    BY <2>1, ReachedIn
  <2>3. Reached(p) <= g
    BY <2>2
  <2>4. QED
    BY <2>1, <2>3, Zenon DEF PageSound
<1>2. QED
  BY <1>1, Zenon DEF Follows

-----------------------------------------------------------------------------
(* The system.                                                             *)

PageInv == page \in Page /\ PageOK(page) /\ page.sends = <<>>

WireTyped ==
  /\ toServer \in [Viewers -> Seq(Request)] /\ toClient \in [Viewers -> Seq(Msg)]
  /\ happened \in [may : SUBSET Happenings, times : Nat]

(* Nothing freezes or ends the session here; a connection that was not dialed  *)
(* knows nothing, and what was on its way down a lost one is gone.           *)
WireInv ==
  /\ frozen = NotFrozen /\ ~dead
  /\ \A c \in Viewers : c \notin page.dialed =>
       ~view[c].joined /\ view[c].ack = 0 /\ toServer[c] = <<>>
  /\ \A c \in Viewers : c /= page.connection => toClient[c] = <<>>

FollowInv ==
  InTime => Follows(page, view[page.connection], toServer[page.connection],
                    toClient[page.connection], LastSeq)

TermInv == StreamInv /\ PageInv /\ WireTyped /\ WireInv /\ FollowInv

(* What is handed to the socket is forgotten by the page. *)
LEMMA SendsCleared ==
  ASSUME NEW q \in Page, PageOK(q), NEW r, r = [q EXCEPT !.sends = <<>>]
  PROVE  /\ r \in Page /\ r.sends = <<>> /\ PageOK(r) /\ Unmoved(q, r)
         /\ r.connection = q.connection /\ r.dialed = q.dialed
<1>1. <<>> \in Seq(Request)
  OBVIOUS
<1>2. /\ r \in Page /\ r.sends = <<>> /\ r.connection = q.connection /\ r.dialed = q.dialed
      /\ r.callbacks = q.callbacks /\ r.waiting = q.waiting /\ r.crossed = q.crossed
      /\ r.stream = q.stream /\ r.mounted = q.mounted /\ SameScreen(q, r) /\ SameQueue(q, r)
  BY <1>1, Zenon DEF Page, SameScreen, SameQueue
<1>3. Streaming(r) <=> Streaming(q)
  BY <1>2, Zenon DEF Streaming
<1>4. PageOK(r)
  BY <1>2, <1>3, Zenon DEF PageOK
<1>5. Unmoved(q, r)
  BY <1>2, <1>3, Zenon DEF Unmoved
<1>6. QED
  BY <1>2, <1>4, <1>5

(* The connection of a page that has one is one. *)
LEMMA ConnectionIn ==
  ASSUME NEW p \in Page, p.connection /= NoConnection
  PROVE  p.connection \in Viewers
BY Zenon DEF Page

(* In the invariant the page is typed, and so is its connection. *)
LEMMA TermFacts ==
  ASSUME TermInv
  PROVE  /\ page \in Page /\ PageOK(page) /\ page.sends = <<>> /\ LastSeq \in Nat
         /\ RingTypeOK /\ Window /\ AllGood /\ view \in [Viewers -> View]
         /\ Typed(page, view[page.connection], toServer[page.connection],
                  toClient[page.connection])
         /\ happened.may \in SUBSET Happenings /\ happened.times \in Nat
         /\ \A c \in Viewers : c /= page.connection => toClient[c] = <<>>
<1>1. /\ page \in Page /\ PageOK(page) /\ page.sends = <<>>
  BY DEF TermInv, PageInv
<1>2. RingTypeOK /\ Window /\ AllGood /\ view \in [Viewers -> View]
  BY DEF TermInv, StreamInv, WireInv, TypeOK, RingInv
<1>3. LastSeq \in Nat
  BY <1>2, LastSeqIn
<1>4. ASSUME page.connection /= NoConnection
      PROVE  /\ view[page.connection] \in View /\ toServer[page.connection] \in Seq(Request)
             /\ toClient[page.connection] \in Seq(Msg)
  <2>1. page.connection \in Viewers
    BY <1>1, <1>4, ConnectionIn
  <2>2. toServer \in [Viewers -> Seq(Request)] /\ toClient \in [Viewers -> Seq(Msg)]
    BY DEF TermInv, WireTyped
  <2>3. QED
    BY <1>2, <2>1, <2>2, Zenon
<1>5. happened.may \in SUBSET Happenings /\ happened.times \in Nat
  BY DEF TermInv, WireTyped
<1>6. \A c \in Viewers : c /= page.connection => toClient[c] = <<>>
  BY Zenon DEF TermInv, WireInv
<1>7. QED
  BY <1>1, <1>2, <1>3, <1>4, <1>5, <1>6, Zenon DEF Typed

(* What happens leaves what may happen as it is. *)
HappenedOn == happened' \in [may : SUBSET Happenings, times : Nat] /\ (InTime' <=> InTime)

LEMMA HappensOn ==
  ASSUME TermInv, UNCHANGED happened \/ \E what : Happens(what)
  PROVE  HappenedOn
<1>1. happened \in [may : SUBSET Happenings, times : Nat] /\ happened.times \in Nat
  BY DEF TermInv, WireTyped
<1>2. CASE UNCHANGED happened
  BY <1>1, <1>2, Zenon DEF HappenedOn, InTime
<1>3. CASE \E what : Happens(what)
  <2> DEFINE n == happened.times + 1
  <2>1. happened' = [happened EXCEPT !.times = n]
    BY <1>3, Zenon DEF Happens
  <2>2. n \in Nat
    BY <1>1
  <2> HIDE DEF n
  <2>3. happened' \in [may : SUBSET Happenings, times : Nat] /\ happened'.may = happened.may
    BY <1>1, <2>1, <2>2, Zenon
  <2>4. QED
    BY <2>3, Zenon DEF HappenedOn, InTime
<1>4. QED
  BY <1>2, <1>3

(* The page becomes q. *)
LEMMA PageMoves ==
  ASSUME TermInv, NEW q \in Page, PageOK(q), Becomes(q), UNCHANGED vars, HappenedOn,
         toClient' \in [Viewers -> Seq(Msg)], page.dialed \subseteq q.dialed,
         \A c \in Viewers : c /= q.connection => toClient'[c] = <<>>,
         InTime => Follows(q, view[q.connection], toServer[q.connection] \o q.sends,
                           toClient'[q.connection], LastSeq)
  PROVE  TermInv'
<1> DEFINE c == q.connection
<1>1. /\ page' \in Page /\ PageOK(page') /\ page'.sends = <<>> /\ Unmoved(q, page')
      /\ page'.connection = c /\ page'.dialed = q.dialed
  <2>1. page' = [q EXCEPT !.sends = <<>>]
    BY DEF Becomes
  <2>2. LET r == [q EXCEPT !.sends = <<>>] IN
        /\ r \in Page /\ r.sends = <<>> /\ PageOK(r) /\ Unmoved(q, r)
        /\ r.connection = q.connection /\ r.dialed = q.dialed
    BY SendsCleared, Zenon
  <2>3. QED
    BY <2>1, <2>2, Zenon
<1>2. /\ view' = view /\ frozen' = frozen /\ dead' = dead /\ LastSeq' = LastSeq
  BY DEF vars, streamVars, ringVars, LastSeq
<1>3. StreamInv'
  BY StreamStep DEF TermInv
<1>4. toServer \in [Viewers -> Seq(Request)] /\ q.sends \in Seq(Request)
  BY PageIn DEF TermInv, WireTyped
<1>5. /\ toServer' \in [Viewers -> Seq(Request)]
      /\ \A d \in Viewers : d /= c => toServer'[d] = toServer[d]
      /\ c /= NoConnection => c \in Viewers /\ toServer'[c] = toServer[c] \o q.sends
  <2>1. CASE c = NoConnection
    <3>1. toServer' = toServer
      BY <2>1, Zenon DEF Becomes
    <3>2. QED
      BY <1>4, <2>1, <3>1
  <2>2. CASE c /= NoConnection
    <3>1. c \in Viewers
      BY <2>2, ConnectionIn
    <3>2. toServer' = [toServer EXCEPT ![c] = @ \o q.sends]
      BY <2>2, Zenon DEF Becomes
    <3>3. toServer[c] \in Seq(Request)
      BY <1>4, <3>1
    <3>4. toServer[c] \o q.sends \in Seq(Request)
      BY <1>4, <3>3
    <3> HIDE DEF c
    <3>5. QED
      BY <1>4, <3>1, <3>2, <3>4, Zenon
  <2>3. QED
    BY <2>1, <2>2
<1>6. WireTyped'
  BY <1>5, Zenon DEF WireTyped, HappenedOn
<1>7. WireInv'
  <2>1. frozen = NotFrozen /\ ~dead
    BY DEF TermInv, WireInv
  <2>2. ASSUME NEW d \in Viewers, d \notin q.dialed
        PROVE  ~view[d].joined /\ view[d].ack = 0 /\ toServer'[d] = <<>>
    <3>1. d /= c
      <4>1. c /= NoConnection => c \in q.dialed
        BY DEF PageOK
      <4>2. d /= NoConnection
        BY TerminalAssumption
      <4>3. QED
        BY <2>2, <4>1, <4>2
    <3>2. d \notin page.dialed
      BY <2>2
    <3>3. ~view[d].joined /\ view[d].ack = 0 /\ toServer[d] = <<>>
      BY <3>2, Zenon DEF TermInv, WireInv
    <3>4. QED
      BY <1>5, <3>1, <3>3
  <2>3. QED
    BY <1>1, <1>2, <2>1, <2>2, Zenon DEF WireInv
<1>8. FollowInv'
  <2>1. SUFFICES ASSUME InTime'
                 PROVE  Follows(page', view[c], toServer'[c], toClient'[c], LastSeq)
    BY <1>1, <1>2, Zenon DEF FollowInv
  <2>2. Follows(q, view[c], toServer[c] \o q.sends, toClient'[c], LastSeq) /\ LastSeq \in Nat
    BY <2>1, TermFacts DEF HappenedOn
  <2>3. Follows(page', view[c], toServer[c] \o q.sends, toClient'[c], LastSeq)
    BY <1>1, <2>2, UnmovedFollows
  <2>4. CASE c = NoConnection
    <3>1. LastSeq <= LastSeq /\ page'.connection = NoConnection
      BY <1>1, <2>2, <2>4
    <3>2. QED
      BY <1>1, <2>2, <2>3, <3>1, AloneFollows
  <2>5. CASE c /= NoConnection
    BY <1>5, <2>3, <2>5, Zenon
  <2>6. QED
    BY <2>4, <2>5
<1>9. QED
  BY <1>1, <1>3, <1>6, <1>7, <1>8 DEF TermInv, PageInv

-----------------------------------------------------------------------------
(* The steps of the page.                                                  *)

(* The page goes on to q on the connection it has, and nothing comes in. *)
Onward(q) ==
  /\ q \in Page /\ PageOK(q) /\ q.connection = page.connection /\ q.dialed = page.dialed
  /\ Follows(page, view[page.connection], toServer[page.connection],
             toClient[page.connection], LastSeq) =>
       Follows(q, view[page.connection], toServer[page.connection] \o q.sends,
               toClient[page.connection], LastSeq)

LEMMA PageGoesOn ==
  ASSUME TermInv, NEW q, Onward(q), Becomes(q), UNCHANGED <<vars, toClient>>, HappenedOn
  PROVE  TermInv'
<1>1. q \in Page /\ PageOK(q) /\ q.connection = page.connection /\ page.dialed \subseteq q.dialed
  BY DEF Onward
<1>2. toClient' = toClient /\ toClient \in [Viewers -> Seq(Msg)]
  BY DEF TermInv, WireTyped
<1>3. \A c \in Viewers : c /= q.connection => toClient'[c] = <<>>
  BY <1>1, <1>2, TermFacts, Zenon
<1>4. InTime => Follows(q, view[q.connection], toServer[q.connection] \o q.sends,
                        toClient'[q.connection], LastSeq)
  BY <1>1, <1>2, Zenon DEF TermInv, FollowInv, Onward
<1>5. UNCHANGED vars /\ toClient' \in [Viewers -> Seq(Msg)]
  BY <1>2
<1>6. QED
  BY <1>1, <1>3, <1>4, <1>5, PageMoves

LEMMA UserSteps ==
  ASSUME TermInv, Mount \/ Unmount \/ Show \/ Hide
  PROVE  TermInv'
<1> DEFINE v == view[page.connection]
           R == toServer[page.connection]
           wire == toClient[page.connection]
<1>1. /\ page \in Page /\ PageOK(page) /\ page.sends = <<>> /\ LastSeq \in Nat
      /\ Typed(page, v, R, wire)
  BY TermFacts
<1>2. HappenedOn /\ UNCHANGED <<vars, toClient>>
  BY HappensOn DEF Mount, Unmount, Show, Hide
<1>3. \E q : Becomes(q) /\ Onward(q)
  <2> HIDE DEF v, R, wire
  <2>1. CASE Mount
    <3> DEFINE q == [page EXCEPT !.mounted = TRUE]
    <3>1. /\ q \in Page /\ PageOK(q) /\ q.connection = page.connection /\ q.dialed = page.dialed
          /\ Follows(page, v, R, wire, LastSeq) => Follows(q, v, R \o q.sends, wire, LastSeq)
      BY <1>1, MountStep
    <3>2. Becomes(q)
      BY <2>1 DEF Mount
    <3>3. QED
      BY <3>1, <3>2, Zenon DEF Onward, v, R, wire
  <2>2. CASE Unmount
    <3> DEFINE q == CancelPendingWrites(Disconnect([page EXCEPT !.mounted = FALSE]))
    <3>1. /\ q \in Page /\ PageOK(q) /\ q.connection = page.connection /\ q.dialed = page.dialed
          /\ Follows(page, v, R, wire, LastSeq) => Follows(q, v, R \o q.sends, wire, LastSeq)
      BY <1>1, UnmountStep
    <3>2. Becomes(q)
      BY <2>2 DEF Unmount
    <3>3. QED
      BY <3>1, <3>2, Zenon DEF Onward, v, R, wire
  <2>3. CASE Show
    <3> DEFINE q == HostResumeView(Activate(page))
    <3>1. page.connection /= NoConnection =>
            v = view[page.connection] /\ R = toServer[page.connection] /\ wire = toClient[page.connection]
      BY DEF v, R, wire
    <3>2. page.mounted /\ Becomes(q)
      BY <2>3 DEF Show
    <3>3. /\ q \in Page /\ PageOK(q) /\ q.connection = page.connection /\ q.dialed = page.dialed
          /\ Follows(page, v, R, wire, LastSeq) => Follows(q, v, R \o q.sends, wire, LastSeq)
      BY <1>1, <3>1, <3>2, ShowStep
    <3>4. QED
      BY <3>2, <3>3, Zenon DEF Onward, v, R, wire
  <2>4. CASE Hide
    <3> DEFINE q == HostPauseView(page)
    <3>1. page.mounted /\ Becomes(q)
      BY <2>4 DEF Hide
    <3>2. /\ q \in Page /\ PageOK(q) /\ q.connection = page.connection /\ q.dialed = page.dialed
          /\ Follows(page, v, R, wire, LastSeq) => Follows(q, v, R \o q.sends, wire, LastSeq)
      BY <1>1, <3>1, HideStep
    <3>3. QED
      BY <3>1, <3>2, Zenon DEF Onward, v, R, wire
  <2>5. QED
    BY <2>1, <2>2, <2>3, <2>4
<1>4. QED
  BY <1>2, <1>3, PageGoesOn

LEMMA HostSteps ==
  ASSUME TermInv, RunQueued \/ RetryTimer \/ AnimationFrame \/ XtermParses \/ ReactivateHosts
  PROVE  TermInv'
<1> DEFINE v == view[page.connection]
           R == toServer[page.connection]
           wire == toClient[page.connection]
<1>1. /\ page \in Page /\ PageOK(page) /\ page.sends = <<>> /\ LastSeq \in Nat
      /\ Typed(page, v, R, wire)
  BY TermFacts
<1>2. HappenedOn /\ UNCHANGED <<vars, toClient>>
  BY HappensOn DEF RunQueued, RetryTimer, AnimationFrame, XtermParses, ReactivateHosts
<1>3. \E q : Becomes(q) /\ Onward(q)
  <2> HIDE DEF v, R, wire
  <2>1. CASE RunQueued
    <3> DEFINE q == DoAttach(page)
    <3>1. page.connection /= NoConnection =>
            v = view[page.connection] /\ R = toServer[page.connection] /\ wire = toClient[page.connection]
      BY DEF v, R, wire
    <3>2. page.stream = "queued" /\ Becomes(q)
      BY <2>1 DEF RunQueued
    <3>3. /\ q \in Page /\ PageOK(q) /\ q.connection = page.connection /\ q.dialed = page.dialed
          /\ Follows(page, v, R, wire, LastSeq) => Follows(q, v, R \o q.sends, wire, LastSeq)
      BY <1>1, <3>1, <3>2, AttachStep
    <3>4. QED
      BY <3>2, <3>3, Zenon DEF Onward, v, R, wire
  <2>2. CASE RetryTimer
    <3> DEFINE q == LET m == [page EXCEPT !.retryTimer = FALSE]
                    IN  IF m.stream = "idle" /\ m.mounted THEN Activate(m) ELSE m
    <3>1. Becomes(q)
      BY <2>2 DEF RetryTimer
    <3>2. /\ q \in Page /\ PageOK(q) /\ q.connection = page.connection /\ q.dialed = page.dialed
          /\ Follows(page, v, R, wire, LastSeq) => Follows(q, v, R \o q.sends, wire, LastSeq)
      BY <1>1, RetryStep
    <3>3. QED
      BY <3>1, <3>2, Zenon DEF Onward, v, R, wire
  <2>3. CASE AnimationFrame
    <3> DEFINE q == FlushWrites(page)
    <3>1. page.queue /= <<>> /\ Becomes(q)
      BY <2>3 DEF AnimationFrame
    <3>2. /\ q \in Page /\ PageOK(q) /\ q.connection = page.connection /\ q.dialed = page.dialed
          /\ Follows(page, v, R, wire, LastSeq) => Follows(q, v, R \o q.sends, wire, LastSeq)
      BY <1>1, <3>1, FrameStep
    <3>3. QED
      BY <3>1, <3>2, Zenon DEF Onward, v, R, wire
  <2>4. CASE XtermParses
    <3> DEFINE q == Parse(page)
    <3>1. page.writing /= <<>> /\ Becomes(q)
      BY <2>4 DEF XtermParses
    <3>2. /\ q \in Page /\ PageOK(q) /\ q.connection = page.connection /\ q.dialed = page.dialed
          /\ Follows(page, v, R, wire, LastSeq) => Follows(q, v, R \o q.sends, wire, LastSeq)
      BY <1>1, <3>1, ParseStep
    <3>3. QED
      BY <3>1, <3>2, Zenon DEF Onward, v, R, wire
  <2>5. CASE ReactivateHosts
    <3> DEFINE q == LET m == [page EXCEPT !.reactivate = FALSE]
                    IN  IF m.mounted /\ m.wants THEN Activate(m) ELSE m
    <3>1. Becomes(q)
      BY <2>5 DEF ReactivateHosts
    <3>2. /\ q \in Page /\ PageOK(q) /\ q.connection = page.connection /\ q.dialed = page.dialed
          /\ Follows(page, v, R, wire, LastSeq) => Follows(q, v, R \o q.sends, wire, LastSeq)
      BY <1>1, ReactivateStep
    <3>3. QED
      BY <3>1, <3>2, Zenon DEF Onward, v, R, wire
  <2>6. QED
    BY <2>1, <2>2, <2>3, <2>4, <2>5
<1>4. QED
  BY <1>2, <1>3, PageGoesOn

LEMMA ReceiveKeeps ==
  ASSUME TermInv, NEW small \in BOOLEAN, Receive(small)
  PROVE  TermInv'
<1> DEFINE c == page.connection
           v == view[c]
           R == toServer[c]
           wire == toClient[c]
           q == TakenIn(page, Head(wire), small)
<1>1. /\ page \in Page /\ PageOK(page) /\ page.sends = <<>> /\ LastSeq \in Nat
      /\ Typed(page, v, R, wire)
  BY TermFacts
<1>2. /\ c /= NoConnection /\ wire /= <<>> /\ UNCHANGED vars
      /\ toClient' = [toClient EXCEPT ![c] = Tail(@)]
  BY DEF Receive, Connected
<1>3. HappenedOn
  BY HappensOn DEF Receive
<1>4. c \in Viewers /\ toClient \in [Viewers -> Seq(Msg)]
  BY <1>1, <1>2, ConnectionIn DEF TermInv, WireTyped
<1>5. Becomes(q)
  BY Zenon DEF Receive, TakenIn
<1>6. /\ q \in Page /\ PageOK(q) /\ q.connection = c /\ q.dialed = page.dialed
      /\ Follows(page, v, R, wire, LastSeq) => Follows(q, v, R \o q.sends, Tail(wire), LastSeq)
  <2> HIDE DEF v, R, wire
  <2>1. QED
    BY <1>1, <1>2, ReceiveStep
<1>7. /\ toClient' \in [Viewers -> Seq(Msg)] /\ toClient'[c] = Tail(wire)
      /\ \A d \in Viewers : d /= c => toClient'[d] = <<>>
  <2>1. wire \in Seq(Msg) /\ Tail(wire) \in Seq(Msg)
    BY <1>2, <1>4
  <2>2. \A d \in Viewers : d /= c => toClient[d] = <<>>
    BY TermFacts, Zenon
  <2> HIDE DEF c
  <2>3. QED
    BY <1>2, <1>4, <2>1, <2>2, Zenon
<1>8. InTime => Follows(q, view[q.connection], toServer[q.connection] \o q.sends,
                        toClient'[q.connection], LastSeq)
  <2>1. InTime => Follows(page, v, R, wire, LastSeq)
    BY DEF TermInv, FollowInv
  <2> HIDE DEF q, c
  <2>2. QED
    BY <1>6, <1>7, <2>1, Zenon
<1>9. page.dialed \subseteq q.dialed /\ \A d \in Viewers : d /= q.connection => toClient'[d] = <<>>
  BY <1>6, <1>7, Zenon
<1> HIDE DEF q
<1>10. QED
  BY <1>2, <1>3, <1>5, <1>6, <1>7, <1>8, <1>9, PageMoves

(* The connection is lost, or dialed, or an attach takes too long. *)
LEMMA DropKeeps ==
  ASSUME TermInv, Drop
  PROVE  TermInv'
<1> DEFINE c == page.connection
           q == Disconnect([page EXCEPT !.connection = NoConnection, !.callbacks = FALSE,
                                        !.waiting = FALSE, !.reactivate = FALSE])
<1>1. page \in Page /\ PageOK(page) /\ page.sends = <<>> /\ LastSeq \in Nat
  BY TermFacts
<1>2. /\ c /= NoConnection /\ UNCHANGED vars /\ Becomes(q)
      /\ toClient' = [toClient EXCEPT ![c] = <<>>]
  BY DEF Drop, Connected
<1>3. HappenedOn
  BY HappensOn DEF Drop
<1>4. c \in Viewers /\ toClient \in [Viewers -> Seq(Msg)]
  BY <1>1, <1>2, ConnectionIn DEF TermInv, WireTyped
<1>5. /\ q \in Page /\ PageOK(q) /\ q.connection = NoConnection /\ q.dialed = page.dialed
      /\ Follows(page, view[c], toServer[c], toClient[c], LastSeq) =>
           \A s, Q, down : Follows(q, s, Q, down, LastSeq)
  <2> DEFINE v == view[c]
             R == toServer[c]
             wire == toClient[c]
  <2> HIDE DEF v, R, wire
  <2>1. /\ q \in Page /\ PageOK(q) /\ q.connection = NoConnection /\ q.dialed = page.dialed
        /\ Follows(page, v, R, wire, LastSeq) =>
             \A s, Q, down : Follows(q, s, Q, down, LastSeq)
    BY <1>1, DropStep
  <2>2. QED
    BY <2>1 DEF v, R, wire
<1>6. toClient' \in [Viewers -> Seq(Msg)] /\ \A d \in Viewers : toClient'[d] = <<>>
  <2>1. <<>> \in Seq(Msg)
    OBVIOUS
  <2>2. \A d \in Viewers : d /= c => toClient[d] = <<>>
    BY TermFacts, Zenon
  <2> HIDE DEF c
  <2>3. QED
    BY <1>2, <1>4, <2>1, <2>2, Zenon
<1>7. InTime => Follows(q, view[q.connection], toServer[q.connection] \o q.sends,
                        toClient'[q.connection], LastSeq)
  <2>1. InTime => Follows(page, view[c], toServer[c], toClient[c], LastSeq)
    BY DEF TermInv, FollowInv
  <2> HIDE DEF q
  <2>2. QED
    BY <1>5, <2>1
<1>8. page.dialed \subseteq q.dialed /\ \A d \in Viewers : d /= q.connection => toClient'[d] = <<>>
  BY <1>5, <1>6, Zenon
<1> HIDE DEF q
<1>9. QED
  BY <1>2, <1>3, <1>5, <1>6, <1>7, <1>8, PageMoves

LEMMA DialKeeps ==
  ASSUME TermInv, NEW c \in Viewers, Dial(c)
  PROVE  TermInv'
<1> DEFINE n == NoConnection
           D == page.dialed \cup {c}
           q == Dialed(page, c, D)
<1>1. page \in Page /\ PageOK(page) /\ page.sends = <<>> /\ LastSeq \in Nat
  BY TermFacts
<1>2. /\ page.connection = NoConnection /\ c \notin page.dialed
      /\ UNCHANGED <<vars, toClient>> /\ Becomes(q)
  BY Zenon DEF Dial, Dialed, Connected
<1>3. HappenedOn
  BY HappensOn DEF Dial
<1>4. /\ ~view[c].joined /\ view[c].ack = 0 /\ toServer[c] = <<>>
  BY <1>2, Zenon DEF TermInv, WireInv
<1>5. view[c] \in View
  BY TermFacts
<1>6. /\ q \in Page /\ PageOK(q) /\ q.connection = c /\ q.dialed = D /\ q.sends = <<>>
      /\ Follows(page, view[n], toServer[n], toClient[n], LastSeq) =>
           Follows(q, view[c], toServer[c], toClient[c], LastSeq)
  <2> DEFINE v == view[c]
             R == toServer[c]
             wire == toClient[c]
             s == view[n]
             Q == toServer[n]
             down == toClient[n]
  <2>1. v \in View /\ R = <<>> /\ ~v.joined /\ v.ack = 0 /\ D = page.dialed \cup {c}
    BY <1>4, <1>5
  <2> HIDE DEF v, R, wire, s, Q, down, D
  <2>2. /\ q \in Page /\ PageOK(q) /\ q.connection = c /\ q.dialed = D /\ q.sends = <<>>
        /\ Follows(page, s, Q, down, LastSeq) => Follows(q, v, R, wire, LastSeq)
    BY <1>1, <1>2, <2>1, DialStep, SMTT(30)
  <2>3. QED
    BY <2>2 DEF v, R, wire, s, Q, down
<1>7. ASSUME InTime
      PROVE  Follows(q, view[c], toServer[c] \o q.sends, toClient'[c], LastSeq)
  <2>1. Follows(page, view[n], toServer[n], toClient[n], LastSeq)
    BY <1>2, <1>7, Zenon DEF TermInv, FollowInv
  <2>2. Follows(q, view[c], toServer[c], toClient[c], LastSeq)
    BY <1>6, <2>1
  <2>3. toServer[c] \o q.sends = toServer[c] /\ toClient' = toClient
    BY <1>2, <1>4, <1>6
  <2> HIDE DEF q
  <2>4. QED
    BY <2>2, <2>3
<1>8. toClient' \in [Viewers -> Seq(Msg)] /\ UNCHANGED vars
  BY <1>2 DEF TermInv, WireTyped
<1>9. \A d \in Viewers : d /= c => toClient'[d] = <<>>
  <2>1. \A d \in Viewers : d /= page.connection => toClient[d] = <<>>
    BY TermFacts, Zenon
  <2>2. \A d \in Viewers : d /= NoConnection
    BY TerminalAssumption
  <2>3. QED
    BY <1>2, <2>1, <2>2
<1>a. page.dialed \subseteq q.dialed
  BY <1>6
<1> HIDE DEF q
<1>10. QED
  BY <1>2, <1>3, <1>6, <1>7, <1>8, <1>9, <1>a, PageMoves

LEMMA TimeoutKeeps ==
  ASSUME TermInv, AttachTimeout
  PROVE  TermInv'
<1>1. page \in Page /\ PageOK(page) /\ page.sends = <<>> /\ LastSeq \in Nat
  BY TermFacts
<1>2. HappenedOn /\ UNCHANGED <<vars, toClient>>
  BY HappensOn DEF AttachTimeout
<1>3. ~InTime
  BY DEF AttachTimeout, Happens, InTime
<1> DEFINE n == IF page.waiting THEN page.orphans ELSE page.orphans - 1
<1>4. PICK q : /\ Becomes(q)
               /\ \/ q = AttachFailed([page EXCEPT !.waiting = FALSE])
                  \/ /\ page.orphans > 0
                     /\ q = AttachFailed([page EXCEPT !.waiting = FALSE, !.orphans = n])
  <2>1. CASE page.waiting /\ Becomes(AttachFailed([page EXCEPT !.waiting = FALSE]))
    BY <2>1, Zenon
  <2>2. CASE /\ page.orphans > 0
             /\ Becomes(AttachFailed([page EXCEPT !.waiting = FALSE,
                                        !.orphans = IF page.waiting THEN @ ELSE @ - 1]))
    BY <2>2, Zenon
  <2>3. QED
    BY <2>1, <2>2, Zenon DEF AttachTimeout
<1>5. page.orphans \in Nat
  BY <1>1, Zenon DEF Page
<1>6. page.orphans > 0 => n \in Nat
  BY <1>5
<1> HIDE DEF n
<1>7. q \in Page /\ PageOK(q) /\ q.connection = page.connection /\ q.dialed = page.dialed
      /\ q.sends = <<>>
  <2>1. 0 \in Nat
    OBVIOUS
  <2>2. CASE q = AttachFailed([page EXCEPT !.waiting = FALSE])
    BY <1>1, <2>1, <2>2, TimeoutStep
  <2>3. CASE page.orphans > 0 /\ q = AttachFailed([page EXCEPT !.waiting = FALSE, !.orphans = n])
    BY <1>1, <1>6, <2>3, TimeoutStep
  <2>4. QED
    BY <1>4, <2>2, <2>3
<1>8. toClient' \in [Viewers -> Seq(Msg)] /\ UNCHANGED vars
  BY <1>2 DEF TermInv, WireTyped
<1>9. page.dialed \subseteq q.dialed /\ \A d \in Viewers : d /= q.connection => toClient'[d] = <<>>
  <2>1. \A d \in Viewers : d /= page.connection => toClient[d] = <<>>
    BY TermFacts, Zenon
  <2>2. QED
    BY <1>2, <1>7, <2>1, Zenon
<1>10. QED
  BY <1>2, <1>3, <1>4, <1>7, <1>8, <1>9, PageMoves

-----------------------------------------------------------------------------
(* The steps of the server.                                                *)

LEMMA ServerMoves ==
  ASSUME TermInv, RingStutters, StreamTyped', StreamGood', UNCHANGED <<dead, frozen>>,
         NEW reply \in [Viewers -> Seq(Msg)], Delivers(reply),
         toServer' \in [Viewers -> Seq(Request)],
         \A c \in Viewers : c \notin page.dialed =>
           ~view'[c].joined /\ view'[c].ack = 0 /\ toServer'[c] = <<>>,
         LastSeq' \in Nat, LastSeq <= LastSeq',
         InTime /\ page.connection /= NoConnection =>
           Follows(page, view'[page.connection], toServer'[page.connection],
                   (toClient[page.connection] \o reply[page.connection])
                     \o view'[page.connection].out, LastSeq')
  PROVE  TermInv'
<1> DEFINE c == page.connection
<1>1. /\ page \in Page /\ PageOK(page) /\ page.sends = <<>> /\ LastSeq \in Nat
      /\ toClient \in [Viewers -> Seq(Msg)]
  BY TermFacts DEF TermInv, WireTyped
<1>2. /\ page' = page /\ happened' = happened
      /\ toClient' = [d \in Viewers |->
           IF d = c THEN (toClient[d] \o reply[d]) \o view'[d].out ELSE <<>>]
  BY Zenon DEF Delivers
<1>3. StreamInv'
  <2>1. RingTypeOK' /\ RingInv'
    BY RingStepOK, Zenon DEF TermInv, StreamInv, TypeOK, RingStutters
  <2>2. QED
    BY <2>1, Zenon DEF StreamInv, TypeOK, StreamTyped, StreamGood
<1>4. \A d \in Viewers : (toClient[d] \o reply[d]) \o view'[d].out \in Seq(Msg)
  <2>1. SUFFICES ASSUME NEW d \in Viewers
                 PROVE  (toClient[d] \o reply[d]) \o view'[d].out \in Seq(Msg)
    OBVIOUS
  <2>2. view'[d] \in View
    BY Zenon DEF StreamTyped
  <2>3. view'[d].out \in Seq(Frame)
    BY <2>2, ViewIn
  <2>4. view'[d].out \in Seq(Msg)
    BY <2>3, MsgLinks
  <2>5. toClient[d] \in Seq(Msg) /\ reply[d] \in Seq(Msg)
    BY <1>1
  <2> DEFINE a == toClient[d]
             b == reply[d]
             e == view'[d].out
  <2> HIDE DEF a, b, e
  <2>6. (a \o b) \o e \in Seq(Msg)
    BY <2>4, <2>5 DEF a, b, e
  <2>7. QED
    BY <2>6 DEF a, b, e
<1>5. /\ toClient' \in [Viewers -> Seq(Msg)]
      /\ \A d \in Viewers : d /= c => toClient'[d] = <<>>
      /\ c \in Viewers => toClient'[c] = (toClient[c] \o reply[c]) \o view'[c].out
  <2>1. <<>> \in Seq(Msg)
    OBVIOUS
  <2> HIDE DEF c
  <2>2. QED
    BY <1>2, <1>4, <2>1, Zenon
<1>6. PageInv'
  BY <1>1, <1>2, Zenon DEF PageInv
<1>7. WireTyped'
  BY <1>2, <1>5, Zenon DEF WireTyped, TermInv
<1>8. WireInv'
  <2>1. frozen' = NotFrozen /\ ~dead'
    BY DEF TermInv, WireInv
  <2>2. QED
    BY <1>2, <1>5, <2>1, Zenon DEF WireInv
<1>9. FollowInv'
  <2>1. SUFFICES ASSUME InTime
                 PROVE  Follows(page, view'[c], toServer'[c], toClient'[c], LastSeq')
    BY <1>2, Zenon DEF FollowInv, InTime
  <2>2. CASE c = NoConnection
    <3> DEFINE v == view[c]
               R == toServer[c]
               wire == toClient[c]
               s == view'[c]
               Q == toServer'[c]
               down == toClient'[c]
               g == LastSeq'
    <3>1. Follows(page, v, R, wire, LastSeq)
      BY <2>1, Zenon DEF TermInv, FollowInv
    <3>2. g \in Nat /\ LastSeq <= g
      OBVIOUS
    <3> HIDE DEF v, R, wire, s, Q, down, g
    <3>3. Follows(page, s, Q, down, g)
      BY <1>1, <2>2, <3>1, <3>2, AloneFollows
    <3>4. QED
      BY <3>3, Zenon DEF s, Q, down, g
  <2>3. CASE c /= NoConnection
    <3>1. c \in Viewers
      BY <1>1, <2>3, ConnectionIn
    <3>2. QED
      BY <1>5, <2>1, <2>3, <3>1, Zenon
  <2>4. QED
    BY <2>2, <2>3
<1>10. QED
  BY <1>3, <1>6, <1>7, <1>8, <1>9 DEF TermInv

(* A trim leaves the newest number as it is. *)
LEMMA TrimKeepsNewest ==
  ASSUME MinAckTrim \/ UNCHANGED ringVars
  PROVE  LastSeq' = LastSeq
<1>1. nextSeq' = nextSeq
  <2>1. CASE UNCHANGED ringVars
    BY <2>1 DEF ringVars
  <2>2. CASE MinAckTrim
    <3>1. UNCHANGED ringVars \/ \E a : TrimTo(a)
      BY <2>2, Zenon DEF MinAckTrim
    <3>2. QED
      BY <3>1 DEF TrimTo, ringVars
  <2>3. QED
    BY <2>1, <2>2
<1>2. QED
  BY <1>1 DEF LastSeq

(* Connection c is served and has Q of its requests left. *)
LEMMA ServerServes ==
  ASSUME TermInv, RingStutters, StreamTyped', StreamGood', UNCHANGED <<dead, frozen>>,
         MinAckTrim \/ UNCHANGED ringVars,
         NEW reply \in [Viewers -> Seq(Msg)], Delivers(reply),
         NEW c \in Viewers, \A d \in Viewers : d /= c => reply[d] = <<>>,
         NEW s, Serve(c, s), NEW Q \in Seq(Request), toServer' = [toServer EXCEPT ![c] = Q],
         c \notin page.dialed => ~s.joined /\ s.ack = 0 /\ Q = <<>>,
         c = page.connection
           /\ Follows(page, Quiet(view[c]), toServer[c], toClient[c], LastSeq) =>
           Follows(page, s, Q, (toClient[c] \o reply[c]) \o s.out, LastSeq)
  PROVE  TermInv'
<1> DEFINE e == page.connection
<1>1. /\ page \in Page /\ PageOK(page) /\ LastSeq \in Nat /\ LastSeq <= LastSeq
      /\ view \in [Viewers -> View]
      /\ toClient \in [Viewers -> Seq(Msg)] /\ toServer \in [Viewers -> Seq(Request)]
  BY TermFacts DEF TermInv, WireTyped
<1>2. LastSeq' = LastSeq
  BY TrimKeepsNewest
<1>3. /\ \A d \in Viewers : view'[d] = IF d = c THEN s ELSE Quiet(view[d])
      /\ \A d \in Viewers : toServer'[d] = IF d = c THEN Q ELSE toServer[d]
      /\ toServer' \in [Viewers -> Seq(Request)]
  BY <1>1, Zenon DEF Serve
<1>4. \A d \in Viewers : /\ SameView(view[d], Quiet(view[d]))
                         /\ Quiet(view[d]).joined = view[d].joined
                         /\ Quiet(view[d]).ack = view[d].ack /\ Quiet(view[d]).out = <<>>
  <2>1. SUFFICES ASSUME NEW d \in Viewers
                 PROVE  /\ SameView(view[d], Quiet(view[d]))
                        /\ Quiet(view[d]).joined = view[d].joined
                        /\ Quiet(view[d]).ack = view[d].ack /\ Quiet(view[d]).out = <<>>
    OBVIOUS
  <2>2. view[d] \in View
    BY <1>1
  <2>3. SameView(view[d], Quiet(view[d])) /\ Quiet(view[d]).out = <<>>
    BY <2>2, QuietSame
  <2>4. QED
    BY <2>3, Zenon DEF SameView, SameFeed, SameFlags
<1>5. \A d \in Viewers : d \notin page.dialed =>
        ~view'[d].joined /\ view'[d].ack = 0 /\ toServer'[d] = <<>>
  <2>1. SUFFICES ASSUME NEW d \in Viewers, d \notin page.dialed
                 PROVE  ~view'[d].joined /\ view'[d].ack = 0 /\ toServer'[d] = <<>>
    OBVIOUS
  <2>2. CASE d = c
    BY <1>3, <2>1, <2>2, Zenon
  <2>3. CASE d /= c
    <3>1. ~view[d].joined /\ view[d].ack = 0 /\ toServer[d] = <<>>
      BY <2>1, Zenon DEF TermInv, WireInv
    <3>2. QED
      BY <1>3, <1>4, <2>3, <3>1, Zenon
  <2>4. QED
    BY <2>2, <2>3
<1>6. ASSUME InTime, e /= NoConnection
      PROVE  Follows(page, view'[e], toServer'[e], (toClient[e] \o reply[e]) \o view'[e].out, LastSeq)
  <2>1. e \in Viewers
    BY <1>1, <1>6, ConnectionIn
  <2>2. Follows(page, view[e], toServer[e], toClient[e], LastSeq)
    BY <1>6, Zenon DEF TermInv, FollowInv
  <2>3. Follows(page, Quiet(view[e]), toServer[e], toClient[e], LastSeq)
    <3> DEFINE v == view[e]
               w == Quiet(view[e])
               R == toServer[e]
               wire == toClient[e]
    <3>1. SameView(v, w) /\ Follows(page, v, R, wire, LastSeq)
      BY <1>4, <2>1, <2>2, Zenon
    <3> HIDE DEF v, w, R, wire
    <3>2. Follows(page, w, R, wire, LastSeq)
      BY <3>1, HushedFollows
    <3>3. QED
      BY <3>2 DEF w, R, wire
  <2>4. CASE e = c
    <3>1. view'[e] = s /\ toServer'[e] = Q
      BY <1>3, <2>4, Zenon
    <3> HIDE DEF e
    <3>2. Follows(page, s, Q, (toClient[c] \o reply[c]) \o s.out, LastSeq)
      BY <2>3, <2>4, Zenon DEF e
    <3>3. QED
      BY <2>4, <3>1, <3>2, Zenon
  <2>5. CASE e /= c
    <3>1. view'[e] = Quiet(view[e]) /\ toServer'[e] = toServer[e] /\ reply[e] = <<>>
      BY <1>3, <2>1, <2>5, Zenon
    <3>2. view'[e].out = <<>>
      BY <1>4, <2>1, <3>1, Zenon
    <3>3. toClient[e] \in Seq(Msg)
      BY <1>1, <2>1
    <3>4. toClient[e] \o <<>> = toClient[e]
      BY <3>3, NothingSaid
    <3> HIDE DEF e
    <3>5. QED
      BY <2>3, <3>1, <3>2, <3>4, Zenon
  <2>6. QED
    BY <2>4, <2>5
<1>7. LastSeq' \in Nat /\ LastSeq <= LastSeq'
  BY <1>1, <1>2
<1>8. InTime /\ e /= NoConnection =>
        Follows(page, view'[e], toServer'[e], (toClient[e] \o reply[e]) \o view'[e].out, LastSeq')
  BY <1>2, <1>6, Zenon
<1>9. QED
  BY <1>3, <1>5, <1>7, <1>8, ServerMoves

(* Nothing but the frames of the step is said. *)
LEMMA NoReplyIn ==
  /\ NoReply \in [Viewers -> Seq(Msg)] /\ \A c \in Viewers : NoReply[c] = <<>>
  /\ \A c \in Viewers : LET reply == [NoReply EXCEPT ![c] = <<AttachReply>>] IN
       /\ reply \in [Viewers -> Seq(Msg)] /\ reply[c] = <<AttachReply>>
       /\ \A d \in Viewers : d /= c => reply[d] = <<>>
<1>1. <<>> \in Seq(Msg) /\ <<AttachReply>> \in Seq(Msg)
  BY MsgLinks
<1>2. NoReply \in [Viewers -> Seq(Msg)] /\ \A c \in Viewers : NoReply[c] = <<>>
  BY <1>1, Zenon DEF NoReply
<1>3. ASSUME NEW c \in Viewers
      PROVE  LET reply == [NoReply EXCEPT ![c] = <<AttachReply>>] IN
             /\ reply \in [Viewers -> Seq(Msg)] /\ reply[c] = <<AttachReply>>
             /\ \A d \in Viewers : d /= c => reply[d] = <<>>
  <2> DEFINE reply == [NoReply EXCEPT ![c] = <<AttachReply>>]
  <2>1. reply \in [Viewers -> Seq(Msg)]
    BY <1>1, <1>2, Zenon
  <2>2. reply[c] = <<AttachReply>> /\ \A d \in Viewers : d /= c => reply[d] = <<>>
    BY <1>2, Zenon
  <2>3. QED
    BY <2>1, <2>2
<1>4. QED
  BY <1>2, <1>3

LEMMA OutputKeeps ==
  ASSUME TermInv, ServerOutput
  PROVE  TermInv'
<1>1. PICK small \in BOOLEAN : Output(small, {})
  BY DEF ServerOutput
<1>2. Delivers(NoReply) /\ UNCHANGED toServer /\ page' = page
  BY DEF ServerOutput, Delivers
<1>3. RingStutters /\ StreamTyped' /\ StreamGood'
  <2>1. {} \in SUBSET Viewers
    OBVIOUS
  <2>2. QED
    BY <1>1, <2>1, OutputStep DEF TermInv
<1>4. /\ page \in Page /\ LastSeq \in Nat /\ view \in [Viewers -> View]
      /\ toServer \in [Viewers -> Seq(Request)] /\ toClient \in [Viewers -> Seq(Msg)]
      /\ frozen = NotFrozen
  BY TermFacts DEF TermInv, WireTyped, WireInv
<1>5. LastSeq' = LastSeq + 1 /\ nextSeq = LastSeq + 1
  <2>1. nextSeq' = nextSeq + 1 /\ nextSeq \in Nat
    BY <1>1 DEF Output, Push, TermInv, StreamInv, TypeOK, RingTypeOK
  <2>2. QED
    BY <2>1 DEF LastSeq
<1>6. UNCHANGED <<dead, frozen>>
  BY <1>1 DEF Output
<1>7. \A d \in Viewers : view'[d] = IF Quiet(view[d]).joined /\ ~Quiet(view[d]).paused
                                    THEN Enqueue(Quiet(view[d]), nextSeq, small, FALSE)
                                    ELSE Quiet(view[d])
  <2>1. \A d \in Viewers : (d \in {}) = FALSE
    OBVIOUS
  <2>2. \A d \in Viewers : view'[d] = IF frozen = NotFrozen /\ Quiet(view[d]).joined
                                            /\ ~Quiet(view[d]).paused
                                      THEN Enqueue(Quiet(view[d]), nextSeq, small, d \in {})
                                      ELSE Quiet(view[d])
    BY <1>1, Zenon DEF Output
  <2>3. QED
    BY <1>4, <2>1, <2>2, Zenon
<1>8. \A d \in Viewers : /\ SameView(view[d], Quiet(view[d])) /\ Quiet(view[d]) \in View
                         /\ Quiet(view[d]).joined = view[d].joined
                         /\ Quiet(view[d]).ack = view[d].ack /\ Quiet(view[d]).out = <<>>
  <2>1. SUFFICES ASSUME NEW d \in Viewers
                 PROVE  /\ SameView(view[d], Quiet(view[d])) /\ Quiet(view[d]) \in View
                        /\ Quiet(view[d]).joined = view[d].joined
                        /\ Quiet(view[d]).ack = view[d].ack /\ Quiet(view[d]).out = <<>>
    OBVIOUS
  <2>2. view[d] \in View
    BY <1>4
  <2>3. SameView(view[d], Quiet(view[d])) /\ Quiet(view[d]) \in View /\ Quiet(view[d]).out = <<>>
    BY <2>2, QuietSame
  <2>4. QED
    BY <2>3, Zenon DEF SameView, SameFeed, SameFlags
<1>9. \A d \in Viewers : d \notin page.dialed =>
        ~view'[d].joined /\ view'[d].ack = 0 /\ toServer'[d] = <<>>
  <2>1. SUFFICES ASSUME NEW d \in Viewers, d \notin page.dialed
                 PROVE  ~view'[d].joined /\ view'[d].ack = 0 /\ toServer'[d] = <<>>
    OBVIOUS
  <2>2. ~view[d].joined /\ view[d].ack = 0 /\ toServer[d] = <<>>
    BY <2>1, Zenon DEF TermInv, WireInv
  <2>3. view'[d] = Quiet(view[d])
    BY <1>7, <1>8, <2>2, Zenon
  <2>4. QED
    BY <1>2, <1>8, <2>2, <2>3, Zenon
<1> DEFINE c == page.connection
<1>10. ASSUME InTime, c /= NoConnection
       PROVE  Follows(page, view'[c], toServer'[c], (toClient[c] \o NoReply[c]) \o view'[c].out,
                      LastSeq')
  <2>1. c \in Viewers
    BY <1>4, <1>10, ConnectionIn
  <2> DEFINE v == view[c]
             w == Quiet(view[c])
             R == toServer[c]
             wire == toClient[c]
             s == view'[c]
             n == LastSeq'
  <2>2. /\ SameView(v, w) /\ w \in View /\ w.out = <<>> /\ wire \in Seq(Msg) /\ n = LastSeq + 1
        /\ s = IF w.joined /\ ~w.paused THEN Enqueue(w, n, small, FALSE) ELSE w
    BY <1>4, <1>5, <1>7, <1>8, <2>1, Zenon
  <2>3. Follows(page, v, R, wire, LastSeq)
    BY <1>10, Zenon DEF TermInv, FollowInv
  <2>4. NoReply[c] = <<>>
    BY <2>1, NoReplyIn
  <2>5. wire \o <<>> = wire
    BY <2>2, NothingSaid
  <2> HIDE DEF v, w, R, wire, s, n
  <2>6. Follows(page, w, R, wire, LastSeq)
    BY <2>2, <2>3, HushedFollows
  <2>7. page \in Page /\ page.connection /= NoConnection /\ LastSeq \in Nat
    BY <1>4, <1>10
  <2>8. Follows(page, s, R, wire \o s.out, n)
    BY <2>2, <2>6, <2>7, OutputHandled
  <2> HIDE DEF c
  <2>9. QED
    BY <1>2, <2>4, <2>5, <2>8, Zenon DEF R, wire, s, n
<1>11. LastSeq' \in Nat /\ LastSeq <= LastSeq'
  BY <1>4, <1>5
<1>12. toServer' \in [Viewers -> Seq(Request)] /\ NoReply \in [Viewers -> Seq(Msg)]
  BY <1>2, <1>4, NoReplyIn
<1>13. QED
  BY <1>2, <1>3, <1>6, <1>9, <1>10, <1>11, <1>12, ServerMoves

(* What a connection that is served brings. *)
LEMMA ServedFacts ==
  ASSUME TermInv, NEW c \in Viewers
  PROVE  /\ page \in Page /\ LastSeq \in Nat /\ RingTypeOK /\ Window /\ frozen = NotFrozen
         /\ view[c] \in View /\ Quiet(view[c]) \in View /\ Quiet(view[c]).out = <<>>
         /\ Good(Quiet(view[c]), LastSeq)
         /\ toServer[c] \in Seq(Request) /\ toClient[c] \in Seq(Msg)
         /\ toClient[c] \o <<>> = toClient[c]
         /\ Quiet(view[c]).joined = view[c].joined /\ Quiet(view[c]).ack = view[c].ack
         /\ Quiet(view[c]).batcher = view[c].batcher
         /\ Quiet(view[c]).lastSentSeq = view[c].lastSentSeq
         /\ c \notin page.dialed => ~view[c].joined /\ view[c].ack = 0 /\ toServer[c] = <<>>
<1>1. /\ page \in Page /\ LastSeq \in Nat /\ RingTypeOK /\ Window /\ frozen = NotFrozen
      /\ view[c] \in View /\ toServer[c] \in Seq(Request) /\ toClient[c] \in Seq(Msg)
      /\ Good(view[c], LastSeq)
  BY TermFacts DEF TermInv, WireTyped, WireInv, AllGood
<1>2. toClient[c] \o <<>> = toClient[c]
  BY <1>1, NothingSaid
<1>3. Quiet(view[c]) \in View /\ Quiet(view[c]).out = <<>> /\ SameView(view[c], Quiet(view[c]))
  BY <1>1, QuietSame
<1>4. Good(Quiet(view[c]), LastSeq)
  BY <1>1, QuietGood
<1>5. /\ Quiet(view[c]).joined = view[c].joined /\ Quiet(view[c]).ack = view[c].ack
      /\ Quiet(view[c]).batcher = view[c].batcher
      /\ Quiet(view[c]).lastSentSeq = view[c].lastSentSeq
  BY <1>3, Zenon DEF SameView, SameFeed, SameFlags
<1>6. c \notin page.dialed => ~view[c].joined /\ view[c].ack = 0 /\ toServer[c] = <<>>
  BY Zenon DEF TermInv, WireInv
<1>7. QED
  BY <1>1, <1>2, <1>3, <1>4, <1>5, <1>6

LEMMA TimerKeeps ==
  ASSUME TermInv, NEW c \in Viewers, ServerTimer(c)
  PROVE  TermInv'
<1> DEFINE v == Quiet(view[c])
           s == Flush(v, FALSE)
           R == toServer[c]
           wire == toClient[c]
<1>1. /\ TimerFire(c, FALSE) /\ Delivers(NoReply) /\ UNCHANGED toServer /\ Serve(c, s)
      /\ UNCHANGED ringVars /\ UNCHANGED <<dead, frozen>>
  BY DEF ServerTimer, TimerFire
<1>2. RingStutters /\ StreamTyped' /\ StreamGood'
  <2>1. 0 \in Nat /\ FALSE \in BOOLEAN
    OBVIOUS
  <2>2. QED
    BY <1>1, <2>1, ConnectionSteps DEF TermInv
<1>3. /\ page \in Page /\ LastSeq \in Nat /\ v \in View /\ v.out = <<>>
      /\ R \in Seq(Request) /\ wire \in Seq(Msg) /\ wire \o <<>> = wire
      /\ v.joined = view[c].joined /\ v.ack = view[c].ack
      /\ c \notin page.dialed => ~view[c].joined /\ view[c].ack = 0 /\ R = <<>>
  BY ServedFacts
<1>4. c \notin page.dialed => ~s.joined /\ s.ack = 0 /\ R = <<>>
  <2>1. SameSeat(v, s)
    <3> HIDE DEF v
    <3>1. QED
      BY <1>3, FlushSeat
  <2>2. QED
    BY <1>3, <2>1, Zenon DEF SameSeat
<1>5. ASSUME c = page.connection, Follows(page, v, R, wire, LastSeq)
      PROVE  Follows(page, s, R, (wire \o NoReply[c]) \o s.out, LastSeq)
  <2>1. page.connection /= NoConnection
    BY <1>5, TerminalAssumption
  <2>2. NoReply[c] = <<>>
    BY NoReplyIn
  <2>3. s = Flush(v, FALSE)
    OBVIOUS
  <2> HIDE DEF v, s, R, wire
  <2>4. Follows(page, s, R, wire \o s.out, LastSeq)
    BY <1>3, <1>5, <2>1, <2>3, TimerHandled
  <2>5. QED
    BY <1>3, <2>2, <2>4, Zenon
<1>6. toServer' = [toServer EXCEPT ![c] = R]
  BY <1>1, Zenon DEF TermInv, WireTyped
<1>7. NoReply \in [Viewers -> Seq(Msg)] /\ \A d \in Viewers : d /= c => NoReply[d] = <<>>
  BY NoReplyIn
<1>8. c = page.connection /\ Follows(page, Quiet(view[c]), toServer[c], toClient[c], LastSeq) =>
        Follows(page, s, R, (toClient[c] \o NoReply[c]) \o s.out, LastSeq)
  BY <1>5
<1> HIDE DEF s, R
<1>9. QED
  BY <1>1, <1>2, <1>3, <1>4, <1>6, <1>7, <1>8, ServerServes

LEMMA CloseKeeps ==
  ASSUME TermInv, NEW c \in Viewers, ServerCloses(c)
  PROVE  TermInv'
<1> DEFINE s == [NewConnection EXCEPT !.open = FALSE]
<1>1. /\ Close(c) /\ Delivers(NoReply) /\ toServer' = [toServer EXCEPT ![c] = <<>>]
      /\ c \in page.dialed /\ c /= page.connection /\ Serve(c, s) /\ UNCHANGED <<dead, frozen>>
  BY DEF ServerCloses, Close
<1>2. MinAckTrim \/ UNCHANGED ringVars
  BY <1>1 DEF Close
<1>3. RingStutters /\ StreamTyped' /\ StreamGood'
  BY <1>1, CloseStep DEF TermInv
<1>4. <<>> \in Seq(Request)
  OBVIOUS
<1>5. NoReply \in [Viewers -> Seq(Msg)] /\ \A d \in Viewers : d /= c => NoReply[d] = <<>>
  BY NoReplyIn
<1> HIDE DEF s
<1>6. QED
  BY <1>1, <1>2, <1>3, <1>4, <1>5, ServerServes

(* A request is taken up. *)
LEMMA HandlesKeeps ==
  ASSUME TermInv, NEW c \in Viewers, NEW forced \in Forcings, ServerHandles(c, forced)
  PROVE  TermInv'
<1> DEFINE v == Quiet(view[c])
           R == toServer[c]
           r == Head(R)
           wire == toClient[c]
           Q == Tail(R)
<1>1. /\ page \in Page /\ LastSeq \in Nat /\ RingTypeOK /\ Window /\ frozen = NotFrozen
      /\ view[c] \in View /\ v \in View /\ v.out = <<>> /\ Good(v, LastSeq)
      /\ R \in Seq(Request) /\ wire \in Seq(Msg) /\ wire \o <<>> = wire
      /\ v.ack = view[c].ack /\ v.batcher = view[c].batcher /\ v.lastSentSeq = view[c].lastSentSeq
      /\ c \notin page.dialed => R = <<>>
  BY ServedFacts
<1>2. /\ R /= <<>> /\ toServer' = [toServer EXCEPT ![c] = Q]
      /\ \/ r.cmd = "ATTACH" /\ Attach(c, r.seq, forced)
            /\ Delivers([NoReply EXCEPT ![c] = <<AttachReply>>])
         \/ r.cmd = "DETACH" /\ Detach(c) /\ Delivers(NoReply)
         \/ r.cmd = "PAUSE_VIEW" /\ PauseView(c) /\ Delivers(NoReply)
         \/ r.cmd = "RESUME_VIEW" /\ ResumeView(c, r.seq, forced) /\ Delivers(NoReply)
         \/ r.cmd = "ACK" /\ Ack(c, r.seq, forced) /\ Delivers(NoReply)
         \/ r.cmd = "ACK" /\ ~AckAccepted(view[c], r.seq) /\ UNCHANGED <<vars, toClient, page, happened>>
  BY DEF ServerHandles
<1>3. c \in page.dialed
  BY <1>1, <1>2
<1>4. Q \in Seq(Request) /\ r.seq \in Nat /\ forced \in BOOLEAN
  BY <1>1, <1>2, RequestsTail, ViewerAssumption
<1>5. NoReply \in [Viewers -> Seq(Msg)] /\ \A d \in Viewers : d /= c => NoReply[d] = <<>>
  BY NoReplyIn
<1>6. NoReply[c] = <<>>
  BY NoReplyIn
<1>7. c = page.connection => page.connection /= NoConnection
  BY TerminalAssumption
<1>8. ASSUME NEW s, NEW reply \in [Viewers -> Seq(Msg)], Delivers(reply),
             \A d \in Viewers : d /= c => reply[d] = <<>>,
             Serve(c, s), MinAckTrim \/ UNCHANGED ringVars,
             UNCHANGED <<dead, frozen, resyncDue, hidden>>,
             RingStutters /\ StreamTyped' /\ StreamGood',
             c = page.connection /\ Follows(page, v, R, wire, LastSeq) =>
               Follows(page, s, Q, (wire \o reply[c]) \o s.out, LastSeq)
      PROVE  TermInv'
  <2>1. UNCHANGED <<dead, frozen>>
    BY <1>8
  <2>2. c = page.connection /\ Follows(page, Quiet(view[c]), toServer[c], toClient[c], LastSeq) =>
          Follows(page, s, Q, (toClient[c] \o reply[c]) \o s.out, LastSeq)
    BY <1>8
  <2>3. c \notin page.dialed => ~s.joined /\ s.ack = 0 /\ Q = <<>>
    BY <1>3
  <2> HIDE DEF Q, v
  <2>4. QED
    BY <1>2, <1>4, <1>8, <2>1, <2>2, <2>3, ServerServes
<1>9. CASE r.cmd = "ATTACH" /\ Attach(c, r.seq, forced)
           /\ Delivers([NoReply EXCEPT ![c] = <<AttachReply>>])
  <2> DEFINE reply == [NoReply EXCEPT ![c] = <<AttachReply>>]
             s == WireSession(Resynced(v, r.seq, forced))
  <2>1. /\ reply \in [Viewers -> Seq(Msg)] /\ reply[c] = <<AttachReply>>
        /\ \A d \in Viewers : d /= c => reply[d] = <<>>
    BY NoReplyIn
  <2>2. Serve(c, s) /\ UNCHANGED ringVars /\ UNCHANGED <<dead, frozen, resyncDue, hidden>>
    BY <1>9 DEF Attach, Resynced
  <2>3. RingStutters /\ StreamTyped' /\ StreamGood'
    BY <1>4, <1>9, ConnectionSteps DEF TermInv
  <2>4. Delivers(reply)
    BY <1>9
  <2>5. ASSUME c = page.connection, Follows(page, v, R, wire, LastSeq)
        PROVE  Follows(page, s, Q, (wire \o reply[c]) \o s.out, LastSeq)
    <3> DEFINE a == reply[c]
    <3>1. /\ Head(R).cmd = "ATTACH" /\ a = <<AttachReply>>
          /\ s = WireSession(Resynced(v, Head(R).seq, forced))
      BY <1>9, <2>1
    <3>2. Q = Tail(R)
      OBVIOUS
    <3> HIDE DEF v, R, wire, s, a, Q
    <3>3. Follows(page, s, Tail(R), (wire \o a) \o s.out, LastSeq)
      BY <1>1, <1>2, <1>7, <2>5, <3>1, AskHandled
    <3>4. QED
      BY <3>2, <3>3, Zenon DEF a
  <2> HIDE DEF s, reply, v, Q, R, wire
  <2>6. QED
    BY <1>8, <2>1, <2>2, <2>3, <2>4, <2>5
<1>10. CASE r.cmd = "DETACH" /\ Detach(c) /\ Delivers(NoReply)
  <2> DEFINE s == [WithoutBatcher(v) EXCEPT !.joined = FALSE, !.paused = FALSE,
                                            !.ack = 0, !.have = {}]
  <2>1. Serve(c, s) /\ MinAckTrim /\ UNCHANGED <<dead, frozen, resyncDue, hidden>>
    BY <1>10 DEF Detach
  <2>2. RingStutters /\ StreamTyped' /\ StreamGood'
    BY <1>4, <1>10, ConnectionSteps DEF TermInv
  <2>3. s.ack = 0 /\ ~s.joined
    BY <1>1, Zenon DEF WithoutBatcher, View
  <2>4. Head(R).cmd = "DETACH" /\ Q = Tail(R)
    BY <1>10
  <2> HIDE DEF s
  <2>5. ASSUME c = page.connection, Follows(page, v, R, wire, LastSeq)
        PROVE  Follows(page, s, Q, (wire \o NoReply[c]) \o s.out, LastSeq)
    <3> DEFINE down == (wire \o NoReply[c]) \o s.out
    <3> HIDE DEF v, R, wire, Q, down
    <3>1. Follows(page, s, Tail(R), down, LastSeq)
      BY <1>1, <1>2, <1>7, <2>3, <2>4, <2>5, DetachHandled
    <3>2. QED
      BY <2>4, <3>1, Zenon DEF down
  <2> HIDE DEF v, Q, R, wire
  <2>6. QED
    BY <1>5, <1>8, <1>10, <2>1, <2>2, <2>5
<1>11. CASE r.cmd = "PAUSE_VIEW" /\ PauseView(c) /\ Delivers(NoReply)
  <2> DEFINE s == [v EXCEPT !.paused = v.joined, !.pausedView = v.batcher]
  <2>1. Serve(c, s) /\ UNCHANGED ringVars /\ UNCHANGED <<dead, frozen, resyncDue, hidden>>
    BY <1>11 DEF PauseView
  <2>2. RingStutters /\ StreamTyped' /\ StreamGood'
    BY <1>4, <1>11, ConnectionSteps DEF TermInv
  <2>3. Head(R).cmd = "PAUSE_VIEW" /\ Q = Tail(R)
    BY <1>11
  <2>4. s = [v EXCEPT !.paused = v.joined, !.pausedView = v.batcher]
    OBVIOUS
  <2> HIDE DEF s, v, Q, R, wire
  <2>5. ASSUME c = page.connection, Follows(page, v, R, wire, LastSeq)
        PROVE  Follows(page, s, Q, (wire \o NoReply[c]) \o s.out, LastSeq)
    <3>1. Follows(page, s, Tail(R), wire \o s.out, LastSeq)
      BY <1>1, <1>2, <1>7, <2>3, <2>4, <2>5, PauseHandled
    <3>2. QED
      BY <1>1, <1>6, <2>3, <3>1, Zenon
  <2>6. QED
    BY <1>5, <1>8, <1>11, <2>1, <2>2, <2>5
<1>12. CASE r.cmd = "RESUME_VIEW" /\ ResumeView(c, r.seq, forced) /\ Delivers(NoReply)
  <2> DEFINE s == Resumed(v, r.seq, forced)
  <2>1. Serve(c, s) /\ UNCHANGED ringVars /\ UNCHANGED <<dead, frozen, resyncDue, hidden>>
    BY <1>12 DEF ResumeView, Resumed, Resynced
  <2>2. RingStutters /\ StreamTyped' /\ StreamGood'
    BY <1>4, <1>12, ConnectionSteps DEF TermInv
  <2>3. Q = Tail(R) /\ r = Head(R) /\ Head(R).cmd = "RESUME_VIEW" /\ s = Resumed(v, Head(R).seq, forced)
    BY <1>12
  <2> HIDE DEF s, v, Q, R, wire
  <2>5. ASSUME c = page.connection, Follows(page, v, R, wire, LastSeq)
        PROVE  Follows(page, s, Q, (wire \o NoReply[c]) \o s.out, LastSeq)
    <3> DEFINE a == NoReply[c]
    <3>1. a = <<>>
      BY <1>6
    <3> HIDE DEF a
    <3>2. Follows(page, s, Tail(R), (wire \o a) \o s.out, LastSeq)
      BY <1>1, <1>2, <1>7, <2>3, <2>5, <3>1, AskHandled
    <3>3. QED
      BY <2>3, <3>2, Zenon DEF a
  <2>6. QED
    BY <1>5, <1>8, <1>12, <2>1, <2>2, <2>5
<1>13. CASE r.cmd = "ACK" /\ Ack(c, r.seq, forced) /\ Delivers(NoReply)
  <2> DEFINE s == HandleViewerAck(v, r.seq, forced)
  <2>1. Serve(c, s) /\ MinAckTrim /\ UNCHANGED <<dead, frozen, resyncDue, hidden>>
    BY <1>13 DEF Ack
  <2>2. RingStutters /\ StreamTyped' /\ StreamGood'
    BY <1>4, <1>13, ConnectionSteps DEF TermInv
  <2>3. Q = Tail(R) /\ Head(R).cmd = "ACK" /\ s = HandleViewerAck(v, Head(R).seq, forced)
    BY <1>13
  <2> HIDE DEF s, v, Q, R, wire
  <2>5. ASSUME c = page.connection, Follows(page, v, R, wire, LastSeq)
        PROVE  Follows(page, s, Q, (wire \o NoReply[c]) \o s.out, LastSeq)
    <3>1. Follows(page, s, Tail(R), wire \o s.out, LastSeq)
      BY <1>1, <1>2, <1>7, <2>3, <2>5, AckHandled
    <3>2. QED
      BY <1>1, <1>6, <2>3, <3>1, Zenon
  <2>6. QED
    BY <1>5, <1>8, <1>13, <2>1, <2>2, <2>5
<1>14. CASE r.cmd = "ACK" /\ ~AckAccepted(view[c], r.seq) /\ UNCHANGED <<vars, toClient, page, happened>>
  <2>1. ~AckAccepted(v, Head(R).seq)
    BY <1>1, <1>14, Zenon DEF AckAccepted
  <2>2. /\ view' = view /\ frozen' = frozen /\ dead' = dead /\ LastSeq' = LastSeq
        /\ page' = page /\ toClient' = toClient /\ happened' = happened /\ UNCHANGED vars
    BY <1>14 DEF vars, streamVars, ringVars, LastSeq
  <2>3. StreamInv'
    BY <2>2, StreamStep DEF TermInv
  <2>4. /\ toServer' \in [Viewers -> Seq(Request)] /\ toServer'[c] = Q
        /\ \A d \in Viewers : d /= c => toServer'[d] = toServer[d]
    <3>1. toServer \in [Viewers -> Seq(Request)]
      BY DEF TermInv, WireTyped
    <3> HIDE DEF Q
    <3>2. QED
      BY <1>2, <1>4, <3>1, Zenon
  <2>5. PageInv' /\ WireTyped'
    BY <2>2, <2>4, Zenon DEF TermInv, PageInv, WireTyped
  <2>6. WireInv'
    <3>1. WireInv
      BY DEF TermInv
    <3>2. \A d \in Viewers : d \notin page.dialed => d /= c
      BY <1>3
    <3>3. QED
      BY <2>2, <2>4, <3>1, <3>2, Zenon DEF WireInv
  <2>7. FollowInv'
    <3> DEFINE e == page.connection
    <3>1. SUFFICES ASSUME InTime
                   PROVE  Follows(page, view[e], toServer'[e], toClient[e], LastSeq)
      BY <2>2, Zenon DEF FollowInv, InTime
    <3>2. Follows(page, view[e], toServer[e], toClient[e], LastSeq)
      BY <3>1, Zenon DEF TermInv, FollowInv
    <3>3. CASE e = NoConnection
      <4> DEFINE x == view[e]
                 Y == toServer[e]
                 z == toClient[e]
                 P == toServer'[e]
      <4>1. Follows(page, x, Y, z, LastSeq) /\ LastSeq <= LastSeq
        BY <1>1, <3>2
      <4> HIDE DEF x, Y, z, P
      <4>2. Follows(page, x, P, z, LastSeq)
        BY <1>1, <3>3, <4>1, AloneFollows
      <4>3. QED
        BY <4>2 DEF x, P, z
    <3>4. CASE e = c
      <4> DEFINE w == view[c]
      <4>1. ~AckAccepted(w, Head(R).seq) /\ w \in View /\ Head(R).cmd = "ACK" /\ Q = Tail(R)
        BY <1>1, <1>14
      <4>2. Follows(page, w, R, wire, LastSeq)
        BY <3>2, <3>4, Zenon
      <4>3. page.connection /= NoConnection
        BY <1>7, <3>4
      <4> HIDE DEF R, wire, w, Q
      <4>4. Follows(page, w, Tail(R), wire, LastSeq)
        BY <1>1, <1>2, <4>1, <4>2, <4>3, AckIgnored
      <4> HIDE DEF e
      <4>5. QED
        BY <2>4, <3>4, <4>1, <4>4, Zenon DEF w, wire
    <3>5. CASE e /= c /\ e /= NoConnection
      <4>1. e \in Viewers
        BY <1>1, <3>5, ConnectionIn
      <4> HIDE DEF e
      <4>2. QED
        BY <2>4, <3>2, <3>5, <4>1, Zenon
    <3>6. QED
      BY <3>3, <3>4, <3>5
  <2>8. QED
    BY <2>3, <2>5, <2>6, <2>7 DEF TermInv
<1>15. QED
  BY <1>2, <1>9, <1>10, <1>11, <1>12, <1>13, <1>14

-----------------------------------------------------------------------------
(* At first the page shows nothing and nothing is on its way. *)
LEMMA NewPageOK ==
  /\ NewPage \in Page /\ PageOK(NewPage) /\ NewPage.sends = <<>> /\ NewPage.dialed = {}
  /\ NewPage.connection = NoConnection /\ ~NewPage.crossed
  /\ \A h \in Nat : PageSound(NewPage, h)
<1>1. /\ <<>> \in Seq(Nat) /\ <<>> \in Seq(Write) /\ <<>> \in Seq(Request)
      /\ {} \in SUBSET Nat /\ {} \in SUBSET Viewers /\ 0 \in Nat
      /\ NoConnection \in Viewers \cup {NoConnection}
      /\ "idle" \in {"idle", "queued", "attaching", "attached", "paused"}
      /\ TRUE \in BOOLEAN /\ FALSE \in BOOLEAN
  OBVIOUS
<1>2. NewPage \in Page
  BY <1>1, Zenon DEF NewPage, Page
<1>3. /\ NewPage.sends = <<>> /\ NewPage.dialed = {} /\ NewPage.connection = NoConnection
      /\ ~NewPage.crossed /\ NewPage.exact /\ NewPage.painted = {} /\ NewPage.watermark = 0
      /\ NewPage.writing = <<>> /\ NewPage.queue = <<>> /\ ~NewPage.callbacks /\ ~NewPage.waiting
      /\ NewPage.stream = "idle"
  BY Zenon DEF NewPage
<1>4. PageOK(NewPage)
  BY <1>3 DEF PageOK, Streaming
<1>5. ASSUME NEW h \in Nat  PROVE PageSound(NewPage, h)
  <2>1. BaseSeq .. 0 = {}
    BY RingAssumption
  <2>2. Chain(<<>>, 0) /\ Tip(<<>>, 0) = 0
    BY DEF Chain, Tip
  <2>3. Written(NewPage) = 0
    BY <1>3, <2>2, Zenon DEF Written
  <2>4. Reached(NewPage) = 0
    BY <1>3, <2>3, Zenon DEF Reached
  <2>5. Reached(NewPage) <= h
    BY <2>4
  <2>6. \A i \in 1 .. Len(<<>>) : FALSE
    BY NoneBelow
  <2>7. NewPage.painted = BaseSeq .. NewPage.watermark
    BY <1>3, <2>1
  <2>8. Chain(NewPage.writing, NewPage.watermark)
    BY <1>3, <2>2, Zenon
  <2>9. \A i \in 1 .. Len(NewPage.writing) : FALSE
    BY <1>3, <2>6, Zenon
  <2>10. QED
    BY <1>3, <2>5, <2>7, <2>8, <2>9, Zenon DEF PageSound
<1>6. QED
  BY <1>2, <1>3, <1>4, <1>5, Zenon

LEMMA TermInit == TInit => TermInv
<1> SUFFICES ASSUME TInit  PROVE TermInv
  OBVIOUS
<1>1. StreamInv
  BY StreamInit DEF TInit
<1>2. frozen = NotFrozen /\ dead = FALSE
  BY DEF TInit, Init, RingInit
<1>3. page = NewPage
  BY DEF TInit
<1>4. PageInv
  BY <1>3, NewPageOK, Zenon DEF PageInv
<1>5. \A c \in Viewers : ~view[c].joined /\ view[c].ack = 0
  <2>1. view = [c \in Viewers |-> NewConnection]
    BY DEF TInit
  <2>2. ~NewConnection.joined /\ NewConnection.ack = 0
    BY Zenon DEF NewConnection
  <2>3. QED
    BY <2>1, <2>2, Zenon
<1>6. toServer = NoReply /\ toClient = NoReply
  BY DEF TInit
<1>7. \A c \in Viewers : toServer[c] = <<>> /\ toClient[c] = <<>>
  BY <1>6, NoReplyIn, Zenon
<1>8. WireTyped
  <2>1. toClient \in [Viewers -> Seq(Msg)]
    BY <1>6, NoReplyIn, Zenon
  <2>2. toServer \in [Viewers -> Seq(Request)]
    <3>1. <<>> \in Seq(Request)
      OBVIOUS
    <3>2. QED
      BY <1>6, <3>1, Zenon DEF NoReply
  <2>3. happened \in [may : SUBSET Happenings, times : Nat]
    <3>1. happened \in [may : Users, times : {0}] /\ Users \subseteq SUBSET Happenings /\ 0 \in Nat
      BY TerminalAssumption DEF TInit
    <3>2. \A x \in Users : x \in SUBSET Happenings
      BY <3>1
    <3>3. \A x \in {0} : x \in Nat
      OBVIOUS
    <3>4. QED
      BY <3>1, <3>2, <3>3, Zenon
  <2>4. QED
    BY <2>1, <2>2, <2>3 DEF WireTyped
<1>9. WireInv
  BY <1>2, <1>5, <1>7, Zenon DEF WireInv
<1>10. FollowInv
  <2>1. LastSeq \in Nat
    BY <1>1, <1>2, LastSeqIn DEF StreamInv, TypeOK, RingInv
  <2>2. QED
    BY <1>3, <2>1, NewPageOK, Zenon DEF FollowInv, Follows
<1>11. QED
  BY <1>1, <1>4, <1>8, <1>9, <1>10 DEF TermInv

(* Every step keeps the invariant. *)
LEMMA TermStep == TermInv /\ [TNext]_allVars => TermInv'
<1> SUFFICES ASSUME TermInv, [TNext]_allVars  PROVE TermInv'
  OBVIOUS
<1>1. CASE UNCHANGED allVars
  <2>1. UNCHANGED <<vars, toServer, toClient, page, happened>>
    BY <1>1 DEF allVars, netVars
  <2>2. view' = view /\ frozen' = frozen /\ dead' = dead /\ LastSeq' = LastSeq
    BY <2>1 DEF vars, streamVars, ringVars, LastSeq
  <2>3. StreamInv'
    BY <2>1, StreamStep DEF TermInv
  <2>4. PageInv' /\ WireTyped' /\ WireInv' /\ FollowInv'
    BY <2>1, <2>2, Zenon DEF TermInv, PageInv, WireTyped, WireInv, FollowInv, InTime
  <2>5. QED
    BY <2>3, <2>4 DEF TermInv
<1>2. CASE Mount \/ Unmount \/ Show \/ Hide
  BY <1>2, UserSteps
<1>3. CASE AttachTimeout
  BY <1>3, TimeoutKeeps
<1>4. CASE Drop
  BY <1>4, DropKeeps
<1>5. CASE ServerOutput
  BY <1>5, OutputKeeps
<1>6. CASE \E c \in Viewers : ServerCloses(c)
  BY <1>6, CloseKeeps
<1>7. CASE PageStep
  <2>1. CASE RunQueued \/ RetryTimer \/ AnimationFrame \/ XtermParses \/ ReactivateHosts
    BY <2>1, HostSteps
  <2>2. CASE \E small \in BOOLEAN : Receive(small)
    BY <2>2, ReceiveKeeps
  <2>3. CASE \E c \in Viewers : Dial(c)
    BY <2>3, DialKeeps
  <2>4. QED
    BY <1>7, <2>1, <2>2, <2>3, Zenon DEF PageStep
<1>8. CASE ServerStep
  <2>1. CASE \E c \in Viewers : ServerTimer(c)
    BY <2>1, TimerKeeps
  <2>2. CASE \E c \in Viewers, forced \in Forcings : ServerHandles(c, forced)
    BY <2>2, HandlesKeeps
  <2>3. QED
    BY <1>8, <2>1, <2>2, Zenon DEF ServerStep
<1>9. QED
  BY <1>1, <1>2, <1>3, <1>4, <1>5, <1>6, <1>7, <1>8, Zenon DEF TNext

-----------------------------------------------------------------------------
LEMMA TermCorrect == TSpec => []TermInv
BY TermInit, TermStep, PTL DEF TSpec

(* Session, ring, batchers, both wires and the page stay well-formed, however  *)
(* the pane is shown and hidden, and whatever connections are lost            *)
(* (mux.ts, terminal-host.ts, server.ts).                                  *)
THEOREM TerminalTypeCorrect == TSpec => []TTypeOK
<1>1. ASSUME TermInv  PROVE TTypeOK
  <2>1. TypeOK /\ page \in Page /\ toServer \in [Viewers -> Seq(Request)]
    BY <1>1 DEF TermInv, StreamInv, PageInv, WireTyped
  <2>2. ASSUME NEW c \in Viewers, NEW i \in 1 .. Len(toClient[c])
        PROVE  toClient[c][i] \in Frame \cup {AttachReply}
    <3>1. toClient[c] \in Seq(Msg)
      BY <1>1 DEF TermInv, WireTyped
    <3>2. toClient[c][i] \in Msg
      BY <3>1
    <3>3. QED
      BY <3>2 DEF Msg
  <2>3. QED
    BY <2>1, <2>2 DEF TTypeOK
<1>2. QED
  BY <1>1, TermCorrect, PTL

(* What the screen shows is what has been acknowledged, chunk by chunk, each   *)
(* once and in order, for every number of connections, every threshold and    *)
(* every length of stream: unless streams crossed or an attach outlived its   *)
(* time-out (handleData, flushWrites, sendResync, cancelPendingWrites).     *)
THEOREM TerminalPaintsFaithfully == TSpec => []PaintsFaithfully
<1>1. ASSUME TermInv  PROVE PaintsFaithfully
  <2>1. SUFFICES ASSUME InTime, ~page.crossed  PROVE WatermarkHonest /\ PaintedOnce
    BY DEF PaintsFaithfully
  <2>2. PageSound(page, LastSeq)
    BY <1>1, <2>1, Zenon DEF TermInv, FollowInv, Follows
  <2>3. QED
    BY <2>2, Zenon DEF PageSound, WatermarkHonest, PaintedOnce
<1>2. QED
  BY <1>1, TermCorrect, PTL

(* A pane that is gone leaves no viewer behind: once no message is in flight   *)
(* and no answer is awaited, the server feeds nothing to a page whose pane is  *)
(* not mounted, unless an attach outlived its time-out (disconnect, the        *)
(* then() of doAttach, CMD.DETACH).                                        *)
THEOREM TerminalLeavesNoViewer == TSpec => []LeavesNoViewer
<1>1. ASSUME TermInv  PROVE LeavesNoViewer
  <2> DEFINE c == page.connection
  <2>1. SUFFICES ASSUME InTime, AllSaid, ~page.mounted, ~page.waiting, view[c].joined
                 PROVE  FALSE
    BY DEF LeavesNoViewer
  <2>2. c /= NoConnection /\ toServer[c] = <<>>
    BY <2>1 DEF AllSaid, Connected
  <2>3. EndsJoined(view[c], toServer[c])
    BY <2>1, <2>2 DEF EndsJoined
  <2>4. Follows(page, view[c], toServer[c], toClient[c], LastSeq)
    BY <1>1, <2>1, Zenon DEF TermInv, FollowInv
  <2>5. Streaming(page)
    BY <2>1, <2>2, <2>3, <2>4, Zenon DEF Follows
  <2>6. page.stream = "idle"
    BY <1>1, <2>1, Zenon DEF TermInv, PageInv, PageOK
  <2>7. QED
    BY <2>5, <2>6 DEF Streaming
<1>2. QED
  BY <1>1, TermCorrect, PTL

(* A pane that is attached and idle owes nothing, and is owed nothing: once all *)
(* that is queued has been painted, all that was said has been heard and no    *)
(* batch waits, the window is open and the screen has the whole stream - for   *)
(* every history of hiding, showing, unmounting and losing of connections,     *)
(* unless streams crossed or an attach outlived its time-out (sendResync,     *)
(* handleViewerAck, resumeView).                                           *)
THEOREM TerminalIdleMeansCurrent == TSpec => []IdleMeansCurrent
<1>1. ASSUME TermInv  PROVE IdleMeansCurrent
  <2> DEFINE v == view[page.connection]
             R == toServer[page.connection]
             wire == toClient[page.connection]
             w == page.watermark
  <2>1. SUFFICES ASSUME InTime, ~page.crossed, AllSaid, page.stream = "attached",
                        page.queue = <<>>, page.writing = <<>>, v.pending = <<>>
                 PROVE  ~v.pausedForBackpressure /\ w = LastSeq
    BY DEF IdleMeansCurrent
  <2>2. page.connection /= NoConnection /\ R = <<>> /\ wire = <<>>
    BY <2>1 DEF AllSaid, Connected
  <2>3. page \in Page /\ PageOK(page) /\ page.callbacks
    BY <1>1, <2>1 DEF TermInv, PageInv, PageOK
  <2>4. Streams(page, v, R, wire, LastSeq)
    BY <1>1, <2>1, <2>2, Zenon DEF TermInv, FollowInv, Follows
  <2>5. v \in View /\ LastSeq \in Nat
    BY <1>1, <2>2, TermFacts DEF Typed
  <2> HIDE DEF v, R, wire
  <2>6. Flowing(page, v, R, wire, LastSeq)
    BY <2>2, <2>3, <2>4, Zenon DEF Streams, Asked, Asks
  <2>7. Tip(Frames(wire), Reached(page)) = w
    <3>1. Frames(wire) = <<>>
      BY <2>2 DEF Frames, Replied
    <3>2. Reached(page) = w
      BY <2>1 DEF Reached, Written, Tip
    <3>3. QED
      BY <3>1, <3>2 DEF Tip
  <2>8. Feeds(v, w, LastSeq) /\ Drains(w, v, R, w) /\ ~v.pausedView /\ v.joined
    BY <2>1, <2>6, <2>7 DEF Flowing
  <2>9. w \in Nat
    BY <2>3, PageIn
  <2>10. v.sentEntries = <<>>
    <3>1. ~(w > w)
      BY <2>9
    <3>2. ~\E i \in 1 .. Len(R) : R[i].cmd = "ACK" /\ R[i].seq = w
      BY <2>2
    <3>3. QED
      BY <2>8, <3>1, <3>2, Zenon DEF Drains
  <2>11. ~v.pausedForBackpressure
    <3>1. Len(v.sentEntries) = 0
      BY <2>10
    <3>2. ~(Len(v.sentEntries) > AckLow)
      BY <3>1, ViewerAssumption
    <3>3. QED
      BY <2>8, <3>2, Zenon DEF Feeds
  <2>12. ~v.paused
    BY <2>8, <2>11, Zenon DEF Feeds
  <2>13. Fed(v)
    BY <2>8, <2>11, <2>12 DEF Fed
  <2>14. w + Len(v.pending) = LastSeq
    BY <2>8, <2>13, Zenon DEF Feeds
  <2>15. w = LastSeq
    BY <2>1, <2>9, <2>14
  <2>16. QED
    BY <2>11, <2>15
<1>2. QED
  BY <1>1, TermCorrect, PTL
=============================================================================
