-------------------------- MODULE ViewerStreamProofs --------------------------
(***************************************************************************)
(* What the replay ring guarantees for every budget, chunk size and number  *)
(* of chunks: it is always an exact window of the stream, and a delta it    *)
(* offers is the whole rest of the stream.  On it rests what holds of the   *)
(* viewer streams for every number of connections, every threshold and     *)
(* every length of stream.                                                 *)
(***************************************************************************)
EXTENDS ViewerStream, SequenceTheorems, WellFoundedInduction, TLAPS

(* The facts about buf the proofs below rest on, without the rest of the    *)
(* state: b is the window numbered lo .. lo + Len(b) - 1.                   *)
IsWindow(b, lo) ==
  /\ b \in Seq(Chunk)
  /\ lo \in Nat
  /\ \A i \in 1 .. Len(b) : b[i].seq = lo + i - 1
  /\ \A i \in 1 .. Len(b) : b[i].from < b[i].to
  /\ \A i \in 1 .. Len(b) - 1 : b[i].to = b[i + 1].from
  /\ \A i, j \in 1 .. Len(b) : i < j => b[i].to <= b[j].from

(* Dropping from the front of a window leaves a window.                    *)
LEMMA DropKeepsWindow ==
  ASSUME NEW b, NEW lo, IsWindow(b, lo), NEW k \in 0 .. Len(b)
  PROVE  LET r == SubSeq(b, k + 1, Len(b)) IN
         /\ IsWindow(r, lo + k)
         /\ Len(r) = Len(b) - k
         /\ \A i \in 1 .. Len(r) : r[i] = b[k + i]
         /\ PrefixBytes(r, Len(r)) = PrefixBytes(b, Len(b)) - PrefixBytes(b, k)
<1> DEFINE r == SubSeq(b, k + 1, Len(b))
<1>1. b \in Seq(Chunk) /\ Len(b) \in Nat /\ lo \in Nat
  BY DEF IsWindow
<1>2. \A i \in 1 .. Len(b) : b[i] \in Chunk
  BY <1>1, ElementOfSeq
<1>3. r \in Seq(Chunk) /\ Len(r) = Len(b) - k /\ \A i \in 1 .. Len(r) : r[i] = b[k + i]
  <2>1. \A i \in (k + 1) .. Len(b) : b[i] \in Chunk
    BY <1>1, <1>2
  <2>2. /\ r \in Seq(Chunk)
        /\ Len(r) = IF k + 1 <= Len(b) THEN Len(b) - (k + 1) + 1 ELSE 0
        /\ \A i \in 1 .. Len(b) - (k + 1) + 1 : r[i] = b[(k + 1) + i - 1]
    BY <1>1, <2>1, SubSeqProperties
  <2>3. QED
    BY <1>1, <2>2
<1> HIDE DEF r
<1>4. IsWindow(r, lo + k)
  <2>1. \A i \in 1 .. Len(r) : k + i \in 1 .. Len(b) /\ r[i] = b[k + i] /\ r[i] \in Chunk
    BY <1>1, <1>2, <1>3
  <2>2. \A i \in 1 .. Len(r) : r[i].seq = (lo + k) + i - 1
    <3>1. SUFFICES ASSUME NEW i \in 1 .. Len(r)  PROVE r[i].seq = (lo + k) + i - 1
      OBVIOUS
    <3>2. b[k + i].seq = lo + (k + i) - 1
      BY <2>1 DEF IsWindow
    <3>3. lo + (k + i) - 1 = (lo + k) + i - 1
      BY <1>1, <1>3
    <3>4. QED
      BY <2>1, <3>2, <3>3
  <2>3. \A i \in 1 .. Len(r) : r[i].from < r[i].to
    BY <1>1, <2>1 DEF IsWindow
  <2>4. \A i \in 1 .. Len(r) - 1 : r[i].to = r[i + 1].from
    <3>1. SUFFICES ASSUME NEW i \in 1 .. Len(r) - 1  PROVE r[i].to = r[i + 1].from
      OBVIOUS
    <3>2. k + i \in 1 .. Len(b) - 1 /\ i \in 1 .. Len(r) /\ i + 1 \in 1 .. Len(r)
      BY <1>1, <1>3
    <3>3. r[i] = b[k + i] /\ r[i + 1] = b[k + (i + 1)] /\ k + (i + 1) = (k + i) + 1
      BY <2>1, <3>2
    <3>4. QED
      BY <3>2, <3>3 DEF IsWindow
  <2>5. \A i, j \in 1 .. Len(r) : i < j => r[i].to <= r[j].from
    <3>1. SUFFICES ASSUME NEW i \in 1 .. Len(r), NEW j \in 1 .. Len(r), i < j
                   PROVE  r[i].to <= r[j].from
      OBVIOUS
    <3>2. k + i \in 1 .. Len(b) /\ k + j \in 1 .. Len(b) /\ k + i < k + j
      BY <1>1, <1>3, <2>1, <3>1
    <3>3. b[k + i].to <= b[k + j].from
      BY <3>2 DEF IsWindow
    <3>4. QED
      BY <2>1, <3>3
  <2>6. r \in Seq(Chunk) /\ lo + k \in Nat
    BY <1>1, <1>3
  <2>7. QED
    BY <2>2, <2>3, <2>4, <2>5, <2>6 DEF IsWindow
<1>5. PrefixBytes(r, Len(r)) = PrefixBytes(b, Len(b)) - PrefixBytes(b, k)
  <2>1. CASE k = Len(b)
    BY <1>1, <1>2, <1>3, <2>1 DEF PrefixBytes, Chunk
  <2>2. CASE k = 0
    BY <1>1, <1>2, <1>3, <2>2 DEF PrefixBytes, Chunk
  <2>3. CASE k > 0 /\ k < Len(b)
    <3>1. b[k].to = b[k + 1].from
      BY <1>1, <2>3 DEF IsWindow
    <3>2. r[1] = b[k + 1] /\ r[Len(r)] = b[Len(b)]
      <4>1. 1 \in 1 .. Len(r) /\ Len(r) \in 1 .. Len(r) /\ k + Len(r) = Len(b)
        BY <1>1, <1>3, <2>3
      <4>2. r[1] = b[k + 1] /\ r[Len(r)] = b[k + Len(r)]
        BY <1>3, <4>1
      <4>3. QED
        BY <4>1, <4>2
    <3>3. b[1] \in Chunk /\ b[k] \in Chunk /\ b[k + 1] \in Chunk /\ b[Len(b)] \in Chunk
      BY <1>1, <1>2, <2>3
    <3>4. /\ PrefixBytes(r, Len(r)) = b[Len(b)].to - b[k + 1].from
          /\ PrefixBytes(b, Len(b)) = b[Len(b)].to - b[1].from
          /\ PrefixBytes(b, k) = b[k].to - b[1].from
      BY <1>1, <1>3, <2>3, <3>2 DEF PrefixBytes
    <3>5. b[k].to \in Nat /\ b[1].from \in Nat /\ b[Len(b)].to \in Nat
      BY <3>3 DEF Chunk
    <3>6. QED
      BY <3>1, <3>4, <3>5
  <2>4. QED
    BY <1>1, <2>1, <2>2, <2>3
<1>6. QED
  BY <1>3, <1>4, <1>5 DEF r

(* Appending the next chunk of the stream extends a window.                *)
LEMMA AppendKeepsWindow ==
  ASSUME NEW b, NEW lo, IsWindow(b, lo),
         NEW c \in Chunk, c.from < c.to, c.seq = lo + Len(b),
         b /= <<>> => b[Len(b)].to = c.from
  PROVE  LET a == Append(b, c) IN
         /\ IsWindow(a, lo)
         /\ Len(a) = Len(b) + 1
         /\ a[Len(a)] = c
         /\ PrefixBytes(a, Len(a)) = PrefixBytes(b, Len(b)) + (c.to - c.from)
<1> DEFINE a == Append(b, c)
<1>1. b \in Seq(Chunk) /\ Len(b) \in Nat /\ lo \in Nat
  BY DEF IsWindow
<1>2. /\ a \in Seq(Chunk) /\ Len(a) = Len(b) + 1
      /\ \A i \in 1 .. Len(b) : a[i] = b[i]
      /\ a[Len(b) + 1] = c
  BY <1>1
<1>3. \A i \in 1 .. Len(b) : b[i] \in Chunk
  BY <1>1, ElementOfSeq
<1> HIDE DEF a
<1>4. \A i \in 1 .. Len(b) : b[i].to <= c.from
  <2>1. SUFFICES ASSUME NEW i \in 1 .. Len(b)  PROVE b[i].to <= c.from
    OBVIOUS
  <2>2. b /= <<>> /\ Len(b) \in 1 .. Len(b)
    BY <1>1, <2>1
  <2>3. b[Len(b)].to = c.from
    BY <2>2
  <2>4. CASE i = Len(b)
    BY <1>3, <2>2, <2>3, <2>4 DEF Chunk
  <2>5. CASE i < Len(b)
    <3>1. b[i].to <= b[Len(b)].from /\ b[Len(b)].from < b[Len(b)].to
      BY <2>2, <2>5 DEF IsWindow
    <3>2. b[i] \in Chunk /\ b[Len(b)] \in Chunk
      BY <1>3, <2>2
    <3>3. QED
      BY <2>3, <3>1, <3>2 DEF Chunk
  <2>6. QED
    BY <1>1, <2>4, <2>5
<1>5. IsWindow(a, lo)
  <2>1. \A i \in 1 .. Len(a) : i \in 1 .. Len(b) \/ i = Len(b) + 1
    BY <1>1, <1>2
  <2>2. \A i \in 1 .. Len(a) : a[i].seq = lo + i - 1
    <3>1. \A i \in 1 .. Len(b) : b[i].seq = lo + i - 1
      BY DEF IsWindow
    <3>2. c.seq = lo + (Len(b) + 1) - 1
      BY <1>1
    <3>3. QED
      BY <1>2, <2>1, <3>1, <3>2
  <2>3. \A i \in 1 .. Len(a) : a[i].from < a[i].to
    BY <1>2, <2>1 DEF IsWindow
  <2>4. \A i \in 1 .. Len(a) - 1 : a[i].to = a[i + 1].from
    <3>1. SUFFICES ASSUME NEW i \in 1 .. Len(a) - 1  PROVE a[i].to = a[i + 1].from
      OBVIOUS
    <3>2. CASE i = Len(b)
      BY <1>1, <1>2, <3>2
    <3>3. CASE i \in 1 .. Len(b) - 1
      <4>1. a[i] = b[i] /\ a[i + 1] = b[i + 1]
        BY <1>1, <1>2, <3>3
      <4>2. QED
        BY <3>3, <4>1 DEF IsWindow
    <3>4. QED
      BY <1>1, <1>2, <3>2, <3>3
  <2>5. \A i, j \in 1 .. Len(a) : i < j => a[i].to <= a[j].from
    <3>1. SUFFICES ASSUME NEW i \in 1 .. Len(a), NEW j \in 1 .. Len(a), i < j
                   PROVE  a[i].to <= a[j].from
      OBVIOUS
    <3>2. i \in 1 .. Len(b)
      BY <1>1, <1>2, <3>1
    <3>3. CASE j \in 1 .. Len(b)
      BY <1>2, <3>1, <3>2, <3>3 DEF IsWindow
    <3>4. CASE j = Len(b) + 1
      BY <1>2, <1>4, <3>2, <3>4
    <3>5. QED
      BY <2>1, <3>3, <3>4
  <2>6. QED
    BY <1>1, <1>2, <2>2, <2>3, <2>4, <2>5 DEF IsWindow
<1>6. PrefixBytes(a, Len(a)) = PrefixBytes(b, Len(b)) + (c.to - c.from)
  <2>1. CASE Len(b) = 0
    BY <1>2, <2>1 DEF PrefixBytes, Chunk
  <2>2. CASE Len(b) > 0
    <3>1. a[1] = b[1] /\ b[Len(b)].to = c.from /\ b[1] \in Chunk
      BY <1>1, <1>2, <1>3, <2>2
    <3>2. /\ PrefixBytes(a, Len(a)) = c.to - b[1].from
          /\ PrefixBytes(b, Len(b)) = c.from - b[1].from
      BY <1>1, <1>2, <2>2, <3>1 DEF PrefixBytes
    <3>3. c.to \in Nat /\ c.from \in Nat /\ b[1].from \in Nat
      BY <3>1 DEF Chunk
    <3>4. QED
      BY <3>2, <3>3
  <2>3. QED
    BY <1>1, <2>1, <2>2
<1>7. QED
  BY <1>2, <1>5, <1>6 DEF a

(* The first k chunks of a window hold a natural number of bytes.          *)
LEMMA PrefixBytesNat ==
  ASSUME NEW b, NEW lo, IsWindow(b, lo), NEW k \in 0 .. Len(b)
  PROVE  PrefixBytes(b, k) \in Nat
<1>1. b \in Seq(Chunk) /\ Len(b) \in Nat
  BY DEF IsWindow
<1>2. CASE k = 0
  BY <1>2 DEF PrefixBytes
<1>3. CASE k > 0
  <2>1. 1 \in 1 .. Len(b) /\ k \in 1 .. Len(b)
    BY <1>1, <1>3
  <2>2. b[1] \in Chunk /\ b[k] \in Chunk
    BY <1>1, <2>1, ElementOfSeq
  <2>3. b[1].from < b[1].to /\ b[k].from < b[k].to
    BY <2>1 DEF IsWindow
  <2>4. k > 1 => b[1].to <= b[k].from
    BY <2>1 DEF IsWindow
  <2>5. b[1].from \in Nat /\ b[1].to \in Nat /\ b[k].from \in Nat /\ b[k].to \in Nat
    BY <2>2 DEF Chunk
  <2>6. b[1].from <= b[k].to
    BY <2>1, <2>3, <2>4, <2>5
  <2>7. QED
    BY <1>3, <2>5, <2>6 DEF PrefixBytes
<1>4. QED
  BY <1>2, <1>3

(* Dropping k chunks of an accurately accounted window b, whatever b is (the *)
(* ring itself for trimTo, the ring with the new chunk for push), leaves     *)
(* the ring an accurately accounted window.                                *)
LEMMA DropFrontKeepsInv ==
  ASSUME NEW b, IsWindow(b, baseSeq),
         nextSeq' \in Nat, total' \in Nat,
         baseSeq >= BaseSeq, baseSeq + Len(b) = nextSeq',
         b /= <<>> => b[Len(b)].to = total',
         NEW k \in 0 .. Len(b),
         DropFront(b, PrefixBytes(b, Len(b)), k)
  PROVE  /\ buf' \in Seq(Chunk) /\ used' \in Nat /\ baseSeq' \in Nat
         /\ Window'
         /\ used' = PrefixBytes(buf', Len(buf'))
         /\ k = Len(b) => used' = 0
<1>1. b \in Seq(Chunk) /\ Len(b) \in Nat /\ baseSeq \in Nat
  BY DEF IsWindow
<1>2. /\ IsWindow(buf', baseSeq + k)
      /\ Len(buf') = Len(b) - k
      /\ \A i \in 1 .. Len(buf') : buf'[i] = b[k + i]
      /\ PrefixBytes(buf', Len(buf')) = PrefixBytes(b, Len(b)) - PrefixBytes(b, k)
  BY DropKeepsWindow DEF DropFront
<1>3. baseSeq' = baseSeq + k
  <2>1. CASE k = 0
    BY <1>1, <2>1 DEF DropFront
  <2>2. CASE k > 0
    <3>1. k \in 1 .. Len(b)
      BY <1>1, <2>2
    <3>2. b[k].seq = baseSeq + k - 1
      BY <3>1 DEF IsWindow
    <3>3. QED
      BY <1>1, <2>2, <3>2 DEF DropFront
  <2>3. QED
    BY <2>1, <2>2
<1>4. used' = PrefixBytes(buf', Len(buf'))
  BY <1>2 DEF DropFront
<1>5. used' \in Nat
  <2>1. Len(buf') \in 0 .. Len(buf')
    BY <1>1, <1>2
  <2>2. QED
    BY <1>2, <1>4, <2>1, PrefixBytesNat
<1>6. buf' /= <<>> => buf'[Len(buf')].to = total'
  <2>1. SUFFICES ASSUME buf' /= <<>>  PROVE buf'[Len(buf')].to = total'
    OBVIOUS
  <2>2. buf' \in Seq(Chunk)
    BY <1>2 DEF IsWindow
  <2>3. Len(buf') \in 1 .. Len(buf') /\ k + Len(buf') = Len(b) /\ b /= <<>>
    BY <1>1, <1>2, <2>1, <2>2
  <2>4. QED
    BY <1>2, <2>3
<1>7. Window'
  <2>1. baseSeq' >= BaseSeq /\ baseSeq' + Len(buf') = nextSeq'
    BY <1>1, <1>2, <1>3, RingAssumption
  <2>2. QED
    BY <1>2, <1>3, <1>6, <2>1 DEF Window, IsWindow
<1>8. k = Len(b) => used' = 0
  BY <1>1, <1>2, <1>4 DEF PrefixBytes
<1>9. QED
  BY <1>1, <1>2, <1>3, <1>4, <1>5, <1>7, <1>8 DEF IsWindow

(* The invariant's Window is IsWindow of the ring itself.                  *)
LEMMA WindowIs ==
  ASSUME RingTypeOK, Window
  PROVE  IsWindow(buf, baseSeq) /\ buf \in Seq(Chunk) /\ Len(buf) \in Nat
BY DEF RingTypeOK, Window, IsWindow

(* A push keeps the ring an exact, accounted, in-budget window.            *)
LEMMA PushKeeps ==
  ASSUME RingTypeOK, Window, Accounted, NEW n \in Sizes, Push(n), UNCHANGED dead
  PROVE  RingTypeOK' /\ Window' /\ Accounted'
<1> DEFINE c   == [seq |-> nextSeq, from |-> total, to |-> total + n]
           app == Append(buf, c)
<1>1. /\ n \in Nat /\ n > 0 /\ MaxBytes \in Nat
      /\ buf \in Seq(Chunk) /\ Len(buf) \in Nat
      /\ used \in Nat /\ nextSeq \in Nat /\ total \in Nat /\ baseSeq \in Nat
      /\ dead' \in BOOLEAN
      /\ IsWindow(buf, baseSeq)
  BY RingAssumption, WindowIs DEF RingTypeOK
<1>2. /\ c \in Chunk /\ c.from < c.to /\ c.seq = baseSeq + Len(buf)
      /\ buf /= <<>> => buf[Len(buf)].to = c.from
      /\ c.to - c.from = n /\ c.to = total + n
  BY <1>1 DEF Chunk, Window
<1>3. \E d \in 0 .. Len(app) : FitsAfter(app, used + n, d) /\ DropFront(app, used + n, d)
  BY DEF Push
<1>4. nextSeq' = nextSeq + 1 /\ total' = total + n
  BY DEF Push
<1> HIDE DEF c
<1>5. /\ IsWindow(app, baseSeq)
      /\ Len(app) = Len(buf) + 1
      /\ app[Len(app)] = c
      /\ PrefixBytes(app, Len(app)) = PrefixBytes(buf, Len(buf)) + n
  BY <1>1, <1>2, AppendKeepsWindow
<1>6. PICK ext : ext = app
  OBVIOUS
<1>7. PICK d \in 0 .. Len(ext) : FitsAfter(ext, used + n, d) /\ DropFront(ext, used + n, d)
  BY <1>3, <1>6
<1>8. /\ IsWindow(ext, baseSeq)
      /\ Len(ext) = Len(buf) + 1
      /\ ext[Len(ext)] = c
      /\ PrefixBytes(ext, Len(ext)) = PrefixBytes(buf, Len(buf)) + n
  BY <1>5, <1>6
<1> HIDE DEF app
<1>9. used + n = PrefixBytes(ext, Len(ext))
  BY <1>8 DEF Accounted
<1>10. baseSeq >= BaseSeq /\ baseSeq + Len(ext) = nextSeq' /\ (ext /= <<>> => ext[Len(ext)].to = total')
  <2>1. baseSeq >= BaseSeq /\ baseSeq + Len(buf) = nextSeq
    BY DEF Window
  <2>2. baseSeq + Len(ext) = nextSeq'
    BY <1>1, <1>4, <1>8, <2>1
  <2>3. ext[Len(ext)].to = total'
    BY <1>2, <1>4, <1>8
  <2>4. QED
    BY <2>1, <2>2, <2>3
<1>11. DropFront(ext, PrefixBytes(ext, Len(ext)), d)
  BY <1>7, <1>9
<1>12. /\ buf' \in Seq(Chunk) /\ used' \in Nat /\ baseSeq' \in Nat
       /\ Window'
       /\ used' = PrefixBytes(buf', Len(buf'))
       /\ d = Len(ext) => used' = 0
  BY <1>1, <1>4, <1>8, <1>10, <1>11, DropFrontKeepsInv
<1>13. used' <= MaxBytes
  <2>1. used' = (used + n) - PrefixBytes(ext, d)
    BY <1>1, <1>7 DEF DropFront
  <2>2. d = Len(ext) \/ (used + n) - PrefixBytes(ext, d) <= MaxBytes
    BY <1>1, <1>7 DEF FitsAfter
  <2>3. CASE d = Len(ext)
    <3>1. used' = 0
      BY <1>12, <2>3
    <3>2. QED
      BY <1>1, <3>1
  <2>4. CASE d /= Len(ext)
    BY <2>1, <2>2, <2>4
  <2>5. QED
    BY <2>3, <2>4
<1>14. nextSeq' \in Nat /\ total' \in Nat
  BY <1>1, <1>4
<1>15. RingTypeOK'
  BY <1>1, <1>12, <1>14 DEF RingTypeOK
<1>16. Accounted'
  BY <1>12, <1>13 DEF Accounted
<1>17. QED
  BY <1>12, <1>15, <1>16

(* In a window, the chunks numbered s or lower are the first so many: the   *)
(* chunk with number x stands at position x - baseSeq + 1.                  *)
LEMMA ThroughIs ==
  ASSUME RingTypeOK, Window, NEW s \in Nat
  PROVE  /\ Through(s) \in 0 .. Len(buf)
         /\ \A i \in 1 .. Through(s) : buf[i].seq <= s
         /\ \A i \in (Through(s) + 1) .. Len(buf) : buf[i].seq > s
<1>1. baseSeq \in Nat /\ Len(buf) \in Nat
  BY WindowIs DEF RingTypeOK
<1>2. \A i \in 1 .. Len(buf) : buf[i].seq = baseSeq + i - 1
  BY DEF Window
<1> DEFINE t == IF s < baseSeq THEN 0
                ELSE IF s - baseSeq + 1 > Len(buf) THEN Len(buf) ELSE s - baseSeq + 1
<1>3. t \in 0 .. Len(buf)
  BY <1>1
<1>4. /\ \A i \in 1 .. t : buf[i].seq <= s
      /\ \A i \in (t + 1) .. Len(buf) : buf[i].seq > s
  <2>1. SUFFICES ASSUME NEW i \in 1 .. Len(buf)
                 PROVE  (i <= t => buf[i].seq <= s) /\ (i > t => buf[i].seq > s)
    BY <1>1, <1>3
  <2>2. buf[i].seq = baseSeq + i - 1
    BY <1>2
  <2>3. QED
    BY <1>1, <2>2
<1> HIDE DEF t
<1>5. QED
  BY <1>3, <1>4 DEF Through

(* Trimming keeps the ring an accounted window.                            *)
LEMMA TrimKeeps ==
  ASSUME RingTypeOK, Window, Accounted, NEW a \in Nat, TrimTo(a), UNCHANGED dead
  PROVE  RingTypeOK' /\ Window' /\ Accounted'
<1> DEFINE k == Through(a)
<1>1. k \in 0 .. Len(buf)
  BY ThroughIs
<1>2. /\ IsWindow(buf, baseSeq) /\ Len(buf) \in Nat /\ MaxBytes \in Nat
      /\ nextSeq' = nextSeq /\ total' = total /\ nextSeq \in Nat /\ total \in Nat
      /\ used = PrefixBytes(buf, Len(buf)) /\ used \in Nat /\ used <= MaxBytes
      /\ DropFront(buf, used, k) /\ dead' \in BOOLEAN
  BY WindowIs, RingAssumption DEF TrimTo, RingTypeOK, Accounted
<1> HIDE DEF k
<1>3. baseSeq >= BaseSeq /\ baseSeq + Len(buf) = nextSeq' /\ (buf /= <<>> => buf[Len(buf)].to = total')
  BY <1>2 DEF Window
<1>4. DropFront(buf, PrefixBytes(buf, Len(buf)), k) /\ nextSeq' \in Nat /\ total' \in Nat
  BY <1>2
<1>5. /\ buf' \in Seq(Chunk) /\ used' \in Nat /\ baseSeq' \in Nat
      /\ Window'
      /\ used' = PrefixBytes(buf', Len(buf'))
  BY <1>1, <1>2, <1>3, <1>4, DropFrontKeepsInv
<1>6. used' <= MaxBytes
  <2>1. used' = used - PrefixBytes(buf, k) /\ PrefixBytes(buf, k) \in Nat
    BY <1>1, <1>2, PrefixBytesNat DEF DropFront
  <2>2. QED
    BY <1>2, <1>5, <2>1
<1>7. RingTypeOK'
  BY <1>2, <1>4, <1>5 DEF RingTypeOK
<1>8. QED
  BY <1>5, <1>6, <1>7 DEF Accounted

-----------------------------------------------------------------------------
(* The empty ring is well typed and a window. *)
LEMMA RingInitOK == RingInit => RingTypeOK /\ RingInv
<1>1. BaseSeq \in Nat /\ MaxBytes \in Nat
  BY RingAssumption
<1>2. ASSUME RingInit  PROVE RingTypeOK /\ RingInv
  <2>1. buf = <<>> /\ Len(buf) = 0 /\ used = 0 /\ total = 0
    BY <1>2 DEF RingInit
  <2>2. nextSeq = BaseSeq /\ baseSeq = BaseSeq
    BY <1>2 DEF RingInit
  <2>3. RingTypeOK
    <3>1. buf \in Seq(Chunk) /\ used \in Nat /\ total \in Nat
      BY <2>1
    <3>2. nextSeq \in Nat /\ baseSeq \in Nat
      BY <1>1, <2>2
    <3>3. dead \in BOOLEAN
      BY <1>2 DEF RingInit
    <3>4. QED
      BY <3>1, <3>2, <3>3 DEF RingTypeOK
  <2>4. Accounted
    BY <1>1, <2>1 DEF Accounted, PrefixBytes
  <2>5. Window
    BY <1>1, <2>1, <2>2 DEF Window
  <2>6. QED
    BY <2>3, <2>4, <2>5 DEF RingInv
<1>3. QED
  BY <1>2

(* Every step of the ring keeps both. *)
LEMMA RingStepOK ==
  RingTypeOK /\ RingInv /\ [RingNext]_<<ringVars, dead>> => RingTypeOK' /\ RingInv'
<1> SUFFICES ASSUME RingTypeOK, RingInv, [RingNext]_<<ringVars, dead>>
             PROVE  RingTypeOK' /\ RingInv'
  OBVIOUS
<1>1. CASE PushStep
  <2>1. PICK n \in Sizes : Push(n) /\ UNCHANGED dead
    BY <1>1 DEF PushStep
  <2>2. QED
    BY <1>1, <2>1, PushKeeps DEF PushStep, RingInv
<1>2. CASE TrimStep
  <2>1. PICK a \in 0 .. LastSeq : TrimTo(a) /\ UNCHANGED dead
    BY <1>2 DEF TrimStep
  <2>2. a \in Nat
    BY <2>1, RingAssumption DEF LastSeq, RingTypeOK
  <2>3. QED
    BY <1>2, <2>1, <2>2, TrimKeeps DEF TrimStep, RingInv
<1>3. CASE KillStep
  BY <1>3 DEF KillStep, Clear, RingTypeOK, RingInv
<1>4. CASE ExitStep
  BY <1>4 DEF ExitStep, ringVars, RingTypeOK, RingInv
<1>5. CASE UNCHANGED <<ringVars, dead>>
  BY <1>5 DEF ringVars, RingTypeOK, RingInv, Window, Accounted
<1>6. QED
  BY <1>1, <1>2, <1>3, <1>4, <1>5 DEF RingNext

(* Whatever the budget, the chunk sizes and the numbers reached, the ring   *)
(* has its types, ...                                                      *)
THEOREM RingTypeCorrect == RingSpec => []RingTypeOK
<1>1. RingSpec => [](RingTypeOK /\ RingInv)
  BY RingInitOK, RingStepOK, PTL DEF RingSpec
<1>2. QED
  BY <1>1, PTL

(* ... and while the session lives it is exactly the newest chunks of the   *)
(* stream, in order and contiguous, with its byte count exact and within    *)
(* budget (OutputRing.push, trimTo, clear).                                *)
THEOREM RingCorrect == RingSpec => []RingInv
<1>1. RingSpec => [](RingTypeOK /\ RingInv)
  BY RingInitOK, RingStepOK, PTL DEF RingSpec
<1>2. QED
  BY <1>1, PTL

(* In such a ring canReplaySince never promises a delta that since cannot   *)
(* deliver.                                                                *)
LEMMA WindowMakesDeltaWhole ==
  ASSUME RingTypeOK, Window, NEW s \in 0 .. LastSeq, CanReplaySince(s)
  PROVE  LET d == Since(s) IN
         /\ Len(d) = LastSeq - s
         /\ \A i \in 1 .. Len(d) : d[i].seq = s + i
         /\ \A i \in 1 .. Len(d) - 1 : d[i].to = d[i + 1].from
         /\ d /= <<>> => d[Len(d)].to = total
<1> DEFINE k == Through(s)
           d == Since(s)
<1>1. /\ IsWindow(buf, baseSeq) /\ Len(buf) \in Nat /\ baseSeq \in Nat /\ nextSeq \in Nat
      /\ s \in Nat /\ s <= nextSeq - 1 /\ s >= baseSeq - 1 /\ baseSeq + Len(buf) = nextSeq
  BY WindowIs DEF RingTypeOK, LastSeq, CanReplaySince, Window
<1>2. k = s - baseSeq + 1
  <2>1. /\ k \in 0 .. Len(buf)
        /\ \A i \in 1 .. k : buf[i].seq <= s
        /\ \A i \in (k + 1) .. Len(buf) : buf[i].seq > s
    BY <1>1, ThroughIs
  <2> HIDE DEF k
  <2>2. \A i \in 1 .. Len(buf) : buf[i].seq = baseSeq + i - 1
    BY DEF Window
  <2>3. ASSUME k < s - baseSeq + 1  PROVE FALSE
    <3>1. k + 1 \in (k + 1) .. Len(buf) /\ k + 1 \in 1 .. Len(buf)
      BY <1>1, <2>1, <2>3
    <3>2. buf[k + 1].seq > s /\ buf[k + 1].seq = baseSeq + (k + 1) - 1
      BY <2>1, <2>2, <3>1
    <3>3. QED
      BY <1>1, <2>1, <2>3, <3>2
  <2>4. ASSUME k > s - baseSeq + 1  PROVE FALSE
    <3>1. k \in 1 .. k /\ k \in 1 .. Len(buf)
      BY <1>1, <2>1, <2>4
    <3>2. buf[k].seq <= s /\ buf[k].seq = baseSeq + k - 1
      BY <2>1, <2>2, <3>1
    <3>3. QED
      BY <1>1, <2>1, <2>4, <3>2
  <2>5. QED
    BY <1>1, <2>1, <2>3, <2>4
<1>3. k \in 0 .. Len(buf) /\ d = SubSeq(buf, k + 1, Len(buf))
  BY <1>1, ThroughIs DEF Since
<1> HIDE DEF k, d
<1>4. IsWindow(d, baseSeq + k) /\ Len(d) = Len(buf) - k
      /\ \A i \in 1 .. Len(d) : d[i] = buf[k + i]
  BY <1>1, <1>3, DropKeepsWindow
<1>5. Len(d) = LastSeq - s /\ baseSeq + k = s + 1
  BY <1>1, <1>2, <1>4 DEF LastSeq
<1>6. \A i \in 1 .. Len(d) : d[i].seq = s + i
  <2>1. SUFFICES ASSUME NEW i \in 1 .. Len(d)  PROVE d[i].seq = s + i
    OBVIOUS
  <2>2. d[i].seq = (baseSeq + k) + i - 1
    BY <1>4 DEF IsWindow
  <2>3. QED
    BY <1>1, <1>5, <2>2
<1>7. \A i \in 1 .. Len(d) - 1 : d[i].to = d[i + 1].from
  BY <1>4 DEF IsWindow
<1>8. d /= <<>> => d[Len(d)].to = total
  <2>1. SUFFICES ASSUME d /= <<>>  PROVE d[Len(d)].to = total
    OBVIOUS
  <2>2. d \in Seq(Chunk)
    BY <1>4 DEF IsWindow
  <2>3. Len(d) \in 1 .. Len(d) /\ k + Len(d) = Len(buf) /\ buf /= <<>>
    BY <1>1, <1>3, <1>4, <2>1, <2>2
  <2>4. QED
    BY <1>4, <2>3 DEF Window
<1>9. QED
  BY <1>5, <1>6, <1>7, <1>8 DEF d

(* For every ring: a delta the server decides to replay is the whole rest   *)
(* of the stream, without hole or repetition (sendResync, server.ts:2165).  *)
THEOREM RingDeltaIsWhole == RingSpec => []DeltaIsWhole
<1>1. RingTypeOK /\ RingInv => DeltaIsWhole
  BY WindowMakesDeltaWhole DEF RingInv, DeltaIsWhole
<1>2. RingSpec => [](RingTypeOK /\ RingInv)
  BY RingInitOK, RingStepOK, PTL DEF RingSpec
<1>3. QED
  BY <1>1, <1>2, PTL

-----------------------------------------------------------------------------

(* The end of a frame is a position of the sequence it is cut from, at or    *)
(* after the frame's first chunk.                                          *)
LEMMA FrameEndIn ==
  ASSUME NEW n \in Nat, NEW i \in 1 .. n, NEW f \in Nat \ {0}
  PROVE  FrameEnd(i, n, f) \in 1 .. n
<1> DEFINE q == (i - 1) \div f
<1>1. q \in Nat
  OBVIOUS
<1> HIDE DEF q
<1>2. (q + 1) * f \in Nat /\ (q + 1) * f >= 1
  BY <1>1
<1>3. QED
  BY <1>2 DEF FrameEnd, q

(* Empty sequences and sets are well typed. *)
LEMMA EmptyIn == <<>> \in Seq(Nat) /\ <<>> \in Seq(Frame) /\ {} \in SUBSET Nat
OBVIOUS

(* Sending keeps a view well-typed.                                        *)
LEMMA SendSnapshotType ==
  ASSUME NEW v \in View, NEW w \in Nat
  PROVE  SendSnapshot(v, w) \in View
<1>1. [cmd |-> "SNAPSHOT", seqs |-> <<>>, seq |-> w] \in Frame
  BY DEF Frame
<1>2. BaseSeq .. w \in SUBSET Nat
  BY RingAssumption
<1>3. v.out \in Seq(Frame)
  BY Zenon DEF View
<1>4. Append(v.out, [cmd |-> "SNAPSHOT", seqs |-> <<>>, seq |-> w]) \in Seq(Frame)
  BY <1>1, <1>3
<1>5. QED
  BY <1>2, <1>4, EmptyIn, Zenon DEF SendSnapshot, View

(* SendData keeps a view well typed. *)
LEMMA SendDataType ==
  ASSUME NEW v \in View, NEW seqs \in Seq(Nat), NEW f \in Nat \ {0}
  PROVE  SendData(v, seqs, f) \in View
<1> DEFINE n == Len(seqs)
           frame(j) == LET first == (j - 1) * f + 1
                           last  == FrameEnd(first, n, f)
                       IN  [cmd |-> "DATA", seqs |-> SubSeq(seqs, first, last), seq |-> seqs[last]]
           count == (n + f - 1) \div f
<1>1. n \in Nat
  OBVIOUS
<1>2. CASE n = 0
  BY <1>2 DEF SendData
<1>3. CASE n > 0
  <2>1. count \in Nat
    BY <1>1
  <2>2. \A i \in 1 .. n : seqs[FrameEnd(i, n, f)] \in Nat
    <3>1. SUFFICES ASSUME NEW i \in 1 .. n  PROVE seqs[FrameEnd(i, n, f)] \in Nat
      OBVIOUS
    <3>2. FrameEnd(i, n, f) \in 1 .. n
      BY <1>1, FrameEndIn
    <3>3. QED
      BY <3>2, ElementOfSeq
  <2>3. \A j \in 1 .. count : frame(j) \in Frame
    <3>1. SUFFICES ASSUME NEW j \in 1 .. count  PROVE frame(j) \in Frame
      OBVIOUS
    <3> DEFINE first == (j - 1) * f + 1
               last  == FrameEnd(first, n, f)
    <3>2. first \in 1 .. n
      <4>1. j * f <= count * f
        BY <1>1, <2>1
      <4>2. count * f <= n + f - 1
        BY <1>1
      <4>3. (j - 1) * f = j * f - f /\ (j - 1) * f >= 0
        BY <2>1
      <4>4. j * f \in Int /\ count * f \in Int
        BY <2>1
      <4> HIDE DEF count
      <4>5. QED
        BY <1>1, <4>1, <4>2, <4>3, <4>4
    <3>3. last \in 1 .. n
      BY <1>1, <3>2, FrameEndIn
    <3> HIDE DEF first, last
    <3>4. seqs[last] \in Nat
      BY <3>3
    <3>5. SubSeq(seqs, first, last) \in Seq(Nat)
      BY <3>2, <3>3, <1>1, SubSeqProperties, ElementOfSeq
    <3>6. QED
      BY <3>4, <3>5 DEF Frame, first, last
  <2> HIDE DEF frame, count
  <2>4. v.out \in Seq(Frame) /\ v.sentEntries \in Seq(Nat) /\ v.have \in SUBSET Nat
    BY Zenon DEF View
  <2>5. v.out \o [j \in 1 .. count |-> frame(j)] \in Seq(Frame)
    BY <2>1, <2>3, <2>4
  <2>6. v.sentEntries \o [i \in 1 .. n |-> seqs[FrameEnd(i, n, f)]] \in Seq(Nat)
    BY <1>1, <2>2, <2>4
  <2>7. seqs[n] \in Nat /\ (v.have \cup {seqs[i] : i \in 1 .. n}) \in SUBSET Nat
    BY <1>1, <1>3, <2>4
  <2>8. SendData(v, seqs, f) =
          [v EXCEPT !.out = @ \o [j \in 1 .. count |-> frame(j)],
                    !.sentEntries = @ \o [i \in 1 .. n |-> seqs[FrameEnd(i, n, f)]],
                    !.lastSentSeq = seqs[n],
                    !.have = @ \cup {seqs[i] : i \in 1 .. n}]
    <3>1. n /= 0
      BY <1>3
    <3>2. QED
      BY <3>1, Zenon DEF SendData, frame, count
  <2>9. QED
    BY <2>5, <2>6, <2>7, <2>8, Zenon DEF View
<1>4. QED
  BY <1>1, <1>2, <1>3

(* s differs from v only in what sending changes.                          *)
SendsOnly(v, s) ==
  /\ s.joined = v.joined /\ s.paused = v.paused /\ s.ack = v.ack
  /\ s.pending = v.pending /\ s.timer = v.timer
  /\ s.pausedForBackpressure = v.pausedForBackpressure

(* A snapshot sets what was sent last and leaves the batch and the stall alone. *)
LEMMA SendSnapshotKeeps ==
  ASSUME NEW v \in View, NEW w \in Nat
  PROVE  SendsOnly(v, SendSnapshot(v, w)) /\ SendSnapshot(v, w).lastSentSeq = w
BY Zenon DEF SendSnapshot, View, SendsOnly

(* So do data frames, which move what was sent last to their newest number. *)
LEMMA SendDataKeeps ==
  ASSUME NEW v \in View, NEW seqs \in Seq(Nat), NEW f \in Nat \ {0}
  PROVE  /\ SendsOnly(v, SendData(v, seqs, f))
         /\ SendData(v, seqs, f).lastSentSeq
              = IF Len(seqs) = 0 THEN v.lastSentSeq ELSE seqs[Len(seqs)]
BY Zenon DEF SendData, View, SendsOnly

(* What the ring replays are numbers of the stream.                        *)
LEMMA SinceSeqsIn ==
  ASSUME RingTypeOK, Window, NEW s \in Nat
  PROVE  /\ SinceSeqs(s) \in Seq(Nat)
         /\ \A i \in 1 .. Len(SinceSeqs(s)) : SinceSeqs(s)[i] <= LastSeq
<1> DEFINE t == Through(s)
           d == Since(s)
<1>1. t \in 0 .. Len(buf)
  BY ThroughIs
<1>2. IsWindow(buf, baseSeq) /\ Len(buf) \in Nat /\ baseSeq \in Nat /\ nextSeq \in Nat
  BY WindowIs DEF RingTypeOK
<1>3. d = SubSeq(buf, t + 1, Len(buf))
  BY DEF Since
<1> HIDE DEF t, d
<1>4. IsWindow(d, baseSeq + t) /\ Len(d) = Len(buf) - t
  BY <1>1, <1>2, <1>3, DropKeepsWindow
<1>5. d \in Seq(Chunk)
  BY <1>4 DEF IsWindow
<1>6. \A i \in 1 .. Len(d) : d[i].seq \in Nat /\ d[i].seq <= LastSeq
  <2>1. SUFFICES ASSUME NEW i \in 1 .. Len(d)
                 PROVE  d[i].seq \in Nat /\ d[i].seq <= LastSeq
    OBVIOUS
  <2>2. d[i].seq = (baseSeq + t) + i - 1
    BY <1>4 DEF IsWindow
  <2>3. baseSeq + Len(buf) = nextSeq
    BY DEF Window
  <2>4. QED
    BY <1>1, <1>2, <1>4, <2>2, <2>3 DEF LastSeq
<1>7. SinceSeqs(s) = [i \in 1 .. Len(d) |-> d[i].seq]
  BY DEF SinceSeqs, d
<1>8. Len(d) \in Nat
  BY <1>5
<1>9. QED
  BY <1>6, <1>7, <1>8

-----------------------------------------------------------------------------
(* The inductive invariant of one connection, h being the newest number.    *)

(* Nothing the server believes of the viewer is ahead of the stream, so no   *)
(* ack it accepts is (CMD.ACK's second check).                             *)
InStream(v, h) ==
  /\ v.ack <= h /\ v.lastSentSeq <= h
  /\ \A i \in 1 .. Len(v.pending) : v.pending[i] <= h

(* BatchLeaves for one connection; only a joined viewer has a batch.        *)
StallOK(v) == v.pausedForBackpressure => v.paused /\ v.joined /\ v.pending = <<>>
BatchOK(v) == StallOK(v) /\ (v.pending /= <<>> => v.timer /\ v.joined)

Good(v, h) == v \in View /\ InStream(v, h) /\ BatchOK(v)

(* A good view is still good without its batch and timer. *)
LEMMA QuietGood ==
  ASSUME NEW h, NEW v, Good(v, h)
  PROVE  Good(Quiet(v), h)
<1>1. v \in View
  BY DEF Good
<1>2. Quiet(v) \in View /\ SendsOnly(v, Quiet(v)) /\ Quiet(v).lastSentSeq = v.lastSentSeq
  BY <1>1, EmptyIn, Zenon DEF Quiet, View, SendsOnly
<1>3. QED
  BY <1>2, Zenon DEF Good, InStream, BatchOK, StallOK, SendsOnly

(* SendSnapshot keeps a view good. *)
LEMMA SendSnapshotGood ==
  ASSUME NEW h, NEW v, Good(v, h), NEW w \in Nat, w <= h
  PROVE  Good(SendSnapshot(v, w), h)
<1>1. v \in View
  BY DEF Good
<1>2. SendSnapshot(v, w) \in View
  BY <1>1, SendSnapshotType
<1>3. SendsOnly(v, SendSnapshot(v, w)) /\ SendSnapshot(v, w).lastSentSeq = w
  BY <1>1, SendSnapshotKeeps
<1>4. QED
  BY <1>2, <1>3, Zenon DEF Good, InStream, BatchOK, StallOK, SendsOnly

(* SendData keeps a view good, if it sends no number beyond the newest. *)
LEMMA SendDataGood ==
  ASSUME NEW h, NEW v, Good(v, h), NEW seqs \in Seq(Nat), NEW f \in Nat \ {0},
         \A i \in 1 .. Len(seqs) : seqs[i] <= h
  PROVE  Good(SendData(v, seqs, f), h)
<1>1. v \in View
  BY DEF Good
<1>2. SendData(v, seqs, f) \in View
  BY <1>1, SendDataType
<1>3. /\ SendsOnly(v, SendData(v, seqs, f))
      /\ SendData(v, seqs, f).lastSentSeq
           = IF Len(seqs) = 0 THEN v.lastSentSeq ELSE seqs[Len(seqs)]
  BY <1>1, SendDataKeeps
<1>4. Len(seqs) /= 0 => Len(seqs) \in 1 .. Len(seqs)
  OBVIOUS
<1>5. SendData(v, seqs, f).lastSentSeq <= h
  BY <1>3, <1>4, Zenon DEF Good, InStream
<1>6. QED
  BY <1>2, <1>3, <1>5, Zenon DEF Good, InStream, BatchOK, StallOK, SendsOnly

(* The newest number is a number. *)
LEMMA LastSeqIn ==
  ASSUME RingTypeOK, Window
  PROVE  LastSeq \in Nat
<1>1. BaseSeq \in Nat /\ BaseSeq > 1 /\ baseSeq >= BaseSeq /\ baseSeq \in Nat
  BY RingAssumption DEF Window, RingTypeOK
<1>2. Len(buf) \in Nat /\ nextSeq = baseSeq + Len(buf)
  BY DEF Window, RingTypeOK
<1>3. QED
  BY <1>1, <1>2 DEF LastSeq

(* Whatever a client claims, resyncing it keeps its view in the stream and   *)
(* leaves the batcher alone.                                               *)
LEMMA SendResyncGood ==
  ASSUME RingTypeOK, Window, frozen \in Nat, frozen <= LastSeq,
         NEW v, Good(v, LastSeq), NEW from \in Nat, NEW forced
  PROVE  Good(SendResync(v, from, forced), LastSeq) /\ SendsOnly(v, SendResync(v, from, forced))
<1> DEFINE s == SendResync(v, from, forced)
           c == [v EXCEPT !.have = Claimed(from)]
           d == SinceSeqs(from)
<1>1. v \in View /\ LastSeq \in Nat /\ LastSeq <= LastSeq
  BY LastSeqIn DEF Good
<1>2. CASE s = SendSnapshot(v, frozen)
  BY <1>1, <1>2, SendSnapshotGood, SendSnapshotKeeps
<1>3. CASE s = SendSnapshot(v, LastSeq)
  BY <1>1, <1>3, SendSnapshotGood, SendSnapshotKeeps
<1>4. CASE s = SendData(c, d, ReplayFrame)
  <2>1. Claimed(from) \in SUBSET Nat
    BY RingAssumption DEF Claimed
  <2>2. c \in View /\ SendsOnly(v, c) /\ c.lastSentSeq = v.lastSentSeq
    BY <1>1, <2>1, Zenon DEF View, SendsOnly
  <2>3. d \in Seq(Nat) /\ \A i \in 1 .. Len(d) : d[i] <= LastSeq
    BY SinceSeqsIn
  <2>4. ReplayFrame \in Nat \ {0}
    BY ViewerAssumption
  <2> HIDE DEF c, d
  <2>5. Good(c, LastSeq)
    BY <2>2, Zenon DEF Good, InStream, BatchOK, StallOK, SendsOnly
  <2>6. Good(SendData(c, d, ReplayFrame), LastSeq)
    BY <2>3, <2>4, <2>5, SendDataGood
  <2>7. SendsOnly(c, SendData(c, d, ReplayFrame))
    BY <2>2, <2>3, <2>4, SendDataKeeps
  <2>8. QED
    BY <1>4, <2>2, <2>6, <2>7, Zenon DEF SendsOnly
<1>5. QED
  BY <1>2, <1>3, <1>4, Zenon DEF SendResync

(* A reset leaves nothing batched and nothing stalled.                     *)
LEMMA ResetGood ==
  ASSUME NEW h, NEW v, Good(v, h)
  PROVE  LET r == ResetBatcherForResync(v) IN
         /\ Good(r, h) /\ r.pending = <<>> /\ r.pausedForBackpressure = FALSE
         /\ r.joined = v.joined
<1> DEFINE r == ResetBatcherForResync(v)
<1>1. v \in View
  BY DEF Good
<1>2. /\ r \in View /\ r.pending = <<>> /\ r.pausedForBackpressure = FALSE
      /\ r.ack = v.ack /\ r.lastSentSeq = v.lastSentSeq /\ r.joined = v.joined
  BY <1>1, EmptyIn, Zenon DEF View, ResetBatcherForResync
<1>3. \A i \in 1 .. Len(<<>>) : FALSE
  OBVIOUS
<1> HIDE DEF r
<1>4. Good(r, h)
  BY <1>2, <1>3, Zenon DEF Good, InStream, BatchOK, StallOK
<1>5. QED
  BY <1>2, <1>4 DEF r

(* A flush empties the batch; stalling pauses the viewer.                  *)
LEMMA FlushGood ==
  ASSUME NEW h, NEW v, v \in View, InStream(v, h), StallOK(v),
         v.pending /= <<>> => v.joined, NEW congested
  PROVE  LET r == Flush(v, congested) IN
         Good(r, h) /\ r.pending = <<>> /\ r.joined = v.joined
<1> DEFINE r == Flush(v, congested)
           e == [v EXCEPT !.timer = FALSE, !.pending = <<>>]
           s == SendData(e, v.pending, Len(v.pending))
           p == [s EXCEPT !.pausedForBackpressure = TRUE, !.paused = s.joined,
                          !.drainTimer = s.drainTimer \/ ~s.acking]
<1>0. \A i \in 1 .. Len(<<>>) : FALSE
  OBVIOUS
<1>1. CASE v.pending = <<>>
  <2>1. r = [v EXCEPT !.timer = FALSE]
    BY <1>1, Zenon DEF Flush
  <2>2. /\ r \in View /\ r.pending = v.pending /\ r.paused = v.paused /\ r.joined = v.joined
        /\ r.pausedForBackpressure = v.pausedForBackpressure
        /\ r.ack = v.ack /\ r.lastSentSeq = v.lastSentSeq
    BY <2>1, Zenon DEF View
  <2> HIDE DEF r
  <2>3. Good(r, h)
    BY <1>1, <2>2, Zenon DEF Good, InStream, BatchOK, StallOK
  <2>4. QED
    BY <1>1, <2>2, <2>3 DEF r
<1>2. CASE v.pending /= <<>>
  <2>1. /\ e \in View /\ e.pending = <<>> /\ e.paused = v.paused /\ e.joined = v.joined
        /\ e.pausedForBackpressure = v.pausedForBackpressure
        /\ e.ack = v.ack /\ e.lastSentSeq = v.lastSentSeq
    BY EmptyIn, Zenon DEF View
  <2>2. v.pending \in Seq(Nat)
    BY Zenon DEF View
  <2>3. Len(v.pending) \in Nat \ {0}
    BY <1>2, <2>2
  <2>4. Good(e, h)
    BY <1>0, <2>1, Zenon DEF Good, InStream, BatchOK, StallOK
  <2>5. \A i \in 1 .. Len(v.pending) : v.pending[i] <= h
    BY DEF InStream
  <2> HIDE DEF e
  <2>6. Good(s, h) /\ SendsOnly(e, s)
    BY <2>1, <2>2, <2>3, <2>4, <2>5, SendDataGood, SendDataKeeps
  <2>7. r = s \/ r = p
    BY <1>2, Zenon DEF Flush, e
  <2>8. CASE r = s
    BY <2>1, <2>6, <2>8, Zenon DEF SendsOnly
  <2>9. CASE r = p
    <3> HIDE DEF s, r
    <3>1. s \in View /\ (s.drainTimer \/ ~s.acking) \in BOOLEAN
      BY <2>6 DEF Good
    <3>2. /\ p \in View /\ p.pending = s.pending /\ p.paused = s.joined /\ p.joined = s.joined
          /\ p.ack = s.ack /\ p.lastSentSeq = s.lastSentSeq
      BY <3>1, Zenon DEF View
    <3>3. s.pending = <<>> /\ s.joined = v.joined /\ v.joined
      BY <1>2, <2>1, <2>6, Zenon DEF SendsOnly
    <3> HIDE DEF p
    <3>4. Good(p, h)
      BY <2>6, <3>2, <3>3, Zenon DEF Good, InStream, BatchOK, StallOK
    <3>5. QED
      BY <2>9, <3>2, <3>3, <3>4 DEF r
  <2>10. QED
    BY <2>7, <2>8, <2>9
<1>3. QED
  BY <1>1, <1>2

(* A good view stays good when the session hands out more numbers. *)
LEMMA GoodGrows ==
  ASSUME NEW h \in Nat, NEW g \in Nat, h <= g, NEW v, Good(v, h)
  PROVE  Good(v, g)
<1>1. /\ v.ack \in Nat /\ v.lastSentSeq \in Nat /\ v.pending \in Seq(Nat)
      /\ v.ack <= h /\ v.lastSentSeq <= h /\ \A i \in 1 .. Len(v.pending) : v.pending[i] <= h
  BY Zenon DEF Good, View, InStream
<1>2. \A i \in 1 .. Len(v.pending) : v.pending[i] <= g
  <2>1. SUFFICES ASSUME NEW i \in 1 .. Len(v.pending)  PROVE v.pending[i] <= g
    OBVIOUS
  <2>2. v.pending[i] \in Nat /\ v.pending[i] <= h
    BY <1>1
  <2>3. QED
    BY <2>2
<1>3. v.ack <= g /\ v.lastSentSeq <= g
  BY <1>1
<1>4. QED
  BY <1>2, <1>3, Zenon DEF Good, InStream

(* The newest chunk joins the batch, or the batch with it leaves.          *)
LEMMA EnqueueGood ==
  ASSUME NEW h \in Nat, NEW v, Good(v, h), v.joined, NEW small, NEW congested
  PROVE  Good(Enqueue(v, h, small, congested), h)
<1> DEFINE p == [v EXCEPT !.pending = Append(@, h)]
           t == [p EXCEPT !.timer = TRUE]
           r == Enqueue(v, h, small, congested)
<1>1. v \in View /\ v.pending \in Seq(Nat)
  BY Zenon DEF Good, View
<1>2. CASE v.pausedView \/ v.pausedForBackpressure
  BY <1>2, Zenon DEF Enqueue
<1>3. CASE ~(v.pausedView \/ v.pausedForBackpressure)
  <2>1. Append(v.pending, h) \in Seq(Nat)
    BY <1>1
  <2>2. /\ p \in View /\ p.pending = Append(v.pending, h) /\ p.joined = v.joined
        /\ p.pausedForBackpressure = v.pausedForBackpressure
        /\ p.ack = v.ack /\ p.lastSentSeq = v.lastSentSeq
    BY <1>1, <2>1, Zenon DEF View
  <2>3. \A i \in 1 .. Len(Append(v.pending, h)) : Append(v.pending, h)[i] <= h
    <3>1. \A i \in 1 .. Len(v.pending) : v.pending[i] <= h
      BY DEF Good, InStream
    <3>2. SUFFICES ASSUME NEW i \in 1 .. Len(v.pending) + 1
                   PROVE  Append(v.pending, h)[i] <= h
      BY <1>1
    <3>3. CASE i \in 1 .. Len(v.pending)
      BY <1>1, <3>1, <3>3
    <3>4. CASE i = Len(v.pending) + 1
      BY <1>1, <3>4
    <3>5. QED
      BY <1>1, <3>2, <3>3, <3>4
  <2>4. InStream(p, h) /\ StallOK(p)
    BY <1>3, <2>2, <2>3, Zenon DEF Good, InStream, StallOK
  <2>5. r = Flush(p, congested) \/ r = t
    BY <1>3, Zenon DEF Enqueue
  <2>6. CASE r = Flush(p, congested)
    <3> HIDE DEF p
    <3>1. Good(Flush(p, congested), h)
      BY <2>2, <2>4, FlushGood
    <3>2. QED
      BY <2>6, <3>1
  <2>7. CASE r = t
    <3> HIDE DEF p, r
    <3>1. /\ t \in View /\ t.pending = p.pending /\ t.timer = TRUE /\ t.joined = p.joined
          /\ t.pausedForBackpressure = p.pausedForBackpressure
          /\ t.ack = p.ack /\ t.lastSentSeq = p.lastSentSeq
      BY <2>2, Zenon DEF View
    <3> HIDE DEF t
    <3>2. Good(t, h)
      BY <1>3, <2>2, <2>4, <3>1, Zenon DEF Good, InStream, BatchOK, StallOK
    <3>3. QED
      BY <2>7, <3>2 DEF r
  <2>8. QED
    BY <2>5, <2>6, <2>7
<1>4. QED
  BY <1>2, <1>3

(* Of the naturals in a set one is the least.                              *)
LEMMA LeastNat ==
  ASSUME NEW T \in SUBSET Nat, T /= {}
  PROVE  \E x \in T : \A y \in T : x <= y
<1>1. PICK x \in T : \A y \in T : ~ (<<y, x>> \in OpToRel(<, Nat))
  BY NatLessThanWellFounded, WFMin
<1>2. \A y \in T : <<y, x>> \in OpToRel(<, Nat) <=> y < x
  BY DEF OpToRel
<1>3. \A y \in T : x <= y
  <2>1. SUFFICES ASSUME NEW y \in T  PROVE x <= y
    OBVIOUS
  <2>2. ~ (y < x) /\ y \in Nat /\ x \in Nat
    BY <1>1, <1>2
  <2>3. QED
    BY <2>2
<1>4. QED
  BY <1>3

(* An ack covers a definite number of stamps: those before the first that    *)
(* is above it.                                                            *)
LEMMA AckedIn ==
  ASSUME NEW v, v.sentEntries \in Seq(Nat), NEW seq \in Nat
  PROVE  /\ Acked(v, seq) \in 0 .. Len(v.sentEntries)
         /\ \A i \in 1 .. Acked(v, seq) : v.sentEntries[i] <= seq
         /\ Acked(v, seq) < Len(v.sentEntries) => v.sentEntries[Acked(v, seq) + 1] > seq
<1> DEFINE e == v.sentEntries
           n == Len(e)
           above == {i \in 1 .. n : e[i] > seq}
<1>1. n \in Nat /\ \A i \in 1 .. n : e[i] \in Nat
  BY ElementOfSeq
<1> HIDE DEF e, n
<1>2. \E k \in 0 .. n : /\ \A i \in 1 .. k : e[i] <= seq
                        /\ k < n => e[k + 1] > seq
  <2>1. CASE above = {}
    <3>1. \A i \in 1 .. n : e[i] <= seq
      BY <1>1, <2>1
    <3>2. n \in 0 .. n /\ ~ (n < n)
      BY <1>1
    <3>3. QED
      BY <3>1, <3>2
  <2>2. CASE above /= {}
    <3>1. above \in SUBSET Nat
      BY <1>1
    <3>2. PICK x \in above : \A y \in above : x <= y
      BY <2>2, <3>1, LeastNat
    <3>3. x \in 1 .. n /\ e[x] > seq
      OBVIOUS
    <3>4. \A i \in 1 .. (x - 1) : e[i] <= seq
      <4>1. SUFFICES ASSUME NEW i \in 1 .. (x - 1)  PROVE e[i] <= seq
        OBVIOUS
      <4>2. i \in 1 .. n /\ i < x
        BY <1>1, <3>3
      <4>3. i \notin above
        BY <3>1, <3>2, <4>2
      <4>4. QED
        BY <1>1, <4>2, <4>3
    <3>5. x - 1 \in 0 .. n /\ (x - 1) + 1 = x
      BY <1>1, <3>3
    <3>6. QED
      BY <3>3, <3>4, <3>5
  <2>3. QED
    BY <2>1, <2>2
<1>3. QED
  BY <1>2 DEF Acked, e, n

(* An accepted ack is in the stream, and what a resumed viewer is sent is    *)
(* too.                                                                    *)
LEMMA HandleViewerAckGood ==
  ASSUME RingTypeOK, Window, NEW v, Good(v, LastSeq),
         NEW seq \in Nat, AckAccepted(v, seq), NEW forced
  PROVE  Good(HandleViewerAck(v, seq, forced), LastSeq)
<1> DEFINE q == SubSeq(v.sentEntries, Acked(v, seq) + 1, Len(v.sentEntries))
           a == [v EXCEPT !.ack = seq, !.acking = TRUE, !.sentEntries = q]
           r == [a EXCEPT !.pausedForBackpressure = FALSE, !.paused = FALSE]
           d == SinceSeqs(r.lastSentSeq)
           s == HandleViewerAck(v, seq, forced)
<1>1. v \in View /\ v.sentEntries \in Seq(Nat) /\ v.lastSentSeq \in Nat /\ LastSeq \in Nat
  BY LastSeqIn, Zenon DEF Good, View
<1>2. seq <= LastSeq
  <2>1. seq <= v.lastSentSeq /\ v.lastSentSeq <= LastSeq
    BY DEF AckAccepted, Good, InStream
  <2>2. QED
    BY <1>1, <2>1
<1>3. q \in Seq(Nat)
  <2>1. Acked(v, seq) \in 0 .. Len(v.sentEntries)
    BY <1>1, AckedIn
  <2>2. QED
    BY <1>1, <2>1, SubSeqProperties
<1> HIDE DEF q
<1>4. /\ a \in View /\ a.pending = v.pending /\ a.timer = v.timer /\ a.joined = v.joined
      /\ a.paused = v.paused /\ a.pausedForBackpressure = v.pausedForBackpressure
      /\ a.ack = seq /\ a.lastSentSeq = v.lastSentSeq
  BY <1>1, <1>3, Zenon DEF View
<1> HIDE DEF a
<1>5. Good(a, LastSeq)
  BY <1>2, <1>4, Zenon DEF Good, InStream, BatchOK, StallOK
<1>6. /\ r \in View /\ r.pending = a.pending /\ r.timer = a.timer /\ r.joined = a.joined
      /\ r.pausedForBackpressure = FALSE
      /\ r.ack = a.ack /\ r.lastSentSeq = a.lastSentSeq
  BY <1>4, Zenon DEF View
<1> HIDE DEF r
<1>7. Good(r, LastSeq)
  BY <1>5, <1>6, Zenon DEF Good, InStream, BatchOK, StallOK
<1>8. r.lastSentSeq \in Nat
  BY <1>6, Zenon DEF View
<1>9. d \in Seq(Nat) /\ \A i \in 1 .. Len(d) : d[i] <= LastSeq
  BY <1>8, SinceSeqsIn
<1> HIDE DEF d
<1>10. Good(SendData(r, d, 1), LastSeq)
  BY <1>7, <1>9, SendDataGood
<1>11. Good(SendSnapshot(r, LastSeq), LastSeq)
  <2>1. LastSeq <= LastSeq
    BY <1>1
  <2>2. QED
    BY <1>1, <1>7, <2>1, SendSnapshotGood
<1>12. s = a \/ s = SendData(r, d, 1) \/ s = SendSnapshot(r, LastSeq)
  BY Zenon DEF HandleViewerAck, a, r, d, q
<1>13. QED
  BY <1>5, <1>10, <1>11, <1>12

-----------------------------------------------------------------------------
(* The views the handlers build by updating fields.                        *)

(* The empty sequence has no index. *)
LEMMA NoneBelow == \A i \in 1 .. Len(<<>>) : FALSE
OBVIOUS

(* The view of a new connection is good. *)
LEMMA NewConnectionGood ==
  ASSUME NEW h \in Nat
  PROVE  /\ Good(NewConnection, h)
         /\ Good([NewConnection EXCEPT !.open = FALSE], h)
         /\ Good(WireSession(NewConnection), h)
<1>1. 0 <= h /\ 0 \in Nat
  OBVIOUS
<1>2. Good(NewConnection, h)
  BY <1>1, EmptyIn, NoneBelow, Zenon
     DEF NewConnection, View, Good, InStream, BatchOK, StallOK
<1>3. Good([NewConnection EXCEPT !.open = FALSE], h)
  BY <1>1, EmptyIn, NoneBelow, Zenon
     DEF NewConnection, View, Good, InStream, BatchOK, StallOK
<1>4. Good(WireSession(NewConnection), h)
  BY <1>1, EmptyIn, NoneBelow, Zenon
     DEF NewConnection, View, WireSession, WithBatcher, Good, InStream, BatchOK, StallOK
<1>5. QED
  BY <1>2, <1>3, <1>4

(* A view that gets its batcher stays good. *)
LEMMA WithBatcherGood ==
  ASSUME NEW h, NEW v, Good(v, h)
  PROVE  Good(WithBatcher(v), h)
<1>1. v \in View
  BY DEF Good
<1>2. /\ WithBatcher(v) \in View /\ SendsOnly(v, WithBatcher(v))
      /\ WithBatcher(v).lastSentSeq = v.lastSentSeq
  BY <1>1, Zenon DEF WithBatcher, View, SendsOnly
<1>3. QED
  BY <1>2, Zenon DEF Good, InStream, BatchOK, StallOK, SendsOnly

(* What ATTACH and RESUME_VIEW prepare for the resync.                     *)
LEMMA PreparedGood ==
  ASSUME NEW h, NEW v, Good(v, h)
  PROVE  LET b == [ResetBatcherForResync(WithBatcher(Quiet(v))) EXCEPT !.pausedView = FALSE] IN
         Good(b, h) /\ b.pausedForBackpressure = FALSE
<1> DEFINE r == ResetBatcherForResync(WithBatcher(Quiet(v)))
           b == [r EXCEPT !.pausedView = FALSE]
<1>1. Good(r, h) /\ r.pausedForBackpressure = FALSE
  BY QuietGood, WithBatcherGood, ResetGood
<1> HIDE DEF r
<1>2. r \in View
  BY <1>1 DEF Good
<1>3. b \in View /\ SendsOnly(r, b) /\ b.lastSentSeq = r.lastSentSeq
  BY <1>2, Zenon DEF View, SendsOnly
<1> HIDE DEF b
<1>4. Good(b, h) /\ b.pausedForBackpressure = FALSE
  BY <1>1, <1>3, Zenon DEF Good, InStream, BatchOK, StallOK, SendsOnly
<1>5. QED
  BY <1>4 DEF b, r

(* A view wired to the session stays good. *)
LEMMA WireSessionGood ==
  ASSUME NEW h, NEW v, Good(v, h), v.pausedForBackpressure = FALSE
  PROVE  Good(WireSession(v), h)
<1> DEFINE w == WireSession(v)
<1>1. v \in View
  BY DEF Good
<1>2. /\ w \in View /\ w.joined = TRUE /\ w.pending = v.pending /\ w.timer = v.timer
      /\ w.pausedForBackpressure = v.pausedForBackpressure
      /\ w.ack = v.ack /\ w.lastSentSeq = v.lastSentSeq
  BY <1>1, Zenon DEF WireSession, WithBatcher, View
<1> HIDE DEF w
<1>3. Good(w, h)
  BY <1>2, Zenon DEF Good, InStream, BatchOK, StallOK
<1>4. QED
  BY <1>3 DEF w

(* A view that is resumed stays good. *)
LEMMA UnpausedGood ==
  ASSUME NEW h, NEW v, Good(v, h), v.pausedForBackpressure = FALSE
  PROVE  Good([v EXCEPT !.paused = FALSE], h)
<1> DEFINE w == [v EXCEPT !.paused = FALSE]
<1>1. v \in View
  BY DEF Good
<1>2. /\ w \in View /\ w.joined = v.joined /\ w.pending = v.pending /\ w.timer = v.timer
      /\ w.pausedForBackpressure = v.pausedForBackpressure
      /\ w.ack = v.ack /\ w.lastSentSeq = v.lastSentSeq
  BY <1>1, Zenon DEF View
<1> HIDE DEF w
<1>3. Good(w, h)
  BY <1>2, Zenon DEF Good, InStream, BatchOK, StallOK
<1>4. QED
  BY <1>3 DEF w

(* A view that is paused stays good. *)
LEMMA PausedGood ==
  ASSUME NEW h, NEW v, Good(v, h)
  PROVE  Good([v EXCEPT !.paused = v.joined, !.pausedView = v.batcher], h)
<1> DEFINE w == [v EXCEPT !.paused = v.joined, !.pausedView = v.batcher]
<1>1. v \in View /\ v.joined \in BOOLEAN /\ v.batcher \in BOOLEAN
  BY Zenon DEF Good, View
<1>2. /\ w \in View /\ w.joined = v.joined /\ w.pending = v.pending /\ w.timer = v.timer
      /\ w.paused = v.joined /\ w.pausedForBackpressure = v.pausedForBackpressure
      /\ w.ack = v.ack /\ w.lastSentSeq = v.lastSentSeq
  BY <1>1, Zenon DEF View
<1> HIDE DEF w
<1>3. Good(w, h)
  BY <1>2, Zenon DEF Good, InStream, BatchOK, StallOK
<1>4. QED
  BY <1>3 DEF w

(* A view whose drain is over stays good. *)
LEMMA DrainedGood ==
  ASSUME NEW h, NEW v, Good(v, h)
  PROVE  Good([v EXCEPT !.pausedForBackpressure = FALSE, !.drainTimer = FALSE,
                        !.paused = FALSE], h)
<1> DEFINE w == [v EXCEPT !.pausedForBackpressure = FALSE, !.drainTimer = FALSE, !.paused = FALSE]
<1>1. v \in View
  BY DEF Good
<1>2. /\ w \in View /\ w.joined = v.joined /\ w.pending = v.pending /\ w.timer = v.timer
      /\ w.pausedForBackpressure = FALSE
      /\ w.ack = v.ack /\ w.lastSentSeq = v.lastSentSeq
  BY <1>1, Zenon DEF View
<1> HIDE DEF w
<1>3. Good(w, h)
  BY <1>2, Zenon DEF Good, InStream, BatchOK, StallOK
<1>4. QED
  BY <1>3 DEF w

(* A view that is detached stays good. *)
LEMMA DetachedGood ==
  ASSUME NEW h \in Nat, NEW v, Good(v, h)
  PROVE  Good([WithoutBatcher(v) EXCEPT !.joined = FALSE, !.paused = FALSE,
                                        !.ack = 0, !.have = {}], h)
<1> DEFINE w == [WithoutBatcher(v) EXCEPT !.joined = FALSE, !.paused = FALSE,
                                          !.ack = 0, !.have = {}]
<1>1. v \in View /\ 0 \in Nat /\ 0 <= h
  BY DEF Good
<1>2. /\ w \in View /\ w.pending = <<>> /\ w.pausedForBackpressure = FALSE
      /\ w.ack = 0 /\ w.lastSentSeq = 0
  BY <1>1, EmptyIn, Zenon DEF WithoutBatcher, View
<1> HIDE DEF w
<1>3. Good(w, h)
  BY <1>1, <1>2, NoneBelow, Zenon DEF Good, InStream, BatchOK, StallOK
<1>4. QED
  BY <1>3 DEF w

-----------------------------------------------------------------------------
(* The steps.                                                              *)

AllGood == \A c \in Viewers : Good(view[c], LastSeq)

StreamInv ==
  /\ TypeOK
  /\ RingInv
  /\ ~dead => frozen <= LastSeq /\ AllGood

(* One connection is served, the others only forget their last frames.      *)
LEMMA ServeKeeps ==
  ASSUME view \in [Viewers -> View], AllGood, NEW c \in Viewers,
         NEW v, Good(v, LastSeq), Serve(c, v)
  PROVE  view' \in [Viewers -> View] /\ \A d \in Viewers : Good(view'[d], LastSeq)
<1>1. \A d \in Viewers : view'[d] = IF d = c THEN v ELSE Quiet(view[d])
  BY Zenon DEF Serve
<1>2. \A d \in Viewers : Good(view'[d], LastSeq)
  <2>1. SUFFICES ASSUME NEW d \in Viewers  PROVE Good(view'[d], LastSeq)
    OBVIOUS
  <2>2. CASE d = c
    BY <1>1, <2>2, Zenon
  <2>3. CASE d /= c
    <3>1. Good(Quiet(view[d]), LastSeq)
      BY QuietGood DEF AllGood
    <3>2. QED
      BY <1>1, <2>3, <3>1, Zenon
  <2>4. QED
    BY <2>2, <2>3
<1>3. \A d \in Viewers : (IF d = c THEN v ELSE Quiet(view[d])) \in View
  BY <1>1, <1>2, Zenon DEF Good
<1>4. QED
  BY <1>2, <1>3, Zenon DEF Serve

(* Acks in the stream make the trim a trim of the ring's own spec.          *)
LEMMA MinAckTrimIsTrim ==
  ASSUME \A c \in Viewers : Good(view'[c], LastSeq), ~dead, UNCHANGED dead, MinAckTrim
  PROVE  TrimStep \/ UNCHANGED <<ringVars, dead>>
<1> DEFINE acks == {view'[c].ack : c \in Viewers} \ {0}
<1>1. CASE acks = {}
  BY <1>1, Zenon DEF MinAckTrim
<1>2. CASE acks /= {}
  <2>1. PICK a \in acks : TrimTo(a)
    BY <1>2, Zenon DEF MinAckTrim
  <2>2. PICK c \in Viewers : a = view'[c].ack
    BY <2>1
  <2>3. a \in Nat /\ a <= LastSeq
    BY <2>2, Zenon DEF Good, InStream, View
  <2>4. a \in 0 .. LastSeq
    BY <2>3, LastSeqIn DEF LastSeq
  <2>5. QED
    BY <2>1, <2>4 DEF TrimStep
<1>3. QED
  BY <1>1, <1>2

(* A trim leaves the newest number as it is. *)
LEMMA TrimKeepsLastSeq ==
  ASSUME TrimStep \/ UNCHANGED <<ringVars, dead>>
  PROVE  nextSeq' = nextSeq /\ dead' = dead
BY DEF TrimStep, TrimTo, ringVars

(* What every step has to show.                                            *)
RingStutters == [RingNext]_<<ringVars, dead>>
StreamTyped ==
  view \in [Viewers -> View] /\ frozen \in Nat /\ resyncDue \in BOOLEAN /\ hidden \in SUBSET Nat
StreamGood == ~dead => frozen <= LastSeq /\ AllGood

(* A step that serves one connection while the session lives.              *)
LEMMA ServedStep ==
  ASSUME StreamInv, ~dead, NEW c \in Viewers, NEW v, Good(v, LastSeq), Serve(c, v),
         MinAckTrim \/ UNCHANGED ringVars,
         UNCHANGED <<dead, frozen, resyncDue, hidden>>
  PROVE  RingStutters /\ StreamTyped' /\ StreamGood'
<1>1. StreamTyped /\ AllGood /\ frozen <= LastSeq
  BY DEF StreamInv, TypeOK, StreamTyped
<1>2. view' \in [Viewers -> View] /\ \A d \in Viewers : Good(view'[d], LastSeq)
  BY <1>1, ServeKeeps DEF StreamTyped
<1>3. TrimStep \/ UNCHANGED <<ringVars, dead>>
  BY <1>2, MinAckTrimIsTrim
<1>4. LastSeq' = LastSeq
  BY <1>3, TrimKeepsLastSeq DEF LastSeq
<1>5. RingStutters
  BY <1>3, Zenon DEF RingStutters, RingNext
<1>6. StreamTyped'
  BY <1>1, <1>2, Zenon DEF StreamTyped
<1>7. StreamGood'
  BY <1>1, <1>2, <1>4, Zenon DEF StreamGood, AllGood
<1>8. QED
  BY <1>5, <1>6, <1>7

(* A step that leaves the ring alone and may touch every connection.        *)
LEMMA EveryoneStep ==
  ASSUME StreamInv, ~dead,
         \A c \in Viewers : Good(view'[c], LastSeq),
         view' = [c \in Viewers |-> view'[c]],
         UNCHANGED <<ringVars, dead, hidden>>,
         frozen' \in Nat, frozen' <= LastSeq, resyncDue' \in BOOLEAN
  PROVE  RingStutters /\ StreamTyped' /\ StreamGood'
<1>1. hidden' \in SUBSET Nat
  BY DEF StreamInv, TypeOK
<1>2. \A c \in Viewers : view'[c] \in View
  BY Zenon DEF Good
<1>3. view' \in [Viewers -> View]
  BY <1>2, Zenon
<1>4. LastSeq' = LastSeq
  BY DEF ringVars, LastSeq
<1>5. StreamTyped'
  BY <1>1, <1>3, Zenon DEF StreamTyped
<1>6. StreamGood'
  BY <1>4, Zenon DEF StreamGood, AllGood
<1>7. RingStutters
  BY Zenon DEF RingStutters
<1>8. QED
  BY <1>5, <1>6, <1>7

(* Output: the ring takes the chunk, every fed viewer batches it.           *)
LEMMA OutputStep ==
  ASSUME StreamInv, NEW small \in BOOLEAN, NEW congested \in SUBSET Viewers,
         Output(small, congested)
  PROVE  RingStutters /\ StreamTyped' /\ StreamGood'
<1>1. /\ StreamTyped /\ AllGood /\ frozen <= LastSeq /\ frozen \in Nat
      /\ RingTypeOK /\ Window /\ ~dead /\ nextSeq \in Nat
  BY DEF StreamInv, TypeOK, StreamTyped, Output, RingInv, RingTypeOK
<1>2. PushStep
  BY ViewerAssumption DEF Output, PushStep
<1>3. LastSeq \in Nat /\ LastSeq' = nextSeq /\ LastSeq <= nextSeq
  <2>1. nextSeq' = nextSeq + 1
    BY DEF Output, Push
  <2>2. LastSeq \in Nat
    BY <1>1, LastSeqIn
  <2>3. QED
    BY <1>1, <2>1, <2>2 DEF LastSeq
<1>4. \A c \in Viewers : Good(view'[c], nextSeq)
  <2>1. SUFFICES ASSUME NEW c \in Viewers  PROVE Good(view'[c], nextSeq)
    OBVIOUS
  <2> DEFINE v == Quiet(view[c])
  <2>2. Good(v, nextSeq)
    BY <1>1, <1>3, QuietGood, GoodGrows DEF AllGood
  <2>3. view'[c] = IF frozen = NotFrozen /\ v.joined /\ ~v.paused
                   THEN Enqueue(v, nextSeq, small, c \in congested) ELSE v
    BY Zenon DEF Output
  <2> HIDE DEF v
  <2>4. CASE v.joined
    <3>1. Good(Enqueue(v, nextSeq, small, c \in congested), nextSeq)
      BY <1>1, <2>2, <2>4, EnqueueGood
    <3>2. QED
      BY <2>2, <2>3, <3>1, Zenon
  <2>5. CASE ~v.joined
    BY <2>2, <2>3, <2>5, Zenon
  <2>6. QED
    BY <2>4, <2>5
<1>5. view' \in [Viewers -> View]
  <2>1. \A c \in Viewers : view'[c] \in View
    BY <1>4, Zenon DEF Good
  <2>2. view' = [c \in Viewers |-> view'[c]]
    BY Zenon DEF Output
  <2>3. QED
    BY <2>1, <2>2, Zenon
<1>6. hidden' \in SUBSET Nat
  BY <1>1 DEF Output, StreamTyped
<1>7. frozen' = frozen /\ resyncDue' = resyncDue /\ dead' = dead
  BY DEF Output
<1>8. StreamTyped'
  BY <1>1, <1>5, <1>6, <1>7, Zenon DEF StreamTyped
<1>9. frozen' <= LastSeq'
  BY <1>1, <1>3, <1>7
<1>10. StreamGood'
  BY <1>3, <1>4, <1>9, Zenon DEF StreamGood, AllGood
<1>11. QED
  BY <1>2, <1>8, <1>10, Zenon DEF RingStutters, RingNext

(* The steps that serve one connection of a live session.                   *)
LEMMA ConnectionSteps ==
  ASSUME StreamInv, NEW c \in Viewers, NEW n \in Nat, NEW b \in BOOLEAN,
         \/ TimerFire(c, b) \/ DrainTick(c) \/ Attach(c, n, b) \/ Detach(c)
         \/ Snapshot(c) \/ Ack(c, n, b) \/ PauseView(c) \/ ResumeView(c, n, b)
  PROVE  RingStutters /\ StreamTyped' /\ StreamGood'
<1> DEFINE v == Quiet(view[c])
<1>1. ~dead
  BY DEF TimerFire, DrainTick, Attach, Detach, Snapshot, Ack, PauseView, ResumeView, Live
<1>2. RingTypeOK /\ Window /\ frozen \in Nat /\ frozen <= LastSeq /\ AllGood /\ n \in Nat
  BY <1>1, ViewerAssumption DEF StreamInv, TypeOK, RingInv
<1>3. Good(v, LastSeq) /\ v \in View /\ LastSeq \in Nat /\ LastSeq <= LastSeq
  BY <1>2, LastSeqIn, QuietGood DEF AllGood, Good
<1>4. CASE TimerFire(c, b)
  <2>1. Good(Flush(v, b), LastSeq)
    BY <1>3, FlushGood DEF Good, BatchOK
  <2>2. QED
    BY <1>1, <1>4, <2>1, ServedStep DEF TimerFire
<1>5. CASE DrainTick(c)
  <2> DEFINE w == [v EXCEPT !.pausedForBackpressure = FALSE, !.drainTimer = FALSE,
                            !.paused = FALSE]
  <2>1. Good(w, LastSeq)
    BY <1>3, DrainedGood
  <2>2. Good(SendSnapshot(w, LastSeq), LastSeq)
    BY <1>3, <2>1, SendSnapshotGood
  <2>3. QED
    BY <1>1, <1>5, <2>2, ServedStep DEF DrainTick
<1>6. CASE Attach(c, n, b)
  <2> DEFINE w == [ResetBatcherForResync(WithBatcher(v)) EXCEPT !.pausedView = FALSE]
             r == SendResync(w, n, b)
  <2>1. Good(w, LastSeq) /\ w.pausedForBackpressure = FALSE
    BY <1>2, PreparedGood DEF AllGood
  <2> HIDE DEF w
  <2>2. Good(r, LastSeq) /\ r.pausedForBackpressure = FALSE
    BY <1>2, <2>1, SendResyncGood DEF SendsOnly
  <2> HIDE DEF r
  <2>3. Good(WireSession(r), LastSeq)
    BY <2>2, WireSessionGood
  <2>4. Serve(c, WireSession(r)) /\ UNCHANGED ringVars
        /\ UNCHANGED <<dead, frozen, resyncDue, hidden>>
    BY <1>6 DEF Attach, r, w
  <2>5. QED
    BY <1>1, <2>3, <2>4, ServedStep
<1>7. CASE Detach(c)
  <2>1. Good([WithoutBatcher(v) EXCEPT !.joined = FALSE, !.paused = FALSE,
                                       !.ack = 0, !.have = {}], LastSeq)
    BY <1>3, DetachedGood
  <2>2. QED
    BY <1>1, <1>7, <2>1, ServedStep DEF Detach
<1>8. CASE Snapshot(c)
  <2> DEFINE w == WithBatcher(v)
             m == IF frozen /= NotFrozen THEN frozen ELSE LastSeq
  <2>1. Good(w, LastSeq) /\ m \in Nat /\ m <= LastSeq
    BY <1>2, <1>3, WithBatcherGood
  <2>2. Good(SendSnapshot(w, m), LastSeq)
    BY <2>1, SendSnapshotGood
  <2>3. QED
    BY <1>1, <1>8, <2>2, ServedStep DEF Snapshot
<1>9. CASE Ack(c, n, b)
  <2>1. AckAccepted(v, n)
    <3>1. view[c] \in View
      BY <1>2 DEF AllGood, Good
    <3>2. v.batcher = view[c].batcher /\ v.lastSentSeq = view[c].lastSentSeq /\ v.ack = view[c].ack
      BY <3>1, Zenon DEF Quiet, View
    <3>3. QED
      BY <1>9, <3>2, Zenon DEF Ack, AckAccepted
  <2>2. Good(HandleViewerAck(v, n, b), LastSeq)
    BY <1>2, <1>3, <2>1, HandleViewerAckGood
  <2>3. QED
    BY <1>1, <1>9, <2>2, ServedStep DEF Ack
<1>10. CASE PauseView(c)
  <2>1. Good([v EXCEPT !.paused = v.joined, !.pausedView = v.batcher], LastSeq)
    BY <1>3, PausedGood
  <2>2. QED
    BY <1>1, <1>10, <2>1, ServedStep DEF PauseView
<1>11. CASE ResumeView(c, n, b)
  <2> DEFINE w == [ResetBatcherForResync(WithBatcher(v)) EXCEPT !.pausedView = FALSE]
             r == SendResync(w, n, b)
  <2>1. Good(w, LastSeq) /\ w.pausedForBackpressure = FALSE
    BY <1>2, PreparedGood DEF AllGood
  <2> HIDE DEF w
  <2>2. Good(r, LastSeq) /\ r.pausedForBackpressure = FALSE
    BY <1>2, <2>1, SendResyncGood DEF SendsOnly
  <2> HIDE DEF r
  <2>3. Good([r EXCEPT !.paused = FALSE], LastSeq)
    BY <2>2, UnpausedGood
  <2>4. Serve(c, [r EXCEPT !.paused = FALSE]) /\ UNCHANGED ringVars
        /\ UNCHANGED <<dead, frozen, resyncDue, hidden>>
    BY <1>11 DEF ResumeView, r, w
  <2>5. QED
    BY <1>1, <2>3, <2>4, ServedStep
<1>12. QED
  BY <1>4, <1>5, <1>6, <1>7, <1>8, <1>9, <1>10, <1>11

(* A closing socket is served too, and may outlive the session.            *)
LEMMA CloseStep ==
  ASSUME StreamInv, NEW c \in Viewers, Close(c)
  PROVE  RingStutters /\ StreamTyped' /\ StreamGood'
<1> DEFINE w == [NewConnection EXCEPT !.open = FALSE]
<1>1. CASE ~dead
  <2>1. Good(w, LastSeq)
    BY <1>1, LastSeqIn, NewConnectionGood DEF StreamInv, TypeOK, RingInv
  <2>2. QED
    BY <1>1, <2>1, ServedStep DEF Close
<1>2. CASE dead
  <2>1. w \in View
    BY NewConnectionGood DEF Good
  <2>2. view \in [Viewers -> View] /\ StreamTyped
    BY DEF StreamInv, TypeOK, StreamTyped
  <2>3. \A d \in Viewers : Quiet(view[d]) \in View
    BY <2>2, EmptyIn, Zenon DEF Quiet, View
  <2> HIDE DEF w
  <2>4. view' \in [Viewers -> View]
    <3>1. \A d \in Viewers : (IF d = c THEN w ELSE Quiet(view[d])) \in View
      BY <2>1, <2>3, Zenon
    <3>2. view' = [d \in Viewers |-> IF d = c THEN w ELSE Quiet(view[d])]
      BY Zenon DEF Close, Serve, w
    <3>3. QED
      BY <3>1, <3>2, Zenon
  <2>5. UNCHANGED <<ringVars, dead, frozen, resyncDue, hidden>>
    BY <1>2 DEF Close
  <2>6. QED
    BY <1>2, <2>2, <2>4, <2>5, Zenon DEF StreamTyped, StreamGood, RingStutters
<1>3. QED
  BY <1>1, <1>2

(* Sleeping, waking and the resnapshot that follows.                       *)
LEMMA SessionSteps ==
  ASSUME StreamInv, Freeze \/ Thaw \/ SleepUndone \/ ResyncAll
  PROVE  RingStutters /\ StreamTyped' /\ StreamGood'
<1>1. ~dead
  BY DEF Freeze, Thaw, SleepUndone, ResyncAll
<1>2. /\ RingTypeOK /\ Window /\ frozen \in Nat /\ frozen <= LastSeq /\ AllGood
      /\ resyncDue \in BOOLEAN
  BY <1>1 DEF StreamInv, TypeOK, RingInv
<1>3. LastSeq \in Nat /\ LastSeq <= LastSeq /\ NotFrozen \in Nat /\ NotFrozen <= LastSeq
  BY <1>2, LastSeqIn DEF NotFrozen
<1>4. \A c \in Viewers : Good(Quiet(view[c]), LastSeq)
  BY <1>2, QuietGood DEF AllGood
<1>5. CASE Freeze
  <2>1. view' = [c \in Viewers |-> Quiet(view[c])]
    BY <1>5 DEF Freeze
  <2>2. \A c \in Viewers : Good(view'[c], LastSeq)
    BY <1>4, <2>1, Zenon
  <2>3. /\ view' = [c \in Viewers |-> view'[c]]
        /\ UNCHANGED <<ringVars, dead, hidden>>
        /\ frozen' = LastSeq /\ resyncDue' = resyncDue
    BY <1>5, <2>1 DEF Freeze
  <2>4. QED
    BY <1>1, <1>2, <1>3, <2>2, <2>3, EveryoneStep
<1>6. CASE Thaw \/ SleepUndone
  <2>1. view' = [c \in Viewers |-> Quiet(view[c])]
    BY <1>6 DEF Thaw, SleepUndone
  <2>2. \A c \in Viewers : Good(view'[c], LastSeq)
    BY <1>4, <2>1, Zenon
  <2>3. /\ view' = [c \in Viewers |-> view'[c]]
        /\ UNCHANGED <<ringVars, dead, hidden>>
        /\ frozen' = NotFrozen /\ resyncDue' \in BOOLEAN
    BY <1>2, <1>6, <2>1 DEF Thaw, SleepUndone
  <2>4. QED
    BY <1>1, <1>3, <2>2, <2>3, EveryoneStep
<1>7. CASE ResyncAll
  <2>1. \A c \in Viewers : Good(view'[c], LastSeq)
    <3>1. SUFFICES ASSUME NEW c \in Viewers  PROVE Good(view'[c], LastSeq)
      OBVIOUS
    <3> DEFINE v == Quiet(view[c])
    <3>2. view'[c] = IF v.joined THEN SendSnapshot(ResetBatcherForResync(v), LastSeq) ELSE v
      BY <1>7, Zenon DEF ResyncAll
    <3>3. Good(v, LastSeq)
      BY <1>4
    <3> HIDE DEF v
    <3>4. Good(SendSnapshot(ResetBatcherForResync(v), LastSeq), LastSeq)
      BY <1>3, <3>3, ResetGood, SendSnapshotGood
    <3>5. QED
      BY <3>2, <3>3, <3>4, Zenon
  <2>2. /\ view' = [c \in Viewers |-> view'[c]]
        /\ UNCHANGED <<ringVars, dead, hidden>>
        /\ frozen' = frozen /\ resyncDue' \in BOOLEAN
    BY <1>7 DEF ResyncAll
  <2>3. QED
    BY <1>1, <1>2, <2>1, <2>2, EveryoneStep
<1>8. QED
  BY <1>5, <1>6, <1>7

(* A view of a session that has ended is well typed. *)
LEMMA EndedType ==
  ASSUME NEW v \in View
  PROVE  /\ Ended(v) \in View
         /\ [Ended(v) EXCEPT !.out = Append(@, [cmd |-> "DESTROY", seqs |-> <<>>, seq |-> 0])]
              \in View
<1> DEFINE e == Ended(v)
           f == [cmd |-> "DESTROY", seqs |-> <<>>, seq |-> 0]
<1>1. 0 \in Nat
  OBVIOUS
<1>2. e \in View
  BY <1>1, EmptyIn, Zenon DEF Ended, WithoutBatcher, View
<1> HIDE DEF e
<1>3. e.out \in Seq(Frame)
  BY <1>2, Zenon DEF View
<1>4. f \in Frame
  BY DEF Frame
<1> HIDE DEF f
<1>5. Append(e.out, f) \in Seq(Frame)
  BY <1>3, <1>4
<1>6. [e EXCEPT !.out = Append(@, f)] \in View
  BY <1>2, <1>5, Zenon DEF View
<1>7. QED
  BY <1>2, <1>6 DEF e, f

(* Both ways a session ends.                                               *)
LEMMA EndSteps ==
  ASSUME StreamInv, Exit \/ \E c \in Viewers : Destroy(c)
  PROVE  RingStutters /\ StreamTyped' /\ StreamGood'
<1>1. ~dead /\ dead' = TRUE
  BY DEF Exit, Destroy, Live
<1>2. StreamTyped /\ AllGood
  BY <1>1 DEF StreamInv, TypeOK, StreamTyped
<1>3. \A c \in Viewers : Good(Quiet(view[c]), LastSeq)
  BY <1>2, QuietGood DEF AllGood
<1>4. frozen' = frozen /\ resyncDue' = resyncDue /\ hidden' = hidden
  BY DEF Exit, Destroy
<1>5. KillStep \/ ExitStep
  BY DEF Exit, Destroy, Live, KillStep, ExitStep
<1>6. view' \in [Viewers -> View]
  <2>1. CASE Exit
    <3>1. \A c \in Viewers : view'[c] \in View
      <4>1. SUFFICES ASSUME NEW c \in Viewers  PROVE view'[c] \in View
        OBVIOUS
      <4> DEFINE v == Quiet(view[c])
                 w == [v EXCEPT !.drainTimer = FALSE]
                 f == Flush(w, FALSE)
      <4>2. view'[c] = IF ~v.wired THEN v
                       ELSE [Ended(f) EXCEPT !.out = Append(@, [cmd |-> "DESTROY",
                                                                seqs |-> <<>>, seq |-> 0])]
        BY <2>1, Zenon DEF Exit
      <4>3. Good(v, LastSeq) /\ v \in View
        BY <1>3 DEF Good
      <4> HIDE DEF v
      <4>4. w \in View /\ SendsOnly(v, w) /\ w.lastSentSeq = v.lastSentSeq
        BY <4>3, Zenon DEF View, SendsOnly
      <4> HIDE DEF w
      <4>5. Good(w, LastSeq)
        BY <4>3, <4>4, Zenon DEF Good, InStream, BatchOK, StallOK, SendsOnly
      <4>6. f \in View
        BY <4>5, FlushGood DEF Good, BatchOK
      <4> HIDE DEF f
      <4>7. QED
        BY <4>2, <4>3, <4>6, EndedType, Zenon
    <3>2. view' = [c \in Viewers |-> view'[c]]
      BY <2>1, Zenon DEF Exit
    <3>3. QED
      BY <3>1, <3>2, Zenon
  <2>2. CASE \E c \in Viewers : Destroy(c)
    <3>1. PICK c \in Viewers : Destroy(c)
      BY <2>2
    <3>2. \A d \in Viewers : view'[d] \in View
      <4>1. SUFFICES ASSUME NEW d \in Viewers  PROVE view'[d] \in View
        OBVIOUS
      <4> DEFINE v == Quiet(view[d])
                 w == [v EXCEPT !.joined = FALSE, !.paused = FALSE]
      <4>2. view'[d] = IF d = c THEN WithoutBatcher(w) ELSE w
        BY <3>1, Zenon DEF Destroy
      <4>3. v \in View
        BY <1>3 DEF Good
      <4> HIDE DEF v
      <4>4. w \in View
        BY <4>3, Zenon DEF View
      <4> HIDE DEF w
      <4>5. 0 \in Nat
        OBVIOUS
      <4>6. WithoutBatcher(w) \in View
        BY <4>4, <4>5, EmptyIn, Zenon DEF WithoutBatcher, View
      <4>7. QED
        BY <4>2, <4>4, <4>6, Zenon
    <3>3. view' = [d \in Viewers |-> view'[d]]
      BY <3>1, Zenon DEF Destroy
    <3>4. QED
      BY <3>2, <3>3, Zenon
  <2>3. QED
    BY <2>1, <2>2
<1>7. StreamTyped'
  BY <1>2, <1>4, <1>6, Zenon DEF StreamTyped
<1>8. QED
  BY <1>1, <1>5, <1>7, Zenon DEF StreamGood, RingStutters, RingNext

(* The invariant holds at first, and the ring is in its initial state. *)
LEMMA StreamInit == Init => StreamInv /\ RingInit
<1> SUFFICES ASSUME Init  PROVE StreamInv /\ RingInit
  OBVIOUS
<1>1. RingInit /\ dead = FALSE
  BY DEF Init, RingInit
<1>2. RingTypeOK /\ RingInv
  BY <1>1, RingInitOK
<1>3. LastSeq \in Nat /\ NotFrozen \in Nat /\ NotFrozen <= LastSeq
  BY <1>1, <1>2, LastSeqIn DEF NotFrozen, RingInv
<1>4. PICK creators \in {{}} \cup {{c} : c \in Viewers}, first \in Created :
        view = [c \in Viewers |-> IF c \in creators THEN first ELSE NewConnection]
  BY Zenon DEF Init
<1>5. \A c \in Viewers : Good(view[c], LastSeq)
  <2>1. Good(WireSession(NewConnection), LastSeq) /\ Good(NewConnection, LastSeq)
    BY <1>3, NewConnectionGood
  <2>2. Good(SendSnapshot(WireSession(NewConnection), LastSeq), LastSeq)
    BY <1>3, <2>1, SendSnapshotGood
  <2>3. Good(first, LastSeq)
    BY <2>1, <2>2, Zenon DEF Created
  <2>4. QED
    BY <1>4, <2>1, <2>3, Zenon
<1>6. \A c \in Viewers : view[c] \in View
  BY <1>5, Zenon DEF Good
<1>7. view \in [Viewers -> View]
  BY <1>4, <1>6, Zenon
<1>8. frozen = NotFrozen /\ resyncDue = FALSE /\ hidden = {}
  BY DEF Init
<1>9. TypeOK
  BY <1>2, <1>3, <1>7, <1>8, Zenon DEF TypeOK
<1>10. QED
  BY <1>1, <1>2, <1>3, <1>5, <1>8, <1>9, Zenon DEF StreamInv, AllGood

(* Every step of the streams is a step of the ring's own specification or     *)
(* leaves the ring alone, and keeps the invariant.                         *)
LEMMA StreamStep == StreamInv /\ [Next]_vars => RingStutters /\ StreamInv'
<1> SUFFICES ASSUME StreamInv, [Next]_vars  PROVE RingStutters /\ StreamInv'
  OBVIOUS
<1>1. RingStutters /\ StreamTyped' /\ StreamGood'
  <2>1. CASE UNCHANGED vars
    <3>1. StreamTyped /\ StreamGood
      BY DEF StreamInv, TypeOK, StreamTyped, StreamGood
    <3>2. UNCHANGED <<ringVars, dead, view, frozen, resyncDue, hidden>> /\ LastSeq' = LastSeq
      BY <2>1 DEF vars, streamVars, ringVars, LastSeq
    <3>3. QED
      BY <3>1, <3>2, Zenon DEF RingStutters, StreamTyped, StreamGood, AllGood
  <2>2. CASE \E small \in BOOLEAN, congested \in SUBSET Viewers : Output(small, congested)
    BY <2>2, OutputStep
  <2>3. CASE \E c \in Viewers : Close(c)
    BY <2>3, CloseStep
  <2>4. CASE Freeze \/ Thaw \/ SleepUndone \/ ResyncAll
    BY <2>4, SessionSteps
  <2>5. CASE Exit \/ \E c \in Viewers : Destroy(c)
    BY <2>5, EndSteps
  <2>6. CASE \E c \in Viewers, s \in Nat, b \in BOOLEAN :
               \/ TimerFire(c, b) \/ DrainTick(c) \/ Attach(c, s, b) \/ Detach(c)
               \/ Snapshot(c) \/ Ack(c, s, b) \/ PauseView(c) \/ ResumeView(c, s, b)
    BY <2>6, ConnectionSteps
  <2>7. CASE Next
    <3>1. Claims \subseteq Nat /\ Forcings \subseteq BOOLEAN
      BY ViewerAssumption
    <3>2. CASE \E c \in Viewers, b \in BOOLEAN : TimerFire(c, b)
      <4>1. 0 \in Nat
        OBVIOUS
      <4>2. QED
        BY <2>6, <3>2, <4>1, Zenon
    <3>3. CASE \E c \in Viewers : DrainTick(c) \/ Detach(c) \/ Snapshot(c) \/ PauseView(c)
      <4>1. 0 \in Nat /\ TRUE \in BOOLEAN
        OBVIOUS
      <4>2. QED
        BY <2>6, <3>3, <4>1, Zenon
    <3>4. CASE \E c \in Viewers, s \in Claims, b \in Forcings :
                  Attach(c, s, b) \/ Ack(c, s, b) \/ ResumeView(c, s, b)
      <4>1. PICK c \in Viewers, s \in Claims, b \in Forcings :
                  Attach(c, s, b) \/ Ack(c, s, b) \/ ResumeView(c, s, b)
        BY <3>4
      <4>2. s \in Nat /\ b \in BOOLEAN
        BY <3>1
      <4>3. QED
        BY <2>6, <4>1, <4>2, Zenon
    <3>5. QED
      BY <2>2, <2>3, <2>4, <2>5, <2>7, <3>2, <3>3, <3>4, Zenon DEF Next
  <2>8. QED
    BY <2>1, <2>7
<1>2. RingTypeOK' /\ RingInv'
  BY <1>1, RingStepOK, Zenon DEF StreamInv, TypeOK, RingStutters
<1>3. QED
  BY <1>1, <1>2, Zenon DEF StreamInv, TypeOK, StreamTyped, StreamGood

-----------------------------------------------------------------------------
(* Whatever the connections, the thresholds and the claims of the clients,   *)
(* the state of session, ring and batchers stays well-formed (server.ts       *)
(* SessionBatcher, output-ring.ts).                                        *)
THEOREM StreamTypeCorrect == Spec => []TypeOK
<1>1. Spec => []StreamInv
  BY StreamInit, StreamStep, PTL DEF Spec
<1>2. StreamInv => TypeOK
  BY DEF StreamInv
<1>3. QED
  BY <1>1, <1>2, PTL

(* A batch always leaves: the timer that will flush it runs, and a viewer     *)
(* stalled by backpressure has nothing batched and is paused at the session  *)
(* (enqueueData, flush, resetBatcherForResync, handleViewerAck).           *)
THEOREM StreamBatchLeaves == Spec => []BatchLeaves
<1>1. Spec => []StreamInv
  BY StreamInit, StreamStep, PTL DEF Spec
<1>2. StreamInv => BatchLeaves
  BY Zenon DEF StreamInv, AllGood, Good, BatchOK, StallOK, BatchLeaves
<1>3. QED
  BY <1>1, <1>2, PTL

(* To the ring, the server with all its connections is the producer and       *)
(* consumer the ring's own specification allows: it numbers output only while *)
(* the session lives, never trims past the head - whatever a client claims -  *)
(* and clears it once, so all that is proved of the ring holds here.        *)
THEOREM StreamImplementsRing == Spec => Ring
<1>1. Spec => []StreamInv
  BY StreamInit, StreamStep, PTL DEF Spec
<1>2. Spec => RingInit
  BY StreamInit DEF Spec
<1>3. StreamInv /\ [Next]_vars => [RingNext]_<<ringVars, dead>>
  BY StreamStep DEF RingStutters
<1>4. QED
  BY <1>1, <1>2, <1>3, PTL DEF Spec, Ring, RingSpec

(* So the delta a resync replays from the ring is whole, byte for byte        *)
(* (sendResync, handleViewerAck).                                          *)
THEOREM StreamDeltaIsWhole == Spec => []DeltaIsWhole
<1>1. Spec => RingSpec
  BY StreamImplementsRing DEF Ring
<1>2. QED
  BY <1>1, RingDeltaIsWhole, PTL

-----------------------------------------------------------------------------
(* No viewer the server feeds is ever missing a chunk, and every stall has a   *)
(* way out, for every number of connections, every threshold and every length  *)
(* of stream.                                                              *)
(*                                                                         *)
(* The invariant is about one connection v at a time: h is the newest number, *)
(* z what the frozen screen stands for, H what was pushed while frozen.       *)

ChunksOf(seqs) == {seqs[i] : i \in 1 .. Len(seqs)}

Batched(v) == ChunksOf(v.pending)

Covered(v, H) == v.have \cup Batched(v) \cup H

Newest(v) == v.pending[Len(v.pending)]

Below(n, z) == z /= NotFrozen => n <= z

(* Nothing up to the head is missing; what a resync establishes and what     *)
(* holds as long as the viewer is fed.                                     *)
HeadCovered(v, h, H) == BaseSeq .. h \subseteq Covered(v, H)

(* The catch-up after a stall starts from lastSentSeq, so nothing up to      *)
(* there may be missing, and a flush moves it to the newest batched chunk,   *)
(* so nothing up to any batched chunk may.                                 *)
SentCovered(v, H) == BaseSeq .. v.lastSentSeq \subseteq v.have \cup H

BatchCovered(v, H) ==
  \A i \in 1 .. Len(v.pending) : BaseSeq .. v.pending[i] \subseteq Covered(v, H)

(* The batch is below its limit, its last chunk is its newest, and none of   *)
(* it was pushed while frozen.                                             *)
PendingOrdered(v, z) ==
  \A i \in 1 .. Len(v.pending) :
    v.pending[i] > 0 /\ v.pending[i] <= Newest(v) /\ Below(v.pending[i], z)

BatchOrdered(v, z) == Len(v.pending) < MaxBatch /\ PendingOrdered(v, z)

(* Acking lastSentSeq empties the window; only a snapshot, which starts the  *)
(* window over, may overtake the batch.                                    *)
WindowOrdered(v) ==
  /\ \A i \in 1 .. Len(v.sentEntries) : v.sentEntries[i] <= v.lastSentSeq
  /\ v.pending /= <<>> /\ (v.lastSentSeq > Newest(v) \/ v.ack > Newest(v))
       => v.sentEntries = <<>>

StreamSound(v, z, H) ==
  SentCovered(v, H) /\ BatchCovered(v, H) /\ BatchOrdered(v, z) /\ WindowOrdered(v)

(* The ack of what a stalled viewer was sent last would be accepted, and     *)
(* still after a screen of the frozen session.                             *)
StallEnds(v, z) ==
  v.lastSentSeq > 0 /\ v.ack <= v.lastSentSeq /\ Below(v.lastSentSeq, z)

AckAhead(v) == v.pending /= <<>> /\ v.ack > Newest(v)

FlagsSound(v, z) ==
  /\ v.joined => v.batcher
  /\ AckAhead(v) => v.acking
  /\ v.pausedForBackpressure => (v.drainTimer \/ v.acking) /\ StallEnds(v, z)

Sound(v, h, z, H) ==
  /\ Good(v, h)
  /\ Fed(v) => HeadCovered(v, h, H)
  /\ StreamSound(v, z, H)
  /\ FlagsSound(v, z)

-----------------------------------------------------------------------------
(* Two views that agree on the stream are covered alike.                    *)
SameStream(v, w) ==
  /\ w.pending = v.pending /\ w.sentEntries = v.sentEntries
  /\ w.lastSentSeq = v.lastSentSeq /\ w.ack = v.ack /\ w.have = v.have

(* Coverage and order are about the stream only. *)
LEMMA SameStreamSound ==
  ASSUME NEW v, NEW w, SameStream(v, w), NEW h, NEW z, NEW H
  PROVE  /\ StreamSound(v, z, H) => StreamSound(w, z, H)
         /\ HeadCovered(v, h, H) => HeadCovered(w, h, H)
         /\ StallEnds(v, z) => StallEnds(w, z)
         /\ AckAhead(w) => AckAhead(v)
<1>1. Batched(w) = Batched(v) /\ Newest(w) = Newest(v) /\ Covered(w, H) = Covered(v, H)
  BY Zenon DEF SameStream, Batched, Newest, Covered
<1>2. SentCovered(v, H) => SentCovered(w, H)
  BY Zenon DEF SameStream, SentCovered
<1>3. BatchCovered(v, H) => BatchCovered(w, H)
  BY <1>1, Zenon DEF SameStream, BatchCovered
<1>4. BatchOrdered(v, z) => BatchOrdered(w, z)
  BY <1>1, Zenon DEF SameStream, BatchOrdered, PendingOrdered
<1>5. WindowOrdered(v) => WindowOrdered(w)
  BY <1>1, Zenon DEF SameStream, WindowOrdered
<1>6. HeadCovered(v, h, H) => HeadCovered(w, h, H)
  BY <1>1, Zenon DEF HeadCovered
<1>7. StallEnds(v, z) => StallEnds(w, z)
  BY Zenon DEF SameStream, StallEnds
<1>8. AckAhead(w) => AckAhead(v)
  BY <1>1, Zenon DEF SameStream, AckAhead
<1>9. QED
  BY <1>2, <1>3, <1>4, <1>5, <1>6, <1>7, <1>8 DEF StreamSound

(* The flags a step may leave as they are. *)
SameFlags(v, w) ==
  /\ w.joined = v.joined /\ w.paused = v.paused /\ w.batcher = v.batcher
  /\ w.pausedForBackpressure = v.pausedForBackpressure /\ w.pausedView = v.pausedView
  /\ w.drainTimer = v.drainTimer /\ w.acking = v.acking

(* A view that is as sound as another but for fields no part is about. *)
LEMMA SameSound ==
  ASSUME NEW v, NEW w, SameStream(v, w), SameFlags(v, w),
         NEW h, NEW z, NEW H, Good(w, h),
         Fed(v) => HeadCovered(v, h, H), StreamSound(v, z, H), FlagsSound(v, z)
  PROVE  Sound(w, h, z, H)
<1>1. Fed(w) => HeadCovered(w, h, H)
  BY SameStreamSound, Zenon DEF SameFlags, Fed
<1>2. StreamSound(w, z, H)
  BY SameStreamSound, Zenon
<1>3. FlagsSound(w, z)
  BY SameStreamSound, Zenon DEF SameFlags, FlagsSound
<1>4. QED
  BY <1>1, <1>2, <1>3 DEF Sound

(* A view whose batch is empty. *)
LEMMA EmptyBatch ==
  ASSUME NEW v, v.pending = <<>>, NEW z, NEW H
  PROVE  /\ Batched(v) = {} /\ Covered(v, H) = v.have \cup H
         /\ BatchCovered(v, H) /\ BatchOrdered(v, z) /\ ~AckAhead(v)
         /\ WindowOrdered(v) <=> \A i \in 1 .. Len(v.sentEntries) : v.sentEntries[i] <= v.lastSentSeq
<1>1. 1 .. Len(<<>>) = {} /\ Len(<<>>) = 0
  OBVIOUS
<1>2. Batched(v) = {}
  BY <1>1, Zenon DEF Batched, ChunksOf
<1>3. Covered(v, H) = v.have \cup H
  BY <1>2 DEF Covered
<1>4. BatchCovered(v, H)
  BY <1>1, Zenon DEF BatchCovered
<1>5. BatchOrdered(v, z)
  <2>1. Len(v.pending) < MaxBatch
    BY <1>1, ViewerAssumption
  <2>2. QED
    BY <1>1, <2>1, Zenon DEF BatchOrdered, PendingOrdered
<1>6. QED
  BY <1>2, <1>3, <1>4, <1>5, Zenon DEF AckAhead, WindowOrdered

-----------------------------------------------------------------------------
(* What sending does to the stream.                                        *)

(* A snapshot starts the window over and covers all through its watermark.  *)
LEMMA SendSnapshotFields ==
  ASSUME NEW v \in View, NEW w \in Nat
  PROVE  LET s == SendSnapshot(v, w) IN
         /\ s.pending = v.pending /\ s.sentEntries = <<>> /\ s.lastSentSeq = w
         /\ s.ack = v.ack /\ s.have = BaseSeq .. w
         /\ SameFlags(v, s)
BY Zenon DEF SendSnapshot, View, SameFlags

(* A snapshot of everything that was not printed while frozen makes a viewer *)
(* whole, and keeps a stalled one able to ack.                             *)
LEMMA SnapshotSound ==
  ASSUME NEW h \in Nat, NEW z \in Nat, NEW H \in SUBSET Nat, NEW v, Good(v, h),
         BatchOrdered(v, z), FlagsSound(v, z),
         NEW w \in Nat, 0 < w, w <= h, BaseSeq .. h \subseteq (BaseSeq .. w) \cup H,
         v.pausedForBackpressure => v.ack <= w /\ Below(w, z)
  PROVE  LET s == SendSnapshot(v, w) IN Sound(s, h, z, H) /\ HeadCovered(s, h, H)
<1> DEFINE s == SendSnapshot(v, w)
<1>1. v \in View /\ Good(s, h)
  BY SendSnapshotGood DEF Good
<1>2. /\ s.pending = v.pending /\ s.sentEntries = <<>> /\ s.lastSentSeq = w
      /\ s.ack = v.ack /\ s.have = BaseSeq .. w
      /\ SameFlags(v, s)
  BY <1>1, SendSnapshotFields
<1>3. v.pending \in Seq(Nat) /\ \A i \in 1 .. Len(v.pending) : v.pending[i] <= h
  BY <1>1, Zenon DEF View, Good, InStream
<1>4. BaseSeq \in Nat
  BY RingAssumption
<1> HIDE DEF s
<1>5. HeadCovered(s, h, H)
  BY <1>2 DEF HeadCovered, Covered
<1>6. SentCovered(s, H)
  BY <1>2 DEF SentCovered
<1>7. BatchCovered(s, H)
  <2>1. SUFFICES ASSUME NEW i \in 1 .. Len(v.pending)
                 PROVE  BaseSeq .. v.pending[i] \subseteq Covered(s, H)
    BY <1>2 DEF BatchCovered
  <2>2. v.pending[i] \in Nat /\ v.pending[i] <= h
    BY <1>3
  <2>3. BaseSeq .. v.pending[i] \subseteq BaseSeq .. h
    BY <1>4, <2>2
  <2>4. QED
    BY <1>5, <2>3 DEF HeadCovered
<1>8. BatchOrdered(s, z)
  BY <1>2, Zenon DEF BatchOrdered, PendingOrdered, Newest
<1>9. WindowOrdered(s)
  BY <1>2, NoneBelow, Zenon DEF WindowOrdered
<1>10. FlagsSound(s, z)
  <2>1. AckAhead(s) <=> AckAhead(v)
    BY <1>2, Zenon DEF AckAhead, Newest
  <2>2. v.pausedForBackpressure => StallEnds(s, z)
    BY <1>2, Zenon DEF StallEnds
  <2>3. QED
    BY <1>2, <2>1, <2>2, Zenon DEF FlagsSound, SameFlags
<1>11. QED
  BY <1>1, <1>5, <1>6, <1>7, <1>8, <1>9, <1>10 DEF Sound, StreamSound, s

(* Data frames add their chunks to what is covered and a stamp each to the   *)
(* window, none above the newest.                                          *)
LEMMA SendDataFields ==
  ASSUME NEW v \in View, NEW seqs \in Seq(Nat), Len(seqs) > 0, NEW f \in Nat \ {0},
         \A i \in 1 .. Len(seqs) : seqs[i] <= seqs[Len(seqs)]
  PROVE  LET s == SendData(v, seqs, f) IN
         /\ s.pending = v.pending /\ s.lastSentSeq = seqs[Len(seqs)] /\ s.ack = v.ack
         /\ s.have = v.have \cup ChunksOf(seqs)
         /\ Len(s.sentEntries) = Len(v.sentEntries) + Len(seqs)
         /\ \A i \in 1 .. Len(v.sentEntries) : s.sentEntries[i] = v.sentEntries[i]
         /\ \A i \in 1 .. Len(s.sentEntries) :
              i > Len(v.sentEntries) => s.sentEntries[i] <= seqs[Len(seqs)]
         /\ SameFlags(v, s)
<1> DEFINE n == Len(seqs)
           s == SendData(v, seqs, f)
           g == [i \in 1 .. n |-> seqs[FrameEnd(i, n, f)]]
           e == v.sentEntries
<1>1. n \in Nat /\ n /= 0 /\ e \in Seq(Nat)
  <2>1. e \in Seq(Nat)
    BY Zenon DEF View
  <2>2. QED
    BY <2>1
<1>2. /\ s.pending = v.pending /\ s.lastSentSeq = seqs[n] /\ s.ack = v.ack
      /\ s.have = v.have \cup ChunksOf(seqs)
      /\ s.sentEntries = e \o g
      /\ SameFlags(v, s)
  BY <1>1, Zenon DEF SendData, View, SameFlags, ChunksOf
<1>3. \A i \in 1 .. n : g[i] \in Nat /\ g[i] <= seqs[n]
  <2>1. SUFFICES ASSUME NEW i \in 1 .. n  PROVE g[i] \in Nat /\ g[i] <= seqs[n]
    OBVIOUS
  <2>2. FrameEnd(i, n, f) \in 1 .. n
    BY <1>1, FrameEndIn
  <2>3. QED
    BY <2>2
<1>4. g \in Seq(Nat) /\ Len(g) = n
  BY <1>1, <1>3
<1> HIDE DEF g, s, e, n
<1>5. /\ Len(e \o g) = Len(e) + n
      /\ \A i \in 1 .. Len(e) : (e \o g)[i] = e[i]
      /\ \A i \in 1 .. Len(e \o g) : i > Len(e) => (e \o g)[i] = g[i - Len(e)] /\ i - Len(e) \in 1 .. n
  <2>1. /\ Len(e \o g) = Len(e) + Len(g)
        /\ \A i \in 1 .. Len(e) + Len(g) :
             (e \o g)[i] = IF i <= Len(e) THEN e[i] ELSE g[i - Len(e)]
    BY <1>1, <1>4, ConcatProperties, Zenon
  <2>2. Len(e) \in Nat
    BY <1>1
  <2>3. QED
    BY <1>1, <1>4, <2>1, <2>2
<1>6. \A i \in 1 .. Len(e \o g) : i > Len(e) => (e \o g)[i] <= seqs[n]
  BY <1>3, <1>5
<1>7. QED
  BY <1>2, <1>5, <1>6 DEF s, e, n

(* What is replayed since s are the numbers above s, all of them.           *)
LEMMA SinceSeqsAre ==
  ASSUME RingTypeOK, Window, NEW s \in Nat, s <= LastSeq, CanReplaySince(s)
  PROVE  LET d == SinceSeqs(s) IN
         /\ d \in Seq(Nat) /\ Len(d) = LastSeq - s
         /\ \A i \in 1 .. Len(d) : d[i] = s + i
<1>1. LastSeq \in Nat /\ s \in 0 .. LastSeq
  BY LastSeqIn
<1>2. Len(Since(s)) = LastSeq - s /\ \A i \in 1 .. Len(Since(s)) : Since(s)[i].seq = s + i
  BY <1>1, WindowMakesDeltaWhole
<1>3. QED
  BY <1>1, <1>2 DEF SinceSeqs

(* A delta from where nothing is missing makes an unstalled viewer without a *)
(* batch whole.                                                            *)
LEMMA DeltaSound ==
  ASSUME RingTypeOK, Window, NEW z, NEW H \in SUBSET Nat, NEW v, Good(v, LastSeq),
         v.pending = <<>>, v.pausedForBackpressure = FALSE, v.joined => v.batcher,
         WindowOrdered(v),
         NEW s \in Nat, s <= LastSeq, CanReplaySince(s), BaseSeq .. s \subseteq v.have \cup H,
         NEW f \in Nat \ {0}
  PROVE  LET r == SendData(v, SinceSeqs(s), f) IN
         Sound(r, LastSeq, z, H) /\ HeadCovered(r, LastSeq, H)
<1> DEFINE d == SinceSeqs(s)
           r == SendData(v, d, f)
           n == Len(d)
<1>1. /\ v \in View /\ LastSeq \in Nat /\ BaseSeq \in Nat /\ v.lastSentSeq \in Nat
      /\ v.lastSentSeq <= LastSeq /\ v.sentEntries \in Seq(Nat)
  BY LastSeqIn, RingAssumption, Zenon DEF Good, View, InStream
<1>2. d \in Seq(Nat) /\ n = LastSeq - s /\ \A i \in 1 .. n : d[i] = s + i
  BY SinceSeqsAre
<1>3. Good(r, LastSeq)
  <2>1. \A i \in 1 .. n : d[i] <= LastSeq
    BY <1>1, <1>2
  <2>2. QED
    BY <1>2, <2>1, SendDataGood
<1>4. \A i \in 1 .. Len(v.sentEntries) : v.sentEntries[i] <= v.lastSentSeq
  BY DEF WindowOrdered
<1> HIDE DEF d
<1>5. /\ r.pending = <<>> /\ SameFlags(v, r)
      /\ BaseSeq .. LastSeq \subseteq r.have \cup H
      /\ r.lastSentSeq \in Nat /\ r.lastSentSeq <= LastSeq
      /\ \A i \in 1 .. Len(r.sentEntries) : r.sentEntries[i] <= r.lastSentSeq
  <2>1. CASE n = 0
    <3>1. r = v
      BY <2>1, Zenon DEF SendData
    <3>2. s = LastSeq
      BY <1>1, <1>2, <2>1
    <3>3. QED
      BY <1>1, <1>4, <3>1, <3>2, Zenon DEF SameFlags
  <2>2. CASE n /= 0
    <3>1. n \in Nat /\ n > 0 /\ d[n] = LastSeq
      BY <1>1, <1>2, <2>2
    <3>2. \A i \in 1 .. n : d[i] <= d[n]
      BY <1>1, <1>2, <3>1
    <3>3. /\ r.pending = v.pending /\ r.lastSentSeq = d[n]
          /\ r.have = v.have \cup ChunksOf(d)
          /\ Len(r.sentEntries) = Len(v.sentEntries) + n
          /\ \A i \in 1 .. Len(v.sentEntries) : r.sentEntries[i] = v.sentEntries[i]
          /\ \A i \in 1 .. Len(r.sentEntries) :
               i > Len(v.sentEntries) => r.sentEntries[i] <= d[n]
          /\ SameFlags(v, r)
      <4>1. v \in View /\ d \in Seq(Nat) /\ f \in Nat \ {0}
        BY <1>1, <1>2
      <4>2. Len(d) > 0 /\ \A i \in 1 .. Len(d) : d[i] <= d[Len(d)]
        BY <3>1, <3>2
      <4>3. QED
        BY <4>1, <4>2, SendDataFields, ZenonT(40)
    <3> HIDE DEF r
    <3>4. BaseSeq .. LastSeq \subseteq r.have \cup H
      <4>1. SUFFICES ASSUME NEW x \in BaseSeq .. LastSeq  PROVE x \in r.have \cup H
        OBVIOUS
      <4>2. CASE x <= s
        BY <1>1, <3>3, <4>2
      <4>3. CASE x > s
        <5>1. x - s \in 1 .. n /\ d[x - s] = x
          BY <1>1, <1>2, <4>3
        <5>2. QED
          BY <3>3, <5>1 DEF ChunksOf
      <4>4. QED
        BY <1>1, <4>2, <4>3
    <3>5. \A i \in 1 .. Len(r.sentEntries) : r.sentEntries[i] <= r.lastSentSeq
      <4>1. SUFFICES ASSUME NEW i \in 1 .. Len(r.sentEntries)
                     PROVE  r.sentEntries[i] <= r.lastSentSeq
        OBVIOUS
      <4>2. CASE i > Len(v.sentEntries)
        BY <3>3, <4>2
      <4>3. CASE i <= Len(v.sentEntries)
        <5>1. i \in 1 .. Len(v.sentEntries)
          BY <1>1, <3>1, <3>3, <4>3
        <5>2. v.sentEntries[i] \in Nat /\ v.sentEntries[i] <= v.lastSentSeq
          BY <1>1, <1>4, <5>1
        <5>3. r.sentEntries[i] = v.sentEntries[i]
          BY <3>3, <5>1
        <5>4. QED
          BY <1>1, <3>1, <3>3, <5>2, <5>3
      <4>4. QED
        BY <1>1, <3>1, <3>3, <4>2, <4>3
    <3>6. r.pending = <<>> /\ SameFlags(v, r)
      BY <3>3, Zenon
    <3>7. r.lastSentSeq \in Nat /\ r.lastSentSeq <= LastSeq
      BY <1>1, <3>1, <3>3
    <3>8. QED
      BY <3>4, <3>5, <3>6, <3>7
  <2>3. QED
    BY <2>1, <2>2
<1> HIDE DEF r
<1>6. /\ Covered(r, H) = r.have \cup H /\ BatchCovered(r, H) /\ BatchOrdered(r, z)
      /\ ~AckAhead(r) /\ WindowOrdered(r)
  BY <1>5, EmptyBatch
<1>7. HeadCovered(r, LastSeq, H)
  BY <1>5, <1>6 DEF HeadCovered
<1>8. SentCovered(r, H)
  <2>1. BaseSeq .. r.lastSentSeq \subseteq BaseSeq .. LastSeq
    BY <1>1, <1>5
  <2>2. QED
    BY <1>5, <2>1 DEF SentCovered
<1>9. FlagsSound(r, z)
  BY <1>5, <1>6, Zenon DEF FlagsSound, SameFlags
<1>10. QED
  BY <1>3, <1>6, <1>7, <1>8, <1>9 DEF Sound, StreamSound, r, d

-----------------------------------------------------------------------------
(* The batcher.                                                            *)

(* A flush moves the batch to what is covered.  It stalls only a viewer      *)
(* whose window is above the high-water mark, which one batch alone cannot   *)
(* fill, so the last frame sent is not behind the last ack.                *)
LEMMA FlushSound ==
  ASSUME NEW h, NEW z, NEW H, NEW v, v \in View, InStream(v, h), StallOK(v),
         v.pending /= <<>> => v.joined, Fed(v) => HeadCovered(v, h, H),
         SentCovered(v, H), BatchCovered(v, H), PendingOrdered(v, z), WindowOrdered(v),
         Len(v.pending) <= MaxBatch, FlagsSound(v, z), NEW congested
  PROVE  Sound(Flush(v, congested), h, z, H)
<1> DEFINE r == Flush(v, congested)
           m == v.pending
           e == [v EXCEPT !.timer = FALSE, !.pending = <<>>]
           s == SendData(e, m, Len(m))
           p == [s EXCEPT !.pausedForBackpressure = TRUE, !.paused = s.joined,
                          !.drainTimer = s.drainTimer \/ ~s.acking]
<1>1. Good(r, h)
  BY FlushGood
<1>2. CASE m = <<>>
  <2>1. r = [v EXCEPT !.timer = FALSE]
    BY <1>2, Zenon DEF Flush
  <2>2. SameStream(v, r) /\ SameFlags(v, r)
    BY <2>1, Zenon DEF View, SameStream, SameFlags
  <2>3. StreamSound(v, z, H)
    BY <1>2, EmptyBatch DEF StreamSound
  <2> HIDE DEF r
  <2>4. QED
    BY <1>1, <2>2, <2>3, SameSound DEF r
<1>3. CASE m /= <<>>
  <2>1. /\ m \in Seq(Nat) /\ v.sentEntries \in Seq(Nat)
        /\ v.lastSentSeq \in Nat /\ v.ack \in Nat
    BY Zenon DEF View
  <2>2. Len(m) \in Nat \ {0} /\ Len(m) > 0 /\ Len(m) \in 1 .. Len(m) /\ m[Len(m)] \in Nat
    BY <1>3, <2>1
  <2>3. /\ e \in View /\ e.pending = <<>> /\ e.sentEntries = v.sentEntries
        /\ e.lastSentSeq = v.lastSentSeq /\ e.ack = v.ack /\ e.have = v.have
        /\ SameFlags(v, e)
    BY EmptyIn, Zenon DEF View, SameFlags
  <2>4. \A i \in 1 .. Len(m) : m[i] <= m[Len(m)] /\ m[i] > 0 /\ Below(m[i], z)
    BY DEF PendingOrdered, Newest
  <2> HIDE DEF e, m
  <2>5. /\ s.pending = <<>> /\ s.lastSentSeq = m[Len(m)] /\ s.ack = v.ack
        /\ s.have = v.have \cup ChunksOf(m)
        /\ Len(s.sentEntries) = Len(v.sentEntries) + Len(m)
        /\ \A i \in 1 .. Len(v.sentEntries) : s.sentEntries[i] = v.sentEntries[i]
        /\ \A i \in 1 .. Len(s.sentEntries) :
             i > Len(v.sentEntries) => s.sentEntries[i] <= m[Len(m)]
        /\ SameFlags(e, s)
    <3>1. \A i \in 1 .. Len(m) : m[i] <= m[Len(m)]
      BY <2>4
    <3>2. /\ s.pending = e.pending /\ s.lastSentSeq = m[Len(m)] /\ s.ack = e.ack
          /\ s.have = e.have \cup ChunksOf(m)
          /\ Len(s.sentEntries) = Len(e.sentEntries) + Len(m)
          /\ \A i \in 1 .. Len(e.sentEntries) : s.sentEntries[i] = e.sentEntries[i]
          /\ \A i \in 1 .. Len(s.sentEntries) :
               i > Len(e.sentEntries) => s.sentEntries[i] <= m[Len(m)]
          /\ SameFlags(e, s)
      BY <2>1, <2>2, <2>3, <3>1, SendDataFields, Zenon
    <3> HIDE DEF s
    <3>3. QED
      BY <2>3, <3>2, Zenon
  <2>6. SameFlags(v, s)
    BY <2>3, <2>5, Zenon DEF SameFlags
  <2>7. s \in View
    BY <2>1, <2>2, <2>3, SendDataType
  <2> HIDE DEF s
  <2>8. m[Len(m)] = Newest(v) /\ Batched(v) = ChunksOf(m)
    BY DEF Newest, Batched, m
  <2>9. SentCovered(s, H)
    <3>1. BaseSeq .. m[Len(m)] \subseteq Covered(v, H)
      BY <2>2 DEF BatchCovered, m
    <3>2. QED
      BY <2>5, <2>8, <3>1 DEF SentCovered, Covered
  <2>10. HeadCovered(v, h, H) => HeadCovered(s, h, H)
    BY <2>5, <2>8 DEF HeadCovered, Covered
  <2>11. v.lastSentSeq > m[Len(m)] \/ v.ack > m[Len(m)] => v.sentEntries = <<>>
    BY <1>3, <2>8, Zenon DEF WindowOrdered, m
  <2>12. \A i \in 1 .. Len(s.sentEntries) : s.sentEntries[i] <= s.lastSentSeq
    <3>1. SUFFICES ASSUME NEW i \in 1 .. Len(s.sentEntries)
                   PROVE  s.sentEntries[i] <= m[Len(m)]
      BY <2>5
    <3>2. CASE i > Len(v.sentEntries)
      BY <2>5, <3>2
    <3>3. CASE i <= Len(v.sentEntries)
      <4>1. i \in 1 .. Len(v.sentEntries) /\ v.sentEntries /= <<>>
        BY <2>1, <2>2, <2>5, <3>3
      <4>2. v.sentEntries[i] \in Nat /\ v.sentEntries[i] <= v.lastSentSeq
        BY <2>1, <4>1 DEF WindowOrdered
      <4>3. s.sentEntries[i] = v.sentEntries[i]
        BY <2>5, <4>1
      <4>4. QED
        BY <2>1, <2>2, <2>11, <4>1, <4>2, <4>3
    <3>4. QED
      BY <2>1, <2>2, <2>5, <3>2, <3>3
  <2>13. StreamSound(s, z, H) /\ ~AckAhead(s)
    BY <2>5, <2>9, <2>12, EmptyBatch, Zenon DEF StreamSound
  <2>14. ~v.pausedForBackpressure
    BY <1>3, Zenon DEF StallOK, m
  <2>15. r = s \/ (r = p /\ Stalls(s, congested))
    BY <1>3, Zenon DEF Flush, e, m, s
  <2>16. CASE r = s
    <3>1. Fed(s) => HeadCovered(s, h, H)
      BY <2>6, <2>10, Zenon DEF Fed, SameFlags
    <3>2. FlagsSound(s, z)
      BY <2>6, <2>13, <2>14, Zenon DEF FlagsSound, SameFlags
    <3>3. QED
      BY <1>1, <2>13, <2>16, <3>1, <3>2 DEF Sound
  <2>17. CASE r = p /\ Stalls(s, congested)
    <3>1. (s.drainTimer \/ ~s.acking) \in BOOLEAN
      OBVIOUS
    <3>2. /\ SameStream(s, p) /\ p.joined = s.joined /\ p.batcher = s.batcher
          /\ p.acking = s.acking /\ p.pausedForBackpressure = TRUE
          /\ p.drainTimer = (s.drainTimer \/ ~s.acking)
      BY <2>7, <3>1, Zenon DEF View, SameStream
    <3> HIDE DEF p
    <3>3. v.ack <= m[Len(m)]
      <4>1. SUFFICES ASSUME v.ack > m[Len(m)]  PROVE FALSE
        BY <2>1, <2>2
      <4>2. AckAhead(v)
        BY <1>3, <2>8, <4>1 DEF AckAhead, m
      <4>3. s.acking
        BY <2>6, <4>2, Zenon DEF FlagsSound, SameFlags
      <4>4. Len(s.sentEntries) > AckHigh
        BY <2>17, <4>3, Zenon DEF Stalls
      <4>5. Len(v.sentEntries) = 0
        BY <2>11, <4>1
      <4>6. Len(m) <= MaxBatch
        BY DEF m
      <4>7. QED
        BY <2>2, <2>5, <4>4, <4>5, <4>6, ViewerAssumption
    <3>4. StallEnds(s, z)
      BY <2>2, <2>4, <2>5, <3>3 DEF StallEnds
    <3>5. StreamSound(p, z, H) /\ StallEnds(p, z) /\ ~AckAhead(p)
      BY <2>13, <3>2, <3>4, SameStreamSound, Zenon
    <3>6. FlagsSound(p, z)
      BY <2>6, <3>2, <3>5, Zenon DEF FlagsSound, SameFlags
    <3>7. ~Fed(p)
      BY <3>2, Zenon DEF Fed
    <3>8. QED
      BY <1>1, <2>17, <3>5, <3>6, <3>7 DEF Sound
  <2>18. QED
    BY <2>15, <2>16, <2>17
<1>4. QED
  BY <1>2, <1>3

(* What a batch is with one more chunk.                                    *)
LEMMA AppendedBatch ==
  ASSUME NEW s \in Seq(Nat), NEW n \in Nat
  PROVE  LET a == Append(s, n) IN
         /\ a \in Seq(Nat) /\ a /= <<>> /\ Len(a) = Len(s) + 1 /\ a[Len(a)] = n
         /\ \A i \in 1 .. Len(s) : a[i] = s[i]
         /\ \A i \in 1 .. Len(a) : i \in 1 .. Len(s) \/ i = Len(a)
         /\ ChunksOf(a) = ChunksOf(s) \cup {n}
<1> DEFINE a == Append(s, n)
<1>1. /\ a \in Seq(Nat) /\ a /= <<>> /\ Len(a) = Len(s) + 1 /\ a[Len(a)] = n /\ Len(s) \in Nat
      /\ \A i \in 1 .. Len(s) : a[i] = s[i]
  OBVIOUS
<1> HIDE DEF a
<1>2. /\ \A i \in 1 .. Len(a) : i \in 1 .. Len(s) \/ i = Len(a)
      /\ 1 .. Len(s) \subseteq 1 .. Len(a) /\ Len(a) \in 1 .. Len(a)
  BY <1>1
<1>3. ChunksOf(a) = ChunksOf(s) \cup {n}
  BY <1>1, <1>2 DEF ChunksOf
<1>4. QED
  BY <1>1, <1>2, <1>3 DEF a

(* The newest chunk joins the batch of a fed viewer, which stays covered.   *)
LEMMA EnqueueSound ==
  ASSUME NEW h \in Nat, NEW H, NEW v, Sound(v, h, NotFrozen, H), v.joined, ~v.paused,
         NEW n, n = h + 1, NEW small, NEW congested
  PROVE  Sound(Enqueue(v, n, small, congested), n, NotFrozen, H)
<1> DEFINE a == Append(v.pending, n)
           p == [v EXCEPT !.pending = Append(@, n)]
           t == [p EXCEPT !.timer = TRUE]
           r == Enqueue(v, n, small, congested)
<1>1. n \in Nat /\ h <= n /\ h < n /\ 0 < n
  OBVIOUS
<1>2. /\ v \in View /\ v.pending \in Seq(Nat) /\ v.ack \in Nat /\ v.lastSentSeq \in Nat
      /\ Good(v, h) /\ Good(v, n)
  BY <1>1, GoodGrows, Zenon DEF Sound, Good, View
<1>3. Good(r, n)
  BY <1>1, <1>2, EnqueueGood
<1>4. StreamSound(v, NotFrozen, H) /\ FlagsSound(v, NotFrozen)
  BY DEF Sound
<1>5. CASE v.pausedView \/ v.pausedForBackpressure
  <2>1. r = v /\ ~Fed(v)
    BY <1>5, Zenon DEF Enqueue, Fed
  <2>2. QED
    BY <1>2, <1>4, <2>1 DEF Sound
<1>6. CASE ~(v.pausedView \/ v.pausedForBackpressure)
  <2>1. HeadCovered(v, h, H)
    BY <1>6, Zenon DEF Sound, Fed
  <2>2. /\ a \in Seq(Nat) /\ a /= <<>> /\ Len(a) = Len(v.pending) + 1 /\ a[Len(a)] = n
        /\ \A i \in 1 .. Len(v.pending) : a[i] = v.pending[i]
        /\ \A i \in 1 .. Len(a) : i \in 1 .. Len(v.pending) \/ i = Len(a)
        /\ ChunksOf(a) = ChunksOf(v.pending) \cup {n}
    BY <1>1, <1>2, AppendedBatch
  <2>3. /\ p \in View /\ p.pending = a /\ p.sentEntries = v.sentEntries
        /\ p.lastSentSeq = v.lastSentSeq /\ p.ack = v.ack /\ p.have = v.have
        /\ SameFlags(v, p)
    BY <1>2, <2>2, Zenon DEF View, SameFlags
  <2>4. r = Flush(p, congested) \/ (r = t /\ ~(Len(p.pending) >= MaxBatch))
    BY <1>6, Zenon DEF Enqueue
  <2>5. SameStream(p, t) /\ SameFlags(p, t)
    BY <2>3, Zenon DEF View, SameStream, SameFlags
  <2> HIDE DEF a, p, r, t
  <2>6. Newest(p) = n /\ Covered(p, H) = Covered(v, H) \cup {n}
    BY <2>2, <2>3 DEF Newest, Covered, Batched
  <2>7. BaseSeq \in Nat
    BY RingAssumption
  <2>8. BaseSeq .. n \subseteq Covered(p, H)
    <3>1. BaseSeq .. h \subseteq Covered(v, H)
      BY <2>1 DEF HeadCovered
    <3>2. BaseSeq .. n \subseteq (BaseSeq .. h) \cup {n}
      BY <2>7
    <3>3. QED
      BY <2>6, <3>1, <3>2
  <2>9. \A i \in 1 .. Len(a) : a[i] \in Nat /\ a[i] > 0 /\ a[i] <= n
    <3>1. SUFFICES ASSUME NEW i \in 1 .. Len(a)  PROVE a[i] \in Nat /\ a[i] > 0 /\ a[i] <= n
      OBVIOUS
    <3>2. CASE i = Len(a)
      BY <1>1, <2>2, <3>2
    <3>3. CASE i \in 1 .. Len(v.pending)
      <4>1. v.pending[i] \in Nat /\ v.pending[i] > 0 /\ v.pending[i] <= n
        BY <1>2, <1>4, <3>3
           DEF StreamSound, BatchOrdered, PendingOrdered, Good, InStream
      <4>2. QED
        BY <2>2, <3>3, <4>1
    <3>4. QED
      BY <2>2, <3>2, <3>3
  <2>10. SentCovered(p, H)
    BY <1>4, <2>3 DEF StreamSound, SentCovered
  <2>11. BatchCovered(p, H)
    <3>1. SUFFICES ASSUME NEW i \in 1 .. Len(a)  PROVE BaseSeq .. a[i] \subseteq Covered(p, H)
      BY <2>3 DEF BatchCovered
    <3>2. BaseSeq .. a[i] \subseteq BaseSeq .. n
      BY <1>1, <2>7, <2>9
    <3>3. QED
      BY <2>8, <3>2
  <2>12. PendingOrdered(p, NotFrozen)
    BY <2>3, <2>6, <2>9 DEF PendingOrdered, Below
  <2>13. ~(v.lastSentSeq > n) /\ ~(v.ack > n)
    <3>1. v.lastSentSeq <= h /\ v.ack <= h
      BY <1>2 DEF Good, InStream
    <3>2. QED
      BY <1>1, <1>2, <3>1
  <2>14. WindowOrdered(p) /\ ~AckAhead(p)
    <3>1. \A i \in 1 .. Len(v.sentEntries) : v.sentEntries[i] <= v.lastSentSeq
      BY <1>4 DEF StreamSound, WindowOrdered
    <3>2. QED
      BY <2>3, <2>6, <2>13, <3>1, Zenon DEF WindowOrdered, AckAhead
  <2>15. FlagsSound(p, NotFrozen)
    BY <1>4, <1>6, <2>3, <2>14, Zenon DEF FlagsSound, SameFlags
  <2>16. HeadCovered(p, n, H)
    BY <2>8 DEF HeadCovered
  <2>17. CASE r = Flush(p, congested)
    <3>1. InStream(p, n)
      <4>1. v.ack <= n /\ v.lastSentSeq <= n
        BY <1>2 DEF Good, InStream
      <4>2. \A i \in 1 .. Len(a) : a[i] <= n
        BY <2>9
      <4>3. QED
        BY <2>3, <4>1, <4>2, Zenon DEF InStream
    <3>2. StallOK(p) /\ p.joined
      BY <1>6, <2>3, Zenon DEF StallOK, SameFlags
    <3>3. Len(p.pending) <= MaxBatch
      <4>1. Len(v.pending) < MaxBatch
        BY <1>4 DEF StreamSound, BatchOrdered
      <4>2. QED
        BY <1>2, <2>2, <2>3, <4>1, ViewerAssumption
    <3>4. Sound(Flush(p, congested), n, NotFrozen, H)
      BY <2>3, <2>10, <2>11, <2>12, <2>14, <2>15, <2>16, <3>1, <3>2, <3>3, FlushSound
    <3>5. QED
      BY <2>17, <3>4 DEF r
  <2>18. CASE r = t /\ ~(Len(p.pending) >= MaxBatch)
    <3>1. Len(p.pending) < MaxBatch
      BY <2>2, <2>3, <2>18, ViewerAssumption
    <3>2. StreamSound(p, NotFrozen, H)
      BY <2>10, <2>11, <2>12, <2>14, <3>1 DEF StreamSound, BatchOrdered
    <3>3. Sound(t, n, NotFrozen, H)
      BY <1>3, <2>5, <2>15, <2>16, <2>18, <3>2, SameSound, Zenon
    <3>4. QED
      BY <2>18, <3>3 DEF r
  <2>19. QED
    BY <2>4, <2>17, <2>18
<1>7. QED
  BY <1>5, <1>6

-----------------------------------------------------------------------------
(* The handlers.                                                           *)

(* An accepted ack shortens the window; a stalled viewer that is caught up   *)
(* gets everything after what it was sent last.                            *)
LEMMA HandleViewerAckSound ==
  ASSUME RingTypeOK, Window, NEW z \in Nat, NEW H \in SUBSET Nat,
         NEW v, Sound(v, LastSeq, z, H), 0 < LastSeq,
         NEW seq \in Nat, AckAccepted(v, seq), NEW forced
  PROVE  Sound(HandleViewerAck(v, seq, forced), LastSeq, z, H)
<1> DEFINE n == Len(v.sentEntries)
           k == Acked(v, seq)
           q == SubSeq(v.sentEntries, k + 1, n)
           a == [v EXCEPT !.ack = seq, !.acking = TRUE, !.sentEntries = q]
           r == [a EXCEPT !.pausedForBackpressure = FALSE, !.paused = FALSE]
           s == HandleViewerAck(v, seq, forced)
<1>1. /\ v \in View /\ v.sentEntries \in Seq(Nat) /\ v.lastSentSeq \in Nat
      /\ LastSeq \in Nat /\ LastSeq <= LastSeq /\ v.pending \in Seq(Nat)
      /\ n \in Nat /\ BaseSeq \in Nat
  <2>1. /\ v \in View /\ v.sentEntries \in Seq(Nat) /\ v.lastSentSeq \in Nat
        /\ v.pending \in Seq(Nat)
    BY Zenon DEF Sound, Good, View
  <2>2. n \in Nat
    BY <2>1
  <2>3. LastSeq \in Nat /\ LastSeq <= LastSeq /\ BaseSeq \in Nat
    BY LastSeqIn, RingAssumption
  <2>4. QED
    BY <2>1, <2>2, <2>3
<1>2. seq <= v.lastSentSeq /\ v.lastSentSeq <= LastSeq /\ Good(v, LastSeq)
  BY DEF AckAccepted, Sound, Good, InStream
<1>3. StreamSound(v, z, H) /\ FlagsSound(v, z)
  BY DEF Sound
<1>4. Good(s, LastSeq)
  BY <1>2, HandleViewerAckGood
<1>5. k \in 0 .. n
  BY <1>1, AckedIn
<1> HIDE DEF k
<1>6. /\ q \in Seq(Nat) /\ Len(q) = n - k
      /\ \A i \in 1 .. Len(q) : q[i] = v.sentEntries[k + i] /\ k + i \in 1 .. n
  <2>1. q \in Seq(Nat) /\ Len(q) = n - k
    BY <1>1, <1>5, SubSeqProperties
  <2>2. \A i \in 1 .. n - k : q[i] = v.sentEntries[k + i] /\ k + i \in 1 .. n
    BY <1>1, <1>5
  <2>3. QED
    BY <2>1, <2>2
<1>7. v.sentEntries = <<>> => q = <<>>
  <2>1. SUFFICES ASSUME v.sentEntries = <<>>  PROVE q = <<>>
    OBVIOUS
  <2>2. Len(q) = 0
    BY <1>5, <1>6, <2>1
  <2>3. QED
    BY <1>6, <2>2
<1>8. \A i \in 1 .. Len(q) : q[i] <= v.lastSentSeq
  BY <1>3, <1>6 DEF StreamSound, WindowOrdered
<1> HIDE DEF q, n
<1>9. /\ a \in View /\ a.pending = v.pending /\ a.sentEntries = q
      /\ a.lastSentSeq = v.lastSentSeq /\ a.ack = seq /\ a.have = v.have
      /\ a.joined = v.joined /\ a.paused = v.paused /\ a.batcher = v.batcher
      /\ a.pausedForBackpressure = v.pausedForBackpressure /\ a.pausedView = v.pausedView
      /\ a.drainTimer = v.drainTimer /\ a.acking = TRUE
  BY <1>1, <1>6, Zenon DEF View
<1> HIDE DEF a
<1>10. Newest(a) = Newest(v) /\ Batched(a) = Batched(v) /\ Covered(a, H) = Covered(v, H)
  BY <1>9, Zenon DEF Newest, Batched, Covered
<1>11. StreamSound(a, z, H)
  <2>1. SentCovered(a, H) /\ BatchCovered(a, H) /\ BatchOrdered(a, z)
    BY <1>3, <1>9, <1>10, Zenon
       DEF StreamSound, SentCovered, BatchCovered, BatchOrdered, PendingOrdered
  <2>2. a.pending /= <<>> /\ (a.lastSentSeq > Newest(a) \/ a.ack > Newest(a))
           => a.sentEntries = <<>>
    <3>1. SUFFICES ASSUME v.pending /= <<>>, v.lastSentSeq > Newest(v) \/ seq > Newest(v)
                   PROVE  v.sentEntries = <<>>
      BY <1>7, <1>9, <1>10
    <3>2. Newest(v) \in Nat
      BY <1>1, <3>1 DEF Newest
    <3>3. v.lastSentSeq > Newest(v)
      BY <1>1, <1>2, <3>1, <3>2
    <3>4. QED
      BY <1>3, <3>1, <3>3 DEF StreamSound, WindowOrdered
  <2>3. WindowOrdered(a)
    BY <1>8, <1>9, <2>2, Zenon DEF WindowOrdered
  <2>4. QED
    BY <2>1, <2>3 DEF StreamSound
<1>12. CASE s = a
  <2>1. Fed(a) => HeadCovered(a, LastSeq, H)
    BY <1>9, <1>10, Zenon DEF Sound, Fed, HeadCovered
  <2>2. v.pausedForBackpressure => StallEnds(a, z)
    BY <1>2, <1>3, <1>9, Zenon DEF FlagsSound, StallEnds
  <2>3. FlagsSound(a, z)
    BY <1>3, <1>9, <2>2, Zenon DEF FlagsSound
  <2>4. QED
    BY <1>4, <1>11, <1>12, <2>1, <2>3 DEF Sound
<1>13. CASE s /= a
  <2>1. a.pausedForBackpressure
    BY <1>13, Zenon DEF HandleViewerAck, a, q, n, k
  <2>2. s = SendSnapshot(r, LastSeq)
        \/ (CanReplaySince(r.lastSentSeq) /\ s = SendData(r, SinceSeqs(r.lastSentSeq), 1))
    BY <1>13, Zenon DEF HandleViewerAck, a, q, n, k
  <2>3. /\ r \in View /\ SameStream(a, r) /\ r.pausedForBackpressure = FALSE
        /\ r.joined = a.joined /\ r.batcher = a.batcher /\ r.acking = a.acking
        /\ r.lastSentSeq = a.lastSentSeq /\ r.pending = a.pending /\ r.ack = a.ack
    BY <1>9, Zenon DEF View, SameStream
  <2> HIDE DEF r, s
  <2>4. r.pending = <<>>
    BY <1>2, <1>9, <2>1, <2>3, Zenon DEF Good, BatchOK, StallOK
  <2>5. StreamSound(r, z, H)
    BY <1>11, <2>3, SameStreamSound
  <2>6. FlagsSound(r, z) /\ (r.joined => r.batcher)
    BY <1>3, <1>9, <2>3, <2>4, Zenon DEF FlagsSound, AckAhead
  <2>7. Good(r, LastSeq)
    <3>1. r.ack <= LastSeq /\ r.lastSentSeq <= LastSeq
      BY <1>1, <1>2, <1>9, <2>3
    <3>2. QED
      BY <2>3, <2>4, <3>1, NoneBelow, Zenon DEF Good, InStream, BatchOK, StallOK
  <2>8. CASE s = SendSnapshot(r, LastSeq)
    <3>1. Sound(SendSnapshot(r, LastSeq), LastSeq, z, H)
      BY <1>1, <2>3, <2>5, <2>6, <2>7, SnapshotSound DEF StreamSound
    <3>2. QED
      BY <2>8, <3>1 DEF s
  <2>9. CASE CanReplaySince(r.lastSentSeq) /\ s = SendData(r, SinceSeqs(r.lastSentSeq), 1)
    <3>1. r.lastSentSeq \in Nat /\ r.lastSentSeq <= LastSeq /\ 1 \in Nat \ {0}
      BY <1>1, <1>2, <1>9, <2>3
    <3>2. BaseSeq .. r.lastSentSeq \subseteq r.have \cup H
      BY <2>5 DEF StreamSound, SentCovered
    <3>3. WindowOrdered(r)
      BY <2>5 DEF StreamSound
    <3>4. Sound(SendData(r, SinceSeqs(r.lastSentSeq), 1), LastSeq, z, H)
      BY <2>3, <2>4, <2>6, <2>7, <2>9, <3>1, <3>2, <3>3, DeltaSound
    <3>5. QED
      BY <2>9, <3>4 DEF s
  <2>10. QED
    BY <2>2, <2>8, <2>9
<1>14. QED
  BY <1>12, <1>13

(* What the frozen screen does not show was printed while frozen.           *)
HiddenOK(z, h, H) ==
  z /= NotFrozen => /\ z <= h /\ BaseSeq - 1 <= z
                    /\ z + 1 .. h \subseteq H

(* The watermark of a snapshot - frozen screen or head - leaves out nothing  *)
(* that was not printed while frozen.                                      *)
LEMMA WatermarkCovers ==
  ASSUME NEW h \in Nat, BaseSeq - 1 <= h, NEW z \in Nat, NEW H, HiddenOK(z, h, H)
  PROVE  LET w == IF z /= NotFrozen THEN z ELSE h IN
         /\ w \in Nat /\ 0 < w /\ w <= h /\ Below(w, z) /\ 0 < h
         /\ BaseSeq .. h \subseteq (BaseSeq .. w) \cup H
<1>1. BaseSeq \in Nat /\ BaseSeq > 1
  BY RingAssumption
<1>2. CASE z = NotFrozen
  BY <1>1, <1>2 DEF Below
<1>3. CASE z /= NotFrozen
  <2>1. z <= h /\ BaseSeq - 1 <= z /\ z + 1 .. h \subseteq H
    BY <1>3 DEF HiddenOK
  <2>2. BaseSeq .. h \subseteq (BaseSeq .. z) \cup (z + 1 .. h)
    BY <1>1
  <2>3. QED
    BY <1>1, <1>3, <2>1, <2>2 DEF Below
<1>4. QED
  BY <1>2, <1>3

(* A resync makes a viewer whole, whatever the client says it has.          *)
LEMMA SendResyncSound ==
  ASSUME RingTypeOK, Window, frozen \in Nat, NEW H \in SUBSET Nat,
         HiddenOK(frozen, LastSeq, H), NEW v, Good(v, LastSeq),
         v.pending = <<>>, v.pausedForBackpressure = FALSE, v.joined => v.batcher,
         WindowOrdered(v), NEW from \in Nat, NEW forced
  PROVE  LET s == SendResync(v, from, forced) IN
         Sound(s, LastSeq, frozen, H) /\ HeadCovered(s, LastSeq, H)
<1> DEFINE s == SendResync(v, from, forced)
           c == [v EXCEPT !.have = Claimed(from)]
           d == SinceSeqs(from)
<1>1. /\ v \in View /\ LastSeq \in Nat /\ LastSeq <= LastSeq /\ BaseSeq \in Nat
      /\ BaseSeq - 1 <= LastSeq
  <2>1. v \in View
    BY DEF Good
  <2>2. LastSeq \in Nat /\ LastSeq = nextSeq - 1 /\ nextSeq \in Nat /\ baseSeq \in Nat
        /\ Len(buf) \in Nat /\ baseSeq >= BaseSeq /\ baseSeq + Len(buf) = nextSeq
    BY LastSeqIn, WindowIs DEF LastSeq, RingTypeOK, Window
  <2>3. QED
    BY <2>1, <2>2, RingAssumption
<1>2. BatchOrdered(v, frozen) /\ ~AckAhead(v)
  BY EmptyBatch
<1>3. FlagsSound(v, frozen)
  BY <1>2, Zenon DEF FlagsSound
<1>4. CASE frozen /= NotFrozen
  <2>1. s = SendSnapshot(v, frozen)
    BY <1>4, Zenon DEF SendResync
  <2>2. 0 < frozen /\ frozen <= LastSeq
        /\ BaseSeq .. LastSeq \subseteq (BaseSeq .. frozen) \cup H
    BY <1>1, <1>4, WatermarkCovers
  <2>3. QED
    BY <1>1, <1>2, <1>3, <2>1, <2>2, SnapshotSound
<1>5. CASE frozen = NotFrozen /\ s = SendSnapshot(v, LastSeq)
  <2>1. 0 < LastSeq /\ BaseSeq .. LastSeq \subseteq (BaseSeq .. LastSeq) \cup H
    BY <1>1, RingAssumption
  <2>2. QED
    BY <1>1, <1>2, <1>3, <1>5, <2>1, SnapshotSound
<1>6. CASE from <= LastSeq /\ CanReplaySince(from) /\ s = SendData(c, d, ReplayFrame)
  <2>1. Claimed(from) = BaseSeq .. from /\ Claimed(from) \in SUBSET Nat
    BY <1>1, <1>6 DEF Claimed
  <2>2. /\ c \in View /\ SameFlags(v, c) /\ c.pending = v.pending /\ c.timer = v.timer
        /\ c.ack = v.ack /\ c.lastSentSeq = v.lastSentSeq
        /\ c.sentEntries = v.sentEntries /\ c.have = Claimed(from)
    BY <1>1, <2>1, Zenon DEF View, SameFlags
  <2>3. ReplayFrame \in Nat \ {0}
    BY ViewerAssumption
  <2> HIDE DEF c, d, s
  <2>4. Good(c, LastSeq)
    BY <2>2, Zenon DEF Good, InStream, BatchOK, StallOK, SameFlags
  <2>5. c.pending = <<>> /\ c.pausedForBackpressure = FALSE /\ (c.joined => c.batcher)
    BY <2>2, Zenon DEF SameFlags
  <2>6. WindowOrdered(c)
    BY <2>2, Zenon DEF WindowOrdered, Newest
  <2>7. BaseSeq .. from \subseteq c.have \cup H
    BY <2>1, <2>2
  <2>8. LET r == SendData(c, SinceSeqs(from), ReplayFrame) IN
        Sound(r, LastSeq, frozen, H) /\ HeadCovered(r, LastSeq, H)
    BY <1>6, <2>3, <2>4, <2>5, <2>6, <2>7, DeltaSound
  <2>9. QED
    BY <1>6, <2>8 DEF d, s
<1>7. QED
  BY <1>4, <1>5, <1>6, Zenon DEF SendResync

-----------------------------------------------------------------------------
(* The views the handlers build by updating fields.                        *)

(* Forgetting the last frames changes nothing that coverage is about.      *)
LEMMA QuietSound ==
  ASSUME NEW h, NEW z, NEW H, NEW v, Sound(v, h, z, H)
  PROVE  Sound(Quiet(v), h, z, H)
<1>1. Good(v, h) /\ v \in View
  BY DEF Sound, Good
<1>2. SameStream(v, Quiet(v)) /\ SameFlags(v, Quiet(v))
  BY <1>1, EmptyIn, Zenon DEF Quiet, View, SameStream, SameFlags
<1>3. Good(Quiet(v), h)
  BY <1>1, QuietGood
<1>4. QED
  BY <1>2, <1>3, SameSound DEF Sound

(* A view with nothing batched, nothing sent and no stall.                 *)
LEMMA BlankSound ==
  ASSUME NEW h, NEW z, NEW H, NEW v, Good(v, h), v.pending = <<>>, v.sentEntries = <<>>,
         v.lastSentSeq = 0, v.pausedForBackpressure = FALSE, v.joined => v.batcher,
         Fed(v) => BaseSeq .. h = {}
  PROVE  Sound(v, h, z, H)
<1>1. BatchCovered(v, H) /\ BatchOrdered(v, z) /\ ~AckAhead(v)
  BY EmptyBatch
<1>2. WindowOrdered(v)
  BY EmptyBatch, NoneBelow, Zenon
<1>3. SentCovered(v, H)
  BY RingAssumption DEF SentCovered
<1>4. FlagsSound(v, z)
  BY <1>1, Zenon DEF FlagsSound
<1>5. Fed(v) => HeadCovered(v, h, H)
  BY DEF HeadCovered
<1>6. QED
  BY <1>1, <1>2, <1>3, <1>4, <1>5 DEF Sound, StreamSound

(* A new connection is not fed, and one that creates the session misses     *)
(* nothing because there is nothing yet; a closed one is not fed again.     *)
LEMMA NewConnectionSound ==
  ASSUME NEW h \in Nat, NEW z, NEW H
  PROVE  /\ Sound(NewConnection, h, z, H)
         /\ Sound([NewConnection EXCEPT !.open = FALSE], h, z, H)
         /\ h < BaseSeq => Sound(WireSession(NewConnection), h, z, H)
<1> DEFINE n == NewConnection
           c == [NewConnection EXCEPT !.open = FALSE]
           w == WireSession(NewConnection)
<1>1. Good(n, h) /\ Good(c, h) /\ Good(w, h)
  BY NewConnectionGood
<1>2. /\ n.pending = <<>> /\ n.sentEntries = <<>> /\ n.lastSentSeq = 0
      /\ n.pausedForBackpressure = FALSE /\ n.joined = FALSE /\ ~Fed(n)
  BY Zenon DEF NewConnection, Fed
<1>3. /\ c.pending = <<>> /\ c.sentEntries = <<>> /\ c.lastSentSeq = 0
      /\ c.pausedForBackpressure = FALSE /\ c.joined = FALSE /\ ~Fed(c)
  BY Zenon DEF NewConnection, Fed
<1>4. /\ w.pending = <<>> /\ w.sentEntries = <<>> /\ w.lastSentSeq = 0
      /\ w.pausedForBackpressure = FALSE /\ w.batcher = TRUE
  BY Zenon DEF NewConnection, WireSession, WithBatcher
<1>5. h < BaseSeq => BaseSeq .. h = {}
  BY RingAssumption
<1> HIDE DEF n, c, w
<1>6. Sound(n, h, z, H) /\ Sound(c, h, z, H)
  BY <1>1, <1>2, <1>3, BlankSound
<1>7. h < BaseSeq => Sound(w, h, z, H)
  BY <1>1, <1>4, <1>5, BlankSound
<1>8. QED
  BY <1>6, <1>7 DEF n, c, w

(* What ATTACH and RESUME_VIEW prepare for the resync.                     *)
LEMMA PreparedFields ==
  ASSUME NEW h, NEW v, Good(v, h)
  PROVE  LET b == [ResetBatcherForResync(WithBatcher(Quiet(v))) EXCEPT !.pausedView = FALSE] IN
         /\ Good(b, h) /\ b.pending = <<>> /\ b.pausedForBackpressure = FALSE
         /\ b.batcher = TRUE /\ b.sentEntries = <<>> /\ WindowOrdered(b)
<1> DEFINE b == [ResetBatcherForResync(WithBatcher(Quiet(v))) EXCEPT !.pausedView = FALSE]
<1>1. Good(b, h) /\ v \in View
  BY PreparedGood DEF Good
<1>2. /\ b.pending = <<>> /\ b.pausedForBackpressure = FALSE
      /\ b.batcher = TRUE /\ b.sentEntries = <<>>
  BY <1>1, EmptyIn, Zenon DEF ResetBatcherForResync, WithBatcher, Quiet, View
<1> HIDE DEF b
<1>3. WindowOrdered(b)
  BY <1>2, NoneBelow, Zenon DEF WindowOrdered
<1>4. QED
  BY <1>1, <1>2, <1>3 DEF b

(* A whole viewer may be fed.                                              *)
LEMMA FeedSound ==
  ASSUME NEW h, NEW z, NEW H, NEW v, Sound(v, h, z, H), HeadCovered(v, h, H),
         NEW w, Good(w, h), SameStream(v, w), w.joined => w.batcher,
         w.pausedForBackpressure = FALSE, w.acking = v.acking
  PROVE  Sound(w, h, z, H)
<1>1. StreamSound(w, z, H) /\ HeadCovered(w, h, H)
  BY SameStreamSound DEF Sound
<1>2. AckAhead(w) => w.acking
  BY SameStreamSound, Zenon DEF Sound, FlagsSound
<1>3. FlagsSound(w, z)
  BY <1>2, Zenon DEF FlagsSound
<1>4. QED
  BY <1>1, <1>3 DEF Sound

(* A viewer that is not fed any more.                                      *)
LEMMA UnfedSound ==
  ASSUME NEW h, NEW z, NEW H, NEW v, Sound(v, h, z, H),
         NEW w, Good(w, h), SameStream(v, w), ~Fed(w), FlagsSound(w, z)
  PROVE  Sound(w, h, z, H)
BY SameStreamSound DEF Sound

(* PAUSE_VIEW *)
LEMMA PausedSound ==
  ASSUME NEW h, NEW z, NEW H, NEW v, Sound(v, h, z, H)
  PROVE  Sound([v EXCEPT !.paused = v.joined, !.pausedView = v.batcher], h, z, H)
<1> DEFINE w == [v EXCEPT !.paused = v.joined, !.pausedView = v.batcher]
<1>1. Good(v, h) /\ v \in View /\ FlagsSound(v, z)
  BY DEF Sound, Good
<1>2. Good(w, h)
  BY <1>1, PausedGood
<1>3. /\ SameStream(v, w) /\ w.joined = v.joined /\ w.batcher = v.batcher
      /\ w.pausedForBackpressure = v.pausedForBackpressure /\ w.drainTimer = v.drainTimer
      /\ w.acking = v.acking /\ w.paused = v.joined
  BY <1>1, Zenon DEF View, SameStream
<1> HIDE DEF w
<1>4. ~Fed(w)
  BY <1>3, Zenon DEF Fed
<1>5. FlagsSound(w, z)
  BY <1>1, <1>3, SameStreamSound, Zenon DEF FlagsSound
<1>6. Sound(w, h, z, H)
  BY <1>2, <1>3, <1>4, <1>5, UnfedSound
<1>7. QED
  BY <1>6 DEF w

(* DETACH *)
LEMMA DetachedSound ==
  ASSUME NEW h \in Nat, NEW z, NEW H, NEW v, Good(v, h)
  PROVE  Sound([WithoutBatcher(v) EXCEPT !.joined = FALSE, !.paused = FALSE,
                                         !.ack = 0, !.have = {}], h, z, H)
<1> DEFINE w == [WithoutBatcher(v) EXCEPT !.joined = FALSE, !.paused = FALSE,
                                          !.ack = 0, !.have = {}]
<1>1. Good(w, h) /\ v \in View /\ 0 \in Nat
  BY DetachedGood DEF Good
<1>2. /\ w.pending = <<>> /\ w.sentEntries = <<>> /\ w.lastSentSeq = 0
      /\ w.pausedForBackpressure = FALSE /\ w.joined = FALSE
  BY <1>1, EmptyIn, Zenon DEF WithoutBatcher, View
<1> HIDE DEF w
<1>3. Sound(w, h, z, H)
  BY <1>1, <1>2, BlankSound, Zenon DEF Fed
<1>4. QED
  BY <1>3 DEF w

(* A view that gets its batcher. *)
LEMMA WithBatcherSound ==
  ASSUME NEW h, NEW z, NEW H, NEW v, Sound(v, h, z, H)
  PROVE  LET w == WithBatcher(v) IN Good(w, h) /\ BatchOrdered(w, z) /\ FlagsSound(w, z)
<1> DEFINE w == WithBatcher(v)
<1>1. Good(v, h) /\ v \in View /\ FlagsSound(v, z) /\ StreamSound(v, z, H)
  BY DEF Sound, Good
<1>2. Good(w, h)
  BY <1>1, WithBatcherGood
<1>3. /\ SameStream(v, w) /\ w.batcher = TRUE
      /\ w.pausedForBackpressure = v.pausedForBackpressure /\ w.drainTimer = v.drainTimer
      /\ w.acking = v.acking
  BY <1>1, Zenon DEF View, SameStream, WithBatcher
<1> HIDE DEF w
<1>4. FlagsSound(w, z)
  BY <1>1, <1>3, SameStreamSound, Zenon DEF FlagsSound
<1>5. StreamSound(w, z, H)
  BY <1>1, <1>3, SameStreamSound
<1>6. QED
  BY <1>2, <1>4, <1>5 DEF StreamSound, w

(* A tick of the drain timer that finds the socket drained.                *)
LEMMA DrainedSound ==
  ASSUME NEW h \in Nat, 0 < h, NEW z \in Nat, NEW H \in SUBSET Nat, NEW v, Sound(v, h, z, H)
  PROVE  Sound(SendSnapshot([v EXCEPT !.pausedForBackpressure = FALSE, !.drainTimer = FALSE,
                                      !.paused = FALSE], h), h, z, H)
<1> DEFINE w == [v EXCEPT !.pausedForBackpressure = FALSE, !.drainTimer = FALSE,
                          !.paused = FALSE]
<1>1. Good(v, h) /\ v \in View /\ FlagsSound(v, z) /\ StreamSound(v, z, H)
  BY DEF Sound, Good
<1>2. Good(w, h)
  BY <1>1, DrainedGood
<1>3. /\ SameStream(v, w) /\ w.batcher = v.batcher /\ w.joined = v.joined
      /\ w.pausedForBackpressure = FALSE /\ w.acking = v.acking
  BY <1>1, Zenon DEF View, SameStream
<1> HIDE DEF w
<1>4. FlagsSound(w, z)
  BY <1>1, <1>3, SameStreamSound, Zenon DEF FlagsSound
<1>5. BatchOrdered(w, z)
  BY <1>1, <1>3, SameStreamSound DEF StreamSound
<1>6. h <= h /\ BaseSeq .. h \subseteq (BaseSeq .. h) \cup H
  OBVIOUS
<1>7. Sound(SendSnapshot(w, h), h, z, H)
  BY <1>2, <1>3, <1>4, <1>5, <1>6, SnapshotSound
<1>8. QED
  BY <1>7 DEF w

(* The resnapshot after a wake, of a viewer as good as reset.              *)
LEMMA ResnapshotSound ==
  ASSUME NEW h \in Nat, 0 < h, NEW z \in Nat, NEW H \in SUBSET Nat, NEW v, Sound(v, h, z, H)
  PROVE  Sound(SendSnapshot(ResetBatcherForResync(v), h), h, z, H)
<1> DEFINE w == ResetBatcherForResync(v)
<1>1. Good(v, h) /\ v \in View /\ FlagsSound(v, z)
  BY DEF Sound, Good
<1>2. Good(w, h)
  BY <1>1, ResetGood
<1>3. /\ w.pending = <<>> /\ w.batcher = v.batcher /\ w.joined = v.joined
      /\ w.pausedForBackpressure = FALSE
  BY <1>1, EmptyIn, Zenon DEF View, ResetBatcherForResync
<1> HIDE DEF w
<1>4. BatchOrdered(w, z) /\ ~AckAhead(w)
  BY <1>3, EmptyBatch
<1>5. FlagsSound(w, z)
  BY <1>1, <1>3, <1>4, Zenon DEF FlagsSound
<1>6. h <= h /\ BaseSeq .. h \subseteq (BaseSeq .. h) \cup H
  OBVIOUS
<1>7. Sound(SendSnapshot(w, h), h, z, H)
  BY <1>2, <1>3, <1>4, <1>5, <1>6, SnapshotSound
<1>8. QED
  BY <1>7 DEF w

(* Going to sleep freezes the screen at the newest number; thawing unfreezes *)
(* it.                                                                     *)
LEMMA FreezeSound ==
  ASSUME NEW h \in Nat, NEW z, NEW H, NEW v, Sound(v, h, z, H), NEW y, y = h \/ y = NotFrozen
  PROVE  Sound(v, h, y, H)
<1>1. /\ v \in View /\ InStream(v, h) /\ StreamSound(v, z, H) /\ FlagsSound(v, z)
      /\ v.lastSentSeq \in Nat
  BY Zenon DEF Sound, Good, View
<1>2. PendingOrdered(v, y)
  BY <1>1 DEF StreamSound, BatchOrdered, PendingOrdered, Below, InStream
<1>3. StallEnds(v, z) => StallEnds(v, y)
  BY <1>1 DEF StallEnds, Below, InStream
<1>4. FlagsSound(v, y)
  BY <1>1, <1>3, Zenon DEF FlagsSound
<1>5. QED
  BY <1>1, <1>2, <1>4 DEF Sound, StreamSound, BatchOrdered

(* What is printed while frozen is missing from nothing.                   *)
LEMMA HiddenSound ==
  ASSUME NEW h \in Nat, NEW z, NEW H, NEW v, Sound(v, h, z, H), NEW n, n = h + 1
  PROVE  /\ Sound(v, n, z, H \cup {n})
         /\ ~Fed(v) => Sound(v, n, z, H)
<1>1. Good(v, n)
  BY GoodGrows DEF Sound
<1>2. StreamSound(v, z, H) /\ FlagsSound(v, z)
  BY DEF Sound
<1>3. StreamSound(v, z, H \cup {n})
  BY <1>2 DEF StreamSound, SentCovered, BatchCovered, Covered
<1>4. HeadCovered(v, h, H) => HeadCovered(v, n, H \cup {n})
  <2>1. BaseSeq .. n \subseteq (BaseSeq .. h) \cup {n}
    BY RingAssumption
  <2>2. QED
    BY <2>1 DEF HeadCovered, Covered
<1>5. QED
  BY <1>1, <1>2, <1>3, <1>4 DEF Sound

-----------------------------------------------------------------------------
(* The steps.                                                              *)

AllSound == \A c \in Viewers : Sound(view[c], LastSeq, frozen, hidden)

StreamsSound == ~dead => HiddenOK(frozen, LastSeq, hidden) /\ AllSound

CoverageInv == StreamInv /\ StreamsSound

(* What holds of the session as long as it lives. *)
LEMMA LiveFacts ==
  ASSUME CoverageInv, ~dead
  PROVE  /\ RingTypeOK /\ Window /\ LastSeq \in Nat /\ LastSeq <= LastSeq /\ 0 < LastSeq
         /\ BaseSeq - 1 <= LastSeq /\ frozen \in Nat /\ hidden \in SUBSET Nat
         /\ frozen <= LastSeq /\ HiddenOK(frozen, LastSeq, hidden) /\ AllGood
         /\ \A c \in Viewers : Sound(view[c], LastSeq, frozen, hidden)
         /\ \A c \in Viewers : Sound(Quiet(view[c]), LastSeq, frozen, hidden)
<1>1. /\ RingTypeOK /\ Window /\ frozen \in Nat /\ hidden \in SUBSET Nat /\ frozen <= LastSeq
      /\ HiddenOK(frozen, LastSeq, hidden) /\ AllGood
      /\ \A c \in Viewers : Sound(view[c], LastSeq, frozen, hidden)
  BY DEF CoverageInv, StreamsSound, AllSound, StreamInv, TypeOK, RingInv
<1>2. \A c \in Viewers : Sound(Quiet(view[c]), LastSeq, frozen, hidden)
  BY <1>1, QuietSound
<1>3. /\ LastSeq \in Nat /\ LastSeq = nextSeq - 1 /\ nextSeq \in Nat /\ baseSeq \in Nat
      /\ Len(buf) \in Nat /\ baseSeq >= BaseSeq /\ baseSeq + Len(buf) = nextSeq
  BY <1>1, LastSeqIn, WindowIs DEF LastSeq, RingTypeOK, Window
<1>4. LastSeq <= LastSeq /\ 0 < LastSeq /\ BaseSeq - 1 <= LastSeq
  BY <1>3, RingAssumption
<1>5. QED
  BY <1>1, <1>2, <1>3, <1>4

(* A step that serves one connection soundly.                              *)
LEMMA ServedSound ==
  ASSUME CoverageInv, ~dead, NEW c \in Viewers,
         NEW v, Sound(v, LastSeq, frozen, hidden), Serve(c, v),
         MinAckTrim \/ UNCHANGED ringVars,
         UNCHANGED <<dead, frozen, resyncDue, hidden>>
  PROVE  StreamsSound'
<1>1. \A d \in Viewers : view'[d] = IF d = c THEN v ELSE Quiet(view[d])
  BY Zenon DEF Serve
<1>2. \A d \in Viewers : Sound(view'[d], LastSeq, frozen, hidden)
  BY <1>1, LiveFacts, Zenon
<1>3. \A d \in Viewers : Good(view'[d], LastSeq)
  BY <1>2 DEF Sound
<1>4. TrimStep \/ UNCHANGED <<ringVars, dead>>
  BY <1>3, LiveFacts, MinAckTrimIsTrim
<1>5. LastSeq' = LastSeq
  BY <1>4, TrimKeepsLastSeq DEF LastSeq
<1>6. HiddenOK(frozen, LastSeq, hidden)
  BY LiveFacts
<1>7. QED
  BY <1>2, <1>5, <1>6, Zenon DEF StreamsSound, AllSound

(* A step that leaves the ring alone and all connections sound.            *)
LEMMA EveryoneSound ==
  ASSUME UNCHANGED <<ringVars, hidden>>, HiddenOK(frozen', LastSeq, hidden),
         \A c \in Viewers : Sound(view'[c], LastSeq, frozen', hidden)
  PROVE  StreamsSound'
<1>1. LastSeq' = LastSeq /\ hidden' = hidden
  BY DEF ringVars, LastSeq
<1>2. QED
  BY <1>1, Zenon DEF StreamsSound, AllSound

(* Output: a fed viewer batches the chunk, the others are not fed, and what  *)
(* a frozen session prints is hidden.                                      *)
LEMMA OutputSound ==
  ASSUME CoverageInv, NEW small \in BOOLEAN, NEW congested \in SUBSET Viewers,
         Output(small, congested)
  PROVE  StreamsSound'
<1>1. ~dead /\ frozen' = frozen /\ nextSeq' = nextSeq + 1 /\ nextSeq \in Nat
  BY LiveFacts DEF Output, Push, RingTypeOK
<1>2. LastSeq' = nextSeq /\ nextSeq = LastSeq + 1
  BY <1>1 DEF LastSeq
<1>3. \A c \in Viewers :
        view'[c] = IF frozen = NotFrozen /\ Quiet(view[c]).joined /\ ~Quiet(view[c]).paused
                   THEN Enqueue(Quiet(view[c]), nextSeq, small, c \in congested)
                   ELSE Quiet(view[c])
  BY Zenon DEF Output
<1>4. CASE frozen = NotFrozen
  <2>1. hidden' = hidden
    BY <1>4 DEF Output
  <2>2. \A c \in Viewers : Sound(view'[c], nextSeq, frozen, hidden)
    <3>1. SUFFICES ASSUME NEW c \in Viewers
                   PROVE  Sound(view'[c], nextSeq, frozen, hidden)
      OBVIOUS
    <3> DEFINE v == Quiet(view[c])
    <3>2. /\ Sound(v, LastSeq, frozen, hidden)
          /\ view'[c] = IF frozen = NotFrozen /\ v.joined /\ ~v.paused
                        THEN Enqueue(v, nextSeq, small, c \in congested) ELSE v
      BY <1>1, <1>3, LiveFacts
    <3> HIDE DEF v
    <3>3. CASE v.joined /\ ~v.paused
      <4>1. Sound(Enqueue(v, nextSeq, small, c \in congested), nextSeq, NotFrozen, hidden)
        BY <1>1, <1>2, <1>4, <3>2, <3>3, LiveFacts, EnqueueSound
      <4>2. QED
        BY <1>4, <3>2, <3>3, <4>1, Zenon
    <3>4. CASE ~(v.joined /\ ~v.paused)
      <4>1. ~Fed(v)
        BY <3>4, Zenon DEF Fed
      <4>2. Sound(v, nextSeq, frozen, hidden)
        BY <1>1, <1>2, <3>2, <4>1, LiveFacts, HiddenSound
      <4>3. QED
        BY <3>2, <3>4, <4>2, Zenon
    <3>5. QED
      BY <3>3, <3>4
  <2>3. QED
    BY <1>1, <1>2, <1>4, <2>1, <2>2, Zenon DEF StreamsSound, AllSound, HiddenOK
<1>5. CASE frozen /= NotFrozen
  <2>1. hidden' = hidden \cup {nextSeq} /\ \A c \in Viewers : view'[c] = Quiet(view[c])
    BY <1>3, <1>5, Zenon DEF Output
  <2>2. \A c \in Viewers : Sound(view'[c], nextSeq, frozen, hidden \cup {nextSeq})
    BY <1>1, <1>2, <2>1, LiveFacts, HiddenSound
  <2>3. HiddenOK(frozen, nextSeq, hidden \cup {nextSeq})
    <3>1. /\ frozen \in Nat /\ LastSeq \in Nat /\ frozen <= LastSeq /\ BaseSeq - 1 <= frozen
          /\ frozen + 1 .. LastSeq \subseteq hidden
      BY <1>1, <1>5, LiveFacts DEF HiddenOK
    <3>2. frozen + 1 .. nextSeq \subseteq (frozen + 1 .. LastSeq) \cup {nextSeq}
      BY <1>2, <3>1
    <3>3. frozen <= nextSeq
      BY <1>2, <3>1
    <3>4. QED
      BY <3>1, <3>2, <3>3 DEF HiddenOK
  <2>4. QED
    BY <1>1, <1>2, <2>1, <2>2, <2>3, Zenon DEF StreamsSound, AllSound
<1>6. QED
  BY <1>4, <1>5

(* The steps that serve one connection of a live session.                   *)
LEMMA ConnectionSound ==
  ASSUME CoverageInv, NEW c \in Viewers, NEW n \in Nat, NEW b \in BOOLEAN,
         \/ TimerFire(c, b) \/ DrainTick(c) \/ Attach(c, n, b) \/ Detach(c)
         \/ Snapshot(c) \/ Ack(c, n, b) \/ PauseView(c) \/ ResumeView(c, n, b)
  PROVE  StreamsSound'
<1> DEFINE v == Quiet(view[c])
           H == hidden
           z == frozen
           h == LastSeq
<1>1. ~dead
  BY DEF TimerFire, DrainTick, Attach, Detach, Snapshot, Ack, PauseView, ResumeView, Live
<1>2. /\ RingTypeOK /\ Window /\ h \in Nat /\ h <= h /\ 0 < h /\ BaseSeq - 1 <= h
      /\ z \in Nat /\ H \in SUBSET Nat /\ HiddenOK(z, h, H)
      /\ Sound(v, h, z, H) /\ Good(view[c], h)
  BY <1>1, LiveFacts DEF AllGood
<1>3. /\ Good(v, h) /\ v \in View /\ StreamSound(v, z, H) /\ FlagsSound(v, z)
      /\ (Fed(v) => HeadCovered(v, h, H))
  BY <1>2 DEF Sound, Good
<1>4. CASE TimerFire(c, b)
  <2>1. Len(v.pending) <= MaxBatch
    <3>1. Len(v.pending) < MaxBatch /\ v.pending \in Seq(Nat)
      BY <1>3, Zenon DEF StreamSound, BatchOrdered, View
    <3>2. QED
      BY <3>1, ViewerAssumption
  <2>2. /\ v \in View /\ InStream(v, h) /\ StallOK(v) /\ (v.pending /= <<>> => v.joined)
        /\ SentCovered(v, H) /\ BatchCovered(v, H) /\ PendingOrdered(v, z) /\ WindowOrdered(v)
    BY <1>3, Zenon DEF Good, BatchOK, StreamSound, BatchOrdered
  <2> HIDE DEF v
  <2>3. Sound(Flush(v, b), h, z, H)
    BY <1>3, <2>1, <2>2, FlushSound
  <2>4. QED
    BY <1>1, <1>4, <2>3, ServedSound DEF TimerFire, v
<1>5. CASE DrainTick(c)
  <2> DEFINE w == [v EXCEPT !.pausedForBackpressure = FALSE, !.drainTimer = FALSE,
                            !.paused = FALSE]
  <2>1. Sound(SendSnapshot(w, h), h, z, H)
    BY <1>2, DrainedSound
  <2>2. QED
    BY <1>1, <1>5, <2>1, ServedSound DEF DrainTick
<1>6. CASE Attach(c, n, b) \/ ResumeView(c, n, b)
  <2> DEFINE w == [ResetBatcherForResync(WithBatcher(v)) EXCEPT !.pausedView = FALSE]
             r == SendResync(w, n, b)
             f == WireSession(r)
             g == [r EXCEPT !.paused = FALSE]
  <2>1. /\ Good(w, h) /\ w.pending = <<>> /\ w.pausedForBackpressure = FALSE
        /\ w.batcher = TRUE /\ w.sentEntries = <<>> /\ WindowOrdered(w)
    BY <1>2, PreparedFields
  <2> HIDE DEF w
  <2>2. Sound(r, h, z, H) /\ HeadCovered(r, h, H)
    BY <1>2, <2>1, SendResyncSound
  <2>3. Good(r, h) /\ r.pausedForBackpressure = FALSE /\ r \in View
    BY <1>1, <1>2, <2>1, LiveFacts, SendResyncGood DEF SendsOnly, Good
  <2>4. r.joined => r.batcher
    BY <2>2, Zenon DEF Sound, FlagsSound
  <2>5. Good(f, h) /\ Good(g, h)
    BY <2>3, WireSessionGood, UnpausedGood
  <2> HIDE DEF r
  <2>6. /\ SameStream(r, f) /\ f.batcher = TRUE /\ f.acking = r.acking
        /\ f.pausedForBackpressure = FALSE
    BY <2>3, Zenon DEF View, SameStream, WireSession, WithBatcher
  <2>7. /\ SameStream(r, g) /\ g.batcher = r.batcher /\ g.acking = r.acking
        /\ g.joined = r.joined /\ g.pausedForBackpressure = FALSE
    BY <2>3, Zenon DEF View, SameStream
  <2> HIDE DEF f, g
  <2>8. Sound(f, h, z, H)
    BY <2>2, <2>5, <2>6, FeedSound
  <2>9. Sound(g, h, z, H)
    BY <2>2, <2>4, <2>5, <2>7, FeedSound
  <2>10. /\ Serve(c, f) \/ Serve(c, g)
         /\ UNCHANGED ringVars /\ UNCHANGED <<dead, frozen, resyncDue, hidden>>
    BY <1>6 DEF Attach, ResumeView, f, g, r, w
  <2>11. QED
    BY <1>1, <2>8, <2>9, <2>10, ServedSound
<1>7. CASE Detach(c)
  <2>1. Sound([WithoutBatcher(v) EXCEPT !.joined = FALSE, !.paused = FALSE,
                                        !.ack = 0, !.have = {}], h, z, H)
    BY <1>2, <1>3, DetachedSound
  <2>2. QED
    BY <1>1, <1>7, <2>1, ServedSound DEF Detach
<1>8. CASE Snapshot(c)
  <2> DEFINE w == WithBatcher(v)
             m == IF z /= NotFrozen THEN z ELSE h
  <2>1. Good(w, h) /\ BatchOrdered(w, z) /\ FlagsSound(w, z)
    BY <1>2, WithBatcherSound
  <2>2. /\ m \in Nat /\ 0 < m /\ m <= h /\ Below(m, z)
        /\ BaseSeq .. h \subseteq (BaseSeq .. m) \cup H
    BY <1>2, WatermarkCovers
  <2>3. w.pausedForBackpressure => w.ack <= m
    <3>1. SUFFICES ASSUME w.pausedForBackpressure  PROVE w.ack <= m
      OBVIOUS
    <3>2. w.ack <= w.lastSentSeq /\ Below(w.lastSentSeq, z)
      BY <2>1, <3>1, Zenon DEF FlagsSound, StallEnds
    <3>3. w.ack \in Nat /\ w.lastSentSeq \in Nat /\ w.ack <= h
      BY <2>1, Zenon DEF Good, View, InStream
    <3> HIDE DEF w
    <3>4. QED
      BY <1>2, <3>2, <3>3 DEF Below
  <2> HIDE DEF w, m
  <2>4. Sound(SendSnapshot(w, m), h, z, H)
    BY <1>2, <2>1, <2>2, <2>3, SnapshotSound
  <2>5. Serve(c, SendSnapshot(w, m)) /\ UNCHANGED ringVars
        /\ UNCHANGED <<dead, frozen, resyncDue, hidden>>
    BY <1>8 DEF Snapshot, w, m
  <2>6. QED
    BY <1>1, <2>4, <2>5, ServedSound
<1>9. CASE Ack(c, n, b)
  <2>1. AckAccepted(v, n)
    <3>1. view[c] \in View
      BY <1>2 DEF Good
    <3>2. v.batcher = view[c].batcher /\ v.lastSentSeq = view[c].lastSentSeq /\ v.ack = view[c].ack
      BY <3>1, Zenon DEF Quiet, View
    <3>3. QED
      BY <1>9, <3>2, Zenon DEF Ack, AckAccepted
  <2> HIDE DEF v
  <2>2. Sound(HandleViewerAck(v, n, b), h, z, H)
    BY <1>2, <2>1, HandleViewerAckSound
  <2>3. QED
    BY <1>1, <1>9, <2>2, ServedSound DEF Ack, v
<1>10. CASE PauseView(c)
  <2>1. Sound([v EXCEPT !.paused = v.joined, !.pausedView = v.batcher], h, z, H)
    BY <1>2, PausedSound
  <2>2. QED
    BY <1>1, <1>10, <2>1, ServedSound DEF PauseView
<1>11. QED
  BY <1>4, <1>5, <1>6, <1>7, <1>8, <1>9, <1>10

(* A closing socket, sleeping, waking and the resnapshot that follows.      *)
LEMMA OtherStepsSound ==
  ASSUME CoverageInv,
         (\E c \in Viewers : Close(c)) \/ Freeze \/ Thaw \/ SleepUndone \/ ResyncAll
  PROVE  StreamsSound'
<1>1. CASE \E c \in Viewers : Close(c)
  <2>1. PICK c \in Viewers : Close(c)
    BY <1>1
  <2>2. CASE dead
    BY <2>1, <2>2 DEF Close, StreamsSound
  <2>3. CASE ~dead
    <3>1. Sound([NewConnection EXCEPT !.open = FALSE], LastSeq, frozen, hidden)
      BY <2>3, LiveFacts, NewConnectionSound
    <3>2. QED
      BY <2>1, <2>3, <3>1, ServedSound DEF Close
  <2>4. QED
    BY <2>2, <2>3
<1>2. CASE Freeze \/ Thaw \/ SleepUndone
  <2>1. /\ ~dead /\ UNCHANGED <<ringVars, hidden>>
        /\ frozen' = LastSeq \/ frozen' = NotFrozen
        /\ view' = [c \in Viewers |-> Quiet(view[c])]
    BY <1>2 DEF Freeze, Thaw, SleepUndone
  <2>2. \A c \in Viewers : Sound(view'[c], LastSeq, frozen', hidden)
    <3>1. SUFFICES ASSUME NEW c \in Viewers  PROVE Sound(view'[c], LastSeq, frozen', hidden)
      OBVIOUS
    <3>2. view'[c] = Quiet(view[c])
      BY <2>1, Zenon
    <3>3. Sound(Quiet(view[c]), LastSeq, frozen', hidden)
      BY <2>1, LiveFacts, FreezeSound
    <3>4. QED
      BY <3>2, <3>3
  <2>3. HiddenOK(frozen', LastSeq, hidden)
    <3>1. LastSeq + 1 .. LastSeq = {} /\ LastSeq <= LastSeq /\ BaseSeq - 1 <= LastSeq
      BY <2>1, LiveFacts
    <3>2. QED
      BY <2>1, <3>1 DEF HiddenOK
  <2>4. QED
    BY <2>1, <2>2, <2>3, EveryoneSound
<1>3. CASE ResyncAll
  <2>1. ~dead /\ UNCHANGED <<ringVars, hidden>> /\ frozen' = frozen
    BY <1>3 DEF ResyncAll
  <2>2. \A c \in Viewers : Sound(view'[c], LastSeq, frozen', hidden)
    <3>1. SUFFICES ASSUME NEW c \in Viewers  PROVE Sound(view'[c], LastSeq, frozen, hidden)
      BY <2>1
    <3> DEFINE v == Quiet(view[c])
    <3>2. view'[c] = IF v.joined THEN SendSnapshot(ResetBatcherForResync(v), LastSeq) ELSE v
      BY <1>3, Zenon DEF ResyncAll
    <3>3. Sound(v, LastSeq, frozen, hidden)
      BY <2>1, LiveFacts
    <3> HIDE DEF v
    <3>4. Sound(SendSnapshot(ResetBatcherForResync(v), LastSeq), LastSeq, frozen, hidden)
      BY <2>1, <3>3, LiveFacts, ResnapshotSound
    <3>5. QED
      BY <3>2, <3>3, <3>4, Zenon
  <2>3. QED
    BY <2>1, <2>2, LiveFacts, EveryoneSound
<1>4. QED
  BY <1>1, <1>2, <1>3

(* The invariant holds at first. *)
LEMMA CoverageInit == Init => CoverageInv
<1> SUFFICES ASSUME Init  PROVE CoverageInv
  OBVIOUS
<1>1. StreamInv /\ RingInit
  BY StreamInit
<1>2. LastSeq = BaseSeq - 1 /\ LastSeq \in Nat /\ LastSeq < BaseSeq /\ 0 < LastSeq
      /\ LastSeq <= LastSeq
  BY <1>1, RingAssumption DEF RingInit, LastSeq
<1>3. PICK creators \in {{}} \cup {{c} : c \in Viewers}, first \in Created :
        view = [c \in Viewers |-> IF c \in creators THEN first ELSE NewConnection]
  BY Zenon DEF Init
<1>4. frozen = NotFrozen /\ hidden = {} /\ frozen \in Nat /\ hidden \in SUBSET Nat
  BY DEF Init, NotFrozen
<1>5. /\ Sound(WireSession(NewConnection), LastSeq, frozen, hidden)
      /\ Sound(NewConnection, LastSeq, frozen, hidden)
  BY <1>2, NewConnectionSound
<1>6. Sound(SendSnapshot(WireSession(NewConnection), LastSeq), LastSeq, frozen, hidden)
  <2> DEFINE w == WireSession(NewConnection)
  <2>1. Good(w, LastSeq) /\ BatchOrdered(w, frozen) /\ FlagsSound(w, frozen)
    BY <1>5 DEF Sound, StreamSound
  <2>2. w.pausedForBackpressure = FALSE
    BY Zenon DEF NewConnection, WireSession, WithBatcher
  <2>3. BaseSeq .. LastSeq \subseteq (BaseSeq .. LastSeq) \cup hidden
    OBVIOUS
  <2> HIDE DEF w
  <2>4. Sound(SendSnapshot(w, LastSeq), LastSeq, frozen, hidden)
    BY <1>2, <1>4, <2>1, <2>2, <2>3, SnapshotSound
  <2>5. QED
    BY <2>4 DEF w
<1>7. \A c \in Viewers : Sound(view[c], LastSeq, frozen, hidden)
  BY <1>3, <1>5, <1>6, Zenon DEF Created
<1>8. QED
  BY <1>1, <1>4, <1>7, Zenon DEF CoverageInv, StreamsSound, AllSound, HiddenOK

(* Every step keeps the streams sound.                                     *)
LEMMA CoverageStep == CoverageInv /\ [Next]_vars => CoverageInv'
<1> SUFFICES ASSUME CoverageInv, [Next]_vars  PROVE CoverageInv'
  OBVIOUS
<1>1. StreamInv'
  BY StreamStep DEF CoverageInv
<1>2. StreamsSound'
  <2>1. Claims \subseteq Nat /\ Forcings \subseteq BOOLEAN /\ 0 \in Nat /\ TRUE \in BOOLEAN
    BY ViewerAssumption
  <2>2. CASE \E small \in BOOLEAN, congested \in SUBSET Viewers : Output(small, congested)
    BY <2>2, OutputSound
  <2>3. CASE \E c \in Viewers, b \in BOOLEAN : TimerFire(c, b)
    BY <2>1, <2>3, ConnectionSound, Zenon
  <2>4. CASE \E c \in Viewers : DrainTick(c) \/ Detach(c) \/ Snapshot(c) \/ PauseView(c)
    BY <2>1, <2>4, ConnectionSound, Zenon
  <2>5. CASE \E c \in Viewers, s \in Claims, b \in Forcings :
               Attach(c, s, b) \/ Ack(c, s, b) \/ ResumeView(c, s, b)
    <3>1. PICK c \in Viewers, s \in Claims, b \in Forcings :
                 Attach(c, s, b) \/ Ack(c, s, b) \/ ResumeView(c, s, b)
      BY <2>5
    <3>2. s \in Nat /\ b \in BOOLEAN
      BY <2>1
    <3>3. QED
      BY <3>1, <3>2, ConnectionSound, Zenon
  <2>6. CASE (\E c \in Viewers : Close(c)) \/ Freeze \/ Thaw \/ SleepUndone \/ ResyncAll
    BY <2>6, OtherStepsSound
  <2>7. CASE Exit \/ \E c \in Viewers : Destroy(c)
    BY <2>7 DEF Exit, Destroy, StreamsSound
  <2>8. CASE UNCHANGED vars
    <3>1. UNCHANGED <<dead, view, frozen, hidden>> /\ LastSeq' = LastSeq
      BY <2>8 DEF vars, streamVars, ringVars, LastSeq
    <3>2. QED
      BY <3>1, Zenon DEF CoverageInv, StreamsSound, AllSound
  <2>9. QED
    BY <2>2, <2>3, <2>4, <2>5, <2>6, <2>7, <2>8, Zenon DEF Next
<1>3. QED
  BY <1>1, <1>2 DEF CoverageInv

-----------------------------------------------------------------------------
(* No byte is dropped behind a viewer's back: however many connections view   *)
(* the session, whatever they claim and however congested they are, the       *)
(* frames and the batch of a viewer the server feeds cover the whole stream,  *)
(* but for what was printed while the agent slept (sendResync,               *)
(* handleViewerAck, enqueueData).                                          *)
THEOREM StreamNoSilentDrop == Spec => []NoSilentDrop
<1>1. Spec => []CoverageInv
  BY CoverageInit, CoverageStep, PTL DEF Spec
<1>2. CoverageInv => NoSilentDrop
  <2>1. SUFFICES ASSUME CoverageInv, ~dead, NEW c \in Viewers, Fed(view[c])
                 PROVE  Missing(view[c]) \subseteq hidden
    BY DEF NoSilentDrop
  <2>2. HeadCovered(view[c], LastSeq, hidden)
    BY <2>1, LiveFacts DEF Sound
  <2>3. QED
    BY <2>2 DEF HeadCovered, Covered, Batched, ChunksOf, Missing
<1>3. QED
  BY <1>1, <1>2, PTL

(* A stall always has a way out: the timer that polls the socket, or an ack   *)
(* of the last frame sent, which the server would accept and which would      *)
(* empty the window - even after a snapshot of a sleeping session's screen    *)
(* (flush, handleViewerAck, CMD.ACK, CMD.SNAPSHOT).                        *)
THEOREM StreamStallHasWayOut == Spec => []StallHasWayOut
<1>1. Spec => []CoverageInv
  BY CoverageInit, CoverageStep, PTL DEF Spec
<1>2. CoverageInv => StallHasWayOut
  <2>1. SUFFICES ASSUME CoverageInv, ~dead, NEW c \in Viewers,
                        view[c].pausedForBackpressure
                 PROVE  \/ view[c].drainTimer
                        \/ /\ view[c].acking /\ AckAccepted(view[c], view[c].lastSentSeq)
                           /\ Acked(view[c], view[c].lastSentSeq) = Len(view[c].sentEntries)
    BY Zenon DEF StallHasWayOut
  <2> DEFINE v == view[c]
             n == Len(v.sentEntries)
             k == Acked(v, v.lastSentSeq)
  <2>2. Sound(v, LastSeq, frozen, hidden)
    BY <2>1, LiveFacts
  <2> HIDE DEF v
  <2>3. /\ v.drainTimer \/ v.acking
        /\ v.lastSentSeq > 0 /\ v.ack <= v.lastSentSeq
    BY <2>1, <2>2, Zenon DEF Sound, FlagsSound, StallEnds, v
  <2>4. v.batcher
    BY <2>1, <2>2, Zenon DEF Sound, Good, BatchOK, StallOK, FlagsSound, v
  <2>5. v.sentEntries \in Seq(Nat) /\ v.lastSentSeq \in Nat /\ v.ack \in Nat
    BY <2>2, Zenon DEF Sound, Good, View
  <2>6. AckAccepted(v, v.lastSentSeq)
    <3>1. v.lastSentSeq <= v.lastSentSeq /\ v.lastSentSeq >= v.ack
      BY <2>3, <2>5
    <3>2. QED
      BY <2>3, <2>4, <3>1, Zenon DEF AckAccepted
  <2>7. k = n
    <3>1. k \in 0 .. n /\ (k < n => v.sentEntries[k + 1] > v.lastSentSeq)
      BY <2>5, AckedIn
    <3>2. \A i \in 1 .. n : v.sentEntries[i] <= v.lastSentSeq
      BY <2>2 DEF Sound, StreamSound, WindowOrdered
    <3>3. n \in Nat /\ \A i \in 1 .. n : v.sentEntries[i] \in Nat
      BY <2>5
    <3> HIDE DEF k, n
    <3>4. QED
      BY <2>5, <3>1, <3>2, <3>3
  <2>8. QED
    BY <2>3, <2>6, <2>7, Zenon DEF v, k, n
<1>3. QED
  BY <1>1, <1>2, PTL
=============================================================================
