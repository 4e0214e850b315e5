----------------------------- MODULE OutputRing -----------------------------
(***************************************************************************)
(* The per-session replay ring (packages/server/src/output-ring.ts).       *)
(*                                                                         *)
(* Every chunk a session emits to its viewers gets the next sequence       *)
(* number and is kept here, up to MaxBytes, so that a returning viewer can  *)
(* be replayed a delta instead of a full snapshot.  Chunks leave from the   *)
(* front only: because the ring is over budget (push), because every       *)
(* viewer has acknowledged them (trimTo), or because the session was       *)
(* killed (clear).                                                         *)
(*                                                                         *)
(* A chunk's payload is the interval of stream bytes it holds: `from` bytes *)
(* were pushed before it, `to` up to its end.  Its length is to - from.     *)
(***************************************************************************)
EXTENDS Integers, Sequences

CONSTANTS
  MaxBytes,   \* ring budget in bytes (DEFAULT_RING_BYTES / TTYM_RING_BYTES)
  Sizes,      \* possible chunk lengths
  BaseSeq,    \* first sequence number of this server boot (randomSeqBase())
  MaxSeq      \* bound of the model: no chunk is numbered beyond it

ASSUME RingAssumption ==
  /\ MaxBytes \in Nat
  /\ Sizes \subseteq Nat \ {0}
  /\ BaseSeq \in Nat /\ BaseSeq > 1
  /\ MaxSeq \in Nat /\ MaxSeq >= BaseSeq

VARIABLES
  buf,        \* chunks still held, oldest first (buf from head on)
  used,       \* bytes the ring accounts for
  nextSeq,    \* the number the next chunk gets
  baseSeq,    \* one past the newest dropped chunk
  total,      \* bytes pushed since the session started
  dead        \* the session has ended (Session.closed)

ringVars == <<buf, used, nextSeq, baseSeq, total>>

Chunk == [seq : Nat, from : Nat, to : Nat]

-----------------------------------------------------------------------------
(* Reading the ring.                                                       *)

(* Session.lastSeq: the newest number handed out.                          *)
LastSeq == nextSeq - 1

(* How many chunks at the front are numbered s or lower.                   *)
Through(s) ==
  CHOOSE k \in 0 .. Len(buf) :
    /\ \A i \in 1 .. k : buf[i].seq <= s
    /\ \A i \in (k + 1) .. Len(buf) : buf[i].seq > s

(* since(s): the chunks numbered above s.                                  *)
Since(s) == SubSeq(buf, Through(s) + 1, Len(buf))

(* Mutant: one number too generous.                                        *)
CanReplayOneMore(s) == s >= baseSeq - 2

CanReplaySince(s) == s >= baseSeq - 1

-----------------------------------------------------------------------------
(* Changing the ring.                                                      *)

(* Bytes of the first k chunks of b.                                       *)
PrefixBytes(b, k) == IF k = 0 THEN 0 ELSE b[k].to - b[1].from

(* b without its first k chunks, u bytes having been accounted for b.      *)
DropFront(b, u, k) ==
  /\ buf' = SubSeq(b, k + 1, Len(b))
  /\ used' = u - PrefixBytes(b, k)
  /\ baseSeq' = IF k = 0 THEN baseSeq ELSE b[k].seq + 1

(* push's loop stops after k drops: the rest of b fits, or nothing is left,  *)
(* and it did not fit earlier.                                             *)
FitsAfter(b, u, k) ==
  /\ k = Len(b) \/ u - PrefixBytes(b, k) <= MaxBytes
  /\ \A j \in 0 .. (k - 1) : u - PrefixBytes(b, j) > MaxBytes

Push(n) ==
  LET b == Append(buf, [seq |-> nextSeq, from |-> total, to |-> total + n])
      u == used + n
  IN  /\ nextSeq' = nextSeq + 1
      /\ total' = total + n
      /\ \E k \in 0 .. Len(b) : FitsAfter(b, u, k) /\ DropFront(b, u, k)

TrimTo(a) ==
  /\ DropFront(buf, used, Through(a))
  /\ UNCHANGED <<nextSeq, total>>

Clear ==
  /\ buf' = <<>>
  /\ used' = 0
  /\ UNCHANGED <<nextSeq, baseSeq, total>>

-----------------------------------------------------------------------------
RingInit ==
  /\ buf = <<>> /\ used = 0 /\ total = 0
  /\ nextSeq = BaseSeq /\ baseSeq = BaseSeq
  /\ dead = FALSE

(* The ring on its own: a live session pushes and trims; a killed one is     *)
(* cleared, one whose process exited keeps what it had.                    *)
PushStep == ~dead /\ nextSeq <= MaxSeq /\ \E n \in Sizes : Push(n) /\ UNCHANGED dead
TrimStep == ~dead /\ \E a \in 0 .. LastSeq : TrimTo(a) /\ UNCHANGED dead
KillStep == ~dead /\ Clear /\ dead' = TRUE
ExitStep == ~dead /\ dead' = TRUE /\ UNCHANGED ringVars

RingNext == PushStep \/ TrimStep \/ KillStep \/ ExitStep

RingSpec == RingInit /\ [][RingNext]_<<ringVars, dead>>

-----------------------------------------------------------------------------
RingTypeOK ==
  /\ buf \in Seq(Chunk)
  /\ used \in Nat
  /\ nextSeq \in Nat /\ baseSeq \in Nat /\ total \in Nat
  /\ dead \in BOOLEAN

(* The ring is a window of the stream: it holds exactly the chunks          *)
(* baseSeq .. nextSeq - 1, in order, and they end where the stream ends.    *)
Window ==
  /\ baseSeq >= BaseSeq /\ baseSeq + Len(buf) = nextSeq
  /\ \A i \in 1 .. Len(buf) : buf[i].seq = baseSeq + i - 1
  /\ \A i \in 1 .. Len(buf) : buf[i].from < buf[i].to
  /\ \A i \in 1 .. Len(buf) - 1 : buf[i].to = buf[i + 1].from
  /\ \A i, j \in 1 .. Len(buf) : i < j => buf[i].to <= buf[j].from
  /\ buf /= <<>> => buf[Len(buf)].to = total

(* The byte count the drop loop decides on is the length of what is held,   *)
(* and never above budget.                                                 *)
Accounted ==
  /\ used = PrefixBytes(buf, Len(buf))
  /\ used <= MaxBytes

RingInv == ~dead => Window /\ Accounted

(* A delta is honest (output-ring.ts:74, server.ts:2145-2158): when the     *)
(* ring says it can replay since s, what it replays is every chunk after s, *)
(* none missing and none repeated, byte-contiguous up to the stream's end.  *)
DeltaIsWhole ==
  ~dead => \A s \in 0 .. LastSeq : CanReplaySince(s) =>
    LET d == Since(s) IN
    /\ Len(d) = LastSeq - s
    /\ \A i \in 1 .. Len(d) : d[i].seq = s + i
    /\ \A i \in 1 .. Len(d) - 1 : d[i].to = d[i + 1].from
    /\ d /= <<>> => d[Len(d)].to = total
=============================================================================
