------------------------------ MODULE HolderRing ------------------------------
(***************************************************************************)
(* The bytes a PTY holder keeps of its program's output (holder/src/main.rs):     *)
(* the ring, overwritten in place, and the tracker that follows the output        *)
(* through the lexical states of a terminal and notes, here and there, an offset   *)
(* at which no character and no control sequence is cut.  A server that asks for    *)
(* what has been overwritten is given the rest from such an offset on.           *)
(*                                                                         *)
(* A byte is named for its class: "(" for 20-2F, "1" for 30-3F, "a" for any other  *)
(* printing one, lead and cont for a character of two bytes.                    *)
(***************************************************************************)
EXTENDS Integers, Sequences

CONSTANTS Capacity,      \* --ring-size
          Grain, AnchorCap,      \* ANCHOR_GRAIN and ANCHOR_CAP
          MaxPtyRead,    \* bytes one read takes at most
          MaxPutOut      \* bound of the model: bytes printed

(* "double the ring" (main.rs:68).                                            *)
ASSUME RingBytesAssumption ==
  /\ Capacity \in Nat \ {0} /\ Grain \in Nat \ {0} /\ AnchorCap \in Nat \ {0}
  /\ AnchorCap * Grain > Capacity
  /\ MaxPtyRead \in Nat \ {0} /\ MaxPutOut \in Nat

VARIABLES
  emitted,     \* all the program has printed
  whole,       \* ghost: the offsets between the sequences it printed
  bytes,       \* Ring: buf, start, len, written
  tracker      \* AnchorTracker: state, anchors, last; at: where the next byte goes

holderRingVars == <<emitted, whole, bytes, tracker>>

(* What programs print: characters, some broken, and control sequences of every    *)
(* kind, one of them aborted by the next.                                     *)
Printable ==
  {<<"a">>, <<"lead", "cont">>, <<"lead", "a">>, <<"esc", "a">>, <<"esc", "(", "a">>,
   <<"esc", "[", "1", "a">>, <<"esc", "[", "esc", "[", "a">>, <<"esc", "]", "a", "bel">>, <<"esc", "]", "esc", "\\">>}

-----------------------------------------------------------------------------
(* Where the oldest byte is once n more than are there have been written.            *)
Oldest(r, n) == IF r.len + n > Capacity THEN (r.start + r.len + n - Capacity) % Capacity ELSE r.start

(* The ring.  push() copies in one or two pieces...                                *)
CopiedIn(buf, end, data) ==
  [k \in 0 .. Capacity - 1 |->
     LET i == (k - end) % Capacity IN IF i < Len(data) THEN data[i + 1] ELSE buf[k]]

(* ... and more than the ring holds starts it anew.                                 *)
Pushed(r, data) ==
  LET n == Len(data)
  IN  IF n >= Capacity
      THEN [buf |-> [k \in 0 .. Capacity - 1 |-> data[n - Capacity + k + 1]],
            start |-> 0, len |-> Capacity, written |-> r.written + n]
      ELSE [buf |-> CopiedIn(r.buf, (r.start + r.len) % Capacity, data),
            start |-> Oldest(r, n), len |-> IF r.len + n > Capacity THEN Capacity ELSE r.len + n,
            written |-> r.written + n]

BaseOf(r) == r.written - r.len

Dump(r) == [i \in 1 .. r.len |-> r.buf[(r.start + i - 1) % Capacity]]

(* since(): everything from offset on, or everything there is.                    *)
SinceOffset(r, offset) ==
  LET base == BaseOf(r)
  IN  IF offset <= base THEN Dump(r)
      ELSE IF offset >= r.written THEN <<>>
      ELSE SubSeq(Dump(r), offset - base + 1, r.len)

-----------------------------------------------------------------------------
(* step(), from the state between sequences...                                 *)
FromGround(b) == CASE b = "esc" -> "esc" [] b = "lead" -> "utf8" [] OTHER -> "ground"

(* Mutant: a string ends at any escape.                                         *)
FromStringEscEnds(b) == IF b \in {"bel", "esc"} THEN "ground" ELSE "string"

(* A string ends with BEL or ESC \, and with nothing else.                        *)
FromString(b) == CASE b = "bel" -> "ground" [] b = "esc" -> "stringEsc" [] OTHER -> "string"

(* ... and from any.                                                        *)
LexStep(state, b) ==
  CASE state = "ground" -> FromGround(b)
    [] state = "utf8" -> IF b = "cont" THEN "ground" ELSE FromGround(b)
    [] state = "esc" -> (CASE b = "[" -> "csi" [] b = "]" -> "string" [] b = "(" -> "escInter" [] OTHER -> "ground")
    [] state = "escInter" -> IF b = "(" THEN "escInter" ELSE "ground"
    [] state = "csi" -> (CASE b \in {"a", "[", "]", "\\"} -> "ground" [] b = "esc" -> "esc" [] OTHER -> "csi")
    [] state = "string" -> FromString(b)
    [] state = "stringEsc" -> IF b = "\\" THEN "ground" ELSE "string"

(* The oldest anchor makes room for a new one.                                  *)
Noted(anchors, here) == Append(IF Len(anchors) >= AnchorCap THEN Tail(anchors) ELSE anchors, here)

(* One byte of feed(): an anchor at each first safe offset a grain after the last.   *)
FedByte(t, b) ==
  LET state == LexStep(t.state, b)
      here == t.at + 1
  IN  IF state = "ground" /\ here - t.last >= Grain
      THEN [state |-> state, at |-> here, last |-> here, anchors |-> Noted(t.anchors, here)]
      ELSE [t EXCEPT !.state = state, !.at = here]

(* All of it, from the front to the back.                                       *)
Tracked(t, data) ==
  LET after[i \in 0 .. Len(data)] == IF i = 0 THEN t ELSE FedByte(after[i - 1], data[i])
  IN  after[Len(data)]

(* Off the front of the anchors, up to one that is not below.                          *)
Below(anchors, base) ==
  CHOOSE d \in 0 .. Len(anchors) :
    (\A i \in 1 .. d : anchors[i] < base) /\ (d < Len(anchors) => anchors[d + 1] >= base)

PruneBelow(t, base) == [t EXCEPT !.anchors = SubSeq(@, Below(@, base) + 1, Len(@))]

-----------------------------------------------------------------------------
HolderRingInit ==
  /\ emitted = <<>> /\ whole = {0}
  /\ bytes = [buf |-> [k \in 0 .. Capacity - 1 |-> "0"], start |-> 0, len |-> 0, written |-> 0]
  /\ tracker = [state |-> "ground", anchors |-> <<0>>, last |-> 0, at |-> 0]

PutsOut(sequence) ==
  /\ Len(emitted) + Len(sequence) <= MaxPutOut
  /\ emitted' = emitted \o sequence /\ whole' = whole \cup {Len(emitted')}
  /\ UNCHANGED <<bytes, tracker>>

(* One read of the PTY, cut anywhere: into the ring, through the tracker, and anchors  *)
(* of what is overwritten forgotten.                                           *)
ReadsPty(n) ==
  /\ bytes.written + n <= Len(emitted)
  /\ LET data == SubSeq(emitted, bytes.written + 1, bytes.written + n)
     IN  /\ bytes' = Pushed(bytes, data)
         /\ tracker' = PruneBelow(Tracked(tracker, data), BaseOf(bytes'))
  /\ UNCHANGED <<emitted, whole>>

HolderRingNext ==
  \/ \E sequence \in Printable : PutsOut(sequence)
  \/ \E n \in 1 .. MaxPtyRead : ReadsPty(n)

HolderRingSpec == HolderRingInit /\ [][HolderRingNext]_holderRingVars

-----------------------------------------------------------------------------
(* Where the rest starts that a server is given whose own state is too old: the       *)
(* first anchor left, or the end if there is none before it.                     *)
SafeOffset ==
  LET left == {i \in DOMAIN tracker.anchors : tracker.anchors[i] >= BaseOf(bytes)}
      first == CHOOSE i \in left : \A j \in left : i <= j
  IN  IF left # {} /\ tracker.anchors[first] < bytes.written THEN tracker.anchors[first] ELSE bytes.written

(* DUMP_SINCE: a continuation from want on, or with a gap the safe rest.            *)
ReplaySince(want) ==
  LET gap == want < BaseOf(bytes)
      from == IF gap THEN SafeOffset ELSE want
  IN  [gap |-> gap, from |-> from, data |-> SinceOffset(bytes, from)]

(* DUMP_REQ: all of it, if nothing has been overwritten.                         *)
DumpAll ==
  LET from == IF BaseOf(bytes) > 0 THEN SafeOffset ELSE 0
  IN  [gap |-> BaseOf(bytes) > 0, from |-> from, data |-> SinceOffset(bytes, from)]

Replays == {ReplaySince(want) : want \in 0 .. bytes.written} \cup {DumpAll}

(* Whatever a server asks for, it is given what was printed from the offset named       *)
(* on, to the last byte; and if that is not a continuation, it starts where no          *)
(* character and no control sequence is cut ("the tail can begin mid-UTF-8 or            *)
(* mid-escape ... and the damage spreads across rows", main.rs:46-54).  Nor is more       *)
(* withheld than has to be: of what the ring still holds, at most a grain and the        *)
(* sequence it ends in, though reads cut sequences anywhere and the list of anchors      *)
(* is short.                                                                *)
ReplayIsWhole ==
  \A r \in Replays :
    /\ r.data = SubSeq(emitted, r.from + 1, bytes.written)
    /\ r.gap => r.from \in whole \cup {bytes.written}
    /\ r.gap => \A b \in whole :
         BaseOf(bytes) + Grain <= b /\ b < bytes.written => r.from <= b
===============================================================================
