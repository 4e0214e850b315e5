------------------------------- MODULE SyncBlock -------------------------------
(***************************************************************************)
(* How a session's output is cut into the chunks its viewers and its ring get      *)
(* (packages/server/src/sync-block.ts, session.ts).  What a program prints between   *)
(* the two marks of a synchronised update (DEC 2026) is held and goes out as one     *)
(* chunk; the marks are taken out; a block that is not closed goes out after a time,  *)
(* when it grows too long, or when the terminal is resized.                         *)
(*                                                                         *)
(* What is held goes out together, so its length stands for it.                     *)
(***************************************************************************)
EXTENDS Integers, SequencesExt

CONSTANTS MaxHeld,      \* MAX_SYNC_BUFFER_BYTES
          MaxRead       \* bound of the runs: length of one read of the holder's output

ASSUME SyncAssumption == MaxHeld \in Nat /\ MaxRead \in Nat

VARIABLES
  syncOpen,    \* a block is open
  part,        \* the control sequence the last read ended in the middle of, or Whole
  held,        \* length of syncChunks
  syncTimer,   \* the time-out is armed
  faults       \* ghost: what has happened to the output so far

syncVars == <<syncOpen, part, held, syncTimer, faults>>

Marks == {"begin", "end"}
Controls == Marks \cup {"control"}      \* a string (OSC, DCS, ...) is a control, whatever is in it
Whole == "whole"

(* What one read holds: characters and control sequences, the last of which may be  *)
(* cut.  The first may be the rest of the one that was cut before, and is then taken   *)
(* to be more than one byte: the length of a block is looked at after each byte.      *)
Reads == [tokens : SeqOf(Controls \cup {"text"}, MaxRead), cut : Controls \cup {Whole}]

-----------------------------------------------------------------------------
(* process(): the filter at work on one read.  Tokens are numbered, those held        *)
(* before first: `sync` and `visible` are syncChunks and visibleChunks, the texts are  *)
(* what is not flushed to them yet.                                                 *)
Begun == [open |-> syncOpen, sync |-> [i \in 1 .. held |-> i], syncText |-> <<>>, visible |-> <<>>, text |-> <<>>,
          next |-> held + 1, started |-> FALSE, ended |-> FALSE, overflowed |-> FALSE]

SyncFlushed(w) == [w EXCEPT !.sync = @ \o w.syncText, !.syncText = <<>>]
VisibleFlushed(w) == [w EXCEPT !.visible = @ \o w.text, !.text = <<>>]

(* pushVisibleByte, pushControl.                                              *)
TextPushed(w) ==
  IF w.open THEN [w EXCEPT !.syncText = Append(@, w.next)] ELSE [w EXCEPT !.text = Append(@, w.next)]
ControlPushed(w) ==
  IF w.open THEN [SyncFlushed(w) EXCEPT !.sync = Append(@, w.next)]
  ELSE [VisibleFlushed(w) EXCEPT !.visible = Append(@, w.next)]

(* Mutant: what is held is thrown away with the block.                          *)
OverflowDiscards(w) ==
  IF ~w.open \/ Len(w.sync) <= MaxHeld THEN w
  ELSE [w EXCEPT !.open = FALSE, !.sync = <<>>, !.syncText = <<>>, !.overflowed = TRUE]

(* A block that has grown too long goes out as it is.                           *)
Overflow(w) ==
  IF ~w.open \/ Len(w.sync) <= MaxHeld THEN w
  ELSE [w EXCEPT !.visible = @ \o SyncFlushed(w).sync, !.sync = <<>>, !.syncText = <<>>,
                 !.open = FALSE, !.overflowed = TRUE]

(* finishSequence.                                                           *)
Step(w, t) ==
  LET done == CASE t = "text"    -> TextPushed(w)
                [] t = "control" -> ControlPushed(Overflow(w))
                [] t = "begin"   -> [Overflow(w) EXCEPT !.open = TRUE, !.started = TRUE]
                [] t = "end"     -> [Overflow(w) EXCEPT !.open = FALSE, !.ended = TRUE]
  IN  Overflow([done EXCEPT !.next = @ + 1])

(* At the end of the read: a block that ended goes out after all that is visible.    *)
Processed(r) ==
  LET all == FoldLeft(Step, Begun, r.tokens)
      w == SyncFlushed(VisibleFlushed(IF r.cut = Whole THEN all ELSE Overflow(all)))
  IN  IF w.ended THEN [w EXCEPT !.visible = @ \o w.sync, !.sync = <<>>] ELSE w

(* What the program printed, the marks left out.                               *)
Printed(tokens) ==
  [i \in 1 .. held |-> i] \o
    SelectSeq([i \in DOMAIN tokens |-> held + i], LAMBDA n : tokens[n - held] \notin Marks)

(* A read that goes on after the end of a block.                                 *)
RunsOn(tokens) == \E i, j \in DOMAIN tokens : i < j /\ tokens[i] = "end" /\ tokens[j] # "end"

(* Ghost: what came out of a read in another order than it was printed, or not once.  *)
FaultsOf(w, tokens) ==
  LET out == w.visible \o w.sync
      due == Printed(tokens)
  IN  IF out = due THEN {}
      ELSE IF ~IsInjective(out) \/ ToSet(out) # ToSet(due) THEN {"lost"}
      ELSE IF RunsOn(tokens) \/ (w.overflowed /\ Contains(tokens, "begin")) THEN {} ELSE {"swapped"}

-----------------------------------------------------------------------------
SyncInit ==
  /\ syncOpen = FALSE /\ part = Whole /\ held = 0 /\ syncTimer = FALSE
  /\ faults = {}

(* armSyncTimer when a block began, clearSyncTimer when one ended or was too long:     *)
(* in this order, whatever order they had in the read.                            *)
Timer(w) == (w.started \/ syncTimer) /\ ~w.overflowed /\ ~w.ended

(* processTerminalOutput.                                                     *)
Reading(r) ==
  LET w == Processed(r)
  IN  /\ part # Whole => r.tokens # <<>> /\ r.tokens[1] = part
      /\ syncOpen' = w.open /\ part' = r.cut /\ held' = Len(w.sync)
      /\ syncTimer' = Timer(w)
      /\ faults' = faults \cup FaultsOf(w, r.tokens)

(* resetSyncEmissionState: what is held goes out, the block counts as closed.       *)
Aborts ==
  /\ syncOpen' = FALSE /\ held' = 0 /\ syncTimer' = FALSE
  /\ UNCHANGED <<part, faults>>

SyncTimeout == syncTimer /\ Aborts

(* A resize; every page may cause one.                                         *)
SyncResize == Aborts

SyncNext == (\E r \in Reads : Reading(r)) \/ SyncTimeout \/ SyncResize

SyncSpec == SyncInit /\ [][SyncNext]_syncVars

-----------------------------------------------------------------------------
(* The viewers and the ring get what the program printed, each thing once and in     *)
(* order ("coalesces a synchronized block and strips the markers",                  *)
(* sync-block.test.ts:5), however it is cut into reads, whatever is aborted or too     *)
(* long.  Only where one read goes on after the end of a block does the code put       *)
(* what follows before the block; and where one read begins a block and overfills it,   *)
(* what came before it after it.                                              *)
SyncKeepsAll == faults = {}
=============================================================================
