------------------------------- MODULE LocalEcho -------------------------------
(***************************************************************************)
(* Local echo (packages/vt/src/local-echo.ts and the writes of                  *)
(* packages/ui/src/terminal-host.ts).  A page shows a typed character before the   *)
(* server has echoed it, and compares what the server then prints with what it     *)
(* predicted.  The server may print anything, an echo, a redraw, output of its own,  *)
(* whatever was typed: so a frame is chosen when it arrives, and one that is on its    *)
(* way needs no place of its own.                                            *)
(*                                                                         *)
(* A character is one byte and one cell.  Whether a key is predicted at all (round  *)
(* trip, cool-down, prompts for a password) is a free choice.                    *)
(***************************************************************************)
EXTENDS Integers, SequencesExt

CONSTANTS Letters,      \* characters, beside the blank
          Cols,         \* width of the terminal
          MaxPending,   \* MAX_PENDING_BYTES
          MaxKeys,      \* bound of the runs: keys predicted
          Frames,       \* bound of the runs: lengths of the server's frames
          MaxPrinted    \* bound of the runs: length of all of them together

ASSUME EchoAssumption == Cols \in Nat \ {0} /\ MaxPending \in Nat

VARIABLES
  echoMode,    \* "classic" or "tolerant"
  shown,       \* the page's terminal
  queue,       \* writeChunks: output that waits for the animation frame
  predicted,   \* pending: characters shown and not yet echoed
  confirmed,   \* the last characters the server printed on this line
  asked,       \* SNAPSHOT requests that are not answered
  seen,        \* ghost: the terminal of the server, as of the frames the page has handled
  disturbed,   \* ghost: the page did since the last snapshot what makes no exact prediction
  keys, printed  \* ghost: for the bounds

echoVars == <<echoMode, shown, queue, predicted, confirmed, asked, seen, disturbed, keys, printed>>

-----------------------------------------------------------------------------
(* The terminal: the cells that are not blank, counted on from the top left corner,   *)
(* the cursor, whether the next character starts a new line first, and whether that     *)
(* is how the cursor's line began (isWrapped).                                  *)

Chars == Letters \cup {" "}
Tokens == Chars \cup {"BS", "NL", "ALT", "SGR"}

Blank == [cells |-> {}, at |-> 0, wrap |-> FALSE, soft |-> FALSE]

Prints(s, t) ==
  CASE t \in Chars ->
         LET p == IF s.wrap THEN s.at + 1 ELSE s.at
             full == p % Cols = Cols - 1
         IN  [cells |-> {c \in s.cells : c[1] # p} \cup ({p} \X ({t} \ {" "})),
              at |-> IF full THEN p ELSE p + 1, wrap |-> full,
              soft |-> s.soft \/ s.wrap]
    [] t = "BS"  -> [s EXCEPT !.at = IF @ % Cols > 0 THEN @ - 1 ELSE @, !.wrap = FALSE]
    [] t = "NL"  -> [s EXCEPT !.at = (@ \div Cols + 1) * Cols, !.wrap = FALSE, !.soft = FALSE]
    [] t = "ALT" -> Blank
    [] t = "SGR" -> s

Applied(s, tokens) == FoldLeft(Prints, s, tokens)

Erasing == <<"BS", " ", "BS">>

-----------------------------------------------------------------------------
(* Comparing.                                                               *)

(* What a chunk leads to: what is written of it, the predictions and confirmed      *)
(* characters left, and whether a snapshot is asked for.                          *)
Outcome(written, left, sure, asks) == [written |-> written, predicted |-> left, confirmed |-> sure, asks |-> asks]

(* A mismatch: the rest of the chunk is dropped with every prediction.              *)
Mismatch == Outcome(<<>>, <<>>, <<>>, TRUE)

Beyond(s, n) == SubSeq(s, n + 1, Len(s))

(* reconcileServerData in classic mode.                                        *)
ReconcileClassic(data) ==
  LET matched == Len(LongestCommonPrefix({data, predicted}))
      rest == Beyond(data, matched)
  IN  IF predicted = <<>> THEN Outcome(data, <<>>, confirmed, FALSE)
      ELSE IF matched = 0 THEN Mismatch
      ELSE Outcome(rest, IF Contains(rest, "ALT") THEN <<>> ELSE Beyond(predicted, matched), <<>>, FALSE)

(* redrawLengthAt: k steps back after i tokens and the k last confirmed characters again. *)
Redraws(data, i, sure) ==
  {k \in 1 .. Len(sure) :
     /\ i + 2 * k <= Len(data)
     /\ \A n \in 1 .. k : data[i + n] = "BS" /\ data[i + k + n] = sure[Len(sure) - k + n]}

(* Mutant: a line that ended is remembered.                                     *)
TrackAcrossLines(sure, data) == sure \o SelectSeq(data, LAMBDA t : t \in Chars)

(* trackConfirmed: anything but a character or a colour forgets the line.           *)
TrackConfirmed(sure, data) ==
  IF \E i \in DOMAIN data : data[i] \in {"BS", "NL", "ALT"} THEN <<>>
  ELSE sure \o SelectSeq(data, LAMBDA t : t \in Chars)

(* The loop of reconcileTolerant: i tokens of data are explained, j predictions met.  *)
RECURSIVE Explained(_, _)
Explained(data, w) ==
  LET t == data[w.i + 1]
      redraws == Redraws(data, w.i, w.sure)
  IN  IF w.i = Len(data) THEN w
      ELSE IF t = "SGR" THEN Explained(data, [w EXCEPT !.i = @ + 1])
      ELSE IF w.j < Len(predicted) /\ t = predicted[w.j + 1]
           THEN Explained(data, [i |-> w.i + 1, j |-> w.j + 1, sure |-> Append(w.sure, t)])
      ELSE IF redraws # {} THEN Explained(data, [w EXCEPT !.i = @ + 2 * (CHOOSE k \in redraws : TRUE)])
      ELSE w

(* reconcileTolerant.                                                        *)
ReconcileTolerant(data) ==
  LET w == Explained(data, [i |-> 0, j |-> 0, sure |-> confirmed])
      rest == Beyond(data, w.i)
      left == Beyond(predicted, w.j)
  IN  IF predicted = <<>> THEN Outcome(data, <<>>, TrackConfirmed(confirmed, data), FALSE)
      ELSE IF w.i = 0 \/ (rest # <<>> /\ left # <<>>) THEN Mismatch
      ELSE Outcome(rest, left, TrackConfirmed(w.sure, rest), FALSE)

(* A redraw that is passed over moves the cursor all the same on a line that has      *)
(* filled: from its last cell it ends a cell short, and steps back stop where it goes   *)
(* on from the line above.                                                   *)
Slips(data) ==
  /\ echoMode = "tolerant" /\ predicted # <<>>
  /\ \E i \in DOMAIN data : \E k \in Redraws(data, i - 1, confirmed \o SubSeq(data, 1, i - 1)) :
       LET before == Applied(seen, SubSeq(data, 1, i - 1))
       IN  before.wrap \/ (before.soft /\ k > before.at % Cols)

Compared(data) == IF echoMode = "tolerant" THEN ReconcileTolerant(data) ELSE ReconcileClassic(data)

-----------------------------------------------------------------------------
EchoInit ==
  /\ echoMode \in {"classic", "tolerant"}
  /\ shown = Blank /\ seen = Blank /\ queue = <<>> /\ predicted = <<>> /\ confirmed = <<>>
  /\ asked = 0 /\ disturbed = FALSE /\ keys = 0 /\ printed = 0

(* A character is typed and predicted: it is written at once, ahead of what waits in   *)
(* the queue.                                                               *)
Predicts(c) ==
  /\ Len(predicted) < MaxPending /\ keys < MaxKeys
  /\ predicted' = Append(predicted, c) /\ shown' = Prints(shown, c) /\ keys' = keys + 1
  /\ disturbed' = (disturbed \/ queue # <<>>)
  /\ UNCHANGED <<echoMode, queue, confirmed, asked, seen, printed>>

(* The last prediction is taken back.  A blank written over it does not undo it at the  *)
(* end of a line, nor where it stood on another character.                         *)
TakesBack ==
  /\ predicted # <<>>
  /\ predicted' = Front(predicted) /\ shown' = Applied(shown, Erasing)
  /\ disturbed' = (disturbed \/ queue # <<>> \/ Applied(seen, predicted \o Erasing) # Applied(seen, Front(predicted)))
  /\ UNCHANGED <<echoMode, queue, confirmed, asked, seen, keys, printed>>

(* Input that is no text, or a change of the setting: predictions are forgotten and stay *)
(* on the screen.                                                            *)
ForgetsKeys ==
  /\ predicted' = <<>> /\ confirmed' = <<>> /\ disturbed' = (disturbed \/ predicted # <<>>)
  /\ echoMode' \in {"classic", "tolerant"}
  /\ UNCHANGED <<shown, queue, asked, seen, keys, printed>>

(* handleData.  What is left of the frame is written at once, unless it is long or      *)
(* something waits already.  Classic mode writes it even over predictions that are not  *)
(* echoed yet.                                                              *)
Receives(data) ==
  LET o == Compared(data)
      over == o.written # <<>> /\ Len(data) < Len(predicted) + Len(o.written)
  IN  /\ printed + Len(data) <= MaxPrinted /\ printed' = printed + Len(data)
      /\ predicted' = o.predicted /\ confirmed' = o.confirmed
      /\ asked' = asked + (IF o.asks THEN 1 ELSE 0)
      /\ \/ queue = <<>> /\ shown' = Applied(shown, o.written) /\ UNCHANGED queue
         \/ queue' = queue \o o.written /\ UNCHANGED shown
      /\ disturbed' = (disturbed \/ (echoMode = "classic" /\ over) \/ Slips(data))
      /\ seen' = Applied(seen, data)
      /\ UNCHANGED <<echoMode, keys>>

(* flushWrites.                                                              *)
Flushes ==
  /\ queue # <<>>
  /\ shown' = Applied(shown, queue) /\ queue' = <<>>
  /\ UNCHANGED <<echoMode, predicted, confirmed, asked, seen, disturbed, keys, printed>>

(* handleSnapshot: everything is repainted and the predictions forgotten.  The server's *)
(* handler leaves what it has batched where it is, and sends it again after the        *)
(* snapshot that contains it.                                                *)
Repaints(batch) ==
  /\ asked > 0 /\ asked' = asked - 1
  /\ printed + Len(batch) <= MaxPrinted /\ printed' = printed + Len(batch)
  /\ shown' = Applied(seen, batch) /\ seen' = shown' /\ disturbed' = (batch # <<>>)
  /\ queue' = <<>> /\ predicted' = <<>> /\ confirmed' = <<>>
  /\ UNCHANGED <<echoMode, keys>>

EchoNext ==
  \/ \E c \in Chars : Predicts(c)
  \/ TakesBack \/ ForgetsKeys \/ Flushes
  \/ \E n \in Frames : \E data \in [1 .. n -> Tokens] : Receives(data) \/ Repaints(data)
  \/ Repaints(<<>>)

EchoSpec == EchoInit /\ [][EchoNext]_echoVars

-----------------------------------------------------------------------------
(* The page shows what the server's terminal showed when it sent the last frame       *)
(* handled, followed by the predictions, whatever the server printed and however it     *)
(* was cut into frames ("drift" in local-echo.replay.test.ts:36), unless a snapshot    *)
(* is on its way or one of the disturbances happened that the code has no answer to.    *)
EchoHonest == ~disturbed /\ asked = 0 => Applied(shown, queue) = Applied(seen, predicted)
=============================================================================
