----------------------------- MODULE CommandIndex -----------------------------
(***************************************************************************)
(* The command index of a session (server/src/command-index.ts) and those who run a   *)
(* command and wait for it (POST /api/sessions/:id/commands): the marks zsh prints    *)
(* around its commands (scripts/ttym-shell-integration.zsh), heard as the session     *)
(* parses what it reads, each before the bytes it came with are in the ring, and      *)
(* the output cut out of the ring by what the marks have said.                     *)
(*                                                                         *)
(* A line is a number, in the order the lines were typed; its exit code, its output    *)
(* and its marks carry that number.                                            *)
(***************************************************************************)
EXTENDS Integers, Sequences, FiniteSets, SequencesExt

CONSTANTS Callers,       \* requests to run a command, each made once
          RingTokens,    \* ringBytes(), in marks and pieces of output
          RecordCap,     \* CAP: records kept
          MaxLines, MaxPieces, MaxTaken, MaxShells   \* bounds of the model: lines typed,
                         \* pieces of output printed, marks and pieces in a read, nested shells

ASSUME CommandAssumption ==
  /\ RecordCap \in Nat \ {0} /\ RingTokens \in Nat /\ {MaxLines, MaxPieces, MaxTaken, MaxShells} \subseteq Nat

VARIABLES
  lines,       \* ghost: who typed each line
  typed,       \* the lines no program has taken yet
  shells,      \* the shell and the shells run in it, outermost first: the line it runs, 0 at its prompt
  stream,      \* what was printed and not yet read
  tape,        \* Session.ring: baseSeq, and the chunks numbered from it on
  pieces,      \* ghost: how much of each line's output was printed, and how much of that read
  index,       \* CommandIndex: records, open, pendingCmdline, counter, _signalsSeen
  awaits       \* the requests, and what they know

commandVars == <<lines, typed, shells, stream, tape, pieces, index, awaits>>

NoRecord == [n |-> 0, cmdline |-> 0, code |-> 0, startSeq |-> 0, endSeq |-> 0,
             due |-> 0]       \* ghost: pieces of its output read before the read with its end

NoAwait == [at |-> "idle", afterN |-> 0, record |-> NoRecord, output |-> <<>>, truncated |-> FALSE,
            alone |-> FALSE]      \* ghost: nothing else was under way when it was made

Token(is, line) == [is |-> is, line |-> line]

-----------------------------------------------------------------------------
(* OutputRing: push(), which drops the oldest until the rest fits, and slice().        *)
Used(chunks) == FoldLeft(LAMBDA n, chunk : n + Len(chunk), 0, chunks)

Dropped(chunks) == CHOOSE d \in 0 .. Len(chunks) :
  /\ Used(SubSeq(chunks, d + 1, Len(chunks))) <= RingTokens
  /\ \A e \in 0 .. d - 1 : Used(SubSeq(chunks, e + 1, Len(chunks))) > RingTokens

NextSeqOf(r) == r.baseSeq + Len(r.chunks)

RingPushed(r, chunk) ==
  LET all == Append(r.chunks, chunk)
      d == Dropped(all)
  IN  [baseSeq |-> r.baseSeq + d, chunks |-> SubSeq(all, d + 1, Len(all))]

Sliced(r, from, to) ==
  [data |-> FlattenSeq(SubSeq(r.chunks, IF from < r.baseSeq THEN 1 ELSE from - r.baseSeq + 1, to - r.baseSeq)),
   truncated |-> from < r.baseSeq]

-----------------------------------------------------------------------------
(* How much of what a command printed was read, before the read under way.             *)
ReadOf(record) == IF record.cmdline = 0 THEN 0 ELSE pieces.read[record.cmdline]

(* Mutant: any command that ends answers.                                        *)
AnsweredByAny(w, record) == w.at = "waiting"

(* waitForClose(): a command that started after the request was made answers it.        *)
AnsweredBy(w, record) == w.at = "waiting" /\ record.n > w.afterN

(* close(): the record is complete, and those who wait for it or an earlier one have     *)
(* it.  s is the index and the requests, seq the number of the chunk being read.      *)
Closed(s, seq, code) ==
  LET record == [s.index.open EXCEPT !.code = code, !.endSeq = seq, !.due = ReadOf(s.index.open)]
      kept == Append(s.index.records, record)
  IN  IF s.index.open = NoRecord
      THEN s
      ELSE [index |-> [s.index EXCEPT !.open = NoRecord,
                         !.records = SubSeq(kept, IF Len(kept) > RecordCap THEN Len(kept) - RecordCap + 1 ELSE 1, Len(kept))],
            awaits |-> [c \in Callers |->
                          IF AnsweredBy(s.awaits[c], record) THEN [s.awaits[c] EXCEPT !.at = "resolved", !.record = record]
                          ELSE s.awaits[c]]]

(* A command that starts closes one that never ended.                              *)
Opened(s, seq) ==
  LET free == Closed(s, seq, 0)
      n == free.index.counter + 1
  IN  [free EXCEPT !.index = [@ EXCEPT !.counter = n, !.cmdline = 0,
         !.open = [n |-> n, cmdline |-> free.index.cmdline, code |-> 0, startSeq |-> seq, endSeq |-> 0,
                   due |-> 0]]]

(* osc133() and osc633(), and what is no mark.                                    *)
Marked(s, token, seq) ==
  LET seen == [s EXCEPT !.index.seen = TRUE]
  IN  CASE token.is = "E" -> [s EXCEPT !.index.cmdline = token.line]
        [] token.is = "A" -> Closed(seen, seq, 0)
        [] token.is = "C" -> Opened(seen, seq)
        [] token.is = "D" -> Closed(seen, seq, token.line)
        [] OTHER -> s
-----------------------------------------------------------------------------
CommandInit ==
  /\ lines = <<>> /\ typed = <<>> /\ shells = <<0>> /\ stream = <<Token("A", 0)>> /\ tape = [baseSeq |-> 1, chunks |-> <<>>]
  /\ pieces = [printed |-> [l \in 1 .. MaxLines |-> 0], read |-> [l \in 1 .. MaxLines |-> 0]]
  /\ index = [records |-> <<>>, open |-> NoRecord, cmdline |-> 0, counter |-> 0, seen |-> FALSE]
  /\ awaits = [c \in Callers |-> NoAwait]

-----------------------------------------------------------------------------
(* The terminal.  The innermost shell and what it runs; a shell's hooks: preexec prints  *)
(* the line and C, precmd D if a command is open in it, and A.                       *)
Innermost == Last(shells)
With(line) == [shells EXCEPT ![Len(shells)] = line]
Precmd(line) == IF line = 0 THEN <<Token("A", 0)>> ELSE <<Token("D", line), Token("A", 0)>>

Types(who) ==
  /\ Len(lines) < MaxLines
  /\ lines' = Append(lines, who) /\ typed' = Append(typed, Len(lines'))

PersonTypes == Types("person") /\ UNCHANGED <<shells, stream, tape, pieces, index, awaits>>

LineStarts ==
  /\ Innermost = 0 /\ typed # <<>>
  /\ shells' = With(Head(typed)) /\ typed' = Tail(typed)
  /\ stream' = stream \o <<Token("E", Head(typed)), Token("C", Head(typed))>>
  /\ UNCHANGED <<lines, tape, pieces, index, awaits>>

(* What runs prints, or takes a line for itself.                                   *)
CommandPrints ==
  /\ Innermost # 0 /\ pieces.printed[Innermost] < MaxPieces
  /\ pieces' = [pieces EXCEPT !.printed[Innermost] = @ + 1]
  /\ stream' = Append(stream, Token("out", Innermost))
  /\ UNCHANGED <<lines, typed, shells, tape, index, awaits>>

Eats ==
  /\ Innermost # 0 /\ typed # <<>> /\ typed' = Tail(typed)
  /\ UNCHANGED <<lines, shells, stream, tape, pieces, index, awaits>>

CommandEnds ==
  /\ Innermost # 0
  /\ shells' = With(0) /\ stream' = stream \o Precmd(Innermost)
  /\ UNCHANGED <<lines, typed, tape, pieces, index, awaits>>

(* exec puts a shell in the place of the one that ran the line, which has no command     *)
(* open; zsh as a command runs a shell in it.                                      *)
Replaces ==
  /\ Innermost # 0
  /\ shells' = With(0) /\ stream' = stream \o Precmd(0)
  /\ UNCHANGED <<lines, typed, tape, pieces, index, awaits>>

Nests ==
  /\ Innermost # 0 /\ Len(shells) < MaxShells
  /\ shells' = Append(shells, 0) /\ stream' = stream \o Precmd(0)
  /\ UNCHANGED <<lines, typed, tape, pieces, index, awaits>>

(* An inner shell ends, by exit or at the end of its input: the command it was for the    *)
(* outer one ends with the code of the last it ran.                                *)
Leaves ==
  /\ Len(shells) > 1
  /\ LET outer == Front(shells)
         last == IF Innermost = 0 THEN Last(outer) ELSE Innermost
     IN  /\ shells' = [outer EXCEPT ![Len(outer)] = 0]
         /\ stream' = stream \o Precmd(last)
  /\ UNCHANGED <<lines, typed, tape, pieces, index, awaits>>

-----------------------------------------------------------------------------
(* The session reads, cut anywhere: the parser hears the marks, then the chunk goes into *)
(* the ring (handleHolderFrame, processTerminalOutput).                            *)
SessionReads(k) ==
  /\ k <= Len(stream)
  /\ LET chunk == SubSeq(stream, 1, k)
         heard == FoldLeft(LAMBDA s, token : Marked(s, token, NextSeqOf(tape)),
                           [index |-> index, awaits |-> awaits], chunk)
     IN  /\ tape' = RingPushed(tape, chunk) /\ stream' = SubSeq(stream, k + 1, Len(stream))
         /\ index' = heard.index /\ awaits' = heard.awaits
         /\ pieces' = [pieces EXCEPT !.read = [l \in 1 .. MaxLines |->
                         @[l] + Cardinality({i \in DOMAIN chunk : chunk[i] = Token("out", l)})]]
  /\ UNCHANGED <<lines, typed, shells>>

(* What every viewer has acknowledged leaves the ring (minAckTrim), the output of a       *)
(* command that someone waits for too.                                          *)
AckTrims ==
  /\ tape.chunks # <<>>
  /\ tape' = [baseSeq |-> tape.baseSeq + 1, chunks |-> Tail(tape.chunks)]
  /\ UNCHANGED <<lines, typed, shells, stream, pieces, index, awaits>>

-----------------------------------------------------------------------------
(* `ttym await`: is this a shell, as far as its marks tell, and is no command open?      *)
(* If not it asks the agent.                                                    *)
Probes(c) ==
  /\ awaits[c].at = "idle"
  /\ awaits' = [awaits EXCEPT ![c].at = IF index.seen /\ index.open = NoRecord THEN "probed" ELSE "elsewhere"]
  /\ UNCHANGED <<lines, typed, shells, stream, tape, pieces, index>>

(* The request: the line is typed, and the first command to end of those that start from  *)
(* now on answers it.                                                           *)
Runs(c) ==
  /\ awaits[c].at = "probed"
  /\ Types(c)
  /\ awaits' = [awaits EXCEPT ![c].at = "waiting", ![c].afterN = index.counter,
                   ![c].alone = Innermost = 0 /\ typed = <<>> /\ \A i \in DOMAIN stream : stream[i].is # "C"]
  /\ UNCHANGED <<shells, stream, tape, pieces, index>>

(* The continuation of the handler, when the chunks at hand have been parsed.           *)
CommandAnswers(c) ==
  /\ awaits[c].at = "resolved"
  /\ LET slice == Sliced(tape, awaits[c].record.startSeq, awaits[c].record.endSeq)
     IN  awaits' = [awaits EXCEPT ![c].at = "answered", ![c].output = slice.data, ![c].truncated = slice.truncated]
  /\ UNCHANGED <<lines, typed, shells, stream, tape, pieces, index>>

AwaitTimesOut(c) ==
  /\ awaits[c].at = "waiting" /\ awaits' = [awaits EXCEPT ![c].at = "timedOut"]
  /\ UNCHANGED <<lines, typed, shells, stream, tape, pieces, index>>

CommandNext ==
  \/ PersonTypes \/ LineStarts \/ CommandPrints \/ Eats \/ CommandEnds \/ Replaces \/ Nests \/ Leaves \/ AckTrims
  \/ \E k \in 1 .. MaxTaken : SessionReads(k)
  \/ \E c \in Callers : Probes(c) \/ Runs(c) \/ CommandAnswers(c) \/ AwaitTimesOut(c)

CommandSpec == CommandInit /\ [][CommandNext]_commandVars

-----------------------------------------------------------------------------
(* What GET /commands/:n/output cuts out for a record there is, if it runs up to now.   *)
CutFor(r) == Sliced(tape, r.startSeq, IF r.endSeq = 0 THEN NextSeqOf(tape) ELSE r.endSeq)

PiecesOf(r, data) == Cardinality({i \in DOMAIN data : data[i] = Token("out", r.cmdline)})

(* A caller whose line was the only thing the shell had to do is answered with the       *)
(* record of its own line and its exit code, if it has one, though commands replace      *)
(* the shell, run shells or take what is typed after.  And what is cut out for a command, *)
(* for whoever asks and whenever, holds all its output from the reads before the one      *)
(* that brought its end, or the reader is told that some is missing; and nothing printed  *)
(* by what was started after it ("return exit code plus the output sliced by its          *)
(* window", README.md:562).                                                        *)
CommandsKeepTheirOwn ==
  /\ \A c \in Callers :
       LET w == awaits[c]
           mine == w.record.cmdline
       IN  w.at = "answered" =>
             /\ w.alone => lines[mine] = c /\ w.record.code \in {0, mine}
             /\ w.truncated \/ PiecesOf(w.record, w.output) >= w.record.due
             /\ \A i \in DOMAIN w.output : w.output[i].line <= mine
  /\ \A r \in ToSet(index.records) \cup ({index.open} \ {NoRecord}) :
       LET cut == CutFor(r)
       IN  /\ cut.truncated \/ PiecesOf(r, cut.data) >= (IF r.endSeq = 0 THEN ReadOf(r) ELSE r.due)
           /\ r.endSeq # 0 => \A i \in DOMAIN cut.data : cut.data[i].line <= r.cmdline
===============================================================================
