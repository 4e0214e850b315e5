# ttym: a TLA+ model of the terminal multiplexer

ttym keeps terminals (mostly coding agents) running on a machine and shows them
in web pages. This directory holds TLA+ modules translated from its source, TLC
configurations that check them on small instances, and theorems about them that
TLAPS checks for every value of the constants.

* [Inventory](#inventory): the system's parts
* [Plan](#plan): the modules, and what could come next
* [Modules](#modules): what each one models, how, and what it leaves out
* [Runs](#runs), [Fairness](#fairness), [Proofs](#proofs)
* [Where the code and its comments disagree](#where-the-code-and-its-comments-disagree)
* [Not modelled](#not-modelled)

Paths are relative to `src/`. `PROJECT.json` maps every definition to the lines
it translates, lists the hazards the properties are for, and gives for each
property a mutated definition that TLC must find to break it.

## Inventory

One **holder** process (Rust) per terminal owns the PTY. One **server** process
(TypeScript, one event loop) holds a `Session` per terminal, connected to the
holder by a Unix socket. A **page** has one WebSocket, a `TerminalMux`, and a
`TerminalHost` with an xterm per pane. `Agent*` code of the server watches the
programs in the terminals and puts idle ones to sleep.

```
 agent <-> PTY <-> holder --unix socket--> Session --ring/batches--> WebSocket --> TerminalMux --> TerminalHost --> xterm
                     |  manifest, checkpoint, meta on disk  |             acks, attach, pause  <--
                     +--- SessionManager (boot, recover) ---+
                                  AgentSleeper: gate, freeze, resume
```

| component | state | operations | interacts with |
|---|---|---|---|
| holder (`holder/src/main.rs`) | controller connection, pending connection with its age, output ring and safe offsets, child pid | accept, ACQUIRE, legacy promotion, DUMP_REQ/DUMP_SINCE, DATA_IN, RESIZE, KILL, output, exit, linger | sessions over the socket, the manifest on disk |
| `Session` (`server/src/session.ts`) | holder socket, `_appliedOffset`, headless xterm, viewers, ring, freeze, input gate, geometry, sync filter | connectHolder, handleHolderFrame, emit, viewer pause/resume, freeze/thaw, resize and borrow | holder, `SessionManager`, the connections |
| `OutputRing` (`server/src/output-ring.ts`) | numbered chunks, byte count, first number | push, trimTo, since, canReplaySince, clear | session, batchers |
| `SessionManager` (`server/src/session-manager.ts`) | sessions, ids, detached viewers, metadata | boot, recoverOne, restoreWorkspace, create, persistSession, destroy, reap, getMeta/setMeta | holders, disk, workspace store |
| viewer stream (`server/src/server.ts` `wsServer`) | per connection: batcher (pending, window, stall, view pause), acks | ATTACH, DETACH, ACK, PAUSE_VIEW, RESUME_VIEW, SNAPSHOT, DESTROY, batching, drain timer, resync | session, ring, WebSocket |
| `TerminalMux` (`vt/src/mux.ts`) | socket, session callbacks, pending attaches and creates, watermarks | connect, attach, detach, ack, pause/resume, create | server, hosts |
| `TerminalHost` (`ui/src/terminal-host.ts`) | stream state, retries, queued writes | activate, disconnect, pauseView, resumeView, write queue, reactivate | mux, xterm |
| `AgentSleeper` (`server/src/agent-sleep.ts`) | per pane: phase, queue of keys; `inFlight` | sleep, wake, dismiss, restart, restore, the start hook, the gate | session, metadata, agent processes |
| `SyncBlockFilter` (`server/src/sync-block.ts`) | scanner state, open block, its timer | process, time-out, abort on a resize, overflow | session |
| `CommandIndex` (`server/src/command-index.ts`) | the open command, records with the numbers their output lies between, those who wait | marks heard, run and wait, list, cut out | session and its ring, zsh's hooks, `ttym await` |
| layout trees (`shared/src/layout-tree.ts`, `layout-presets.ts`, `ui/src/LayoutView.tsx`) | a tree of splits with shares | insert, split, remove, swap, resize, presets, projection on pixels | workspace store, pages |
| `WorkspaceStore` (`server/src/workspace-store.ts`) | workspaces with members, layout and stream; dirty flag, running save | CRUD on workspaces, members and streams; reconcile, load, save, flush | API, pages, embedding, `SessionManager` |
| pages that edit workspaces (`WorkspacePage.tsx`, `App.tsx`, `DashboardPage.tsx`, `workspace-domain.ts`, `cli/src/workspace.ts`) | a copy of a workspace or of the list, a barrier around own edits | edit first, ask, adopt answers, pushes and polls | workspace routes, pushes |
| `InteractionStore`, `submit.ts`, `agent-hooks.ts` | records of prompts, the one in flight, the open turn of a pane | start, answer, supersede, Stop, sweep, finish | sessions, agents' hooks and transcripts |
| agent bus, bridge, turns of other agents | events, waiters, transcripts | publish, wait, parse | agents' files and hooks |
| embedded access (`server/src/embed`) | registered apps, grants, a queue per workspace | mint, end, list/open/rename/close tabs, attach, revalidate | workspace store, `SessionManager`, WebSocket, HTTP |
| remote access | paired devices, login sessions | pair, revoke, decide who may enter | HTTP, WebSocket |
| `LocalEcho` (`vt/src/local-echo.ts`) | predicted characters | predict, take back, reconcile, resync | xterm, the mux's acks |
| `ttym attach` (`cli/src/attach.ts`) | mode (prefix, picker, help), session followed, last number | switch, resnap, next member, reconnect | the viewer stream |
| reader, search, file viewer, protocol, API client, other commands, web and desktop shells, scripts | mostly none | parsing, serving, calling | - |

What is hard here, and what makes each component right:

* **viewer stream** - output arrives while a viewer is stalled, hidden, being
  resynced or already gone; an ack refers to a frame sent long ago. Right: no
  viewer that is being fed misses a chunk, a batch that waits has a timer, a
  stall can end, trimming for one viewer costs no other its replay.
* **page stream** - the pane is hidden, unmounted, reconnected or timed out with
  an answer under way; two sides keep their own idea of one stream. Right: when
  nothing is in flight they agree, each chunk is painted once and in order, and
  a pane that is wanted gets there.
* **agent sleep** - `sleep()` and `wake()` run from await to await while keys,
  hooks and crashes come between. Right: one wake at a time, no gate that nobody
  opens, a key typed is never forgotten, a crash leaves a record that is true.
* **holder link** - two servers, an old one and its successor, reach for one
  holder; output goes on during the handshake; either may die. Right: the lease
  passes only as the holder's rule says, the loser learns why, a live holder
  stays findable, the screen is rebuilt without a hole or a repetition.
* **session manager** - ids, snapshots, manifests and destroys around awaits and
  restarts. Right: no id is two terminals, nothing destroyed comes back, what is
  restored is what was saved.
* **layout trees** - shares are reduced, rounded and squeezed at every depth.
  Right: the leaves follow the list of panes an operation means, and a split
  drawn on any width fills it.
* **workspace store** - requests in any order, layouts computed by pages from old
  copies, an old file. Right: names and sessions are not doubled, no member is lost
  that nobody removed, what is clean is saved.
* **pages** - each has its own copy, edits it first, and hears pushes, answers and
  polls in different orders. Right: a page never stays deaf to pushes, the tabs end
  up as the server's list, a split refused halfway leaves no session behind.
* **prompts** - prompts supersede each other, a person types in between, hooks come
  late or not at all. Right: a prompt ends by what its own turn did, and it ends.
* **geometry** - viewers set, borrow and leave a size within the 3 s after the last
  one left. Right: unwatched, it is the owner's again; every viewer knows it.
* **output around synchronised updates** - marks cut by reads, blocks left open,
  overfilled, aborted. Right: everything comes out once and in order.
* **local echo** - frames cut anywhere meet predictions on the screen. Right: the
  page shows what the server printed followed by what it predicts.
* **embedded panels** - several panels and the owner change one workspace while
  shells start. Right: no more shells than the profile allows, and a socket reaches
  what is in the workspace now.

* **commands** - marks are heard before the bytes around them are in the ring, and a
  caller, a person and other shells type at one prompt. Right: a caller is answered
  with its own command, and is told when output is missing.
* **ttym attach** - numbers are noted while pages of the client's own are on the
  screen. Right: coming back, by whatever way, the screen is the session again.

## Plan

The modules stand in the order they were written, the most important behaviour
first. Each takes its sizes as CONSTANTS with named assumptions and has one action
per operation. RECURSIVE operators are used where the code recurses over trees
(`LayoutTree`) or compares a prediction with a frame (`LocalEcho`), and only there:
no theorem reaches them.

| module | composes | shown by | proved |
|---|---|---|---|
| `OutputRing` | - | `components` | shape, types, replays |
| `ViewerStream` | extends `OutputRing`, implements its `RingSpec` | `viewer_stream` | types, batches, refinement, losses, stalls |
| `TerminalStream` | extends `ViewerStream` with the wire, mux, host and xterm | `terminal_hide_show`, `terminal_converges` | types, painting, viewers, idle panes |
| `AgentSleep` | - | `agent_sleep` | types, gate, wakes, queue, record |
| `HolderLink` | - | `holder_link` | losses, manifest, screens, offsets |
| `HolderRing`, `HolderInput` | - | `viewer_stream` | replays, input of the program |
| `PaneOrder`, `PaneList`, `LayoutTree` | `LayoutTree` implements `PaneList`'s `ListSpec` | `components` | - |
| `WorkspaceOps` | extends `PaneOrder`; operators only | its users | what each operation keeps |
| `WorkspaceStore` | extends `WorkspaceOps` | `components` | - |
| `SavedStore` | - | `components`, `store_flush` | types, what may be lost, order of saves |
| `WorkspacePages` | extends `WorkspaceOps` with pages, calls and pushes | `components`, `dashboard_sweep` | no session forgotten |
| `Registry` | - | `components` | types, programs, files, what comes back |
| `Interactions` | - | `components`, `wrong_answer` | whose end it is, who still waits |
| `AgentHooks` | - | `components` | what is shown |
| `Geometry` | - | `components` | types, sizes |
| `LocalEcho`, `SyncBlock` | - | `viewer_stream` | - |
| `EmbedPanels` | extends `WorkspaceOps` with panels, grants and shells | `viewer_stream` | reach of the sockets, limit of tabs |
| `CommandIndex` | - | `viewer_stream` | - |
| `AttachClient` | - | `viewer_stream` | screen of `ttym attach` |
| `MCComponents`, `MCViewer` | the components that share nothing, beside each other | - | - |

Two abstract specifications are stated, each with a detailed one that implements
it: `RingSpec`, what the server may do to its ring, by `ViewerStream` (checked and
proved), and `ListSpec`, a list of panes without repetition, by `LayoutTree`
(checked). A third worth stating is a *lease* (one holder of it, passed on
request), of which `HolderLink` would be an implementation.

Theorems worth proving next: `MembersAreKept` from lemmas on the
operators of `WorkspaceOps` (what is proved there says nothing of names yet);
`SyncKeepsAll` of `SyncBlock`.

## Modules

### OutputRing - `output-ring.ts`, the ring inside `session.ts`

`buf`, `used`, `nextSeq`, `baseSeq` are the class's fields; a chunk is the
interval of stream bytes it holds, so that "complete" can be said. `Push`,
`TrimTo`, `Clear` and `Exit` are the actions; `CanReplaySince` and `Since` the
readers. `head` and its compaction are layout and left out. `MaxSeq` bounds the
numbers; `BaseSeq` is the random start of a boot (`randomSeqBase`), any number
above 1.

### ViewerStream - `server.ts`, `session.ts`, the server's part of a stream

`view[c]` is everything the server keeps for connection `c`: its entry in
`session.viewers`, its batcher and its ack. The actions are the commands of the
protocol (`Attach`, `Detach`, `Ack`, `PauseView`, `ResumeView`, `Snapshot`,
`Destroy`), what the session does (`Output`, `Exit`, `Freeze`, `Thaw`,
`SleepUndone`, `ResyncAll`), and timers (`TimerFire`, `DrainTick`). `Output`
runs the whole of `emit`: push, one `enqueueData` per viewer, and the flush a
full batch forces; the microtask flush of a small chunk is merged into it.
`Created` in `Init` stands for CREATE, as there is no stream before it.

Abstractions: chunks have length 1, so all byte thresholds count chunks; whether
a socket is congested (`bufferedAmount`) is free at each step; `Forcings`
abstracts `shouldForceSnapshotReplay` and `integrity`; `have` is a ghost of what
the frames of a connection have covered; `out` has the frames of the last step
only; a client may claim any number of `Claims` as its watermark or ack. The
client is unconstrained here: it may send any command at any time. After the end
of a session only `Close` remains. Not in the model: who may view (grants,
read-only mode), geometry, the content of snapshots.

### TerminalStream - `mux.ts`, `terminal-host.ts`, `Terminal.tsx`, `reactivateHosts` in `App.tsx`

`ViewerStream`'s server with a page in place of the free client. `page` is one
record with the mux's part (connection, callbacks, pending attach, orphaned
timers, watermark), the host's (`stream`, `wants` = `viewWanted`, `mounted`,
retries, write queue) and xterm's (what was written and not parsed, what is
painted). `toServer` and `toClient` are FIFO per connection; `Drop` loses what is
in them. `Receive` is `onmessage` with all the callbacks it runs. `Users` are
the sets of disturbances a run allows (`happened.may` is the one chosen at the start)
and `MaxHappened` is how many there may be.

Ghosts: `painted`, `exact` (painted once and in order) and `crossed`: set by `Begins`
when the pane asks for a stream, by ATTACH or by RESUME_VIEW, while anything of the
one before is still queued, written, on the wire or owed by the server. Frames carry a
session and no stream, so the page cannot tell the two apart. Abstractions: one pane, one session, one boot of the server, no freeze, the
session does not end; local echo, resizing and the eviction of hosts are left
out; the server reads a request only while `toClient` has at most `WireMax`
messages. `slow` in `happened.may` lets a reconnect overtake what the page has yet to
paint: a page on screen paints within a frame while a dial takes round trips,
but a background tab gets no frames.

### AgentSleep - `agent-sleep.ts`

One pane. `call[c]` is at the await it waits on, one action per stretch from one
await to the next: `Sleep` .. `Undo` for `sleep()`, `Wake` .. `Drains` for
`wake()`, `Dismiss` and `Hook` for `dismiss()` and `noteAgentStart()`. `live`,
`inFlight`, `gate`, `frozen`, `meta`, `file` are the class's map and set, the
session's gate and freeze and the metadata in memory and on disk. `Type` is a key
of the user through the gate; `AgentStarts`, `AgentExits`, `ResumeFails`, `Dies`
are the world; `Crash` and `Restore` a restart of the server.

Abstractions: the three Ctrl-C with their waits, SIGTERM and SIGKILL are
`waitGone` with `tries` 0..3; a timer may fire at any moment, but not before a
pending write of metadata (`SlowDisk` = FALSE: a small file is written in less
than the 100 ms); restoring is one step and no call runs before it; `restart()`
is a sleep and then a wake; which panes `sweep` picks is any pane at any time.
`Hasty` = FALSE: a sleep does not begin while another call is under way (see
below for what happens otherwise).

### HolderLink - `holder/src/main.rs`, `session.ts` connectHolder, `session-manager.ts` recoverOne, persistSession

The holder and the sessions that connect to it: two servers, or one that was
started again; a `Session` object is a connection and is not reused. `holder` is
its event loop's state, `session[c]` what connection `c` knows, `disk` the
manifest and the checkpoint, `toHolder`/`toServer` the socket.

Holder: `Accept` (a new connection replaces the pending one), `HolderReads`
(ACQUIRE with and without takeover, late ACQUIRE, DUMP_REQ, DUMP_SINCE, KILL),
`ClaimTimeout` (1.5 s of silence: promoted as a legacy server, the old controller
dropped without EVICTED), `Output` (a write error drops the client), `PtyExits`,
`HolderExits` (after the linger, removing the manifest). Server: `Connect`,
`Receive` with the handshake STATE, ACQUIRE, DUMP or REPLAY, `Parses` (xterm's
callback finishes the handshake), `HandshakeTimeout` (10 s: the manifest is
unlinked and the socket left open), `Persist`, `Kill`, `Crash`.

Abstractions: chunks of length 1, numbered; the holder's loop iteration is split
into one action per event; a replay may begin at any offset the ring has, as the
safe offset depends on the bytes; the checkpoint is written at once; SIGHUP, KILL
and reaping are one step; `session.create` is a recovery without a checkpoint.
The 10 s timer fires only when nothing it waits for is on the way, the 1.5 s one
at any time. No server in this repository sends `takeover`; the holder accepts
it, so `Takers` may.

`disturbed` is a ghost: *handshake*, output came while a connection was between
STATE and its replay; *save*, a checkpoint was taken while xterm had bytes to
parse; *late*, a claim came after 1.5 s; *overtaken*, a connection was dropped
for another in mid-handshake. Some properties are conditional on them, and the
section on disagreements says what happens without the condition. All four
occur in the run.

### HolderRing, HolderInput - `holder/src/main.rs`

What `HolderLink` takes as given. `HolderRing` is the bytes of the output: `Pushed`, the
circular buffer with its two copies, `FedByte`, the lexer for UTF-8 and control sequences
that runs over every read, `Noted`, the short list of safe offsets a grain apart, and
the replies to DUMP_SINCE and DUMP_REQ, which start at a safe offset if something was
lost. What is printed is one of a few streams of text, characters of two bytes,
control sequences, strings ended by BEL or ST and a sequence broken off by another, read in
pieces of any length. The ghosts `emitted` and `whole` are all bytes so far and the
places where no sequence is open.

`HolderInput` is one turn of the event loop, phase by phase: what `poll()` said
(`Polls`), `Accepts`, `ReadsPending` and `ReadsClient`, which read a piece of any
length, `HandlesFrames` and the writes to the PTY, which take a part or nothing. Between
the phases servers connect, send and hang up. `Resolves` is what becomes of a parked
connection, with the bytes read of it that come after its claim, or that showed it to
be an old server (`PutBack`). Frames are a claim or input; what else a controller asks
for is in `HolderLink`, and the limit on the length of a frame is left out.

### PaneOrder, PaneList, LayoutTree - `layout-tree.ts`, `layout-presets.ts`, `layout-metrics.ts`, `LayoutView.tsx`

A layout is a tree of splits whose sizes are shares. `PaneOrder` has what an
operation does to the order of the leaves, `PaneList` makes of it an abstract state
machine, a list of panes without repetition; `LayoutTree` has the trees themselves:
`InsertPane`, `SplitPane`, `RemovePane`, `SwapPanes`, `ResizeSplit`, the presets,
`Discretized` (shares to whole pixels) and `Dragged` (a divider). `LeavesFollow` is
the refinement: with `panes <- LayoutSessionIds(tree)` every step of a tree is a step
of the list or leaves it alone, at every depth and through every collapse of a split
with one child. As only ratios count, shares are whole numbers in lowest terms;
`normalize` in the code divides by their sum.

### WorkspaceOps, WorkspaceStore, SavedStore - `workspace-store.ts`, `viewer/store.ts`

`WorkspaceOps` has every operation of the store as a function of its content; the
result says what the content is after it, which change events it announces and
whether it was accepted. `reconcileMembers`, `nextMemberName`, `claimName`, `adopt`,
the events of `retag` are all there, since three modules are built on them: `WorkspaceStore`
(the routes of the server in any order, with a restart and an old file to load),
`WorkspacePages` and `EmbedPanels`. A layout is the order of its panes: `LayoutTree`
shows that nothing else of it matters here. `SavedStore` is how a store reaches its
file: the dirty flag, the save in a microtask, the loop around temporary file and
rename, `flush()` at shutdown and the promotion of an old file; the viewer's store
uses the same scheme without the promotion.

### WorkspacePages - `WorkspacePage.tsx`, `App.tsx`, `DashboardPage.tsx`, `MapPage.tsx`, `workspace-domain.ts`, `app-shared.ts`, `cli/src/workspace.ts`, `server.ts`

Two pages and a server: one page shows a workspace (`"panes"`), the other is the
tabs, the dashboard or a command. A call goes out, is served (all that the route does
at once, as the handlers do not wait in between except for the start of a session),
and its answer arrives, in any order with other calls, or is lost. `pushes` is the
socket, in order, to every page, without the events that a page of its kind takes no
notice of (`Heeds`). `MutationBarrier` is `pending` and `settling`;
`Locked` pages drop pushes and polls, as `applyWorkspace` does. A page edits its copy
first (`Blocked`, `Begun`). `astray` marks tabs whose list was set from an answer older
than a push, which the code allows, and `letGo` sessions taken out on purpose.
Abstractions: metadata of panes is not fetched, so `applyWorkspace` is one step; the
generation in an event is left out, as no page reads it.

### Registry - `session-manager.ts`, `run-gc.ts`

Numbers, snapshots, manifests, meta files, the index, the counter, and the programs
of one directory, over crashes, graceful shutdowns, reboots of the machine, boots
that are cut short, safe mode, and a second server that claims or leaves a holder. A
session is named by its birth, so that what a file says can be told from whose file
it is. `CreateReads` .. are the awaits of `create()`, `SaveBegins` .. those of
`persistSession`, `RecoverOne`, `RestoreOne`, `RestoreConsumes` the boot. `owed` and
`stray` are ghosts for `ComesBack` and `FilesAreOwn`.

### Interactions - `interaction.ts`, `submit.ts`, `server.ts`, `agent-hooks.ts`

Prompts through the API to the Claude Code of one pane: `Start` fails the one in
flight, the text is typed, the agent queues or begins it, its hooks (turn begins,
Stop) arrive late but in order or not at all, a Stop reads the transcript before it
settles, a sweep finds turns that ended without one. A person types at the same pane.
`alone` is a ghost: prompts no other turn or prompt crossed, of which `EndsAreOwn`
speaks; the run `wrong_answer` shows what happens to the others.

### Geometry - `session.ts`, `server.ts`

`size`, `unwatched`, the 3 s timer and the loan are the session's fields; the actions
are RESIZE, ATTACH with and without a size or a loan, DETACH, a closed socket, the
owner's `ttym resize`, and the timer. `rest` is what the size must return to,
`knows` what each connection was told. A resize of a session that has ended is ignored
by the code and does not occur here.

### AgentHooks - `agent-hooks.ts`, `agent-sleep.ts` turnIsStale, `server.ts` waitingSweep

The other half of a turn: what people are shown of an agent. The environment is Claude
Code as `agent-hooks.ts:16-20` says it was measured, a main thread and a subagent with
one dialog at a time: each of its acts changes `threads` and the status file and sends
the hooks it sends, in order, to arrive any time later. `Handles` is the two routes
for hooks (`Patched`); `ReadsMeta`, `ReadsStatus`, `JudgesPane` are the awaits of a
sweep; `Announces` is a broadcast, after the write of the meta, and writes that are
under way side by side may end in any order. `found` says whether the agent's process
can be found; without it the sweep reads the screen.

`StateIsShown` speaks of moments when a whole sweep has found a pane in which nothing
has happened for longer than its period. Its ghost `disturbed` marks what the code
cannot tell: see the last section but one. A unit of time is a second, and time passes
by one period and more or not at all, so each margin is kept or passed. Codex, whose
hooks are others, and the expiry of an activity 15 minutes old are left out.

### SyncBlock - `sync-block.ts`, `session.ts`

One read is a sequence of tokens (text, a control, one of the two marks) whose last
may be cut; `Processed` is `process()`, token by token, with the buffers of the filter
as sequences of places in the output. Held output goes out as one chunk, so between
reads only its length is kept. `syncTimer` is there for what `Timer` says of it (see
the disagreements); no property rests on it. The output of a session that ends
while it holds some is not in the model. `faults` records what came out of a read in
another order than it was printed; where the code does that by design of `process()`
(a read that goes on after the end of a block) the order is excused, loss never is.

### LocalEcho - `local-echo.ts`, `terminal-host.ts`

A terminal of two columns, on the page (`shown`, with `queue` what waits for the
animation frame) and on the server (`seen`); keys that are predicted, taken back or
forgotten; frames of the server with anything in them, compared in the `classic` or
the `tolerant` way; a mismatch asks for a snapshot. `EchoHonest` says that the page
shows what the server's terminal shows followed by the predictions, except while a
snapshot is on its way, and after one of six things the code has no answer to, which
`disturbed` names: a predicted character that overtakes output still queued, a key
taken back at the edge of a line or over another character, input that makes the page
forget predictions that stay on the screen, output that classic mode writes behind
predictions not yet echoed, a redraw that tolerant mode passes over though it steps
back past the start of a line or from its last cell (`Slips`), and a snapshot followed by
the batch it contains.

### EmbedPanels - `embed/http.ts`, `embed/store.ts`, `embed/authorize.ts`, `server.ts`

One workspace, the *site*, that an app's grants reach. `inTurn` is its serial queue:
the first request runs up to the start of a shell (`Begins`), which it waits for, and
on to its answer (`TabStarts`); `Pruned`, `ListsTabs`, `CreatesTab` are the helpers of
`http.ts` with the store's own operations in them. The owner moves, adds and kills
sessions and deletes the site through the other routes at any moment. `Revalidated`
runs on every change of the store, as the listener in `server.ts` does, so a request
in the middle of its work has it run several times within one action. A grant that
ended closes its socket; one whose app has a new key is noticed later (`stale`).
`mine` is a ghost: shells the panels have started and the owner has not taken over;
a deletion of the site counts as that, as it leaves its sessions running.

### CommandIndex - `command-index.ts`, `server.ts`, `ttym-shell-integration.zsh`, `shellAwait`

Lines are numbered as they are typed, by callers or by a person. The innermost shell
takes the next (`LineStarts`, its preexec hook prints E and C), or a program takes it
for itself (`Eats`); what runs prints, ends, is replaced by a shell or runs one
(`Replaces`, `Nests`, `Leaves`). `SessionReads` takes any part of what was printed: the
marks in it are heard (`Marked`, `Opened`, `Closed`) with the number the chunk is about to
get, then it enters the ring, from which acks may drop it at any moment. `Probes`, `Runs`
and `CommandAnswers` are `ttym await` and its request. `alone` is a ghost: the prompt was
free and nothing on its way when the line was typed. For a record there is, `CutFor` is
what GET would answer now. Left out: output held back for a synchronised update, and
programs that print such marks themselves.

### AttachClient - `cli/src/attach.ts`

The modes, the number noted and what is on the screen: of which session, up to which
chunk. `Takes` is the handler of messages, which notes every number and paints only in
`attached`; each way back from a page of the client's own is `Switches`, to the
same session or another. The picker's and the next member's requests are answered at
any time, whatever the mode is then. The server is what `ViewerStream` promises: an
answer, a replay or a snapshot, then every chunk. `missed` is the ghost of the two gaps
named below. The lines of status the client writes into the screen are left out, and
so are keys for the session.

### MCComponents, MCViewer

Components that share no state, in one state machine: a variable chosen at the start
says which one moves, the others keep still in one initial state. A run of it is the
sum of the runs of its parts; they share it only to be few.

## Runs

| run | instance | what it shows |
|---|---|---|
| `viewer_stream` (`MCViewer`) | stream: 1 connection, window 2, batch 2, replay 1, 4 chunks, claims of nothing, of three chunks and of one ahead; echo: 1 letter and the blank, 2 columns, 2 keys, 2 frames of 2 (one of them may be a colour, which does nothing); sync: reads of 4 tokens, 1 held; panels: 1 panel, 3 shells, 1 tab, 2 requests at a time, 1 act of the owner; commands: 1 caller, 2 lines, 1 piece of output each, ring of 3, 2 shells; attach: 2 sessions, 2 more chunks each, 5 keys; holder's ring: 3 bytes, grain 2, 2 anchors, reads of up to 4 bytes, 9 printed; its input: 2 connections, 2 frames and a first one more | `NoSilentDrop`, `BatchLeaves`, `StallHasWayOut`, every step one of `RingSpec`; `EchoHonest`; `SyncKeepsAll`; `TabsWithinLimit`, `ReachIsCurrent`; `CommandsKeepTheirOwn`; `ScreenFollows`; `ReplayIsWhole`; `InputIsWhole` |
| `terminal_hide_show` | 2 connections, 3 chunks, window 1; 2 of hide, unmount and drop, or 2 drops that may overtake painting | `IdleMeansCurrent`, `LeavesNoViewer`, `PaintsFaithfully` |
| `terminal_converges` | 2 connections, 2 chunks in batches of up to 2, so that the batch timer matters; 2 of hide, drop, timeout; fair | `Converges` |
| `agent_sleep` | 1 sleep and 2 other calls at a time, 2 sleeps, 2 agents, 2 keys, queue of 1, 1 restart; fair | gates, wakes, records and keys; `TypedGetsOut`, `WakeEnds` |
| `holder_link` | 2 connections, one with takeover, ring of 1, 2 chunks; fair | `LossIsNotDeath`, `ManifestSurvivesClaims`, `NothingLost`, `QuietIsExact`; `ClaimEnds` |
| `components` (`MCComponents`) | ring of 4 with chunks of 1, 2 and 5; trees of 4 sessions, 4 edits; 4 changes to a saved store; 2 workspaces, 3 sessions, 3 requests; 2 pages, 2 edits or lost calls; 2 numbers, 2 births, 2 boots; 2 prompts, 1 of a person; 3 acts of an agent in 9 s, 2 hooks on their way; 3 viewers, 3 sizes | `DeltaIsWhole`; `LeavesFollow`, `WidthIsFilled`; `CleanMeansSaved`; `MembersAreKept`; `PagesFollow`, `NoneIsForgotten`; `OneProgramPerId`, `ComesBack`, `FilesAreOwn`; `EndsAreOwn`, `RestEndsWaits`; `StateIsShown`; `SizeIsRightful` |
| `holder_double_paint`, `viewer_paused_reason`, `agent_sleep_resume`, `store_flush`, `dashboard_sweep`, `wrong_answer` | smaller instances | six statements of comments and tests the code does not keep, see below |

Why the bounds are enough. The ring wraps (capacity 2, more chunks than that) or
is trimmed by acks, so replays and snapshots both occur. A window of 1 with 3
chunks, or of 2 with 4, is the least with which a stall loses output that a
later ack must catch up on: with 2 chunks `IdleMeansCurrent` cannot tell the
catch-up of `handleViewerAck` from none. `terminal_converges` has only 2, as its
liveness property is costly; stalls there end without a loss. Two connections
are the least with which one can hurt the other, or be the next of the same
page. Two disturbances of the page cover every pair of them (a hide while an
attach is under way, a drop while hidden, a time-out and a retry). A queue of
one key overflows with the second. Two holder connections are an old server and
its successor; a ring of one chunk makes the second output a gap. Four sessions
and four edits give splits within splits and their collapse. Two workspaces are
the least for a move, three sessions the least with a free one beside a pair. Two
edits are two calls that cross, or one that crosses a lost one. Two numbers come
round again after two births. Two prompts are one that supersedes another, and a
third viewer sees a loan passed on. Two keys and four characters hold an echo, its
colours or a redraw, cut anywhere. With one tab and two requests, both panels are in
the queue for "the first tab"; the act of the owner between them moves, adds or kills a
tab, or deletes the site. One held character and reads of four overflow a block in
the read that opens it and in the next one. A holder's ring of three bytes is shorter than a control sequence, so that replays
begin in the middle of everything; a read of four is more than the ring. Three acts are a turn, a
subagent in it and the prompt or a tool of either; 9 s are a prompt, the sweep
past it and one more. Two lines are a command and what runs before, in or after it; five
keys are a page opened and left twice, or left while a request it made is out.

Deadlock is not checked: each model may stop because a bound of the model is
reached, the terminal has ended or the last connection is closed. That something
happens is said by liveness properties instead.

## Fairness

* `TerminalStream`: weak fairness of the steps of the page and of the server, all
  as one: both are event loops that run what is due, and no more is needed than that
  something that is due is done. The user, the program in
  the terminal, drops and timeouts are not fair. `Converges` assumes in addition
  that the pane stays mounted, wanted and connected, and that the automatic
  retries (`MaxRetries`) are not used up; after that the code waits for the user
  or the next reconnect. It concludes that the pane is attached and, unless streams
  crossed, that the watermark is the newest chunk.
* `AgentSleep`: weak fairness of the steps of each call (a write ends, a timer
  fires, a promise is resumed) and of `Restore`. Not of keys, hooks, agents or
  panes: `WakeEnds` rests on the deadline of `waitReady` alone.
* `HolderLink`: weak fairness of the steps by which the holder or a server reads, over
  all connections as one: poll and libuv serve every ready socket, and no more is needed
  than that one of them is served. Not of the 1.5 s promotion, output, checkpoints, kills or crashes. `ClaimEnds` rests on the 10 s
  timer.

## Proofs

`tlapm` checks every leaf; the constants are assumed to be as `RingAssumption`,
`ViewerAssumption`, `TerminalAssumption`, `SleepAssumption`, `SavedAssumption`, `RegistryAssumption`,
`GeometryAssumption`, `InteractionAssumption`, `HooksAssumption`, `AttachAssumption`,
`LinkAssumption`, `PanelAssumption` and `PagesAssumption` say, and where a
theorem says so `Hasty` and `SlowDisk` are FALSE or one request creates sessions at a
time; nothing else.

`ViewerStreamProofs`, the ring. `RingInv` is inductive with the types: the ring is one run of
consecutive numbers from `baseSeq` to `nextSeq - 1`, in which each chunk begins
where the one before ended, and `used` is the length of that run. The argument is
about `DropFront(k)`, which both `Push` and `TrimTo` are made of
(`DropKeepsWindow`, `DropFrontKeepsInv`), and about appending
(`AppendKeepsWindow`). `RingDeltaIsWhole` follows from the invariant: in a run of
consecutive numbers, what lies above `s` is all there is if `s >= baseSeq - 1`.

`ViewerStreamProofs`, the streams. `BatchLeaves` alone is not inductive: a resync or a catch-up
sends from `lastSentSeq`, and the trim it may cause is a step of the ring only if
no viewer has acknowledged a number that was never handed out. `StreamInv` is the
types, `RingInv`, and for a session that lives `frozen <= LastSeq` and a `Good`
view of every connection: well typed, no number in it beyond the newest
(`InStream`), and its batch and stall in order (`BatchOK`). Each helper of the
model (`SendResync`, `Flush`, `Enqueue`, `HandleViewerAck`, ...) has a lemma saying
that it takes good views to good views; one lemma per group of actions
(`ConnectionSteps`, `SessionSteps`, `EndSteps`, `OutputStep`) puts them together,
with what the step does to the ring. From the latter `StreamImplementsRing`: the server drives the ring only as
`RingSpec` allows - one push per output, trims, a clear at a kill. Through that
refinement the ring's theorem holds of the server too (`StreamDeltaIsWhole`), for
every number of connections and every threshold.

`ViewerStreamProofs`, the losses. `NoSilentDrop` is not inductive: a flush, a catch-up or a resume
of the view builds on what the batcher believes to have sent. `CoverageInv` adds to
`StreamInv` that each view is `Sound`. Nothing up to `lastSentSeq` is missing, as the
catch-up of `handleViewerAck` starts there (`SentCovered`), nor up to any batched chunk, as a
flush moves `lastSentSeq` to the newest of them (`BatchCovered`), but for what was
printed while frozen; a batch is below its limit, its last chunk its newest
(`BatchOrdered`), and the last frame sent ends the window (`WindowOrdered`). For
`StallHasWayOut`: whoever is stalled by backpressure has a drain timer, or a client
that acks and `lastSentSeq` as a number the server would accept from it, also where the
session is frozen and acks are cut at the screen of the freeze (`StallEnds`, `Below`).

`TerminalProofs`, the page and the server together. None of the three properties is
inductive: what is painted depends on what is written, queued, on the wire and batched,
and what is acknowledged on requests the server has not read. `TermInv` is
`StreamInv` of the server, the page's own order (`PageInv`: callbacks, answer and
stream go together), typed wires with nothing on those of closed connections
(`WireInv`), and `FollowInv`. That one says, of streams that did not cross:

* the screen is exactly the chunks up to the watermark, and the writes, then the queue,
  are a `Chain` of links that lead on from there without gap or repetition (`PageSound`);
* and of the two ends of the connection (`Streams`) one of two things. Either a stream is
  `Asked` for, from the watermark, and nothing of an earlier one is left anywhere; or it is
  `Flowing`: the frames on the wire chain from what the page has (`Reached`) to where the
  server's batch or its next replay goes on (`Feeds`), and the window is empty, will be
  smaller, or the ack that empties it is on its way (`Drains`);
* no ack is ahead of the watermark (`AcksBehind`).

`PaintsFaithfully` is in the first of these; for `IdleMeansCurrent` all the links between
the watermark and the newest chunk are empty when nothing is in flight. For
`LeavesNoViewer`, which holds whatever crossed, it is enough that a server that has a
viewer, or will have one when it has read all requests (`EndsJoined`), has a page that
waits for the answer or streams. Chains have their own lemmas
(`ChainAppend`, `ChainTail`, `ChainConcat`, and `FrameCut`, `SendDataChain` for a replay cut into frames), each
step of the page one (`AttachStep`, `ShowStep`, `HideStep`, `UnmountStep`, `FrameStep`,
`ParseStep`, `DropStep`, `DialStep`, ...), and so has each request the server reads
(`AskHandled`, `AckHandled`, `AckIgnored`, `PauseHandled`, `DetachHandled`) and what it
does by itself (`OutputHandled`, `TimerHandled`). `PageMoves` and `ServerMoves` carry
them to the connections a step does not touch. An attach that timed out is outside
`FollowInv`, as its answer comes to a page that no longer waits.

`AgentSleepProofs`. The types hold for every value of the constants; the rest is
proved under `Hasty = FALSE`, no sleep begins while another call for the pane is
under way, because without it the code breaks `AsleepIsRecorded` (see below).
`GateMatches`, `OneWake` and `AsleepIsRecorded` are not inductive: a sleep
between its checks and its gate could meet another call, a wake could find a
second one behind it, and a late write of the record could undo the one the sleep
waited for. `SleepInv` adds what rules these out: a sleep that has not installed
its gate is alone (`SleepIsAlone`); a restarted server has nothing in memory until
`restore` (`StartsEmpty`); the phase is `waking` exactly while a call wakes the
agent, and keys wait only then (`PhaseIsTrue`); behind a gate only waiting sleeps
and one wake are at work (`GateIsQuiet`), so no write but theirs can reach the
file, and the file says `sleeping` or `waking` before the sleep presses a key
(`FileFollows`). One lemma per group of actions (`SleepSteps`, `WakeSteps`, `EndSteps`,
`HookSteps`, `DrainsSteps`, `TypeSteps`, `WorldSteps`) keeps it. `RecordAgrees` is
about the record at rest, while a wake answers its caller before its own write of
"awake" ends. `RecordInv` says who mends a record that is wrong for the moment
(`Mends`), what each write under way will say (`WritesMean`), and that no write that
says "sleeping" is still out once a wake drains (`NoLateWrite`). The last is what
`SlowDisk = FALSE` is for: a write of the sleep that takes longer than the timers of the
wake would land after "awake".

`WorkspaceProofs`, the operations. The store, the panels and the pages all change workspaces
through the operators of `WorkspaceOps`. Each has a lemma: from a store whose order names its
workspaces and whose layouts and members are sequences (`StoreSound`) it leads to such a
store, and leaves it as it was when it announces nothing (`Proper`), so that a page or a socket
that follows the events misses no change; and it `Retains` every member it was not
asked to take out. They rest on what reconciling does: the members afterwards are the sessions
of the layout and those that were members (`ReconcileFields`), whatever their names
(`ClaimedMembers`). The operators go over sequences with recursive functions; that these
exist, and what holds of their last value, is induction by `CountingUp`, which is the
well-foundedness of `<` applied to the set of numbers where the claim fails. Nothing is assumed about
what the sequences hold (`Listed`), so that names, sessions and events need no types.

`WorkspaceProofs`, the panels. `ReachIsCurrent` is kept by each change as `Revalidated`
takes from the sockets what the announced change takes from the site; a change that announced
nothing changed nothing (`ChangesKeep`). `TabsWithinLimit` is not inductive: that a shell
starts says nothing of how many run. `PanelsInv` adds that every shell that panels started, that
the owner has not taken over and that runs is a tab of the site, and that the first request in
turn, while its shell starts, leaves room for it: fewer than the limit run (`Waiting`). A request has counted the
tabs before it starts one, the running shells are among them (`WithinReach`), and until it is done no
other request starts any, as only the first in the queue can wait for a shell
(`QueueSound`). For that it matters that a request that found no site still finds none when its
shell has started: only the request itself makes one.

`WorkspaceProofs`, the pages. `NoneIsForgotten` is not inductive: it counts a session as placed
while any request bears its number, also one that is answered and about to go. `PagesInv`
has instead that a session that runs is a member, or let go, or of a split that is still
waiting to be placed (`Accounted`). Placing it makes it a member (`SplitMemberIs`) or ends it
(`PlacesSplitKeeps`); no other request bears a number, and none of the others takes out a
member without noting it. The operations are only known to keep members on stores, layouts and
lists that are sequences, so the rest of the invariant follows these from page to request and back
(`PageSound`, `CallSound`, `PushSound`), and what is asked for must fit what is done
with the answer (`ThenFits`). One lemma per action of the server, of an answer or a push, and
of each kind of edit.

`WorkspaceProofs`, the saving. What a save can lose, `CleanMeansSaved`, needs to know what the
running save has copied. `SavedInv` adds that the copy is the content unless a change
overtook it (`CopyIsCurrent`), that file, copy and content are in this order
(`CopiesInOrder`), and that a dirty store has a save on its way unless the last one
failed (`DirtyIsUnderWay`). From the second of them follows the action property
`FileNeverGoesBack`: no save, whichever of the three callers asked for it, writes an
older content over a newer one.

`RegistryProofs`. For every number of sessions, births and boots; of `Creators` it
assumes that there is one (`OneRequest`), as the model does (see the head of
`Registry`). `pickSessionId` goes round the numbers; that it finds a free one if there
is any (`PickIsFree`) is the least-number principle (`LeastNatural`, from the
well-foundedness of `<`) on the distance it goes. `OneProgramPerId` needs `ProgramsInv`: a
program has a manifest, and the manager a live session of exactly the numbers it has
the lease of (`ProgramsMatch`); the number a request has read as free, or chosen, is
still free when it starts (`RequestsAreFree`); and a boot has taken up every manifest
before it looks at a snapshot, so that what a program runs under is found
(`BootCovers`). `FilesAreOwn` needs that everything left of a number, in files, cache,
map and program, tells of one birth (`MarksAgree`), that a number chosen by a request has
nothing left (`NewAreClean`), and what the saves under way will bring; `stray` takes out the
numbers for which the code does not keep this. `ComesBack` needs `OwedInv`: at each
stage of a boot, what is owed has a program or a snapshot that the stages to come will
look at (`OwedInReach`), the boot's allow list is the members (`BootRemembers`), and
nothing owed has ended (`OwedAreOpen`).

`SessionProofs`. Geometry: the size to return to is the owner's as long as there is one,
and without one the size is the owner's and nothing is on loan (`ReturnsToOwner`); a loan
is an attached writer's (`LoanIsHeld`), so that whoever could keep it from ending is there;
and once the last writer has left, the timer runs (`TimerRuns`). The operators on a
geometry each have a lemma; `SizeIsRightful` follows with the fact that everyone who
listens was told the size. Prompts: `EndsAreOwn` and `RestEndsWaits` say what is true at
the end, and `InteractionInv` what is true on the way. One prompt at most is pending, and it
is the one in flight (`SlotIsPending`). A pending prompt that was typed is queued, about to be
announced, or `UnderWay`: its turn, or a later one, was announced and a Stop, a reading or
a sweep will settle it (`PromptsAreAnswerable`); at rest it is none of these. A prompt nothing
crossed goes through six stages, from `IsTyped` to `Over`, and in each of them neither a hook
of another turn nor a sweep that has not found its turn cut is about to reach it
(`AloneOnPath`); a sweep compares times, so that the notes of a time must not be ahead of
the clock (`ClockLeads`). One lemma per action keeps it. Hooks: `StateIsShown` is about a
moment of calm; before it, `HooksInv` says where the truth is on its way. How the turn
stands is told by the last hook about turns, or the meta says it, unless the turn was cut,
and then the status file is younger than the note of the turn, so that a sweep will close it
(`TurnIsTold`). The same of prompts: without one up no hook tells of one, and one still
noted is older than the status (`PromptEnds`); where only hooks tell of prompts, one that is up is
on its way or noted (`PromptsAreTold`). A sweep nothing has disturbed has read what is so
still (`ReadIsCurrent`), and what it concludes then is right (`SweepHasSeen`); the last
broadcast says what the meta says, or will (`IsShown`). The proof failed at first, for a
good reason: with a fourth act of the agent, an Esc of the same second as the next prompt
counts as that prompt's turn, and a turn cut later is then not shown as cut. The run has three
acts; the case is now one of those `disturbed` marks.

`EndsProofs`, `ttym attach`. `ScreenFollows` is about the moment when nothing is on the way. Before it,
`AttachInv` says what the frames due are going to make of the screen: `Leads` has a history
of the screen, from one the screen may be at now (`Stands`) or from a snapshot among the
frames, in which each chunk is the next, up to the newest. A chunk printed, a snapshot, a
replay and a frame received each have a lemma about it (`LeadsGrow`, `LeadsAnew`,
`LeadsReplayed`, `LeadsShrink`). While requests are on the way instead, the last of them
asks for all of the session followed, or for what follows the screen on a connection where
nothing was asked before (`Asks`); without a connection the number noted is that of the
screen (`Apart`), unless output was lost in one of the two ways `missed` notes.

`HolderProofs`. For any number of servers, chunks and places in the ring. The properties
are about a session once it is driving, or about the manifest; what decides them is on
the wire long before. `LinkInv` says of every connection how its socket and its stage
belong together: what its role with the holder allows (`InItsRole`, `RolesApart`), that
one request is out at a time, the one of its stage (`AsksInTurn`), and one answer at most
comes, and then no request is left (`AnswersInTurn`); what is parsed or kept meanwhile
(`KeptInTurn`). On this rest four arguments. The wire of a session that drives ends with
EVICTED, or because the program ended or a claim was late, so that "lost" means one of the
latter (`EndsWithReason`). While no claim was late or overtaken, each stage of a handshake
has its answer on the way, or the request for it, so the 10 s timer, which fires when
neither is, finds none to fail (`AnswerIsComing`), and the manifest stays. No chunk between the
first and the last that is on the wire, kept, waiting for xterm or on the screen is missing
(`NothingMissing`): a replay reaches from what was asked for to the newest chunk, and
every later one is sent behind it. And where no output comes between STATE and the replay,
the offset of the session is the holder's count until it follows, frame by frame
(`OffsetInStep`, `FollowsInStep`; `FramesAreTrue` has no frame ahead of the holder), the
screen a run that ends there, and each checkpoint one too (`Even`). The session's
`Finalize` handles what was kept as a recursive function over the frames; `Finalized` says
what comes of it, by induction on its steps (`Upward`). What a step does to connections it
does not touch, drops, or that are deaf is said once (`Bystander`, `Dropped`,
`DeafStays`); each message received has a lemma (`HearsState`, `HearsAcquired`,
`HearsReplay`, `HearsRebuilt`, ...), and so has each action.

`EndsProofs`, the reading (`HolderInput`). `InputIsWhole` speaks of what the program was
given; `InputInv` says what becomes of a byte before that. What was read of a connection
and what is still in its socket are together its frames from a certain one to the last
(`StreamFrom`): from the first for one that waits or is parked (`WaitingWhole`,
`PendingWhole`), from the one after those already given for the controller (`ClientGoesOn`),
whose bytes are therefore the last the program was given. Of a connection that never
controlled nothing was given (`NothingEarly`). A read moves bytes from one part to
the other (`ReadsWhole`), a frame that is all there is the next one (`FrameIsNext`), and one
put back is as if it had not been read (`PutBackIs`). What frame a promoted connection is at
depends on what was known of it: the first if it is an old server's or its claim has not been
read yet, the second behind a claim.

`EndsProofs`, the ring (`HolderRing`). `ReplayIsWhole` is proved for every size of the ring,
of the grain and of the list of anchors, as long as the anchors reach further back than the
ring (`RingBytesAssumption`; the constants of the code cover 2 MB). Three facts keep it,
together `RingInv`. The ring holds the last that was written, wherever its start is
(`HoldsLast`); that a write of any length keeps that, in one piece or two, is arithmetic
modulo the capacity (`PushedHolds`, from `WrapUp`, `WrapDown`, `WrittenOver`), and what is
read from an offset on is then what was printed (`SinceGives`). The states the output takes
the lexer through begin and end each sequence on the ground and are elsewhere in between
(`LexedAs`, kept by each sequence a program prints, `PrintableGoes`, `LexedOn`), so a place
on the ground is a place between sequences. And the anchors are such places, a grain from
each other (`Spaced`), of which one lies less than a grain before each later place that the
ring still holds whole (`Covered`). A byte through the tracker keeps that (`FedByteKeeps`):
the anchor a new one may push out is `AnchorCap` grains back, out of the ring already
(`NotedKeeps`). `feed()` over a read is a recursive function, followed step by step
(`FedKeeps`, by `Upward`), and forgetting the anchors of what is overwritten loses none that
is needed (`PrunedKeeps`).

Model-checked only: the properties of `LayoutTree`,
`WorkspaceStore` (`MembersAreKept`), `SyncBlock`, `LocalEcho` and `CommandIndex`, and of
`WorkspacePages` that the tabs follow (`PagesFollow`). Of these,
`LayoutTree` and `LocalEcho` use RECURSIVE operators, which the prover cannot reason
about. The liveness properties (`Converges`, `TypedGetsOut`, `WakeEnds`, `ClaimEnds`)
are beyond the prover.

## Where the code and its comments disagree

Kept as runs, each with its counterexample:

* `holder_double_paint`: output between the grant of the lease and the dump is
  painted from the dump and again from the frames buffered meanwhile, although
  the comment at `session.ts:660` gives "avoid double-write" as their purpose.
* `viewer_paused_reason`: `resyncAll` after a sleep clears a stall and not the
  pause of the viewer it caused; that connection gets nothing more until it
  attaches again or is hidden and shown (`server.ts:2127`, `2271`).
* `agent_sleep_resume`: a key typed between the first Ctrl-C and the agent's end
  starts the wake, whose resume command is typed into the agent
  (`agent-sleep.ts:13`, `656`).
* `store_flush`: a change made while a save is being written schedules nothing, as
  the store is dirty, and the save then calls the store clean; `flush()` at shutdown
  finds nothing to do (`workspace-store.ts:172`, against the comment at 194).
* `dashboard_sweep`: the dashboard takes out of its workspace a session that lives,
  as it compares a list that follows the pushes with sessions of an earlier moment
  (`DashboardPage.tsx:103`).
* `wrong_answer`: the Stop of a superseded prompt completes the prompt that superseded
  it, which superseding was meant to prevent (`interaction.ts:88`).

Also seen while modelling; the runs state their conditions so as to exclude
exactly these:

* Hidden and shown again within a round trip, a pane can paint a stretch twice,
  or move its watermark past output it dropped, or back: `cancelPendingWrites`
  (`terminal-host.ts:530`) against frames still on the wire (`mux.ts:518`). The
  same for an unmount (`mux.ts:448`), and for a reconnect that overtakes painting.
  `PaintsFaithfully` and `IdleMeansCurrent` are therefore about streams that did not
  cross (`page.crossed`). A pane
  unmounted and mounted again around a drop can move its watermark past a hole with
  frames of its old stream.
* An attach answered after its time-out leaves a viewer on the server
  (`mux.ts:309`), and a retry repaints the replay. `terminal_hide_show` has no
  time-out.
* A frozen pane can be sent the live shell, by the drain timer or by the catch-up
  of an ack (`server.ts:2110`, `2221`, against the comment at 2160); a sleep that
  fails thaws without a resync (`agent-sleep.ts:502`). `NoSilentDrop` excludes
  what was printed while frozen.
* SNAPSHOT on demand leaves the pending batch (`server.ts:2466`), whose end then
  repeats; an ack that re-opens the window also resumes a paused view in the
  session (`server.ts:2218`).
* Two sleeps of a pane may both pass their checks before either is in `inFlight`
  (`agent-sleep.ts:454`); with `Hasty` = TRUE `AsleepIsRecorded` and
  `RecordAgrees` fail.
* A sleep that cannot kill its agent drops the keys a wake has queued meanwhile
  without showing it (`keys.undone` in `TypedGetsOut`; comment at
  `agent-sleep.ts:48`), and a wake that ends while the sleep still presses leaves
  an agent taken down with no record.
* A claim more than 1.5 s after STATE is ignored by the holder (its connection counts
  as a legacy server); the server gives up after 10 s and removes the manifest of a
  holder that lives, which the comment at `session-manager.ts:171` says must survive
  a losing claim (`late` in `ManifestSurvivesClaims`).
* After a claim that timed out, `restoreWorkspace` may start a second holder
  under the id, which the comment at `session-manager.ts:127-131` forbids. Two
  servers that connect within milliseconds, or an eviction in mid-handshake, end
  in the same removal of the manifest (`overtaken`).
* `_appliedOffset` can drift from the screen (`handshake`, `save`): the dump is
  newer than the offset STATE reported, buffered frames are counted again, and a
  checkpoint counts what xterm has not parsed; the comments at `session.ts:693`
  and `session-manager.ts:338` say otherwise.

* Local echo: `resumeView` drops output that was already reconciled, and the replay
  paints the echoes of consumed predictions again (`terminal-host.ts:527`); a mismatch
  drops a frame and may acknowledge it (`mux.ts:516`); a redraw passed over at the edge of a
  line leaves the cursor of the page a cell off (`local-echo.ts:312`).
* Synchronised updates: a read that ends or overfills one block and begins the next
  leaves the next without its time-out, as the timer is cleared after it was set
  (`session.ts:1047-1061`; the test at `session.test.ts:270` begins one block only).
  What follows the end of a block in the same read goes out before the block, what
  precedes one that overflows in the same read after it (`sync-block.ts:254`). A
  snapshot taken while a block is open shows what the block repeats (`session.ts:886`).
* Saved stores: after a first write that fails, the store stays dirty and nothing
  schedules another save; after a failed second round it counts as clean.
* Workspaces: `docs/adr-0001-membership.md:22` gives a session none or one home, which
  neither a layout from a page nor a split checks; a layout that brings in a session
  may take a `term-N` another member has, renaming it. `reorder` and `reorderStreams`
  accept a list with a repetition and lose what it does not name
  (`workspace-store.ts:241`, `341`). A workspace name in use is answered as
  `member_name_taken` (`server.ts:266-271`), a member's on PATCH with no code.
* Pages: `refresh()` looks at the barrier before its await only; a *deleted* event
  that comes while a page is locked is dropped for good, any other until the 30 s
  poll; a fetch of the list that fails empties the tabs; a deleted workspace's
  sessions are taken from the page's copy (`App.tsx:957`). Two renames of one setting
  may be written in either order. `ttym` adding a session that is refused leaves it
  running in no workspace. A divider dragged where the pair has less than twice the
  minimum goes below it, and a drag is committed by its path on a tree that may have
  changed.
* Sessions: a save or a change of metadata that outlives its session writes its files
  again; a snapshot is unlinked although its session could not be created; safe mode
  unlinks the index; the cached metadata of a session is kept when the sweep removes
  its file (`session-manager.ts:427`); sessions that had exited come back after a
  crash and not after a graceful end.
* Prompts: "stuck" ends whatever prompt is in flight (`server.ts:578`); a Stop still
  reading turns a superseded record round; a session that is destroyed leaves its
  prompt pending, as `kill()` runs no exit callbacks.
* What is shown of an agent: a prompt denied, or a turn cut short, within a second of
  the server's note of its beginning or before that note stays shown until the next
  event, as `hookWaitingIsStale` and `turnIsStale` ask for a status more than 1 s
  younger (`agent-hooks.ts:157`, `agent-sleep.ts:78`); an Esc in the second of the note of
  the next prompt counts as the Esc of that turn, so that this turn, cut short elsewhere, is
  not shown as interrupted (`agent-hooks.ts:70`); `setMeta` broadcasts each change
  when its own file is written, so that an older one may be broadcast last
  (`session-manager.ts:559`); a turn cut short stays active while a subagent's prompt
  is up, as the status says waiting and not idle.
* Geometry: a viewer that attaches again with a loan loses it at once, as wiring it
  anew removes the old viewer (`server.ts:2419`); a loan that ends restores the size
  from before it although somebody resized meanwhile.
* Embedding: a workspace deleted while a panel's shell starts leaves the shell running
  in no workspace, since `addMember` returns null and does not throw
  (`embed/http.ts:178`), and the list that is "never empty" is. A workspace of the
  owner that has the *name* of the site makes every first tab a 409, whereas
  `docs/embedding.md:45` speaks of exact names. A tab moved between two workspaces of
  one grant is detached on the way. `POST /api/workspaces` with an id in use replaces
  that workspace.
* Commands: what comes in one read with the mark of a command's end is numbered as the
  end and never cut out, so that a command whose beginning, output and end come in one
  read has an empty output (`session.ts:421-426`, whereas `README.md:562` has the
  output sliced by its marks). The acknowledgements of a viewer who watches trim the
  ring, so that the output of an awaited command is "truncated" for being watched
  (`server.ts:240`). A caller whose line waits behind others is answered with the first
  command that starts, and two callers can be answered with the same one.
* `ttym attach`: output that comes while the prefix waits for its key is not shown until
  the next snapshot (`attach.ts:474`); a connection lost between the answer to ATTACH
  and its screen resumes from the number that screen was to bring (`attach.ts:454`).
  Keys pressed while disconnected are dropped without a sign; a request for the picker
  or the next member that fails is a rejection nobody handles.
* `ttym upgrade`: a new server that never comes up without a supervisor ends the
  process in `ensureServerRunning` (`lifecycle.ts:48`), before the roll-back that
  `cmdUpgrade` and `upgradeRelease` mean to start when `restartAndCheck` fails.

## Not modelled

`PROJECT.json` has a line for every component.

* Reading and rendering: the reader and the search over transcripts, the file viewer,
  the providers and turns of other agents than Claude Code, ANSI helpers, the HTTP
  surface around the routes that change state, settings, maps and rendering of the
  pages, the API client, the CLI around the commands in `WorkspacePages`, `ttym await` and
  `ttym attach`, the desktop shell, scripts, site and installer.
* Starting, stopping and upgrading the server from the command line: each waits for the
  file system and the supervisor in turn, in one process.
* The agent bus and its bridge: nothing constructs them in this version.
* Remote access: devices and logins are read and written in one step each, so that
  there is nothing to interleave; who may enter is a decision on one request.
* The byte-level protocol, whose messages the modules use; of the holder, RESIZE, pings
  and the binding of a socket that is in use.
* Eviction of hidden hosts, CREATE by a page, the viewer of a read-only grant, pings
  and keepalives, upgrades that hand over a server.

Crashes of the holder are its exit; the machine does not lose power between a
write and its rename. Timers have no durations: one that can fire may fire at any
time unless the module says otherwise.
