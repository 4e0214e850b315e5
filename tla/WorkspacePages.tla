---------------------------- MODULE WorkspacePages ----------------------------
(***************************************************************************)
(* The pages that show and edit the workspaces of one server: WorkspacePage.tsx, *)
(* the tabs of App.tsx, DashboardPage.tsx and the commands of packages/cli, with    *)
(* server.ts between them and the store.                                     *)
(*                                                                         *)
(* A page sends requests, which are served and answered in any order, or fail;   *)
(* the server pushes every change to every page in order.  A page edits its own  *)
(* copy first and sends whole layouts computed from it.                      *)
(***************************************************************************)
EXTENDS WorkspaceOps

CONSTANTS Pages,
          PanesPage,      \* the one of them that shows a workspace
          Shown, Other,   \* workspaces: the one the panes pages show, and another
          Sessions,
          MaxEdits        \* bound of the model: edits and requests that are lost, in all

ASSUME PagesAssumption ==
  /\ PanesPage \in Pages /\ Shown # Other /\ Sessions \subseteq Nat \ {0} /\ {1, 2} \subseteq Sessions
  /\ MaxEdits \in Nat

VARIABLES
  store,     \* the server's workspaces
  alive,     \* the sessions that run
  ended,     \* ... and those that ran
  letGo,     \* ghost: sessions taken out of a workspace on purpose
  page,      \* see NewPage
  pushes,    \* change events on their way to a page
  calls,     \* requests under way, see Call
  edits      \* what is used of MaxEdits

pageVars == <<store, alive, ended, letGo, page, pushes, calls, edits>>

NoWorkspace == [name |-> NoName, layout |-> <<>>, members |-> <<>>, stream |-> Unsorted]

(* At first each page has what the server has.                              *)
FirstStore ==
  LET member(s) == [session |-> s, name |-> Term(s)]
      w(name, sessions) == [name |-> name, layout |-> sessions, stream |-> Unsorted,
                            members |-> [i \in DOMAIN sessions |-> member(sessions[i])]]
  IN  [order |-> <<Shown, Other>>, streams |-> <<>>,
       ws |-> [id \in {Shown, Other} |-> IF id = Shown THEN w(<<"a">>, <<1, 2>>) ELSE w(<<"b">>, <<>>)]]

(* What a page keeps of use to what it does: "panes" shows one workspace and      *)
(* locks itself around its own edits (MutationBarrier: calls under way, and the   *)
(* 1.2 s after the last); "tabs" and "dashboard" have the whole list, and the    *)
(* dashboard the sessions that ran when it asked.                            *)
NewPage(does) ==
  [does |-> does, open |-> TRUE, pending |-> 0, settling |-> FALSE, loading |-> FALSE,
   copy |-> IF does = "panes" THEN FirstStore.ws[Shown] ELSE NoWorkspace,
   list |-> IF does = "panes" THEN Empty ELSE FirstStore,
   live |-> IF does = "dashboard" THEN {1, 2} ELSE {},
   astray |-> FALSE]   \* ghost: the list was set from an answer older than a push, or an edit of it was refused

Locked(p) == page[p].pending > 0 \/ page[p].settling

(* A request: of which edit, what is asked, and what the page does on the        *)
(* answer.  `got` holds the answer once there is one, nothing when it failed;     *)
(* `session` is the one a split has started and not yet placed.               *)
Call(p, n, ask, then) ==
  [page |-> p, n |-> n, ask |-> ask, then |-> then, session |-> 0, state |-> "asked", got |-> <<>>]

Waits(c) == c \in calls /\ c.state = "asked"
Failed(c) == c.got = <<>>
GotOr(got, default) == IF got = <<>> THEN default ELSE Head(got)

Get == [kind |-> "get"]
ListAll == [kind |-> "list"]
Asks(kind, id, s, arg) == [kind |-> kind, id |-> id, session |-> s, arg |-> arg]

-----------------------------------------------------------------------------
(* The server.                                                              *)

(* What becomes of the store, by the route of server.ts.                     *)
Handled(ask) ==
  CASE ask.kind = "relayout" -> Relayout(store, ask.id, ask.arg)
    [] ask.kind = "preset"   -> Preset(store, ask.id)
    [] ask.kind = "add"      -> AddMember(store, ask.id, ask.session, ask.arg)
    [] ask.kind = "remove"   -> RemoveMember(store, ask.id, ask.session)
    [] ask.kind = "kill"     -> RemoveEverywhere(store, ask.session)
    [] ask.kind = "move"     -> MoveMember(store, ask.id, ask.session, ask.arg)
    [] ask.kind = "retag"    -> Retag(store, ask.id, ask.arg)
    [] ask.kind = "rename"   -> Rename(store, ask.id, ask.arg)
    [] ask.kind = "delete"   -> Delete(store, ask.id)
    [] ask.kind = "create"   -> Create(store, ask.id, ask.arg, <<>>, <<>>, Unsorted)
    [] ask.kind = "reorder"  -> Reorder(store, ask.arg)
    [] ask.kind = "addStream"    -> AddStream(store, ask.arg)
    [] ask.kind = "removeStream" -> RemoveStream(store, ask.arg)

Answers(c, ok, value) ==
  calls' = (calls \ {c}) \cup {[c EXCEPT !.state = "answered", !.got = IF ok THEN <<value>> ELSE <<>>]}

(* The events a page takes no notice of, whatever it shows, are left out of its   *)
(* queue: a panes page has an eye for one workspace, the dashboard has neither      *)
(* order nor streams, and a command has no socket.                            *)
Heeds(does, e) ==
  CASE does = "panes"     -> e.kind \in {"workspace", "deleted"} /\ e.id = Shown
    [] does = "dashboard" -> e.kind \notin {"order", "streams"}
    [] does = "tabs"      -> TRUE
    [] does = "command"   -> FALSE

PushesAll(events) ==
  pushes' = [p \in Pages |-> pushes[p] \o Kept(events, {e \in ToSet(events) : Heeds(page[p].does, e)})]

Homes(st) == UNION {SessionsOf(st.ws[id].members) : id \in DOMAIN st.ws}

Edits(c) == c.ask.kind \notin {"get", "list", "sessions", "destroy", "split", "start"}

ServesEdit(c) ==
  /\ Waits(c) /\ Edits(c)
  /\ \E done \in {Handled(c.ask)} :
         /\ store' = done.store /\ PushesAll(done.events)
         /\ letGo' = letGo \cup (Homes(store) \ Homes(store'))
         /\ alive' = IF c.ask.kind = "kill" THEN alive \ {c.ask.session} ELSE alive
         /\ Answers(c, done.ok, IF c.then = "apply" THEN store'.ws[c.ask.id] ELSE NoWorkspace)
  /\ UNCHANGED <<ended, page, edits>>

ServesRead(c) ==
  /\ Waits(c)
  /\ \/ c.ask.kind = "get" /\ Answers(c, Shown \in DOMAIN store.ws, store.ws[Shown])
     \/ c.ask.kind = "list" /\ Answers(c, TRUE, store)
     \/ c.ask.kind = "sessions" /\ Answers(c, TRUE, alive)
  /\ UNCHANGED <<store, alive, ended, letGo, page, pushes, edits>>

(* A session is created under the next number (SessionManager.create).        *)
Creates(s) ==
  /\ s \in Sessions \ ended /\ \A r \in Sessions \ ended : s <= r
  /\ alive' = alive \cup {s} /\ ended' = ended \cup {s}

(* POST /api/sessions: a session of its own.                                 *)
Starts(c) ==
  /\ Waits(c) /\ c.ask.kind = "start"
  /\ \E s \in Sessions : Creates(s) /\ letGo' = letGo \cup {s} /\ Answers(c, TRUE, s)
  /\ UNCHANGED <<store, page, pushes, edits>>

(* CMD.DESTROY: the sessions end; their memberships stay.                    *)
ServesDestroy(c) ==
  /\ c \in calls /\ c.ask.kind = "destroy"
  /\ alive' = alive \ c.ask.arg /\ calls' = calls \ {c}
  /\ UNCHANGED <<store, ended, letGo, page, pushes, edits>>

(* POST /split: a session is started if the workspace exists, and placed once it   *)
(* runs, under the name its number gives it; a refusal ends it again.          *)
StartsSplit(c) ==
  /\ Waits(c) /\ c.ask.kind = "split" /\ c.session = 0
  /\ IF c.ask.id \notin DOMAIN store.ws
     THEN Answers(c, FALSE, NoWorkspace) /\ UNCHANGED <<alive, ended>>
     ELSE \E s \in Sessions : Creates(s) /\ calls' = (calls \ {c}) \cup {[c EXCEPT !.session = s]}
  /\ UNCHANGED <<store, letGo, page, pushes, edits>>

(* Mutant: the refused session is left running.                               *)
PlacesSplitOnly(c) ==
  /\ Waits(c) /\ c.session # 0
  /\ \E done \in {SplitMember(store, c.ask.id, c.ask.session, c.session, Term(c.session), FALSE)} :
         /\ store' = done.store /\ PushesAll(done.events)
         /\ Answers(c, done.ok, store'.ws[c.ask.id])
  /\ UNCHANGED <<alive, ended, letGo, page, edits>>

PlacesSplit(c) ==
  /\ Waits(c) /\ c.session # 0
  /\ \E done \in {SplitMember(store, c.ask.id, c.ask.session, c.session, Term(c.session), FALSE)} :
         /\ store' = done.store /\ PushesAll(done.events)
         /\ alive' = IF done.ok THEN alive ELSE alive \ {c.session}
         /\ Answers(c, done.ok, store'.ws[c.ask.id])
  /\ UNCHANGED <<ended, letGo, page, edits>>

(* The network fails a request before or after it was served.                *)
Loses(c) ==
  /\ c \in calls /\ c.ask.kind # "destroy" /\ c.session = 0 /\ ~(c.state = "answered" /\ Failed(c))
  /\ edits < MaxEdits /\ edits' = edits + 1
  /\ Answers(c, FALSE, NoWorkspace)
  /\ UNCHANGED <<store, alive, ended, letGo, page, pushes>>

Server(c) == ServesEdit(c) \/ ServesRead(c) \/ Starts(c) \/ ServesDestroy(c) \/ StartsSplit(c) \/ PlacesSplit(c)

-----------------------------------------------------------------------------
(* A page on an answer or a push.                                            *)

(* The end of a call made under begin() (doSplit, applyPreset, attachSession).  *)
Ends(pg, got) ==
  [pg EXCEPT !.pending = @ - 1, !.settling = TRUE, !.copy = IF got = <<>> THEN @ ELSE Head(got)]

(* ttym workspace delete: the members as they were read are killed one after the   *)
(* other, then the workspace is deleted.                                     *)
KillsNext(p, n, id, sessions) ==
  IF sessions = <<>> THEN Call(p, n, Asks("delete", id, 0, NoName), "nothing")
  ELSE Call(p, n, Asks("kill", id, Head(sessions), Tail(sessions)), "killAll")

(* DashboardPage 103: once loaded, what the list shows and the sessions did not   *)
(* have is taken out of its workspace.                                       *)
Swept(pg) == {x \in (DOMAIN pg.list.ws) \X Sessions :
                Contains(pg.list.ws[x[1]].layout, x[2]) /\ x[2] \notin pg.live}

Sweep(p, pg) ==
  IF pg.live = {} THEN {}
  ELSE {Call(p, edits, Asks("remove", x[1], x[2], NoName), "nothing") : x \in Swept(pg)}

Arrives(c) ==
  LET p == c.page
      pg == page[p]
      read(more) == calls' = (calls \ {c}) \cup more
  IN /\ c \in calls /\ c.state = "answered"
     /\ \/ c.then = "apply" /\ page' = [page EXCEPT ![p] = Ends(pg, c.got)] /\ read({})
        (* refresh: the lock was looked at before the request only. *)
        \/ /\ c.then = "show" /\ read({})
           /\ page' = IF Failed(c) \/ ~pg.open THEN page ELSE [page EXCEPT ![p].copy = Head(c.got)]
        (* fetchWorkspaces: a failure is an empty list. *)
        \/ /\ c.then = "list" /\ read({})
           /\ page' = [page EXCEPT ![p].list = GotOr(c.got, Empty),
                                   ![p].astray = c.got # <<store>> \/ pushes[p] # <<>>]
        \/ /\ c.then = "fetch" /\ read({Call(p, edits, ListAll, "list")})
           /\ UNCHANGED page
        \/ /\ c.then = "restart" /\ read({Call(p, edits, Asks("split", Shown, 0, NoName), "apply")})
           /\ page' = [page EXCEPT ![p].pending = @ + 1]
        (* The commands: a new session joins the workspace (createWorkspaceMember),  *)
        (* a member taken out is killed.                                          *)
        \/ /\ c.then = "join" /\ UNCHANGED page
           /\ read(IF Failed(c) THEN {}
                   ELSE {Call(p, c.n, Asks("add", c.ask.id, Head(c.got), c.ask.arg), "nothing")})
        \/ /\ c.then = "kill" /\ UNCHANGED page
           /\ read(IF Failed(c) THEN {} ELSE {Call(p, c.n, Asks("kill", c.ask.id, c.ask.session, NoName), "nothing")})
        \/ /\ c.then = "killAll" /\ UNCHANGED page
           /\ read(IF Failed(c) THEN {} ELSE {KillsNext(p, c.n, c.ask.id, c.ask.arg)})
        (* createWorkspaceTab: a name that is taken is not tried again. *)
        \/ /\ c.then = "retry"
           /\ read(IF Failed(c) /\ c.ask.arg # <<"a", 3>>
                   THEN {Call(p, c.n, [c.ask EXCEPT !.arg = <<"a", 3>>], "retry")} ELSE {})
           /\ UNCHANGED page
        \/ /\ c.then = "nothing" /\ read({})
           /\ page' = IF Failed(c) THEN [page EXCEPT ![p].astray = TRUE] ELSE page
     /\ UNCHANGED <<store, alive, ended, letGo, pushes, edits>>

(* The dashboard waits for both answers (Promise.all).                        *)
BoardCalls(p) == {c \in calls : c.page = p /\ c.then = "board"}
BoardAnswer(p, kind) == (CHOOSE c \in BoardCalls(p) : c.ask.kind = kind).got

ShowsBoard(p) ==
  /\ BoardCalls(p) # {} /\ \A c \in BoardCalls(p) : c.state = "answered"
  /\ calls' = calls \ BoardCalls(p)
  /\ page' = IF BoardAnswer(p, "sessions") = <<>> THEN page
             ELSE [page EXCEPT ![p].live = Head(BoardAnswer(p, "sessions")),
                               ![p].list = GotOr(BoardAnswer(p, "list"), Empty)]
  /\ UNCHANGED <<store, alive, ended, letGo, pushes, edits>>

(* loading ends after more awaits, or with a failure.                        *)
Loads(p) ==
  /\ page[p].loading /\ BoardCalls(p) = {}
  /\ page' = [page EXCEPT ![p].loading = FALSE]
  /\ calls' = calls \cup Sweep(p, page[p])
  /\ UNCHANGED <<store, alive, ended, letGo, pushes, edits>>

(* Mutant: the tabs take no notice of an order.                              *)
HeardUnordered(pg, e) ==
  CASE pg.does = "panes" -> pg
    [] e.kind \in {"order", "streams"} -> pg
    [] OTHER -> [pg EXCEPT !.list = Heard(@, e)]

(* What a page makes of an event: a panes page takes the workspace it shows and    *)
(* leaves when that is deleted, unless it is locked.                           *)
Hears(pg, e) ==
  CASE pg.does = "panes" ->
         IF pg.pending > 0 \/ pg.settling \/ ~pg.open THEN pg
         ELSE IF e.kind = "deleted" THEN [pg EXCEPT !.open = FALSE] ELSE [pg EXCEPT !.copy = e.workspace]
    [] OTHER -> [pg EXCEPT !.list = Heard(@, e)]

Pushed(p) ==
  /\ pushes[p] # <<>>
  /\ pushes' = [pushes EXCEPT ![p] = Tail(@)]
  /\ page' = [page EXCEPT ![p] = Hears(@, Head(pushes[p]))]
  /\ UNCHANGED <<store, alive, ended, letGo, calls, edits>>

(* 1.2 s have passed.                                                        *)
Settles(p) ==
  /\ page[p].settling /\ page' = [page EXCEPT ![p].settling = FALSE]
  /\ UNCHANGED <<store, alive, ended, letGo, pushes, calls, edits>>

(* The poll, every 30 s: the answer to one is there before the next.          *)
Polls(p) ==
  /\ page[p].does = "panes" /\ page[p].open /\ ~Locked(p)
  /\ \A c \in calls : ~(c.page = p /\ c.then = "show")
  /\ calls' = calls \cup {Call(p, 0, Get, "show")}
  /\ UNCHANGED <<store, alive, ended, letGo, page, pushes, edits>>

-----------------------------------------------------------------------------
(* A user edits.                                                            *)
EditOf(p, asked, pg) ==
  /\ edits < MaxEdits /\ edits' = edits + 1
  /\ page[p].open
  /\ calls' = calls \cup asked /\ page' = [page EXCEPT ![p] = pg]
  /\ UNCHANGED <<store, alive, ended, letGo, pushes>>

Begun(pg) == [pg EXCEPT !.pending = @ + 1]
Blocked(pg, copy) == [pg EXCEPT !.settling = TRUE, !.copy = copy]

Panes(p) == page[p].does = "panes" /\ page[p].copy # NoWorkspace

Asked(p, kind, id, s, arg, then) == Call(p, edits + 1, Asks(kind, id, s, arg), then)

DoSplit(p) ==
  /\ Panes(p) /\ Sessions \ ended # {}
  /\ \E t \in ToSet(page[p].copy.layout) :
       EditOf(p, {Asked(p, "split", Shown, t, NoName, "apply")}, Begun(page[p]))

Dropped(w, s) == [w EXCEPT !.layout = Without(@, s), !.members = MembersOf(@, SessionsOf(@) \ {s})]

DetachMember(p) ==
  /\ Panes(p)
  /\ \E s \in ToSet(page[p].copy.layout), then \in {"nothing", "restart"} :
       /\ then = "restart" => s \notin alive /\ Sessions \ ended # {}
       /\ EditOf(p, {Asked(p, "remove", Shown, s, NoName, then)}, Blocked(page[p], Dropped(page[p].copy, s)))

TerminateMember(p) ==
  /\ Panes(p)
  /\ \E s \in ToSet(page[p].copy.layout) :
       EditOf(p, {Asked(p, "destroy", Shown, 0, {s}, "nothing"), Asked(p, "remove", Shown, s, NoName, "nothing")},
              Blocked(page[p], Dropped(page[p].copy, s)))

(* commitResize and commitSwap: the whole layout of the copy.                *)
CommitLayout(p) ==
  /\ Panes(p)
  /\ \E a, b \in ToSet(page[p].copy.layout) : a <= b /\
       LET layout == Swapped(page[p].copy.layout, a, b)
       IN  EditOf(p, {Asked(p, "relayout", Shown, 0, layout, "nothing")},
                  Blocked(page[p], [page[p].copy EXCEPT !.layout = layout]))

ApplyPreset(p) ==
  Panes(p) /\ EditOf(p, {Asked(p, "preset", Shown, 0, NoName, "apply")}, Begun(page[p]))

(* attachSession: a session that the list shows nowhere, under the first name the  *)
(* copy has free.                                                           *)
AttachSession(p) ==
  /\ Panes(p)
  /\ \E s \in alive \ Homes(store) :
       EditOf(p, {Asked(p, "add", Shown, s, FreshName(NamesOf(page[p].copy.members), 1), "apply")}, Begun(page[p]))

Tabs(p) == page[p].does = "tabs"

(* moveWorkspaceToStream: here first, then there.                            *)
MoveWorkspaceToStream(p) ==
  /\ Tabs(p)
  /\ \E id \in DOMAIN page[p].list.ws, s \in {"s", Unsorted} :
       EditOf(p, {Asked(p, "retag", id, 0, s, "nothing")},
              [page[p] EXCEPT !.list = Adopt([@ EXCEPT !.ws[id].stream = s], s)])

EditStreams(p) ==
  /\ Tabs(p)
  /\ \/ /\ ~Contains(page[p].list.streams, "s")
        /\ EditOf(p, {Asked(p, "addStream", Shown, 0, "s", "nothing")}, [page[p] EXCEPT !.list = Adopt(@, "s")])
     \/ /\ Contains(page[p].list.streams, "s")
        /\ EditOf(p, {Asked(p, "removeStream", Shown, 0, "s", "nothing")}, [page[p] EXCEPT !.list = Unstreamed(@, "s")])

(* The tabs are put in their new order while they are dragged.               *)
ReorderTabs(p) ==
  /\ Tabs(p) /\ Len(page[p].list.order) > 1
  /\ LET order == Swapped(page[p].list.order, Shown, Other)
     IN  EditOf(p, {Asked(p, "reorder", Shown, 0, order, "nothing")}, [page[p] EXCEPT !.list.order = order])

(* deleteWorkspace: the sessions of the list's layout, then the workspace, then     *)
(* the list anew.                                                           *)
DeleteWorkspace(p) ==
  /\ Tabs(p)
  /\ \E id \in DOMAIN page[p].list.ws :
       EditOf(p, {Asked(p, "destroy", id, 0, ToSet(page[p].list.ws[id].layout), "nothing"),
                  Asked(p, "delete", id, 0, NoName, "fetch")}, page[p])

RenameWorkspace(p) ==
  /\ Tabs(p)
  /\ \E id \in DOMAIN page[p].list.ws : EditOf(p, {Asked(p, "rename", id, 0, <<"a">>, "nothing")}, page[p])

CreateWorkspaceTab(p) ==
  /\ Tabs(p) /\ Other \notin DOMAIN page[p].list.ws
  /\ EditOf(p, {Asked(p, "create", Other, 0, <<"a">>, "retry")}, page[p])

(* A session dropped on another workspace of the map (MapPage moveSession).     *)
MoveSession(p) ==
  /\ Tabs(p)
  /\ \E id, to \in DOMAIN page[p].list.ws : \E s \in SessionsOf(page[p].list.ws[id].members) :
       id # to /\ EditOf(p, {Asked(p, "move", id, s, to, "nothing")}, page[p])

(* DashboardPage refresh: the sessions over the socket, the workspaces over HTTP. *)
Fetches(p, n) == {Call(p, n, [kind |-> "sessions"], "board"), Call(p, n, ListAll, "board")}

RefreshDashboard(p) ==
  /\ page[p].does = "dashboard" /\ ~page[p].loading
  /\ EditOf(p, Fetches(p, edits + 1), [page[p] EXCEPT !.loading = TRUE])

(* A command reads the workspaces, then asks; at first it has no copy to be wrong   *)
(* about.                                                                   *)
Command(p) == page[p].does = "command"

CliSplit(p) ==
  /\ Command(p) /\ Sessions \ ended # {}
  /\ EditOf(p, {Asked(p, "split", Shown, 1, NoName, "nothing")}, page[p])

CliAdd(p) ==
  /\ Command(p) /\ Sessions \ ended # {}
  /\ \E id \in DOMAIN store.ws :
       EditOf(p, {Asked(p, "start", id, 0, FreshName(NamesOf(store.ws[id].members), 1), "join")}, page[p])

CliRemove(p) ==
  /\ Command(p)
  /\ \E id \in DOMAIN store.ws, then \in {"kill", "nothing"} : \E s \in SessionsOf(store.ws[id].members) :
       EditOf(p, {Asked(p, "remove", id, s, NoName, then)}, page[p])

CliKill(p) ==
  /\ Command(p)
  /\ \E s \in alive : EditOf(p, {Asked(p, "kill", Shown, s, <<>>, "nothing")}, page[p])

CliDelete(p) ==
  /\ Command(p)
  /\ \E id \in DOMAIN store.ws :
       LET members == store.ws[id].members
       IN  EditOf(p, {KillsNext(p, edits + 1, id, [i \in DOMAIN members |-> members[i].session])}, page[p])

UserEdits(p) ==
  \/ CliSplit(p) \/ CliAdd(p) \/ CliRemove(p) \/ CliKill(p) \/ CliDelete(p)
  \/ DoSplit(p) \/ DetachMember(p) \/ TerminateMember(p) \/ CommitLayout(p) \/ ApplyPreset(p) \/ AttachSession(p)
  \/ MoveWorkspaceToStream(p) \/ EditStreams(p) \/ ReorderTabs(p) \/ DeleteWorkspace(p) \/ RenameWorkspace(p)
  \/ CreateWorkspaceTab(p) \/ MoveSession(p) \/ RefreshDashboard(p)

-----------------------------------------------------------------------------
PagesInit ==
  /\ store = FirstStore /\ alive = {1, 2} /\ ended = {1, 2} /\ letGo = {}
  /\ \E does \in {"tabs", "dashboard", "command"} :
       page = [p \in Pages |-> NewPage(IF p = PanesPage THEN "panes" ELSE does)]
  /\ pushes = [p \in Pages |-> <<>>] /\ calls = {}
  /\ edits = 0

PagesNext ==
  \/ \E p \in Pages : Settles(p) \/ ShowsBoard(p) \/ Loads(p) \/ Polls(p) \/ Pushed(p) \/ UserEdits(p)
  \/ \E c \in calls : Server(c) \/ Arrives(c) \/ Loses(c)

PagesSpec == PagesInit /\ [][PagesNext]_pageVars

-----------------------------------------------------------------------------
(* With nothing under way the tabs show what the server has, because every change is    *)
(* pushed to them in order, unless an answer to a fetch was older than a push, or an     *)
(* edit they had already shown was refused.  A page of panes has the polls besides,      *)
(* "only the safety net for events that were missed" (WorkspacePage.tsx:110): it is       *)
(* deaf to both only while a call of its own is under way, whose end - answered,          *)
(* refused or failed - unlocks it.                                               *)
PagesFollow ==
  \A p \in Pages :
    /\ page[p].does = "tabs" /\ ~page[p].astray /\ pushes[p] = <<>> /\ (\A c \in calls : c.page # p) =>
         page[p].list = store
    /\ page[p].pending = Cardinality({c \in calls : c.page = p /\ c.then = "apply"})

(* A session that runs is a member of a workspace, about to be, or was let go on    *)
(* purpose: a split that is refused halfway leaves none behind (server.ts:1478).  *)
NoneIsForgotten ==
  alive \subseteq Homes(store) \cup letGo \cup {c.session : c \in calls}

(* "Only the membership of dead sessions is taken away" (DashboardPage.tsx:103).    *)
(* The code does not keep this: the sessions are as of one moment, the list goes     *)
(* on following the pushes.                                                  *)
OnlyDeadAreSwept ==
  [][\A p \in Pages : page[p].loading /\ ~page'[p].loading /\ page[p].live # {} =>
       \A x \in Swept(page[p]) : x[2] \notin alive]_pageVars
=============================================================================
