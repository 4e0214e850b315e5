------------------------------ MODULE EmbedPanels ------------------------------
(***************************************************************************)
(* Terminals in other people's pages (packages/server/src/embed, server.ts): an    *)
(* app that the owner has registered hands its visitors grants for one of the     *)
(* owner's workspaces, the site.  Their panels list, open, rename and close its    *)
(* tabs over HTTP, one request at a time, and watch them over sockets of their     *)
(* own; the owner goes on working in the same workspace meanwhile.                *)
(***************************************************************************)
EXTENDS WorkspaceOps

CONSTANTS Panels,
          Shells,       \* sessions; the first runs from the beginning and is the owner's
          MaxTabs,      \* maxTabs of the registered profile, whose keepOne is set
          MaxAsked,     \* bounds of the runs: requests under way at a time,
          MaxOwnerActs  \* and actions of the owner

ASSUME PanelAssumption ==
  Shells \subseteq Nat \ {0} /\ 1 \in Shells /\ MaxTabs \in Nat \ {0} /\ MaxAsked \in Nat /\ MaxOwnerActs \in Nat

VARIABLES
  desk,        \* the content of WorkspaceStore
  shell,       \* what has become of each session: "new", "starting", "running" or "ended"
  inTurn,       \* requests about the site's tabs, in the order of its serial queue
  grant,       \* of each panel: "none", "live", or "stale" when the consumer has a new key or is gone
  panelSock,   \* of each panel: "closed", "open" or "closing"
  watches,     \* the sessions each panel's socket is attached to
  mine,        \* ghost: the sessions that panels started and the owner has not taken from them
  ownerActs    \* number of actions of the owner

panelVars == <<desk, shell, inTurn, grant, panelSock, watches, mine, ownerActs>>

Site == "site"
Own == "own"            \* a workspace no grant reaches
DefaultName == <<"sh">>

(* The owner's workspace may have the name the site would be created under.       *)
PanelsInit ==
  /\ \E name \in {<<"own">>, <<"site">>} :
       desk = Create(Empty, Own, name, <<1>>, << [session |-> 1, name |-> DefaultName] >>, Unsorted).store
  /\ shell = [s \in Shells |-> IF s = 1 THEN "running" ELSE "new"]
  /\ inTurn = <<>> /\ mine = {} /\ ownerActs = 0
  /\ grant = [p \in Panels |-> "none"]
  /\ panelSock = [p \in Panels |-> "closed"]
  /\ watches = [p \in Panels |-> {}]

TabsIn(st) == IF Site \in DOMAIN st.ws THEN st.ws[Site].members ELSE <<>>

(* capsOn: what a grant for the site reaches is what is in it now.                *)
Reach(st) == SessionsOf(TabsIn(st))

(* Mutant: only a workspace that is deleted takes its sessions from the sockets.   *)
RevalidatedOnDeletion(st, events) ==
  IF \E i \in DOMAIN events : events[i].kind = "deleted"
  THEN [p \in Panels |-> watches[p] \cap Reach(st)] ELSE watches

(* Each change of a workspace detaches the sockets from what it takes out of reach. *)
Revalidated(st, events) ==
  IF events = <<>> THEN watches ELSE [p \in Panels |-> watches[p] \cap Reach(st)]

Changes(result) == desk' = result.store /\ watches' = Revalidated(result.store, result.events)

-----------------------------------------------------------------------------
(* The tabs.  A job is a request in the middle of its work: the store, the events    *)
(* so far, and the sessions it has ended.                                       *)
Job == [result |-> Told(desk, <<>>), ended |-> {}]

Then(result, next) == [next EXCEPT !.events = result.events \o @]

(* prune: the tab of a shell that has ended goes.                               *)
Pruned(job) ==
  LET st == job.result.store
      gone == MembersOf(TabsIn(st), {s \in Reach(st) : shell[s] # "running" \/ s \in job.ended})
  IN  [job EXCEPT !.result = Then(@, RemoveEach(st, [i \in DOMAIN gone |-> <<Site, gone[i].session>>]))]

Full(job) == Len(TabsIn(job.result.store)) >= MaxTabs
FreeName(job) == Suffixed(DefaultName, NamesOf(TabsIn(job.result.store)))

(* Mutant: requests do not wait for each other.                                  *)
AnyTurn(i) == TRUE

(* serial: a request waits for the one before it, whatever becomes of that.         *)
Turn(i) == i = 1

(* The request is answered: it leaves the queue.                                 *)
Replies(i, job) ==
  /\ Changes(job.result) /\ inTurn' = RemoveAt(inTurn, i)
  /\ shell' = [s \in Shells |-> IF s \in job.ended THEN "ended" ELSE shell[s]]
  /\ mine' = mine \ job.ended
  /\ UNCHANGED <<grant, panelSock, ownerActs>>

(* createTab up to the start of the session; the request waits for it.              *)
Begins(i, job, name) ==
  \E s \in Shells :
    /\ shell[s] = "new" /\ \A t \in Shells : shell[t] = "new" => s <= t
    /\ Changes(job.result)
    /\ inTurn' = [inTurn EXCEPT ![i] = [@ EXCEPT !.op = "starting", !.sid = s, !.name = name,
                                              !.had = Site \in DOMAIN job.result.store.ws]]
    /\ shell' = [[t \in Shells |-> IF t \in job.ended THEN "ended" ELSE shell[t]] EXCEPT ![s] = "starting"]
    /\ mine' = (mine \ job.ended) \cup {s}
    /\ UNCHANGED <<grant, panelSock, ownerActs>>

CreatesTab(i, job, name) ==
  IF Full(job) \/ name \in NamesOf(TabsIn(job.result.store)) THEN Replies(i, job) ELSE Begins(i, job, name)

(* listTabs: for a panel that may change tabs there is always one.                   *)
ListsTabs(i, job) ==
  LET left == Pruned(job)
  IN  IF TabsIn(left.result.store) = <<>> /\ inTurn[i].writes
      THEN CreatesTab(i, left, FreeName(left)) ELSE Replies(i, left)

List(i) == inTurn[i].op = "list" /\ ListsTabs(i, Job)

CreateTab(i) ==
  /\ inTurn[i].op = "create"
  /\ LET left == Pruned(Job)
     IN  CreatesTab(i, left, IF inTurn[i].name = NoName THEN FreeName(left) ELSE inTurn[i].name)

RenameTab(i) ==
  /\ inTurn[i].op = "rename"
  /\ LET renamed == RenameMember(desk, Site, inTurn[i].sid, inTurn[i].name)
     IN  IF renamed.ok THEN ListsTabs(i, [Job EXCEPT !.result = renamed]) ELSE Replies(i, Job)

CloseTab(i) ==
  /\ inTurn[i].op = "close"
  /\ IF inTurn[i].sid \in Reach(desk)
     THEN ListsTabs(i, [result |-> RemoveMember(desk, Site, inTurn[i].sid), ended |-> {inTurn[i].sid}])
     ELSE Replies(i, Job)

(* The session becomes a tab of the site, which is created if it had not been there    *)
(* when the session was asked for.                                              *)
Placed(i) ==
  LET s == inTurn[i].sid
  IN  IF inTurn[i].had THEN AddMember(desk, Site, s, inTurn[i].name)
      ELSE Create(desk, Site, <<Site>>, <<s>>, << [session |-> s, name |-> inTurn[i].name] >>, Unsorted)

(* It ends if its name, or the site's, has been taken meanwhile, but not if the site    *)
(* has gone: addMember then returns null and does not throw.                        *)
EndsUnplaced(i) ==
  IF Placed(i).ok \/ (inTurn[i].had /\ Site \notin DOMAIN desk.ws) THEN {} ELSE {inTurn[i].sid}

(* createTab once the session runs.                                             *)
TabStarts(i) ==
  /\ inTurn[i].op = "starting"
  /\ Changes(Placed(i)) /\ inTurn' = RemoveAt(inTurn, i)
  /\ shell' = [shell EXCEPT ![inTurn[i].sid] = IF EndsUnplaced(i) = {} THEN "running" ELSE "ended"]
  /\ mine' = mine \ EndsUnplaced(i)
  /\ UNCHANGED <<grant, panelSock, ownerActs>>

(* The session does not come up.                                               *)
StartFails(i) == inTurn[i].op = "starting" /\ Replies(i, [Job EXCEPT !.ended = {inTurn[i].sid}])

Serves ==
  \E i \in DOMAIN inTurn :
    Turn(i) /\ (List(i) \/ CreateTab(i) \/ RenameTab(i) \/ CloseTab(i) \/ TabStarts(i) \/ StartFails(i))

-----------------------------------------------------------------------------
(* Grants.  One that has ended closes its socket.                                *)
GrantOver(p) ==
  /\ grant' = [grant EXCEPT ![p] = "none"]
  /\ panelSock' = [panelSock EXCEPT ![p] = IF @ = "open" THEN "closing" ELSE @]
  /\ UNCHANGED <<desk, shell, inTurn, watches, mine, ownerActs>>

Mints(p) ==
  /\ grant[p] = "none" /\ panelSock[p] = "closed" /\ grant' = [grant EXCEPT ![p] = "live"]
  /\ UNCHANGED <<desk, shell, inTurn, panelSock, watches, mine, ownerActs>>

(* It expires, or the app revokes it; the sweep, or a frame or a request that uses it,    *)
(* finds that its app is gone or has another key.                                  *)
GrantEnds(p) == grant[p] # "none" /\ GrantOver(p)

(* The owner removes the app or gives it a new key.                               *)
Rekeyed ==
  /\ \E p \in Panels : grant[p] = "live"
  /\ grant' = [p \in Panels |-> IF grant[p] = "live" THEN "stale" ELSE grant[p]]
  /\ UNCHANGED <<desk, shell, inTurn, panelSock, watches, mine, ownerActs>>

Asking(op, writes, sid, name) ==
  inTurn' = Append(inTurn, [op |-> op, writes |-> writes, sid |-> sid, name |-> name, had |-> FALSE])

Requests(p) ==
  /\ grant[p] = "live" /\ Len(inTurn) < MaxAsked
  /\ \/ \E writes \in BOOLEAN : Asking("list", writes, 0, NoName)
     \/ \E name \in {NoName, DefaultName} : Asking("create", TRUE, 0, name)
     \/ \E s \in Shells : Asking("rename", TRUE, s, DefaultName) \/ Asking("close", TRUE, s, NoName)
  /\ UNCHANGED <<desk, shell, grant, panelSock, watches, mine, ownerActs>>

(* The panel's socket: opened with the grant, attached to tabs of the site.            *)
OpensSocket(p) ==
  /\ grant[p] = "live" /\ panelSock[p] = "closed"
  /\ panelSock' = [panelSock EXCEPT ![p] = "open"]
  /\ UNCHANGED <<desk, shell, inTurn, grant, watches, mine, ownerActs>>

AttachesTab(p) ==
  /\ panelSock[p] = "open" /\ grant[p] = "live"
  /\ \E s \in Reach(desk) : shell[s] = "running" /\ watches' = [watches EXCEPT ![p] = @ \cup {s}]
  /\ UNCHANGED <<desk, shell, inTurn, grant, panelSock, mine, ownerActs>>

DetachesTab(p) ==
  /\ panelSock[p] = "open" /\ grant[p] = "live"
  /\ \E s \in watches[p] : watches' = [watches EXCEPT ![p] = @ \ {s}]
  /\ UNCHANGED <<desk, shell, inTurn, grant, panelSock, mine, ownerActs>>

SocketCloses(p) ==
  /\ panelSock[p] # "closed"
  /\ panelSock' = [panelSock EXCEPT ![p] = "closed"] /\ watches' = [watches EXCEPT ![p] = {}]
  /\ UNCHANGED <<desk, shell, inTurn, grant, mine, ownerActs>>

-----------------------------------------------------------------------------
(* The owner, meanwhile: members come, go, move and end, the site is deleted.          *)
OwnerDoes(result, taken) ==
  /\ ownerActs < MaxOwnerActs /\ ownerActs' = ownerActs + 1
  /\ Changes(result) /\ mine' = mine \ taken
  /\ UNCHANGED <<inTurn, grant, panelSock>>

Moves(s) ==
  /\ \E from \in {Site, Own}, to \in {Site, Own, Detached} :
       from # to /\ OwnerDoes(MoveMember(desk, from, s, to), {s})
  /\ UNCHANGED shell

Adds(s) ==
  /\ shell[s] = "running" /\ HomesOf(desk, s) = {}
  /\ OwnerDoes(AddMember(desk, Site, s, DefaultName), {s})
  /\ UNCHANGED shell

Kills(s) ==
  /\ shell[s] = "running" /\ shell' = [shell EXCEPT ![s] = "ended"]
  /\ OwnerDoes(RemoveEverywhere(desk, s), {s})

(* Deleting the site takes its tabs, and the one that is starting for it.             *)
DeletesSite ==
  /\ OwnerDoes(Delete(desk, Site),
               Reach(desk) \cup {inTurn[i].sid : i \in {j \in DOMAIN inTurn : inTurn[j].op = "starting" /\ inTurn[j].had}})
  /\ UNCHANGED shell

ShellEnds(s) ==
  /\ shell[s] = "running" /\ shell' = [shell EXCEPT ![s] = "ended"]
  /\ UNCHANGED <<desk, inTurn, grant, panelSock, watches, mine, ownerActs>>

PanelsNext ==
  \/ Serves
  \/ \E p \in Panels :
       Mints(p) \/ GrantEnds(p) \/ Requests(p) \/ OpensSocket(p) \/ AttachesTab(p) \/ DetachesTab(p) \/ SocketCloses(p)
  \/ Rekeyed
  \/ \E s \in Shells : Moves(s) \/ Adds(s) \/ Kills(s) \/ ShellEnds(s)
  \/ DeletesSite

PanelsSpec == PanelsInit /\ [][PanelsNext]_panelVars

-----------------------------------------------------------------------------
(* "Two browsers must not each create the first tab" (embed/http.ts:132): what panels    *)
(* start never runs beyond the limit of the profile, tab or not, though requests meet,   *)
(* shells take their time to start, and the owner takes names and the site itself        *)
(* meanwhile.  Only what the owner has taken over, with the site's deletion too, does     *)
(* not count.                                                                *)
TabsWithinLimit == Cardinality({s \in mine : shell[s] = "running"}) <= MaxTabs

(* "A tab closed or moved out: grant connections stop reaching it now, not at their       *)
(* next frame" (server.ts:2006), however it came to leave the site.                     *)
ReachIsCurrent == \A p \in Panels : watches[p] \subseteq Reach(desk)
=============================================================================
