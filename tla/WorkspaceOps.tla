----------------------------- MODULE WorkspaceOps -----------------------------
(***************************************************************************)
(* The operations of WorkspaceStore (packages/server/src/workspace-store.ts)    *)
(* as functions of the store's content: each returns the content after it, the  *)
(* change events it announces, and whether it was accepted.  A workspace's       *)
(* layout is the order of its panes (see PaneOrder and LayoutTree).           *)
(*                                                                         *)
(* A name is a tuple: <<"a">> is "a", <<"a", 2>> is "a-2" and <<"term", 3>> is    *)
(* "term-3".                                                                *)
(***************************************************************************)
EXTENDS PaneOrder, Integers, FiniteSets, FiniteSetsExt

Unsorted == "unsorted"     \* no stream
NoName == <<>>

Term(n) == <<"term", n>>

(* The base name, or the first of base-2, base-3, ... not in use.            *)
Suffixed(base, used) ==
  IF base \notin used THEN base
  ELSE LET free == {n \in 2 .. Cardinality(used) + 1 : Append(base, n) \notin used}
       IN  Append(base, Min(free))

(* nextMemberName: the first term-N from `start` on that is not in use.       *)
FreshName(used, start) == Term(Min({n \in start .. start + Cardinality(used) : Term(n) \notin used}))

NamesOf(members) == {members[i].name : i \in DOMAIN members}
SessionsOf(members) == {members[i].session : i \in DOMAIN members}

(* The name session s has among the members; the last entry counts.          *)
NameIn(members, s) ==
  LET at == {i \in DOMAIN members : members[i].session = s}
  IN  IF at = {} THEN NoName ELSE members[Max(at)].name

(* claimName: a member keeps its name unless an earlier one has taken it.     *)
Claim(named, m) ==
  LET used == NamesOf(named)
  IN  Append(named, [session |-> m.session,
                     name |-> IF m.name # NoName /\ m.name \notin used THEN m.name
                              ELSE FreshName(used, Len(named) + 1)])

(* The members one after the other, each under the name it can claim.         *)
NamesClaimed(members) ==
  LET upTo[i \in 0 .. Len(members)] == IF i = 0 THEN <<>> ELSE Claim(upTo[i - 1], members[i])
  IN  upTo[Len(members)]

(* The members of the sessions S.                                           *)
MembersOf(members, S) == Kept(members, {m \in ToSet(members) : m.session \in S})

(* Mutant: what the layout does not show is dropped, as it used to be.        *)
ReconcileForgetful(w) ==
  LET placed == [i \in DOMAIN w.layout |-> [session |-> w.layout[i], name |-> NameIn(w.members, w.layout[i])]]
  IN  [w EXCEPT !.members = NamesClaimed(placed)]

(* reconcileWorkspace: the members the layout shows, in its order, a session   *)
(* nobody listed getting a name; then those it does not show.                *)
Reconcile(w) ==
  LET placed  == [i \in DOMAIN w.layout |-> [session |-> w.layout[i], name |-> NameIn(w.members, w.layout[i])]]
      orphans == MembersOf(w.members, SessionsOf(w.members) \ ToSet(w.layout))
  IN  [w EXCEPT !.members = NamesClaimed(placed \o orphans)]

-----------------------------------------------------------------------------
(* The content: `order` is the order of the tabs, `ws` the workspaces by id,  *)
(* `streams` the list of stream names.                                      *)
Empty == [order |-> <<>>, ws |-> <<>>, streams |-> <<>>]

NameTaken(st, name, id) == \E o \in DOMAIN st.ws \ {id} : st.ws[o].name = name

(* The workspaces ws with w for the one with this id.                         *)
Put(ws, id, w) == [o \in DOMAIN ws \cup {id} |-> IF o = id THEN w ELSE ws[o]]

Told(st, events) == [store |-> st, events |-> events, ok |-> TRUE]
Refused(st) == [store |-> st, events |-> <<>>, ok |-> FALSE]

Saw(st, id) == [kind |-> "workspace", id |-> id, workspace |-> st.ws[id]]
SawStreams(st) == [kind |-> "streams", streams |-> st.streams]

(* adoptStream: a name that appears on a workspace joins the list.           *)
Adopt(st, s) == IF s = Unsorted THEN st ELSE [st EXCEPT !.streams = Inserted(@, s)]

(* The change of workspace id in st, announced, and its stream adopted.      *)
Announced(st, id) ==
  LET a == Adopt(st, st.ws[id].stream)
  IN  Told(a, <<Saw(st, id)>> \o (IF a = st THEN <<>> ELSE <<SawStreams(a)>>))

Changed(st, id, w) == [st EXCEPT !.ws[id] = Reconcile(w)]

Create(st, id, name, layout, members, stream) ==
  IF NameTaken(st, name, id) THEN Refused(st)
  ELSE Announced(
         [st EXCEPT !.order = Inserted(@, id),
                    !.ws = Put(@, id, Reconcile([name |-> name, layout |-> layout, members |-> members, stream |-> stream]))],
         id)

(* update(): a patch of the name, the layout, the stream, or a preset, which   *)
(* lays the members out anew in their order.                                *)
Rename(st, id, name) ==
  IF id \notin DOMAIN st.ws \/ NameTaken(st, name, id) THEN Refused(st)
  ELSE Announced(Changed(st, id, [st.ws[id] EXCEPT !.name = name]), id)

Relayout(st, id, layout) ==
  IF id \notin DOMAIN st.ws THEN Refused(st)
  ELSE Announced(Changed(st, id, [st.ws[id] EXCEPT !.layout = layout]), id)

Preset(st, id) ==
  IF id \notin DOMAIN st.ws THEN Refused(st)
  ELSE Relayout(st, id, [i \in DOMAIN st.ws[id].members |-> st.ws[id].members[i].session])

Retag(st, id, stream) ==
  IF id \notin DOMAIN st.ws THEN Refused(st)
  ELSE Announced(Changed(st, id, [st.ws[id] EXCEPT !.stream = stream]), id)

NameClash(w, name, s) == \E i \in DOMAIN w.members : w.members[i].name = name /\ w.members[i].session # s

HomesOf(st, s) == {id \in DOMAIN st.ws : s \in SessionsOf(st.ws[id].members)}

(* addMember: refused for a session that has another home, and for a name that *)
(* another member has; a member it already is gets the new name.             *)
AddMember(st, id, s, name) ==
  IF id \notin DOMAIN st.ws \/ HomesOf(st, s) \ {id} # {} \/ NameClash(st.ws[id], name, s) THEN Refused(st)
  ELSE LET w == st.ws[id]
           members == IF s \in SessionsOf(w.members)
                      THEN [i \in DOMAIN w.members |->
                              IF w.members[i].session = s THEN [session |-> s, name |-> name] ELSE w.members[i]]
                      ELSE Append(w.members, [session |-> s, name |-> name])
       IN  Announced(Changed(st, id, [w EXCEPT !.members = members, !.layout = Inserted(@, s)]), id)

(* splitRight: a new session beside the target; only its name is checked.     *)
SplitMember(st, id, target, s, name, before) ==
  IF id \notin DOMAIN st.ws \/ NameClash(st.ws[id], name, s) THEN Refused(st)
  ELSE LET w == st.ws[id]
       IN  Announced(Changed(st, id, [w EXCEPT !.members = Append(@, [session |-> s, name |-> name]),
                                               !.layout = SplitAt(@, target, s, before)]), id)

RemoveMember(st, id, s) ==
  IF id \notin DOMAIN st.ws THEN Refused(st)
  ELSE Announced(Changed(st, id, [st.ws[id] EXCEPT !.members = MembersOf(@, SessionsOf(@) \ {s}),
                                                   !.layout = Without(@, s)]), id)

(* Removals of pairs of a workspace and a session, one after the other.      *)
RemoveEach(st, pairs) ==
  LET upTo[i \in 0 .. Len(pairs)] ==
        IF i = 0 THEN Told(st, <<>>)
        ELSE LET one == RemoveMember(upTo[i - 1].store, pairs[i][1], pairs[i][2])
             IN  Told(one.store, upTo[i - 1].events \o one.events)
  IN  upTo[Len(pairs)]

(* DELETE /api/sessions/:id: out of every workspace that has it.              *)
RemoveEverywhere(st, s) ==
  LET homes == Kept(st.order, HomesOf(st, s))
  IN  RemoveEach(st, [i \in DOMAIN homes |-> <<homes[i], s>>])

RenameMember(st, id, s, name) ==
  IF id \notin DOMAIN st.ws \/ s \notin SessionsOf(st.ws[id].members) \/ NameClash(st.ws[id], name, s)
  THEN Refused(st)
  ELSE LET w == st.ws[id]
       IN  Announced(Changed(st, id, [w EXCEPT !.members = [i \in DOMAIN @ |->
              IF @[i].session = s THEN [session |-> s, name |-> name] ELSE @[i]]]), id)

(* moveMember: out of one workspace, and into another (Detached when there is   *)
(* none) under its name or the first free variant of it.  The removal stands     *)
(* when the second half is refused.                                          *)
Detached == "detached"

MoveMember(st, from, s, to) ==
  IF \/ from \notin DOMAIN st.ws \/ s \notin SessionsOf(st.ws[from].members)
     \/ to \notin DOMAIN st.ws \cup {Detached}
  THEN Refused(st)
  ELSE IF to = from THEN Told(st, <<>>)
  ELSE LET out == RemoveMember(st, from, s)
       IN  IF to = Detached THEN out
           ELSE LET name == Suffixed(NameIn(st.ws[from].members, s), NamesOf(out.store.ws[to].members))
                    into == AddMember(out.store, to, s, name)
                IN  [into EXCEPT !.events = out.events \o @]

Delete(st, id) ==
  IF id \notin DOMAIN st.ws THEN Refused(st)
  ELSE Told([st EXCEPT !.order = Without(@, id), !.ws = [o \in DOMAIN @ \ {id} |-> @[o]]],
            <<[kind |-> "deleted", id |-> id]>>)

(* A list with its repetitions left out.                                     *)
Once(ids) ==
  LET upTo[i \in 0 .. Len(ids)] == IF i = 0 THEN <<>> ELSE Inserted(upTo[i - 1], ids[i])
  IN  upTo[Len(ids)]

(* reorder: the whole order, as many names as there are workspaces and all of     *)
(* them known; those it does not name are gone.                             *)
Reorder(st, ids) ==
  IF Len(ids) # Len(st.order) \/ ~(ToSet(ids) \subseteq ToSet(st.order)) THEN Refused(st)
  ELSE Told([st EXCEPT !.order = Once(ids), !.ws = Restrict(@, ToSet(ids))], <<[kind |-> "order", ids |-> ids]>>)

-----------------------------------------------------------------------------
(* Streams.                                                                 *)
StreamsTold(st, events) == Told(st, Append(events, SawStreams(st)))

AddStream(st, s) ==
  IF Contains(st.streams, s) THEN Refused(st) ELSE StreamsTold(Adopt(st, s), <<>>)

ReorderStreams(st, names) ==
  IF Len(names) # Len(st.streams) \/ ~(ToSet(names) \subseteq ToSet(st.streams)) THEN Refused(st)
  ELSE StreamsTold([st EXCEPT !.streams = names], <<>>)

(* retagWorkspaces: every workspace tagged `from`, each announced.           *)
Tagged(st, s) == Kept(st.order, {id \in DOMAIN st.ws : st.ws[id].stream = s})

RetagAll(st, from, to) ==
  [st EXCEPT !.ws = [id \in DOMAIN @ |-> IF @[id].stream = from THEN [@[id] EXCEPT !.stream = to] ELSE @[id]]]

EachSeen(st, ids) == [i \in DOMAIN ids |-> Saw(st, ids[i])]

(* renameStream: onto an existing name merges the two.                       *)
RenameStream(st, from, to) ==
  IF ~Contains(st.streams, from) THEN Refused(st)
  ELSE IF from = to THEN Told(st, <<>>)
  ELSE LET list == IF Contains(st.streams, to) THEN Without(st.streams, from)
                   ELSE [i \in DOMAIN st.streams |-> IF st.streams[i] = from THEN to ELSE st.streams[i]]
           done == RetagAll([st EXCEPT !.streams = list], from, to)
       IN  StreamsTold(done, EachSeen(done, Tagged(st, from)))

(* What a stream leaves behind: its workspaces have none.                    *)
Unstreamed(st, s) == RetagAll([st EXCEPT !.streams = Without(@, s)], s, Unsorted)

RemoveStream(st, s) ==
  IF ~Contains(st.streams, s) THEN Refused(st)
  ELSE LET done == Unstreamed(st, s)
       IN  StreamsTold(done, EachSeen(done, Tagged(st, s)))

-----------------------------------------------------------------------------
(* load(): the file's workspaces in their order, a repeated workspace name     *)
(* getting a suffix, each reconciled, and the streams they carry adopted.     *)
Loaded(file) ==
  FoldLeft(LAMBDA st, id :
             LET used == {st.ws[o].name : o \in DOMAIN st.ws}
                 w == Reconcile([file.ws[id] EXCEPT !.name = Suffixed(@, used)])
             IN  Adopt([st EXCEPT !.order = Append(@, id), !.ws = Put(@, id, w)], w.stream),
           [Empty EXCEPT !.streams = file.streams], file.order)

(* What a page makes of one change event (App.tsx): a workspace it does not     *)
(* know goes to the end; an order leaves the unknown ones behind.            *)
Heard(list, e) ==
  CASE e.kind = "streams" -> [list EXCEPT !.streams = e.streams]
    [] e.kind = "order" ->
         [list EXCEPT !.order = Kept(e.ids, ToSet(@)) \o Kept(@, ToSet(@) \ ToSet(e.ids))]
    [] e.kind = "deleted" ->
         [list EXCEPT !.order = Without(@, e.id), !.ws = [o \in DOMAIN @ \ {e.id} |-> @[o]]]
    [] e.kind = "workspace" ->
         [list EXCEPT !.order = Inserted(@, e.id), !.ws = Put(@, e.id, e.workspace)]
=============================================================================
