---------------------------- MODULE WorkspaceStore ----------------------------
(***************************************************************************)
(* The workspaces the server keeps, as its routes (server.ts) and boot change    *)
(* them.  When the content reaches its file is SavedStore's matter: here the file *)
(* is what the last save left, and a restart loads it.  What a page makes of the  *)
(* change events is WorkspacePages' matter.                                   *)
(***************************************************************************)
EXTENDS WorkspaceOps

CONSTANTS StoreIds,         \* workspace ids
          StoreSessions,    \* session ids
          MaxRequests     \* bound on the number of requests

ASSUME StoreAssumption == StoreSessions \subseteq Nat \ {0} /\ MaxRequests \in Nat

VARIABLES stored, requests

storeVars == <<stored, requests>>

Names == {<<"a">>, Term(2)}
Streams == {"s", "t"}

(* A file of an older version: no list of streams, a name used twice, a member   *)
(* the layout does not show, and a pane that no member stands for.            *)
OldFile ==
  LET w(layout, members) == [name |-> <<"a">>, layout |-> layout, members |-> members, stream |-> "s"]
  IN  [order |-> SetToSeq(StoreIds),
       ws |-> [id \in StoreIds |-> IF id = Head(SetToSeq(StoreIds))
                              THEN w(<<1>>, << [session |-> 2, name |-> Term(1)] >>) ELSE w(<<>>, <<>>)],
       streams |-> <<>>]

(* There is no file yet, or an old one.                                      *)
StoreInit == stored \in {Empty, Loaded(OldFile)} /\ requests = 0

Performs(result) ==
  /\ requests < MaxRequests /\ requests' = requests + 1
  /\ stored' = result.store

Arrangements(set) == {a \in SeqOf(set, Cardinality(set)) : IsInjective(a)}

(* Requests about workspaces: POST, PATCH, DELETE /api/workspaces.           *)
RequestWorkspace ==
  \/ \E id \in StoreIds \ DOMAIN stored.ws, name \in Names, s \in Streams \cup {Unsorted} :
       Performs(Create(stored, id, name, <<>>, <<>>, s))
  \/ \E id \in StoreIds :
       \/ \E name \in Names : Performs(Rename(stored, id, name))
       \/ \E layout \in Arrangements(StoreSessions) : Performs(Relayout(stored, id, layout))
       \/ Performs(Preset(stored, id))
       \/ \E s \in Streams \cup {Unsorted} : Performs(Retag(stored, id, s))
       \/ Performs(Delete(stored, id))
  \/ \E ids \in Arrangements(StoreIds) : Performs(Reorder(stored, ids))

(* Requests about members, those of a split and of the end of a session          *)
(* (DELETE /api/sessions/:id) included.  A split brings a session of its own.    *)
RequestMembers ==
  \/ \E id \in StoreIds, s \in StoreSessions :
       \/ \E name \in Names : Performs(AddMember(stored, id, s, name))
       \/ HomesOf(stored, s) = {} /\ \E t \in StoreSessions, before \in BOOLEAN :
            Performs(SplitMember(stored, id, t, s, Term(s), before))
       \/ \E name \in Names : Performs(RenameMember(stored, id, s, name))
       \/ \E to \in StoreIds \cup {Detached} : Performs(MoveMember(stored, id, s, to))
       \/ Performs(RemoveMember(stored, id, s))

EndSession ==
  \E s \in StoreSessions : HomesOf(stored, s) # {} /\
    Performs(RemoveEverywhere(stored, s))

RequestStreams ==
  \/ \E s \in Streams : Performs(AddStream(stored, s)) \/ Performs(RemoveStream(stored, s))
  \/ \E s, t \in Streams : Performs(RenameStream(stored, s, t))
  \/ \E names \in Arrangements(Streams) : Performs(ReorderStreams(stored, names))

(* The server restarts.                                                    *)
Restart ==
  /\ requests < MaxRequests /\ requests' = requests + 1
  /\ stored' = Loaded(stored)

StoreNext == RequestWorkspace \/ RequestMembers \/ EndSession \/ RequestStreams \/ Restart

StoreSpec == StoreInit /\ [][StoreNext]_storeVars

-----------------------------------------------------------------------------
(* "Bring members in line with the layout without losing anything": a member      *)
(* leaves a workspace only when it is removed, moved or ends, and keeps its name   *)
(* until it is given another, unless a layout brings in a session that was no      *)
(* member, or it is moved to a workspace that already has it.                 *)
MemberKept(id, s) ==
  \/ /\ s \in SessionsOf(stored'.ws[id].members)
     /\ \/ NameIn(stored'.ws[id].members, s) = NameIn(stored.ws[id].members, s)
        \/ \E name \in Names : stored' = RenameMember(stored, id, s, name).store
        \/ \E name \in Names : stored' = AddMember(stored, id, s, name).store
        \/ \E from \in StoreIds : stored' = MoveMember(stored, from, s, id).store
        \/ ~(ToSet(stored'.ws[id].layout) \subseteq SessionsOf(stored.ws[id].members))
  \/ \E to \in StoreIds \cup {Detached} : stored' = MoveMember(stored, id, s, to).store
  \/ \A o \in DOMAIN stored'.ws : s \notin SessionsOf(stored'.ws[o].members)
       /\ stored'.ws[o].layout = Without(stored.ws[o].layout, s)
  \/ stored' = RemoveMember(stored, id, s).store

MembersAreKept ==
  [][\A id \in DOMAIN stored.ws \cap DOMAIN stored'.ws : \A s \in SessionsOf(stored.ws[id].members) :
       MemberKept(id, s)]_storeVars
=============================================================================
