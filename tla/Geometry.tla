------------------------------- MODULE Geometry -------------------------------
(***************************************************************************)
(* The size of one session's terminal (packages/server/src/session.ts,          *)
(* server.ts).  Viewers that may write set it while they are attached; one can   *)
(* borrow it (the phone's "fit") and gives it back when it leaves; the owner sets  *)
(* it from outside (ttym resize).  A while after the last writer left, the size   *)
(* is again the one the session has unwatched.                              *)
(*                                                                         *)
(* A size stands for columns and rows; None for no size.                       *)
(***************************************************************************)
EXTENDS Integers

CONSTANTS Viewers,     \* connections
          TermSizes        \* sizes asked for

ASSUME GeometryAssumption == TermSizes \subseteq Nat \ {0}

VARIABLES
  size,        \* _cols and _rows, of the PTY and of the headless terminal
  unwatched,   \* the size to return to
  unwatchedTimer,      \* the 3 s after the last writer left are running
  borrow,      \* <<viewer, previous size>>, <<>> without a loan
  viewers,     \* mode of each viewer that is attached
  listens,     \* geometryUnsubs: connections that are sent every size, attached or not
  knows,       \* the size each connection was told last
  rest         \* ghost: the size the session was created with, or its owner gave it last

geometryVars == <<size, unwatched, unwatchedTimer, borrow, viewers, listens, knows, rest>>

None == 0
Modes == {"readwrite", "readonly"}

HasWriter(those) == \E v \in DOMAIN those : those[v] = "readwrite"

(* What resize() and the steps around it change.                             *)
Now == [size |-> size, unwatched |-> unwatched, timer |-> unwatchedTimer, borrow |-> borrow, viewers |-> viewers]

(* viewerResize: the size before the first one is kept.                        *)
ViewerResize(g, s) ==
  [g EXCEPT !.size = s, !.timer = FALSE, !.unwatched = IF @ = None THEN g.size ELSE @]

(* borrowResize: a second loan is the first one in other hands.                *)
BorrowResize(g, v, s) ==
  ViewerResize([g EXCEPT !.borrow = IF @ = <<>> THEN <<v, g.size>> ELSE <<v, @[2]>>], s)

ReleaseBorrow(g, v) ==
  IF g.borrow = <<>> \/ g.borrow[1] # v THEN g ELSE [g EXCEPT !.borrow = <<>>, !.size = g.borrow[2]]

(* Mutant: the viewer leaves without giving back what it borrowed.              *)
RemoveKeepsLoan(g, v) ==
  LET left == [w \in DOMAIN g.viewers \ {v} |-> g.viewers[w]]
  IN  [g EXCEPT !.viewers = left,
                !.timer = @ \/ (g.unwatched # None /\ ~HasWriter(left) /\ g.borrow = <<>>)]

(* removeViewer: the loan is given back, and with the last writer the timer starts. *)
RemoveViewer(g, v) ==
  LET left == [w \in DOMAIN g.viewers \ {v} |-> g.viewers[w]]
  IN  [ReleaseBorrow(g, v) EXCEPT !.viewers = left,
                                  !.timer = @ \/ (g.unwatched # None /\ ~HasWriter(left))]

AddViewer(g, v, mode) == [g EXCEPT !.viewers = [w \in DOMAIN @ \cup {v} |-> IF w = v THEN mode ELSE @[w]]]

Becomes(g) ==
  /\ size' = g.size /\ unwatched' = g.unwatched /\ unwatchedTimer' = g.timer /\ borrow' = g.borrow /\ viewers' = g.viewers

(* Every change of size is sent to who listens.                               *)
Tells(sizes) == knows' = [v \in Viewers |-> IF v \in listens THEN sizes ELSE knows[v]]

-----------------------------------------------------------------------------
(* A session is created with a size: by a connection, which is attached at once, or by *)
(* a request of nobody who stays.                                             *)
GeometryInit ==
  /\ size \in TermSizes /\ rest = size /\ unwatched = None /\ unwatchedTimer = FALSE /\ borrow = <<>>
  /\ listens \in {{}} \cup {{v} : v \in Viewers}
  /\ viewers = [v \in listens |-> "readwrite"]
  /\ knows = [v \in Viewers |-> IF v \in listens THEN size ELSE None]

(* wireSession listens once for a connection, whatever its mode.                  *)
Listens(v, mode) == listens \cup {v}

(* ATTACH: the size it brings, if it may write; the answer with the size; and       *)
(* wireSession, which first removes the viewer if it is attached already.         *)
AttachSized(v, mode, s, borrows) ==
  LET sized == CASE mode = "readonly" \/ s = None -> Now
                 [] mode = "readwrite" /\ s # None /\ borrows -> BorrowResize(Now, v, s)
                 [] mode = "readwrite" /\ s # None /\ ~borrows -> ViewerResize(Now, s)
      freed == IF v \in DOMAIN viewers THEN RemoveViewer(sized, v) ELSE sized
  IN  /\ Becomes(AddViewer(freed, v, mode))
      /\ listens' = Listens(v, mode)
      /\ knows' = [w \in Viewers |-> IF w \in listens \cup {v} THEN freed.size ELSE knows[w]]
      /\ UNCHANGED rest

(* RESIZE, of a viewer that may write: plain, as a loan, or giving one back.       *)
Resizes(v, g) ==
  /\ v \in DOMAIN viewers /\ viewers[v] = "readwrite"
  /\ Becomes(g) /\ Tells(g.size) /\ UNCHANGED <<listens, rest>>

DetachSized(v) ==
  /\ v \in DOMAIN viewers
  /\ Becomes(RemoveViewer(Now, v)) /\ Tells(size') /\ UNCHANGED <<listens, rest>>

(* The socket closes: the viewer is removed, then nobody listens there.           *)
HangsUp(v) ==
  /\ v \in listens
  /\ Becomes(IF v \in DOMAIN viewers THEN RemoveViewer(Now, v) ELSE Now)
  /\ listens' = listens \ {v}
  /\ knows' = [w \in Viewers |-> IF w = v THEN None ELSE IF w \in listens THEN size' ELSE knows[w]]
  /\ UNCHANGED rest

(* POST /api/sessions/:id/resize.                                             *)
OwnerResize(s) ==
  /\ Becomes([Now EXCEPT !.size = s, !.unwatched = IF @ = None THEN None ELSE s])
  /\ Tells(s) /\ rest' = s /\ UNCHANGED listens

(* The timer: nothing happens if a writer has come meanwhile.                   *)
Restores ==
  /\ unwatchedTimer
  /\ Becomes(IF HasWriter(viewers) \/ unwatched = None THEN [Now EXCEPT !.timer = FALSE]
             ELSE [Now EXCEPT !.timer = FALSE, !.unwatched = None, !.size = unwatched])
  /\ Tells(size') /\ UNCHANGED <<listens, rest>>

GeometryNext ==
  \/ \E v \in Viewers :
       \/ \E mode \in Modes, s \in TermSizes \cup {None}, borrows \in BOOLEAN : AttachSized(v, mode, s, borrows)
       \/ \E s \in TermSizes : Resizes(v, ViewerResize(Now, s)) \/ Resizes(v, BorrowResize(Now, v, s))
       \/ Resizes(v, ReleaseBorrow(Now, v))
       \/ DetachSized(v) \/ HangsUp(v)
  \/ \E s \in TermSizes : OwnerResize(s)
  \/ Restores

GeometrySpec == GeometryInit /\ [][GeometryNext]_geometryVars

-----------------------------------------------------------------------------
(* Type invariant.                                                          *)
GeometryTypeOK ==
  /\ size \in TermSizes /\ rest \in TermSizes /\ unwatched \in TermSizes \cup {None} /\ unwatchedTimer \in BOOLEAN
  /\ borrow = <<>> \/ borrow \in Viewers \X TermSizes
  /\ DOMAIN viewers \subseteq Viewers /\ \A v \in DOMAIN viewers : viewers[v] \in Modes
  /\ listens \subseteq Viewers /\ DOMAIN viewers \subseteq listens
  /\ knows \in [Viewers -> TermSizes \cup {None}]

(* With no writer left, and the 3 s over, the terminal has the size its owner gave   *)
(* it, whoever resized, borrowed, re-attached and left in whatever order ("the ten  *)
(* panes a narrow screen shrank to 19x54 and left so", session.ts:775): nobody       *)
(* holds a loan.  And at all times a connection that is attached knows the size the    *)
(* program draws for, so that one that follows draws the same (server.ts:2278).       *)
SizeIsRightful ==
  /\ ~HasWriter(viewers) /\ ~unwatchedTimer => size = rest /\ borrow = <<>>
  /\ \A v \in DOMAIN viewers : knows[v] = size
=============================================================================
