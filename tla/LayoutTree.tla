----------------------------- MODULE LayoutTree -----------------------------
(***************************************************************************)
(* Layout trees (packages/shared/src/layout-tree.ts, layout-presets.ts) as the *)
(* server stores them and the page draws them (packages/ui/src/LayoutView.tsx). *)
(*                                                                         *)
(* A split's sizes are shares; only their ratios to each other count, so a     *)
(* share is a whole number and a split's sizes are whatever numbers stand in   *)
(* the right ratio, reduced.                                                  *)
(***************************************************************************)
EXTENDS PaneOrder, FiniteSetsExt, Functions

CONSTANTS
  TreeSessions,     \* numbers of sessions; 0 is the placeholder of an empty layout
  MaxTreeEdits      \* bound of the model: operations on one layout

ASSUME TreeAssumption == TreeSessions \subseteq Nat \ {0} /\ MaxTreeEdits \in Nat

VARIABLES
  tree,         \* the layout
  treeEdits         \* operations so far, bounded by MaxTreeEdits

treeVars == <<tree, treeEdits>>

Pane(s) == [type |-> "pane", sessionId |-> s]
EmptyPane == Pane(0)
IsPane(node) == node.type = "pane"

(* normalize: the same ratios; all zero means even.                        *)
RECURSIVE Gcd(_, _)
Gcd(a, b) == IF b = 0 THEN a ELSE Gcd(b, a % b)
Normalized(sizes) ==
  IF SumFunction(sizes) = 0 THEN [i \in DOMAIN sizes |-> 1]
  ELSE LET d == FoldLeft(Gcd, 0, sizes) IN [i \in DOMAIN sizes |-> sizes[i] \div d]

(* alignSizes: as many sizes as children.  A missing one is an even share of   *)
(* a whole that the given ones are taken to fill.                             *)
AlignedSizes(sizes, count) ==
  LET given == SubSeq(sizes, 1, IF Len(sizes) < count THEN Len(sizes) ELSE count)
      whole == IF SumFunction(given) = 0 THEN 1 ELSE SumFunction(given)
  IN Normalized([i \in 1 .. count |->
                   IF i <= Len(given) THEN given[i] * count ELSE whole])

Split(axis, children, sizes) ==
  [type |-> "split", axis |-> axis, children |-> children,
   sizes |-> AlignedSizes(sizes, Len(children))]

(* layoutSessionIds: the sessions from left to right, no placeholder.      *)
RECURSIVE LayoutSessionIds(_)
LayoutSessionIds(node) ==
  IF IsPane(node) THEN SelectSeq(<<node.sessionId>>, LAMBDA s : s > 0)
  ELSE FlattenSeq([i \in DOMAIN node.children |-> LayoutSessionIds(node.children[i])])

Has(node, s) == Contains(LayoutSessionIds(node), s)

(* The sizes of n children and a newcomer that gets an even share of the whole, *)
(* at place `at`: the others keep their ratios.                               *)
Squeezed(sizes, at) ==
  InsertAt([i \in DOMAIN sizes |-> sizes[i] * Len(sizes)], at, SumFunction(sizes))

InsertPane(root, s, axis) ==
  IF Has(root, s) THEN root
  ELSE CASE root = EmptyPane -> Pane(s)
         [] IsPane(root) /\ root # EmptyPane -> Split(axis, <<root, Pane(s)>>, <<1, 1>>)
         [] ~IsPane(root) -> [root EXCEPT !.children = Append(@, Pane(s)),
                                          !.sizes = Normalized(Squeezed(@, Len(@) + 1))]

-----------------------------------------------------------------------------
(* splitPane: along the axis of the split it is in, a pane joins the row; across *)
(* it, the target's slot becomes a split of its own.                          *)

PairOf(node, s, axis, before) ==
  Split(axis, IF before THEN <<Pane(s), node>> ELSE <<node, Pane(s)>>, <<1, 1>>)

RECURSIVE SplitIn(_, _, _, _, _)
SplitIn(node, target, s, axis, before) ==
  LET IsTarget(child) == IsPane(child) /\ child.sessionId = target
      at == SelectInSeq(node.children, IsTarget) + (IF before THEN 0 ELSE 1)
  IN CASE ~Has(node, target) -> node
       [] IsPane(node) /\ Has(node, target) -> PairOf(node, s, axis, before)
       [] ~IsPane(node) /\ Has(node, target)
            /\ node.axis = axis /\ SelectInSeq(node.children, IsTarget) # 0 ->
            [node EXCEPT !.children = InsertAt(@, at, Pane(s)),
                         !.sizes = Normalized(Squeezed(@, at))]
       [] OTHER ->
            [node EXCEPT !.children =
               [i \in DOMAIN @ |-> SplitIn(@[i], target, s, axis, before)]]

(* Mutant: a session that is shown is split in again.                       *)
SplitPaneTwice(root, target, s, axis, before) ==
  IF ~Has(root, target) THEN InsertPane(root, s, axis)
  ELSE SplitIn(root, target, s, axis, before)

SplitPane(root, target, s, axis, before) ==
  IF Has(root, s) THEN root
  ELSE IF ~Has(root, target) THEN InsertPane(root, s, axis)
       ELSE SplitIn(root, target, s, axis, before)

(* removePane: an empty split goes, a split of one child is that child.  A     *)
(* subtree that becomes empty is <<>>, any other a sequence of itself.        *)
RECURSIVE RemoveIn(_, _)
RemoveIn(node, s) ==
  IF ~Has(node, s) THEN <<node>>
  ELSE IF IsPane(node) THEN <<>>
  ELSE LET left == [i \in DOMAIN node.children |-> RemoveIn(node.children[i], s)]
           KeptAt(i) == left[i] # <<>>
           places == SelectSeq([i \in DOMAIN left |-> i], KeptAt)
           kept == FlattenSeq(left)
       IN CASE kept = <<>> -> <<>>
            [] Len(kept) = 1 -> kept
            [] OTHER -> <<[node EXCEPT !.children = kept,
                             !.sizes = Normalized([i \in DOMAIN places |-> @[places[i]]])]>>

RemovePane(root, s) ==
  LET left == RemoveIn(root, s) IN IF left = <<>> THEN EmptyPane ELSE left[1]

(* resizeSplit: the sizes of the split at `path`; any other path changes nothing. *)
RECURSIVE ResizeSplit(_, _, _)
ResizeSplit(node, path, sizes) ==
  CASE IsPane(node) -> node
    [] ~IsPane(node) /\ path = <<>> ->
         [node EXCEPT !.sizes = AlignedSizes(sizes, Len(node.children))]
    [] ~IsPane(node) /\ path # <<>> ->
         IF Head(path) \notin DOMAIN node.children THEN node
         ELSE [node EXCEPT !.children[Head(path)] = ResizeSplit(@, Tail(path), sizes)]

RECURSIVE Renamed(_, _, _)
Renamed(node, a, b) ==
  IF IsPane(node)
  THEN CASE node.sessionId = a -> Pane(b) [] node.sessionId = b -> Pane(a) [] OTHER -> node
  ELSE [node EXCEPT !.children = [i \in DOMAIN @ |-> Renamed(@[i], a, b)]]
SwapPanes(root, a, b) ==
  IF a = b \/ ~Has(root, a) \/ ~Has(root, b) THEN root ELSE Renamed(root, a, b)

-----------------------------------------------------------------------------
(* Presets: the same sessions on a fresh tree.                             *)

EvenSplit(axis, ids) ==
  IF Len(ids) = 1 THEN Pane(ids[1])
  ELSE Split(axis, [i \in DOMAIN ids |-> Pane(ids[i])], [i \in DOMAIN ids |-> 1])

MainVertical(ids) ==
  Split("row", <<Pane(ids[1]), EvenSplit("col", Tail(ids))>>, <<3, 2>>)

(* ceil(sqrt(n)) columns, row by row.                                      *)
Tiled(ids) ==
  LET columns == CHOOSE c \in 1 .. Len(ids) :
                   c * c >= Len(ids) /\ (c - 1) * (c - 1) < Len(ids)
      count == (Len(ids) + columns - 1) \div columns
      Row(r) == SubSeq(ids, (r - 1) * columns + 1,
                       IF r * columns < Len(ids) THEN r * columns ELSE Len(ids))
  IN IF count = 1 THEN EvenSplit("row", ids)
     ELSE Split("col", [r \in 1 .. count |-> EvenSplit("row", Row(r))],
                [r \in 1 .. count |-> 1])

Presets == {"even-h", "even-v", "main-v", "tiled", "auto"}

(* autoLayout picks by the number of panes.                                *)
Arrangement(preset, ids) ==
  IF preset # "auto" THEN preset
  ELSE IF Len(ids) <= 2 THEN "even-h" ELSE IF Len(ids) <= 5 THEN "main-v" ELSE "tiled"

PresetLayout(preset, ids) ==
  LET chosen == Arrangement(preset, ids)
  IN CASE ids = <<>> -> EmptyPane
       [] Len(ids) = 1 -> Pane(ids[1])
       [] Len(ids) > 1 /\ chosen = "even-h" -> EvenSplit("row", ids)
       [] Len(ids) > 1 /\ chosen = "even-v" -> EvenSplit("col", ids)
       [] Len(ids) > 1 /\ chosen = "main-v" -> MainVertical(ids)
       [] Len(ids) > 1 /\ chosen = "tiled" -> Tiled(ids)

(* narrowestPanePx with splitters of no width, as a share of the width: the    *)
(* pair <<part, whole>>.                                                     *)
Narrower(p, q) == IF p[1] * q[2] <= q[1] * p[2] THEN p ELSE q
RECURSIVE NarrowestShare(_)
NarrowestShare(node) ==
  IF IsPane(node) THEN <<1, 1>>
  ELSE LET Share(i) == LET inner == NarrowestShare(node.children[i])
                       IN IF node.axis = "col" THEN inner
                          ELSE <<inner[1] * node.sizes[i],
                                 inner[2] * SumFunction(node.sizes)>>
       IN FoldLeft(Narrower, Share(1), [i \in DOMAIN node.children |-> Share(i)])

-----------------------------------------------------------------------------
(* discretizeSizes: shares on a pixel budget.                              *)

(* Math.round(size / whole * total)                                        *)
Rounded(size, whole, total) == (2 * size * total + whole) \div (2 * whole)

(* One round of handing out: each index of `order` in turn, until nothing is  *)
(* left to hand out; a pane at the floor gives nothing.                       *)
Handed(px, order, error, floor) ==
  FoldLeft(LAMBDA acc, i :
             CASE acc.error > 0 -> [px |-> [acc.px EXCEPT ![i] = @ + 1], error |-> acc.error - 1]
               [] acc.error < 0 /\ acc.px[i] > floor ->
                    [px |-> [acc.px EXCEPT ![i] = @ - 1], error |-> acc.error + 1]
               [] OTHER -> acc,
           [px |-> px, error |-> error], order)

RECURSIVE HandedOut(_, _, _, _, _)
HandedOut(px, order, error, floor, guard) ==
  IF error = 0 \/ guard = 0 THEN px
  ELSE LET round == Handed(px, order, error, floor)
       IN HandedOut(round.px, order, round.error, floor, guard - 1)

AbsoluteValue(n) == IF n < 0 THEN -n ELSE n

(* Mutant: the shares are rounded, and what that leaves over is not handed out. *)
DiscretizedHastily(sizes, total, minPx) ==
  LET shares == Normalized(AlignedSizes(sizes, Len(sizes)))
  IN [i \in DOMAIN shares |-> Rounded(shares[i], SumFunction(shares), total)]

Discretized(sizes, total, minPx) ==
  LET count == Len(sizes)
      shares == Normalized(AlignedSizes(sizes, count))
      floor == IF minPx * count <= total THEN minPx ELSE total \div count
      px == [i \in DOMAIN shares |->
               Max({floor, Rounded(shares[i], SumFunction(shares), total)})]
      error == total - SumFunction(px)
      Before(x, y) == \/ px[x] = px[y] /\ x < y
                      \/ error > 0 /\ px[x] < px[y]
                      \/ error <= 0 /\ px[x] > px[y]
      order == SetToSortSeq(DOMAIN px, Before)
  IN HandedOut(px, order, error, floor, count * AbsoluteValue(error) + count)

-----------------------------------------------------------------------------
(* One layout, edited by any of the operations.                            *)

TreeInit == tree = EmptyPane /\ treeEdits = 0

Edit(new) == treeEdits < MaxTreeEdits /\ tree' = new /\ treeEdits' = treeEdits + 1

Insertion == \E s \in TreeSessions, axis \in {"row", "col"} : Edit(InsertPane(tree, s, axis))

Splitting ==
  \E target, s \in TreeSessions, axis \in {"row", "col"}, before \in BOOLEAN :
    Edit(SplitPane(tree, target, s, axis, before))

Removal == \E s \in TreeSessions : Edit(RemovePane(tree, s))

RECURSIVE SplitsOf(_)
SplitsOf(node) ==
  IF IsPane(node) THEN {}
  ELSE {node} \cup UNION {SplitsOf(node.children[i]) : i \in DOMAIN node.children}

(* LayoutView's startDrag: a divider moves share between the two panes beside   *)
(* it, down to nothing when they are too small for the floor.                  *)
Dragged(sizes) ==
  UNION {{[sizes EXCEPT ![i] = part, ![i + 1] = sizes[i] + sizes[i + 1] - part] :
            part \in {0, 1, sizes[i] + sizes[i + 1]}} : i \in 1 .. (Len(sizes) - 1)}

(* The drag is committed with the path it began with, to a tree that may have   *)
(* changed since: the sizes can be those of another split.                     *)
Resizing ==
  \E path \in BoundedSeq(1 .. 2, 1), node \in SplitsOf(tree) :
    \E sizes \in Dragged(node.sizes) : Edit(ResizeSplit(tree, path, sizes))

Swapping == \E a, b \in TreeSessions : Edit(SwapPanes(tree, a, b))

Arranging == \E preset \in Presets : Edit(PresetLayout(preset, LayoutSessionIds(tree)))

TreeNext == Insertion \/ Splitting \/ Removal \/ Resizing \/ Swapping \/ Arranging

TreeSpec == TreeInit /\ [][TreeNext]_treeVars

-----------------------------------------------------------------------------
(* Properties.                                                             *)

RECURSIVE WellFormed(_)
WellFormed(node) ==
  \/ IsPane(node) /\ node.sessionId \in TreeSessions
  \/ /\ node.type = "split" /\ node.axis \in {"row", "col"}
     /\ Len(node.children) >= 2
     /\ DOMAIN node.sizes = DOMAIN node.children
     /\ \A i \in DOMAIN node.sizes : node.sizes[i] \in Nat
     /\ SumFunction(node.sizes) > 0
     /\ \A i \in DOMAIN node.children : WellFormed(node.children[i])

(* A layout is the placeholder or a tree whose splits have two children or    *)
(* more, one size for each, and no session twice.                            *)
TreeTypeOK ==
  /\ tree = EmptyPane \/ WellFormed(tree)
  /\ IsInjective(LayoutSessionIds(tree))
  /\ treeEdits \in 0 .. MaxTreeEdits

(* The leaves of a layout follow the abstract list, whatever the tree's shape: *)
(* every operation is one of a list's, and nothing is lost or doubled.         *)
Order == INSTANCE PaneList WITH panes <- LayoutSessionIds(tree), Sessions <- TreeSessions
LeavesFollow == Order!ListSpec

(* A split drawn on any width fills it exactly, and gives nobody less than the  *)
(* floor, whatever sizes its divider was dragged to.                          *)
WidthIsFilled ==
  \A node \in SplitsOf(tree) : \A total \in 0 .. 9, minPx \in 0 .. 3 :
    LET px == Discretized(node.sizes, total, minPx)
    IN /\ SumFunction(px) = total
       /\ minPx * Len(px) <= total => \A i \in DOMAIN px : px[i] >= minPx
=============================================================================
