------------------------------ MODULE PaneOrder ------------------------------
(***************************************************************************)
(* What the layout operations (packages/shared/src/layout-tree.ts) do to the  *)
(* order of the panes.  A layout is a tree of splits; the order of its leaves  *)
(* is what decides which sessions are shown, in which order their members are  *)
(* listed and who gets the main pane of a preset.  LayoutTree has the trees,   *)
(* and shows that their leaves follow these operators.                        *)
(***************************************************************************)
EXTENDS Naturals, Sequences, SequencesExt

(* Where session s is in the order; s is in it.                            *)
PlaceOf(panes, s) == CHOOSE i \in 1 .. Len(panes) : panes[i] = s

(* The elements of s that are in K, in their order.                         *)
Kept(s, K) ==
  LET upTo[i \in 0 .. Len(s)] ==
        IF i = 0 THEN <<>> ELSE IF s[i] \in K THEN Append(upTo[i - 1], s[i]) ELSE upTo[i - 1]
  IN  upTo[Len(s)]

Without(panes, s) == Kept(panes, ToSet(panes) \ {s})

(* insertPane: at the end, once.                                           *)
Inserted(panes, s) == IF Contains(panes, s) THEN panes ELSE Append(panes, s)

(* splitPane: beside the target; at the end when the target is not shown.  *)
SplitAt(panes, target, s, before) ==
  IF Contains(panes, s) \/ ~Contains(panes, target) THEN Inserted(panes, s)
  ELSE InsertAt(panes, PlaceOf(panes, target) + (IF before THEN 0 ELSE 1), s)

(* swapPanes: nothing moves unless both are shown.                         *)
Swapped(panes, a, b) ==
  IF ~Contains(panes, a) \/ ~Contains(panes, b) THEN panes
  ELSE [i \in 1 .. Len(panes) |->
          CASE panes[i] = a -> b [] panes[i] = b -> a [] OTHER -> panes[i]]
=============================================================================
