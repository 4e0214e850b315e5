------------------------------- MODULE PaneList -------------------------------
(***************************************************************************)
(* The abstract layout: a list of panes without repetition, changed by one     *)
(* operation at a time.                                                      *)
(***************************************************************************)
EXTENDS PaneOrder

CONSTANTS Sessions

VARIABLES panes

ListInit == panes = <<>>

(* An operation that finds nothing to change is no step.                    *)
ListNext ==
  /\ panes' # panes
  /\ \/ \E s \in Sessions : panes' \in {Inserted(panes, s), Without(panes, s)}
     \/ \E t, s \in Sessions, before \in BOOLEAN : panes' = SplitAt(panes, t, s, before)
     \/ \E a, b \in Sessions : panes' = Swapped(panes, a, b)

ListSpec == ListInit /\ [][ListNext]_panes
=============================================================================
