----------------------------- MODULE MCComponents -----------------------------
(***************************************************************************)
(* Components that share nothing, checked beside each other: in a behaviour one  *)
(* of them moves, and the others keep still.                                 *)
(***************************************************************************)
EXTENDS OutputRing, LayoutTree, SavedStore, WorkspaceStore, WorkspacePages, Registry, Interactions, Geometry, AgentHooks

VARIABLE moving        \* the component that moves

MCInit ==
  /\ moving \in {"ring", "tree", "saved", "store", "pages", "registry", "interactions", "geometry", "hooks"}
  /\ RingInit
  /\ TreeInit
  /\ SavedInit
  /\ StoreInit
  /\ PagesInit
  /\ RegistryInit
  /\ InteractionInit
  /\ GeometryInit
  /\ HooksInit
  /\ moving # "saved" => kind = "workspaces"
  /\ moving # "store" => stored = Empty
  /\ moving # "pages" => \E p \in Pages : page[p] = NewPage("tabs")
  /\ moving # "hooks" => found
  /\ moving # "geometry" => listens = {} /\ size = CHOOSE s \in TermSizes : TRUE

MCNext ==
  \/ moving = "ring" /\ RingNext /\ UNCHANGED <<moving, treeVars, savedVars, storeVars, pageVars, registryVars, interactionVars, geometryVars, hookVars>>
  \/ moving = "tree" /\ TreeNext /\ UNCHANGED <<moving, <<ringVars, dead>>, savedVars, storeVars, pageVars, registryVars, interactionVars, geometryVars, hookVars>>
  \/ moving = "saved" /\ SavedNext /\ UNCHANGED <<moving, <<ringVars, dead>>, treeVars, storeVars, pageVars, registryVars, interactionVars, geometryVars, hookVars>>
  \/ moving = "store" /\ StoreNext /\ UNCHANGED <<moving, <<ringVars, dead>>, treeVars, savedVars, pageVars, registryVars, interactionVars, geometryVars, hookVars>>
  \/ moving = "pages" /\ PagesNext /\ UNCHANGED <<moving, <<ringVars, dead>>, treeVars, savedVars, storeVars, registryVars, interactionVars, geometryVars, hookVars>>
  \/ moving = "registry" /\ RegistryNext /\ UNCHANGED <<moving, <<ringVars, dead>>, treeVars, savedVars, storeVars, pageVars, interactionVars, geometryVars, hookVars>>
  \/ moving = "interactions" /\ InteractionNext /\ UNCHANGED <<moving, <<ringVars, dead>>, treeVars, savedVars, storeVars, pageVars, registryVars, geometryVars, hookVars>>
  \/ moving = "geometry" /\ GeometryNext /\ UNCHANGED <<moving, <<ringVars, dead>>, treeVars, savedVars, storeVars, pageVars, registryVars, interactionVars, hookVars>>
  \/ moving = "hooks" /\ HooksNext /\ UNCHANGED <<moving, <<ringVars, dead>>, treeVars, savedVars, storeVars, pageVars, registryVars, interactionVars, geometryVars>>

MCSpec == MCInit /\ [][MCNext]_<<moving, <<ringVars, dead>>, treeVars, savedVars, storeVars, pageVars, registryVars, interactionVars, geometryVars, hookVars>>
=============================================================================
