------------------------------- MODULE MCViewer -------------------------------
(***************************************************************************)
(* Eight parts of the way between a program and those who use it that share nothing     *)
(* but the frames between them, checked beside each other: the bytes its holder keeps,    *)
(* and the holder's reading of the input; the session's cutting of the output into       *)
(* chunks, the server's view of each viewer's stream, the page's predictions of what it   *)
(* will bring, what panels in other people's pages may watch, the commands whose output  *)
(* is cut out of the stream, and `ttym attach`.  In a behaviour one of them moves.       *)
(***************************************************************************)
EXTENDS ViewerStream, LocalEcho, SyncBlock, EmbedPanels, CommandIndex, AttachClient, HolderRing, HolderInput

VARIABLE end        \* the part that moves

MCInit ==
  /\ end \in {"session", "server", "page", "panels", "commands", "cli", "holder ring", "holder input"}
  /\ Init /\ EchoInit /\ SyncInit /\ PanelsInit /\ CommandInit /\ AttachInit /\ HolderRingInit /\ InputInit
  /\ end # "server" => \A c \in Viewers : view[c] = NewConnection
  /\ end # "page" => echoMode = "classic"
  /\ end # "panels" => desk.ws[Own].name = <<"own">>

MCNext ==
  \/ end = "session" /\ SyncNext /\ UNCHANGED <<end, vars, echoVars, panelVars, commandVars, attachVars, holderRingVars, inputVars>>
  \/ end = "server" /\ Next /\ UNCHANGED <<end, echoVars, syncVars, panelVars, commandVars, attachVars, holderRingVars, inputVars>>
  \/ end = "page" /\ EchoNext /\ UNCHANGED <<end, vars, syncVars, panelVars, commandVars, attachVars, holderRingVars, inputVars>>
  \/ end = "panels" /\ PanelsNext /\ UNCHANGED <<end, vars, echoVars, syncVars, commandVars, attachVars, holderRingVars, inputVars>>
  \/ end = "commands" /\ CommandNext /\ UNCHANGED <<end, vars, echoVars, syncVars, panelVars, attachVars, holderRingVars, inputVars>>
  \/ end = "cli" /\ AttachNext /\ UNCHANGED <<end, vars, echoVars, syncVars, panelVars, commandVars, holderRingVars, inputVars>>
  \/ end = "holder ring" /\ HolderRingNext /\ UNCHANGED <<end, vars, echoVars, syncVars, panelVars, commandVars, attachVars, inputVars>>
  \/ end = "holder input" /\ HolderInputNext /\ UNCHANGED <<end, vars, echoVars, syncVars, panelVars, commandVars, attachVars, holderRingVars>>

MCSpec == MCInit /\ [][MCNext]_<<end, vars, echoVars, syncVars, panelVars, commandVars, attachVars, holderRingVars, inputVars>>
=============================================================================
