------------------------------ MODULE SavedStore ------------------------------
(***************************************************************************)
(* How the server's JSON stores reach their files: WorkspaceStore            *)
(* (workspaces.json) and ViewerStore (viewer.json) share one scheme of a dirty  *)
(* flag, a save deferred to a microtask, a loop that writes a temporary file    *)
(* and renames it, and a flush() for shutdown.  The saver never looks into what *)
(* it saves, so the content is the number of changes made to it.             *)
(*                                                                         *)
(* A change that finds the store dirty schedules nothing: it counts on the      *)
(* save under way to take it along, which is true only until that save has      *)
(* copied the content (CleanMeansSaved says exactly what can be lost).          *)
(***************************************************************************)
EXTENDS Integers

CONSTANTS MaxChanges

ASSUME SavedAssumption == MaxChanges \in Nat \ {0}

VARIABLES kind,        \* which store: "workspaces" or "viewer"
          content,     \* in memory: how many changes have been made
          file,        \* the change the file on disk holds
          dirty,       \* changed since the last save ended
          scheduled,   \* the microtask of scheduleSave has not run yet
          writing,     \* what the running save writes, Nothing when none runs
          saveQueued,  \* another save was asked for while one ran
          flushing,    \* flush(): "no", "waiting", "last" (its own save) or "done"
          overtaken,   \* a change came after the last save had copied the content
          failed       \* the last save could not be written

savedVars == <<kind, content, file, dirty, scheduled, writing, saveQueued, flushing, overtaken, failed>>

Nothing == -1

SavedInit ==
  /\ kind \in {"workspaces", "viewer"}
  /\ content = 0 /\ file = 0 /\ dirty = FALSE /\ scheduled = FALSE
  /\ writing = Nothing /\ saveQueued = FALSE /\ flushing = "no" /\ overtaken = FALSE /\ failed = FALSE

(* Mutant: the next round of the loop writes what the first one had copied.           *)
WritesOldCopy ==
  /\ writing' = IF writing = Nothing THEN content ELSE writing
  /\ saveQueued' = FALSE /\ overtaken' = FALSE /\ failed' = FALSE

(* A round of the save loop: the content is copied, and the copy written.    *)
StartsWriting ==
  writing' = content /\ saveQueued' = FALSE /\ overtaken' = FALSE /\ failed' = FALSE

(* An operation of the store changes it and calls scheduleSave.  Requests   *)
(* are still answered while flush() runs.                                    *)
Change ==
  /\ flushing # "done" /\ content < MaxChanges
  /\ content' = content + 1
  /\ dirty' = TRUE /\ scheduled' = (scheduled \/ ~dirty)
  /\ overtaken' = (overtaken \/ writing # Nothing)
  /\ UNCHANGED <<kind, file, writing, saveQueued, flushing, failed>>

(* load() found an old file, or names to repair, and saves at once; adopting *)
(* a stream may have scheduled a save of its own.                            *)
Promote ==
  /\ kind = "workspaces" /\ content = 0 /\ ~dirty /\ writing = Nothing /\ flushing = "no"
  /\ content' = 1 /\ dirty' = TRUE /\ scheduled' \in BOOLEAN
  /\ writing' = 1 /\ saveQueued' = FALSE /\ overtaken' = FALSE /\ failed' = FALSE
  /\ UNCHANGED <<kind, file, flushing>>

(* The microtask: save() starts a save, or leaves word with the running one. *)
Microtask ==
  /\ scheduled /\ scheduled' = FALSE
  /\ \/ ~dirty /\ UNCHANGED <<writing, saveQueued, overtaken, failed>>
     \/ dirty /\ writing = Nothing /\ StartsWriting
     \/ dirty /\ writing # Nothing /\ saveQueued' = TRUE /\ UNCHANGED <<writing, overtaken, failed>>
  /\ UNCHANGED <<kind, content, file, dirty, flushing>>

(* The rename: the store is clean, whatever came while the write ran; the loop *)
(* goes round only for a save that was asked for meanwhile.  Microtasks run    *)
(* before the answer of a file operation.                                    *)
Written ==
  /\ writing # Nothing /\ ~scheduled
  /\ file' = writing /\ dirty' = FALSE
  /\ \/ saveQueued /\ StartsWriting
     \/ ~saveQueued /\ writing' = Nothing /\ UNCHANGED <<saveQueued, overtaken, failed>>
  /\ UNCHANGED <<kind, content, scheduled, flushing>>

(* The disk refuses: save() rejects, its caller drops the error, and the store *)
(* stays dirty with nothing scheduled.                                       *)
WriteFails ==
  /\ writing # Nothing /\ ~scheduled
  /\ writing' = Nothing /\ failed' = TRUE
  /\ UNCHANGED <<kind, content, file, dirty, scheduled, saveQueued, flushing, overtaken>>

FlushAsked ==
  /\ flushing = "no" /\ flushing' = "waiting"
  /\ UNCHANGED <<kind, content, file, dirty, scheduled, writing, saveQueued, overtaken, failed>>

(* flush() has waited for the scheduled save and the running one.  That of the *)
(* workspaces then saves once more when the store is dirty.                  *)
FlushWaited ==
  /\ flushing = "waiting" /\ ~scheduled /\ writing = Nothing
  /\ \/ kind = "workspaces" /\ dirty /\ flushing' = "last" /\ StartsWriting
     \/ ~(kind = "workspaces" /\ dirty) /\ flushing' = "done"
        /\ UNCHANGED <<writing, saveQueued, overtaken, failed>>
  /\ UNCHANGED <<kind, content, file, dirty, scheduled>>

FlushEnds ==
  /\ flushing = "last" /\ writing = Nothing /\ flushing' = "done"
  /\ UNCHANGED <<kind, content, file, dirty, scheduled, writing, saveQueued, overtaken, failed>>

(* The server dies, or ends after its flush, and boots from the file.        *)
Reboot ==
  /\ content' = file /\ dirty' = FALSE /\ scheduled' = FALSE
  /\ writing' = Nothing /\ saveQueued' = FALSE /\ flushing' = "no"
  /\ overtaken' = FALSE /\ failed' = FALSE
  /\ UNCHANGED <<kind, file>>

SavedNext ==
  \/ Change \/ Promote \/ Microtask \/ Written \/ WriteFails
  \/ FlushAsked \/ FlushWaited \/ FlushEnds \/ Reboot

SavedSpec == SavedInit /\ [][SavedNext]_savedVars

-----------------------------------------------------------------------------
(* Type invariant.                                                          *)
SavedTypeOK ==
  /\ kind \in {"workspaces", "viewer"}
  /\ content \in 0 .. MaxChanges /\ file \in 0 .. MaxChanges
  /\ writing \in {Nothing} \cup 0 .. MaxChanges
  /\ flushing \in {"no", "waiting", "last", "done"}
  /\ dirty \in BOOLEAN /\ scheduled \in BOOLEAN /\ saveQueued \in BOOLEAN
  /\ overtaken \in BOOLEAN /\ failed \in BOOLEAN

(* A change is never left without a save: a dirty store has one scheduled or   *)
(* running, or the last one failed on the disk (after which no change           *)
(* schedules another, and only a flush() writes again).                        *)
DirtyIsUnderWay == dirty => scheduled \/ writing # Nothing \/ failed

(* What a clean store can have lost: nothing but changes made while its last    *)
(* save was being written, or those of a second round that failed.            *)
CleanMeansSaved ==
  (~dirty /\ writing = Nothing /\ file # content) => overtaken \/ failed

(* A save never brings back an older state of the store: saves are never       *)
(* written out of order, though three callers ask for them.                   *)
FileNeverGoesBack == [][file' >= file]_savedVars

(* The comment on inFlight (workspace-store.ts:194, "waiting for this at        *)
(* shutdown leaves nothing lost") and the test "flush leaves even the changes    *)
(* that came just before the end in the file": after flush() the file holds      *)
(* every change.  The code does not keep this: a change made while a save is       *)
(* being written is neither in it nor left dirty by it.                      *)
FlushedIsSaved == flushing = "done" /\ ~failed => file = content
=============================================================================
