------------------------------- MODULE Registry -------------------------------
(***************************************************************************)
(* SessionManager (packages/server/src/session-manager.ts): the numbers of      *)
(* sessions, their files in the runtime directory, and the boot that finds the   *)
(* holders that outlived the last server and restores what only a snapshot      *)
(* remembers.  run-gc.ts sweeps what is left of ended sessions; workspace        *)
(* members say which sessions deserve a restore.                             *)
(*                                                                         *)
(* A session is known by its birth: a restored one has the birth of the           *)
(* snapshot it came from.  A meta file holds patches of the sessions that wrote   *)
(* to it, so it is the set of their births; {} is no file.                     *)
(*                                                                         *)
(* Left out: a living holder whose handshake fails at boot (HolderLink has it:   *)
(* its manifest goes and its session is restored beside it), and all numbers     *)
(* being in use (RoomLeft).  Two requests to create get different numbers        *)
(* because the counter moves with the choice: only all numbers going round      *)
(* between choice and start could give one twice, so the run has one request.    *)
(***************************************************************************)
EXTENDS Integers, FiniteSets

CONSTANTS
  MaxId,        \* MAX_SESSION_ID
  Creators,     \* requests that create sessions
  MaxBirths,    \* bound: sessions ever created
  MaxBoots      \* bound: boots of this server

ASSUME RegistryAssumption == MaxId \in Nat \ {0} /\ MaxBirths \in Nat /\ MaxBoots \in Nat

VARIABLES
  process,       \* "down", "recovering", "restoring" or "up"
  programs,     \* how many programs run under each number
  born,         \* the birth of the last one started
  owner,        \* who has the lease of the holder: "none", "us" or "other"
  manifest,     \* numbers with a session-N.json
  snap,         \* the birth in snapshot-N.json, 0 without one
  metaFile,     \* meta-N.json
  metas,        \* the cache of it
  index,        \* workspace.json, left by a graceful shutdown: <<>> or <<numbers>>
  sessions,     \* the birth of the session in the manager's map, 0 without one
  closed,       \* numbers whose session in the map is dead
  nextId, nextFile,    \* the next number, in memory and in its file
  members,      \* numbers that some workspace has as a member
  allow,        \* those of the boot: restoreAllowlist
  safe,         \* this boot is in safe mode
  held,         \* heldByOthers
  todo,         \* manifests, then snapshots, that the boot has yet to take up
  consuming,    \* the snapshot whose session has been created and which goes next
  call,         \* the creating requests
  saving,       \* the saves under way
  births, boots,       \* bounded by MaxBirths and MaxBoots
  owed,         \* what must come back: see ComesBack
  stray         \* numbers with something left of a session that ended: see FilesAreOwn

disk == <<manifest, snap, metaFile, index, nextFile>>
world == <<programs, born, owner>>
memory == <<metas, sessions, closed, nextId, held, call, saving>>
booting == <<allow, safe, todo, consuming>>
ghosts == <<births, boots, owed, stray>>
registryVars == <<process, world, disk, memory, booting, members, ghosts>>

Numbers == 1 .. MaxId
Idle == [at |-> "idle"]

Live == {id \in Numbers : sessions[id] # 0 /\ id \notin closed}
Snapshots == {id \in Numbers : snap[id] # 0}
Traces == manifest \cup Snapshots \cup {id \in Numbers : metaFile[id] # {}}

Larger(a, b) == IF a > b THEN a ELSE b

RegistryInit ==
  /\ process = "up" /\ manifest = {} /\ index = <<>> /\ nextFile = 1 /\ nextId = 1
  /\ programs = [id \in Numbers |-> 0] /\ born = [id \in Numbers |-> 0] /\ owner = [id \in Numbers |-> "none"]
  /\ snap = [id \in Numbers |-> 0] /\ metaFile = [id \in Numbers |-> {}] /\ metas = [id \in Numbers |-> {}]
  /\ sessions = [id \in Numbers |-> 0] /\ closed = {} /\ members = {} /\ allow = {} /\ safe = FALSE
  /\ held = {} /\ todo = {} /\ consuming = 0
  /\ call = [c \in Creators |-> Idle] /\ saving = [id \in Numbers |-> Idle]
  /\ births = 0 /\ boots = 1 /\ owed = {} /\ stray = {}

(* getMeta and setMeta: the cache before the file; a patch is merged.        *)
Meta(id) == IF metas[id] # {} THEN metas[id] ELSE metaFile[id]
PutMeta(id, b) ==
  /\ metas' = [metas EXCEPT ![id] = Meta(id) \cup {b}]
  /\ metaFile' = [metaFile EXCEPT ![id] = Meta(id) \cup {b}]

-----------------------------------------------------------------------------
(* create().  pickSessionId: the first number from `start` on, and round from 1,  *)
(* that is not taken.                                                        *)
PickSessionId(start, taken) ==
  LET first == IF start \in Numbers THEN start ELSE 1
      Nth(k) == ((first - 1 + k) % MaxId) + 1
  IN  Nth(CHOOSE k \in 0 .. MaxId - 1 : Nth(k) \notin taken /\ \A j \in 0 .. k - 1 : Nth(j) \in taken)

(* There are 9999 numbers: as many are free as requests might take.            *)
RoomLeft ==
  Cardinality(Numbers \ (Traces \cup members \cup held \cup {id \in Numbers : sessions[id] # 0 \/ saving[id] # Idle}))
    >= Cardinality(Creators)

CreateReads(c) ==
  /\ process = "up" /\ call[c] = Idle /\ RoomLeft
  /\ births + Cardinality({o \in Creators : call[o].at \in {"picks", "spawns"}}) < MaxBirths
  /\ call' = [call EXCEPT ![c] = [at |-> "picks", files |-> Traces]]
  /\ UNCHANGED <<process, world, disk, metas, sessions, closed, nextId, held, saving, booting, members, ghosts>>

(* Mutant: what has only a meta file counts as free.                           *)
TakenNoMeta(files) ==
  (files \ {id \in Numbers : metaFile[id] # {} /\ id \notin manifest \cup Snapshots})
    \cup held \cup members \cup {id \in Numbers : sessions[id] # 0}

(* allocateId's test: the directory as it was read, the rest as it is.         *)
Taken(files) == files \cup held \cup members \cup {id \in Numbers : sessions[id] # 0}

CreatePicks(c) ==
  /\ call[c].at = "picks" /\ Taken(call[c].files) # Numbers
  /\ LET id == PickSessionId(nextId, Taken(call[c].files))
     IN  /\ call' = [call EXCEPT ![c] = [at |-> "spawns", id |-> id]]
         /\ nextId' = id + 1 /\ nextFile' = id + 1
  /\ UNCHANGED <<process, world, manifest, snap, metaFile, index, metas, sessions, closed, held, saving,
                 booting, members, ghosts>>

CreateSpawns(c) ==
  /\ call[c].at = "spawns"
  /\ LET id == call[c].id
     IN  /\ programs' = [programs EXCEPT ![id] = @ + 1] /\ born' = [born EXCEPT ![id] = births + 1]
         /\ manifest' = manifest \cup {id}
         /\ call' = [call EXCEPT ![c] = [at |-> "connects", id |-> id]]
  /\ births' = births + 1
  /\ UNCHANGED <<process, owner, snap, metaFile, index, nextFile, metas, sessions, closed, nextId, held, saving,
                 booting, members, boots, owed, stray>>

CreateConnects(c) ==
  /\ call[c].at = "connects"
  /\ LET id == call[c].id
     IN  /\ programs[id] > 0 /\ owner[id] = "none" /\ owner' = [owner EXCEPT ![id] = "us"]
         /\ sessions' = [sessions EXCEPT ![id] = born[id]] /\ closed' = closed \ {id}
         /\ PutMeta(id, born[id])
  /\ call' = [call EXCEPT ![c] = Idle]
  /\ UNCHANGED <<process, programs, born, manifest, snap, index, nextFile, nextId, held, saving, booting,
                 members, ghosts>>

(* No holder, or none that answers: one that was started stays.               *)
CreateFails(c) ==
  /\ call[c].at \in {"spawns", "connects"} /\ call' = [call EXCEPT ![c] = Idle]
  /\ UNCHANGED <<process, world, disk, metas, sessions, closed, nextId, held, saving, booting, members, ghosts>>

Registers == \E c \in Creators : CreateReads(c) \/ CreatePicks(c) \/ CreateSpawns(c) \/ CreateConnects(c) \/ CreateFails(c)

-----------------------------------------------------------------------------
(* Membership, as far as the registry looks at it.                            *)
Joins(id) ==
  /\ process = "up" /\ id \in Live /\ members' = members \cup {id}
  /\ UNCHANGED <<process, world, disk, memory, booting, ghosts>>

Leaves(id) ==
  /\ process = "up" /\ id \in members /\ members' = members \ {id}
  /\ UNCHANGED <<process, world, disk, memory, booting, ghosts>>

(* destroy(): a session that is dead already is not killed again.  DELETE        *)
(* /api/sessions takes it out of its workspaces; DESTROY over the socket does    *)
(* not.                                                                     *)
Destroy(id) ==
  /\ process = "up" /\ sessions[id] # 0
  /\ IF id \in closed THEN UNCHANGED <<programs, owner, manifest>>
     ELSE /\ programs' = [programs EXCEPT ![id] = @ - 1] /\ owner' = [owner EXCEPT ![id] = "none"]
          /\ manifest' = manifest \ {id}
  /\ sessions' = [sessions EXCEPT ![id] = 0] /\ closed' = closed \ {id}
  /\ metas' = [metas EXCEPT ![id] = {}] /\ metaFile' = [metaFile EXCEPT ![id] = {}]
  /\ snap' = [snap EXCEPT ![id] = 0]
  /\ members' \in {members, members \ {id}} /\ owed' = owed \ {id}
  /\ UNCHANGED <<process, born, index, nextFile, nextId, held, call, saving, booting, births, boots, stray>>

(* The program ends: its holder takes its manifest along.                      *)
Exits(id) ==
  /\ programs[id] > 0 /\ programs' = [programs EXCEPT ![id] = @ - 1]
  /\ owner' = [owner EXCEPT ![id] = "none"] /\ manifest' = manifest \ {id}
  /\ closed' = IF owner[id] = "us" THEN closed \cup {id} ELSE closed
  /\ owed' = owed \ {id}
  /\ UNCHANGED <<process, born, snap, metaFile, index, nextFile, metas, sessions, nextId, held, call, saving,
                 booting, members, births, boots, stray>>

(* The timers of onExit (30 s) and reap() drop a dead session; its meta stays     *)
(* cached.  By then a save of it, or a reading of the directory, is over.       *)
Forgets(id) ==
  /\ process # "down" /\ id \in closed /\ saving[id] = Idle /\ \A c \in Creators : call[c].at # "picks"
  /\ sessions' = [sessions EXCEPT ![id] = 0] /\ closed' = closed \ {id}
  /\ UNCHANGED <<process, world, disk, metas, nextId, held, call, saving, booting, members, ghosts>>

(* persistSession: a live session's meta is read, its cwd noted, its snapshot     *)
(* written.  Once begun it goes on whatever becomes of the session.            *)
SaveBegins(id) ==
  /\ process # "down" /\ id \in Live /\ saving[id] = Idle
  /\ metas' = [metas EXCEPT ![id] = Meta(id)]
  /\ saving' = [saving EXCEPT ![id] = [at |-> "cwd", birth |-> sessions[id]]]
  /\ UNCHANGED <<process, world, disk, sessions, closed, nextId, held, call, booting, members, ghosts>>

Strayed(id) == IF sessions[id] = saving[id].birth THEN stray ELSE stray \cup {id}

SaveNotesCwd(id) ==
  /\ saving[id].at = "cwd"
  /\ \/ PutMeta(id, saving[id].birth) /\ stray' = Strayed(id)
     \/ UNCHANGED <<metas, metaFile, stray>>
  /\ saving' = [saving EXCEPT ![id].at = "writes"]
  /\ UNCHANGED <<process, world, manifest, snap, index, nextFile, sessions, closed, nextId, held, call, booting,
                 members, births, boots, owed>>

SaveWrites(id) ==
  /\ saving[id].at = "writes"
  /\ \/ snap' = [snap EXCEPT ![id] = saving[id].birth] /\ stray' = Strayed(id)
     \/ UNCHANGED <<snap, stray>>
  /\ saving' = [saving EXCEPT ![id] = Idle]
  /\ UNCHANGED <<process, world, manifest, metaFile, index, nextFile, metas, sessions, closed, nextId, held, call,
                 booting, members, births, boots, owed>>

(* sweepRuntimeDir: files of no live session and no member, past their age.     *)
Sweeps(id) ==
  /\ process = "up" /\ id \notin members \cup allow \cup Live
  /\ id \in Snapshots \/ metaFile[id] # {}
  /\ \E old \in SUBSET {"snapshot", "meta"} \ {{}} :
       /\ snap' = IF "snapshot" \in old THEN [snap EXCEPT ![id] = 0] ELSE snap
       /\ metaFile' = IF "meta" \in old THEN [metaFile EXCEPT ![id] = {}] ELSE metaFile
  /\ stray' = IF metas[id] # {} THEN stray \cup {id} ELSE stray
  /\ UNCHANGED <<process, world, manifest, index, nextFile, memory, booting, members, births, boots, owed>>

-----------------------------------------------------------------------------
(* The end of the server.  What it drove, or still owed from an earlier end, it   *)
(* owes to whoever boots next.                                               *)
Stops ==
  /\ process' = "down"
  /\ owner' = [id \in Numbers |-> IF owner[id] = "us" THEN "none" ELSE owner[id]]
  /\ sessions' = [id \in Numbers |-> 0] /\ closed' = {} /\ metas' = [id \in Numbers |-> {}]
  /\ call' = [c \in Creators |-> Idle] /\ saving' = [id \in Numbers |-> Idle]
  /\ held' = {} /\ todo' = {} /\ consuming' = 0
  /\ owed' = (owed \cup Live) \cap members
  /\ UNCHANGED <<programs, born, manifest, metaFile, nextFile, nextId, allow, safe, members, births, boots, stray>>

Crash == process # "down" /\ Stops /\ UNCHANGED <<snap, index>>

(* shutdown(): persistAll writes the snapshots that can be written and lists     *)
(* them.                                                                    *)
Shutdown ==
  /\ process = "up" /\ Stops
  /\ \E kept \in SUBSET Live :
       /\ snap' = [id \in Numbers |-> IF id \in kept THEN sessions[id] ELSE snap[id]]
       /\ index' = IF kept = {} THEN index ELSE <<kept>>

(* The machine goes down: every program ends, the files stay.                  *)
Listed == IF index = <<>> THEN Snapshots ELSE index[1] \cap Snapshots

MachineReboots ==
  /\ process = "down" /\ \E id \in Numbers : programs[id] > 0
  /\ programs' = [id \in Numbers |-> 0] /\ owner' = [id \in Numbers |-> "none"]
  /\ owed' = owed \cap Listed
  /\ UNCHANGED <<process, born, disk, memory, booting, members, births, boots, stray>>

(* Another server on the same directory.                                     *)
OtherClaims(id) ==
  /\ owner[id] = "none" /\ programs[id] > 0 /\ id \in manifest
  /\ owner' = [owner EXCEPT ![id] = "other"]
  /\ UNCHANGED <<process, programs, born, disk, memory, booting, members, ghosts>>

OtherLeaves(id) ==
  /\ owner[id] = "other" /\ owner' = [owner EXCEPT ![id] = "none"]
  /\ UNCHANGED <<process, programs, born, disk, memory, booting, members, ghosts>>

-----------------------------------------------------------------------------
(* boot().  In safe mode, after three early deaths, nothing is restored from a    *)
(* snapshot.                                                                *)
BootBegins ==
  /\ process = "down" /\ boots < MaxBoots /\ boots' = boots + 1
  /\ process' = "recovering" /\ nextId' = nextFile /\ todo' = manifest /\ allow' = members
  /\ safe' \in BOOLEAN
  /\ owed' = IF safe' THEN {id \in owed : programs[id] > 0} ELSE owed
  /\ UNCHANGED <<world, disk, metas, sessions, closed, held, call, saving, consuming, members, births, stray>>

(* recoverOne, for all manifests at once.                                     *)
RecoverOne(id) ==
  /\ process = "recovering" /\ id \in todo /\ todo' = todo \ {id}
  /\ \/ /\ programs[id] = 0 /\ manifest' = manifest \ {id}
        /\ UNCHANGED <<owner, held, sessions, nextId, metas>>
     \/ /\ programs[id] > 0 /\ owner[id] = "other" /\ held' = held \cup {id}
        /\ UNCHANGED <<owner, manifest, sessions, nextId, metas>>
     \/ /\ programs[id] > 0 /\ owner[id] = "none" /\ owner' = [owner EXCEPT ![id] = "us"]
        /\ sessions' = [sessions EXCEPT ![id] = born[id]]
        /\ nextId' = Larger(nextId, id + 1) /\ metas' = [metas EXCEPT ![id] = Meta(id)]
        /\ UNCHANGED <<manifest, held>>
  /\ UNCHANGED <<process, programs, born, snap, metaFile, index, nextFile, closed, call, saving, allow, safe,
                 consuming, members, ghosts>>

(* Mutant: only the index is looked at.                                       *)
OfferedListed == IF index = <<>> THEN {} ELSE index[1]

(* The snapshots a restore looks at: those of the index, all without one.       *)
Offered == IF index = <<>> THEN Snapshots ELSE index[1]

RestoreBegins ==
  /\ process = "recovering" /\ todo = {}
  /\ LET files == IF safe THEN {} ELSE Offered \cap allow
     IN  /\ todo' = files
         /\ process' = IF files = {} THEN "up" ELSE "restoring"
         /\ index' = IF files = {} THEN <<>> ELSE index
  /\ UNCHANGED <<world, manifest, snap, metaFile, nextFile, memory, allow, safe, consuming, members, ghosts>>

(* Unreadable, back already, or somebody else's.                              *)
RestoreSkips(id) ==
  /\ process = "restoring" /\ consuming = 0 /\ id \in todo
  /\ snap[id] = 0 \/ sessions[id] # 0 \/ id \in held
  /\ todo' = todo \ {id}
  /\ UNCHANGED <<process, world, disk, memory, allow, safe, consuming, members, ghosts>>

(* Mutant: what another server holds is taken for dead.                         *)
ToRestoreHeld(id) == snap[id] # 0 /\ sessions[id] = 0

ToRestore(id) == snap[id] # 0 /\ sessions[id] = 0 /\ id \notin held

RestoreOne(id) ==
  /\ process = "restoring" /\ consuming = 0 /\ id \in todo /\ ToRestore(id)
  /\ todo' = todo \ {id} /\ consuming' = id
  /\ \/ /\ programs' = [programs EXCEPT ![id] = @ + 1] /\ born' = [born EXCEPT ![id] = snap[id]]
        /\ owner' = [owner EXCEPT ![id] = "us"] /\ manifest' = manifest \cup {id}
        /\ sessions' = [sessions EXCEPT ![id] = snap[id]] /\ nextId' = Larger(nextId, id + 1)
        /\ PutMeta(id, snap[id]) /\ UNCHANGED owed
     \/ /\ owed' = owed \ {id}
        /\ UNCHANGED <<world, manifest, sessions, nextId, metas, metaFile>>
  /\ UNCHANGED <<process, snap, index, nextFile, closed, held, call, saving, allow, safe, members, births, boots,
                 stray>>

(* The snapshot goes, whether the session could be created or not.              *)
RestoreConsumes ==
  /\ process = "restoring" /\ consuming # 0
  /\ snap' = [snap EXCEPT ![consuming] = 0] /\ consuming' = 0
  /\ UNCHANGED <<process, world, manifest, metaFile, index, nextFile, memory, allow, safe, todo, members, ghosts>>

RestoreEnds ==
  /\ process = "restoring" /\ consuming = 0 /\ todo = {}
  /\ process' = "up" /\ nextFile' = nextId /\ index' = <<>>
  /\ UNCHANGED <<world, manifest, snap, metaFile, memory, booting, members, ghosts>>

-----------------------------------------------------------------------------
RegistryNext ==
  \/ Registers
  \/ \E id \in Numbers :
       \/ Joins(id) \/ Leaves(id) \/ Destroy(id) \/ Exits(id) \/ Forgets(id)
       \/ SaveBegins(id) \/ SaveNotesCwd(id) \/ SaveWrites(id) \/ Sweeps(id)
       \/ OtherClaims(id) \/ OtherLeaves(id)
       \/ RecoverOne(id) \/ RestoreSkips(id) \/ RestoreOne(id)
  \/ Crash \/ Shutdown \/ MachineReboots \/ BootBegins \/ RestoreBegins \/ RestoreConsumes \/ RestoreEnds

RegistrySpec == RegistryInit /\ [][RegistryNext]_registryVars

-----------------------------------------------------------------------------
(* No number ever has two programs: not by creating, and not by restoring what    *)
(* another server holds (the incident told at session-manager.ts:126-130).       *)
OneProgramPerId == \A id \in Numbers : programs[id] <= 1

(* A member's session that ran when the server ended, however it ended, is there  *)
(* again when a server is up, or another server has it; unless its program ended, *)
(* it was destroyed, the machine went down with no snapshot of it on offer, its   *)
(* restore failed, or the boot was in safe mode.                               *)
ComesBack == process = "up" => \A id \in owed \cap members : sessions[id] # 0 \/ id \in held

(* A session has its own meta and its own snapshot (session-manager.ts:427-431:    *)
(* "a new session would inherit the old one's meta"), except for what a save wrote *)
(* after its session was gone, and for the cached meta whose file was swept.      *)
FilesAreOwn ==
  \A id \in Live \ stray :
    metas[id] \subseteq {sessions[id]} /\ snap[id] \in {0, sessions[id]}
=============================================================================
