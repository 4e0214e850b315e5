----------------------------- MODULE RegistryProofs -----------------------------
(***************************************************************************)
(* Proofs about Registry: no number has two programs, sessions have files of    *)
(* their own, and what ran comes back, for every number of sessions, births and  *)
(* boots, where one request creates sessions at a time.                      *)
(***************************************************************************)
EXTENDS Registry, TLAPS, WellFoundedInduction

(* The registry's model has one creating request, see its head comment.         *)
OneRequest == \A c, d \in Creators : c = d

-----------------------------------------------------------------------------
(* The inductive invariant, in parts.                                       *)

Processes == {"down", "recovering", "restoring", "up"}

Requests == {Idle} \cup [at : {"picks"}, files : SUBSET Numbers]
                   \cup [at : {"spawns", "connects"}, id : Numbers]

Saves == {Idle} \cup [at : {"cwd", "writes"}, birth : Nat]

RegistryTypeOK ==
  /\ process \in Processes
  /\ programs \in [Numbers -> Int] /\ born \in [Numbers -> Nat]
  /\ owner \in [Numbers -> {"none", "us", "other"}]
  /\ snap \in [Numbers -> Nat] /\ sessions \in [Numbers -> Nat]
  /\ metaFile \in [Numbers -> SUBSET Nat] /\ metas \in [Numbers -> SUBSET Nat]
  /\ nextId \in Nat /\ nextFile \in Nat /\ births \in Nat
  /\ {manifest, closed, members, allow, held, todo, owed, stray} \subseteq SUBSET Numbers
  /\ consuming \in {0} \cup Numbers
  /\ call \in [Creators -> Requests] /\ saving \in [Numbers -> Saves]

(* A number has a program at most, and then a manifest; the manager has a live     *)
(* session exactly of those it has the lease of.                            *)
ProgramsMatch ==
  \A id \in Numbers :
    /\ programs[id] \in {0, 1}
    /\ programs[id] # 0 => id \in manifest
    /\ sessions[id] # 0 /\ id \notin closed => programs[id] # 0 /\ owner[id] = "us"
    /\ owner[id] = "us" => sessions[id] # 0 /\ id \notin closed
    /\ id \in closed => sessions[id] # 0 /\ programs[id] = 0
    /\ programs[id] # 0 => born[id] # 0

(* The number a request may settle on, or has, is nobody else's.               *)
RequestsAreFree ==
  \A c \in Creators :
    /\ call[c] # Idle => process = "up"
    /\ call[c].at = "picks" => \A id \in Numbers \ call[c].files : programs[id] = 0
    /\ call[c].at \in {"spawns", "connects"} => call[c].id \in Numbers /\ sessions[call[c].id] = 0
    /\ call[c].at = "spawns" => programs[call[c].id] = 0

(* The boot has seen to a number: its session is there, or another server's.      *)
Found(id) == id \in held \/ sessions[id] # 0

(* The boot comes to every program before it restores anything.                *)
BootCovers ==
  /\ process = "down" => held = {} /\ \A id \in Numbers : sessions[id] = 0
  /\ process = "recovering" => \A id \in Numbers : programs[id] # 0 => id \in todo \/ Found(id)
  /\ process = "restoring" => \A id \in Numbers : programs[id] # 0 => Found(id)

ProgramsInv == RegistryTypeOK /\ ProgramsMatch /\ RequestsAreFree /\ BootCovers

USE DEF world, disk, memory, booting, ghosts

-----------------------------------------------------------------------------
(* PickSessionId.                                                          *)

(* A set of naturals that is not empty has a least element.                    *)
LEMMA LeastNatural ==
  ASSUME NEW T, T \subseteq Nat, T # {}
  PROVE  \E x \in T : \A y \in T : ~(y < x)
<1> DEFINE Below == {ss \in Nat \X Nat : ss[1] < ss[2]}
<1>1. IsWellFoundedOn(Below, Nat)
  BY NatLessThanWellFounded, Zenon DEF OpToRel
<1>2. \E x \in T : \A y \in T : ~(<<y, x>> \in Below)
  <2> HIDE DEF Below
  <2>1. QED
    BY <1>1, WFMin, Zenon
<1>3. QED
  BY <1>2

(* Going round from any number one comes to every number.                      *)
LEMMA RoundReaches ==
  ASSUME NEW first \in Numbers, NEW n \in Numbers
  PROVE  \E k \in 0 .. MaxId - 1 : ((first - 1 + k) % MaxId) + 1 = n
<1>1. MaxId \in Nat \ {0} /\ first \in 1 .. MaxId /\ n \in 1 .. MaxId
  BY RegistryAssumption DEF Numbers
<1>2. \E k \in 0 .. MaxId - 1 : first - 1 + k = n - 1 \/ first - 1 + k = n - 1 + MaxId
  <2>1. CASE n >= first
    <3>1. n - first \in 0 .. MaxId - 1 /\ first - 1 + (n - first) = n - 1
      BY <1>1, <2>1
    <3>2. QED
      BY <3>1
  <2>2. CASE n < first
    <3>1. n - first + MaxId \in 0 .. MaxId - 1 /\ first - 1 + (n - first + MaxId) = n - 1 + MaxId
      BY <1>1, <2>2
    <3>2. QED
      BY <3>1
  <2>3. QED
    BY <1>1, <2>1, <2>2
<1>3. (n - 1) % MaxId = n - 1 /\ (n - 1 + MaxId) % MaxId = n - 1 /\ (n - 1) + 1 = n
  BY <1>1
<1>4. PICK k \in 0 .. MaxId - 1 : first - 1 + k = n - 1 \/ first - 1 + k = n - 1 + MaxId
  BY <1>2
<1>5. (first - 1 + k) % MaxId = n - 1
  BY <1>3, <1>4
<1>6. QED
  BY <1>3, <1>4, <1>5

(* The number chosen is one of those, and free, if any is (pickSessionId).       *)
LEMMA PickIsFree ==
  ASSUME NEW start, NEW taken, NEW n \in Numbers \ taken
  PROVE  PickSessionId(start, taken) \in Numbers \ taken
<1> DEFINE first == IF start \in Numbers THEN start ELSE 1
           Nth(k) == ((first - 1 + k) % MaxId) + 1
           T == {k \in 0 .. MaxId - 1 : Nth(k) \notin taken}
           Best(k) == Nth(k) \notin taken /\ \A j \in 0 .. k - 1 : Nth(j) \in taken
<1>1. MaxId \in Nat \ {0} /\ first \in Numbers
  BY RegistryAssumption DEF Numbers
<1>2. \A k \in 0 .. MaxId - 1 : Nth(k) \in Numbers
  BY <1>1 DEF Numbers
<1>3. \E k \in 0 .. MaxId - 1 : Nth(k) = n
  BY <1>1, RoundReaches
<1>4. T \subseteq Nat /\ T # {}
  BY <1>3
<1>5. \E x \in T : \A y \in T : ~(y < x)
  <2> HIDE DEF T
  <2>1. QED
    BY <1>4, LeastNatural
<1>6. \E k \in 0 .. MaxId - 1 : Best(k)
  <2>1. PICK x \in T : \A y \in T : ~(y < x)
    BY <1>5
  <2>2. x \in 0 .. MaxId - 1 /\ Nth(x) \notin taken
    OBVIOUS
  <2>3. ASSUME NEW j \in 0 .. x - 1  PROVE Nth(j) \in taken
    <3>1. j \in 0 .. MaxId - 1 /\ j < x
      BY <1>1, <2>2
    <3>2. QED
      BY <2>1, <3>1
  <2>4. QED
    BY <2>2, <2>3
<1>7. PickSessionId(start, taken) = Nth(CHOOSE k \in 0 .. MaxId - 1 : Best(k))
  BY DEF PickSessionId
<1>8. QED
  <2> DEFINE k == CHOOSE k \in 0 .. MaxId - 1 : Best(k)
  <2>1. k \in 0 .. MaxId - 1 /\ Best(k)
    <3> HIDE DEF Best
    <3>1. QED
      BY <1>6
  <2>2. QED
    BY <1>2, <1>7, <2>1

(* The number a request settles on is not taken (allocateId).                  *)
LEMMA PicksFree ==
  ASSUME RegistryTypeOK, NEW c \in Creators, CreatePicks(c)
  PROVE  /\ call[c].at = "picks"
         /\ PickSessionId(nextId, Taken(call[c].files)) \in Numbers \ Taken(call[c].files)
<1> DEFINE files == call[c].files
<1>1. call[c].at = "picks" /\ Taken(files) # Numbers
  BY DEF CreatePicks
<1>2. call[c] \in Requests
  BY DEF RegistryTypeOK
<1>3. files \subseteq Numbers
  BY <1>1, <1>2 DEF Requests, Idle
<1>4. Taken(files) \subseteq Numbers
  BY <1>3 DEF RegistryTypeOK, Taken
<1>5. PICK n \in Numbers \ Taken(files) : TRUE
  BY <1>1, <1>4
<1>6. PickSessionId(nextId, Taken(files)) \in Numbers \ Taken(files)
  BY <1>5, PickIsFree, Zenon
<1>7. QED
  BY <1>1, <1>6

(* A request to create keeps the invariant: what it takes is nobody else's, and    *)
(* there is room to take (create, allocateId).                                *)
LEMMA RegisterKeeps ==
  ASSUME OneRequest, ProgramsInv, NEW c \in Creators,
         CreateReads(c) \/ CreatePicks(c) \/ CreateSpawns(c) \/ CreateConnects(c) \/ CreateFails(c)
  PROVE  ProgramsInv'
<1>a. RegistryTypeOK /\ ProgramsMatch /\ RequestsAreFree /\ BootCovers
  BY DEF ProgramsInv
<1>1. CASE CreateReads(c)
  <2>1. RegistryTypeOK'
    BY <1>a, <1>1 DEF RegistryTypeOK, CreateReads, Traces, Snapshots, RoomLeft, Processes, Requests, Saves
  <2>2. ProgramsMatch'
    BY <1>a, <1>1 DEF ProgramsMatch, CreateReads, Traces, Snapshots, RoomLeft, RegistryTypeOK, RequestsAreFree, BootCovers
  <2>3. RequestsAreFree'
    BY <1>a, <1>1 DEF RequestsAreFree, CreateReads, Traces, Snapshots, RoomLeft, RegistryTypeOK, ProgramsMatch, Requests, Idle
  <2>4. BootCovers'
    BY <1>a, <1>1 DEF BootCovers, CreateReads, Traces, Snapshots, RoomLeft, RegistryTypeOK, ProgramsMatch, RequestsAreFree, Found
  <2>5. QED
    BY <2>1, <2>2, <2>3, <2>4 DEF ProgramsInv
<1>2. CASE CreatePicks(c)
  <2> DEFINE files == call[c].files
             id == PickSessionId(nextId, Taken(files))
  <2>1. call[c].at = "picks" /\ id \in Numbers \ Taken(files)
    BY <1>a, <1>2, PicksFree
  <2>7. id \in Numbers /\ sessions[id] = 0 /\ programs[id] = 0 /\ process = "up"
    BY <1>a, <2>1 DEF Taken, RequestsAreFree, Idle
  <2>8. /\ call' = [call EXCEPT ![c] = [at |-> "spawns", id |-> id]]
        /\ nextId' = id + 1 /\ nextFile' = id + 1
        /\ UNCHANGED <<process, world, manifest, snap, metaFile, index, metas, sessions, closed,
                       held, saving, booting, members, ghosts>>
    BY <1>2 DEF CreatePicks
  <2> HIDE DEF id
  <2>9. id + 1 \in Nat
    BY <2>7, RegistryAssumption DEF Numbers
  <2>10. [at |-> "spawns", id |-> id] \in Requests
    BY <2>7 DEF Requests
  <2>11. RegistryTypeOK'
    BY <1>a, <2>8, <2>9, <2>10 DEF RegistryTypeOK
  <2>12. ProgramsMatch' /\ BootCovers'
    BY <1>a, <2>8 DEF ProgramsMatch, BootCovers, Found
  <2>13. RequestsAreFree'
    BY <1>a, <2>7, <2>8 DEF RequestsAreFree, RegistryTypeOK
  <2>14. QED
    BY <2>11, <2>12, <2>13 DEF ProgramsInv
<1>3. CASE CreateSpawns(c)
  <2> DEFINE id == call[c].id
  <2>1. /\ id \in Numbers /\ sessions[id] = 0 /\ programs[id] = 0 /\ process = "up"
    BY <1>a, <1>3 DEF CreateSpawns, RequestsAreFree, Idle
  <2>2. /\ programs' = [programs EXCEPT ![id] = @ + 1] /\ born' = [born EXCEPT ![id] = births + 1]
        /\ manifest' = manifest \cup {id} /\ births' = births + 1
        /\ call' = [call EXCEPT ![c] = [at |-> "connects", id |-> id]]
        /\ UNCHANGED <<process, owner, snap, metaFile, index, nextFile, metas, sessions, closed,
                       nextId, held, saving, booting, members, boots, owed, stray>>
    BY <1>3 DEF CreateSpawns
  <2>3. \A d \in Creators : d = c
    BY DEF OneRequest
  <2> HIDE DEF id
  <2>4. [at |-> "connects", id |-> id] \in Requests
    BY <2>1 DEF Requests
  <2>5. RegistryTypeOK'
    BY <1>a, <2>1, <2>2, <2>4 DEF RegistryTypeOK
  <2>6. ProgramsMatch'
    BY <1>a, <2>1, <2>2 DEF ProgramsMatch, RegistryTypeOK
  <2>7. RequestsAreFree'
    BY <1>a, <2>1, <2>2, <2>3 DEF RequestsAreFree, RegistryTypeOK
  <2>8. BootCovers'
    BY <1>a, <2>1, <2>2 DEF BootCovers
  <2>9. QED
    BY <2>5, <2>6, <2>7, <2>8 DEF ProgramsInv
<1>4. CASE CreateConnects(c)
  <2> DEFINE id == call[c].id
  <2>1. id \in Numbers /\ sessions[id] = 0 /\ process = "up"
    BY <1>a, <1>4 DEF CreateConnects, RequestsAreFree, Idle
  <2>2. /\ programs[id] > 0 /\ owner' = [owner EXCEPT ![id] = "us"]
        /\ sessions' = [sessions EXCEPT ![id] = born[id]] /\ closed' = closed \ {id}
        /\ PutMeta(id, born[id])
        /\ call' = [call EXCEPT ![c] = Idle]
        /\ UNCHANGED <<process, programs, born, manifest, snap, index, nextFile, nextId, held,
                       saving, booting, members, ghosts>>
    BY <1>4 DEF CreateConnects
  <2>3. \A d \in Creators : d = c
    BY DEF OneRequest
  <2> HIDE DEF id
  <2>4. born[id] \in Nat /\ born[id] # 0
    BY <1>a, <2>1, <2>2 DEF RegistryTypeOK, ProgramsMatch
  <2>5. metas' \in [Numbers -> SUBSET Nat] /\ metaFile' \in [Numbers -> SUBSET Nat]
    BY <1>a, <2>1, <2>2, <2>4 DEF RegistryTypeOK, PutMeta, Meta
  <2>6. RegistryTypeOK'
    <3>1. /\ sessions' \in [Numbers -> Nat] /\ owner' \in [Numbers -> {"none", "us", "other"}]
          /\ call' \in [Creators -> Requests]
      BY <1>a, <2>1, <2>2, <2>4 DEF RegistryTypeOK, Requests
    <3>2. QED
      BY <1>a, <2>1, <2>2, <2>5, <3>1 DEF RegistryTypeOK
  <2>7. ProgramsMatch'
    BY <1>a, <2>1, <2>2, <2>4 DEF ProgramsMatch, RegistryTypeOK
  <2>8. RequestsAreFree'
    BY <1>a, <2>2, <2>3 DEF RequestsAreFree, RegistryTypeOK, Idle
  <2>9. BootCovers'
    BY <1>a, <2>1, <2>2 DEF BootCovers
  <2>10. QED
    BY <2>6, <2>7, <2>8, <2>9 DEF ProgramsInv
<1>5. CASE CreateFails(c)
  <2>1. RegistryTypeOK'
    BY <1>a, <1>5 DEF RegistryTypeOK, CreateFails, Processes, Requests, Saves
  <2>2. ProgramsMatch'
    BY <1>a, <1>5 DEF ProgramsMatch, CreateFails, RegistryTypeOK, RequestsAreFree, BootCovers
  <2>3. RequestsAreFree'
    BY <1>a, <1>5 DEF RequestsAreFree, CreateFails, RegistryTypeOK, ProgramsMatch, Requests, Idle
  <2>4. BootCovers'
    BY <1>a, <1>5 DEF BootCovers, CreateFails, RegistryTypeOK, ProgramsMatch, RequestsAreFree, Found
  <2>5. QED
    BY <2>1, <2>2, <2>3, <2>4 DEF ProgramsInv
<1>6. QED
  BY <1>1, <1>2, <1>3, <1>4, <1>5

(* What becomes of a session keeps it: members, ends, saves and sweeps.          *)
LEMMA SessionKeeps ==
  ASSUME ProgramsInv, NEW id \in Numbers,
         Joins(id) \/ Leaves(id) \/ Destroy(id) \/ Exits(id) \/ Forgets(id) \/ SaveBegins(id) \/ SaveNotesCwd(id) \/ SaveWrites(id) \/ Sweeps(id) \/ OtherClaims(id) \/ OtherLeaves(id)
  PROVE  ProgramsInv'
<1>a. RegistryTypeOK /\ ProgramsMatch /\ RequestsAreFree /\ BootCovers
  BY DEF ProgramsInv
<1>1. CASE Joins(id)
  <2>1. RegistryTypeOK'
    BY <1>a, <1>1 DEF RegistryTypeOK, Joins, Live, Processes, Requests, Saves
  <2>2. ProgramsMatch'
    BY <1>a, <1>1 DEF ProgramsMatch, Joins, Live, RegistryTypeOK, RequestsAreFree, BootCovers
  <2>3. RequestsAreFree'
    BY <1>a, <1>1 DEF RequestsAreFree, Joins, Live, RegistryTypeOK, ProgramsMatch, Requests, Idle
  <2>4. BootCovers'
    BY <1>a, <1>1 DEF BootCovers, Joins, Live, RegistryTypeOK, ProgramsMatch, RequestsAreFree, Found
  <2>5. QED
    BY <2>1, <2>2, <2>3, <2>4 DEF ProgramsInv
<1>2. CASE Leaves(id)
  <2>1. RegistryTypeOK'
    BY <1>a, <1>2 DEF RegistryTypeOK, Leaves, Processes, Requests, Saves
  <2>2. ProgramsMatch'
    BY <1>a, <1>2 DEF ProgramsMatch, Leaves, RegistryTypeOK, RequestsAreFree, BootCovers
  <2>3. RequestsAreFree'
    BY <1>a, <1>2 DEF RequestsAreFree, Leaves, RegistryTypeOK, ProgramsMatch, Requests, Idle
  <2>4. BootCovers'
    BY <1>a, <1>2 DEF BootCovers, Leaves, RegistryTypeOK, ProgramsMatch, RequestsAreFree, Found
  <2>5. QED
    BY <2>1, <2>2, <2>3, <2>4 DEF ProgramsInv
<1>3. CASE Destroy(id)
  <2>1. RegistryTypeOK'
    BY <1>a, <1>3 DEF RegistryTypeOK, Destroy, Processes, Requests, Saves
  <2>2. ProgramsMatch'
    BY <1>a, <1>3 DEF ProgramsMatch, Destroy, RegistryTypeOK, RequestsAreFree, BootCovers
  <2>3. RequestsAreFree'
    BY <1>a, <1>3 DEF RequestsAreFree, Destroy, RegistryTypeOK, ProgramsMatch, Requests, Idle
  <2>4. BootCovers'
    BY <1>a, <1>3 DEF BootCovers, Destroy, RegistryTypeOK, ProgramsMatch, RequestsAreFree, Found
  <2>5. QED
    BY <2>1, <2>2, <2>3, <2>4 DEF ProgramsInv
<1>4. CASE Exits(id)
  <2>1. RegistryTypeOK'
    BY <1>a, <1>4 DEF RegistryTypeOK, Exits, Processes, Requests, Saves
  <2>2. ProgramsMatch'
    BY <1>a, <1>4 DEF ProgramsMatch, Exits, RegistryTypeOK, RequestsAreFree, BootCovers
  <2>3. RequestsAreFree'
    BY <1>a, <1>4 DEF RequestsAreFree, Exits, RegistryTypeOK, ProgramsMatch, Requests, Idle
  <2>4. BootCovers'
    BY <1>a, <1>4 DEF BootCovers, Exits, RegistryTypeOK, ProgramsMatch, RequestsAreFree, Found
  <2>5. QED
    BY <2>1, <2>2, <2>3, <2>4 DEF ProgramsInv
<1>5. CASE Forgets(id)
  <2>1. RegistryTypeOK'
    BY <1>a, <1>5 DEF RegistryTypeOK, Forgets, Processes, Requests, Saves
  <2>2. ProgramsMatch'
    BY <1>a, <1>5 DEF ProgramsMatch, Forgets, RegistryTypeOK, RequestsAreFree, BootCovers
  <2>3. RequestsAreFree'
    BY <1>a, <1>5 DEF RequestsAreFree, Forgets, RegistryTypeOK, ProgramsMatch, Requests, Idle
  <2>4. BootCovers'
    BY <1>a, <1>5 DEF BootCovers, Forgets, RegistryTypeOK, ProgramsMatch, RequestsAreFree, Found
  <2>5. QED
    BY <2>1, <2>2, <2>3, <2>4 DEF ProgramsInv
<1>6. CASE SaveBegins(id)
  <2>1. RegistryTypeOK'
    BY <1>a, <1>6 DEF RegistryTypeOK, SaveBegins, Meta, Live, Processes, Requests, Saves
  <2>2. ProgramsMatch'
    BY <1>a, <1>6 DEF ProgramsMatch, SaveBegins, Meta, Live, RegistryTypeOK, RequestsAreFree, BootCovers
  <2>3. RequestsAreFree'
    BY <1>a, <1>6 DEF RequestsAreFree, SaveBegins, Meta, Live, RegistryTypeOK, ProgramsMatch, Requests, Idle
  <2>4. BootCovers'
    BY <1>a, <1>6 DEF BootCovers, SaveBegins, Meta, Live, RegistryTypeOK, ProgramsMatch, RequestsAreFree, Found
  <2>5. QED
    BY <2>1, <2>2, <2>3, <2>4 DEF ProgramsInv
<1>7. CASE SaveNotesCwd(id)
  <2>1. RegistryTypeOK'
    <3>1. saving[id] \in Saves /\ saving[id].at = "cwd"
      BY <1>a, <1>7 DEF RegistryTypeOK, SaveNotesCwd
    <3>2. saving[id] = [at |-> saving[id].at, birth |-> saving[id].birth] /\ saving[id].birth \in Nat
      BY <3>1 DEF Saves, Idle
    <3>3. [saving[id] EXCEPT !.at = "writes"] \in Saves
      BY <3>2 DEF Saves
    <3>4. saving' \in [Numbers -> Saves]
      BY <1>a, <1>7, <3>3 DEF RegistryTypeOK, SaveNotesCwd
    <3>5. metas' \in [Numbers -> SUBSET Nat] /\ metaFile' \in [Numbers -> SUBSET Nat]
      BY <1>a, <1>7, <3>2 DEF RegistryTypeOK, SaveNotesCwd, PutMeta, Meta
    <3>6. stray' \in SUBSET Numbers
      BY <1>a, <1>7 DEF RegistryTypeOK, SaveNotesCwd, Strayed
    <3>7. QED
      BY <1>a, <1>7, <3>4, <3>5, <3>6 DEF RegistryTypeOK, SaveNotesCwd
  <2>2. ProgramsMatch'
    BY <1>a, <1>7 DEF ProgramsMatch, SaveNotesCwd
  <2>3. RequestsAreFree'
    BY <1>a, <1>7 DEF RequestsAreFree, SaveNotesCwd
  <2>4. BootCovers'
    BY <1>a, <1>7 DEF BootCovers, SaveNotesCwd, Found
  <2>5. QED
    BY <2>1, <2>2, <2>3, <2>4 DEF ProgramsInv
<1>8. CASE SaveWrites(id)
  <2>1. RegistryTypeOK'
    <3>1. saving[id] \in Saves /\ saving[id].at = "writes"
      BY <1>a, <1>8 DEF RegistryTypeOK, SaveWrites
    <3>2. saving[id] = [at |-> saving[id].at, birth |-> saving[id].birth] /\ saving[id].birth \in Nat
      BY <3>1 DEF Saves, Idle
    <3>3. saving' \in [Numbers -> Saves] /\ snap' \in [Numbers -> Nat] /\ stray' \in SUBSET Numbers
      BY <1>a, <1>8, <3>2 DEF RegistryTypeOK, SaveWrites, Saves, Strayed
    <3>4. QED
      BY <1>a, <1>8, <3>3 DEF RegistryTypeOK, SaveWrites
  <2>2. ProgramsMatch'
    BY <1>a, <1>8 DEF ProgramsMatch, SaveWrites
  <2>3. RequestsAreFree'
    BY <1>a, <1>8 DEF RequestsAreFree, SaveWrites
  <2>4. BootCovers'
    BY <1>a, <1>8 DEF BootCovers, SaveWrites, Found
  <2>5. QED
    BY <2>1, <2>2, <2>3, <2>4 DEF ProgramsInv
<1>9. CASE Sweeps(id)
  <2>1. RegistryTypeOK'
    BY <1>a, <1>9 DEF RegistryTypeOK, Sweeps, Snapshots, Processes, Requests, Saves
  <2>2. ProgramsMatch'
    BY <1>a, <1>9 DEF ProgramsMatch, Sweeps, Snapshots, RegistryTypeOK, RequestsAreFree, BootCovers
  <2>3. RequestsAreFree'
    BY <1>a, <1>9 DEF RequestsAreFree, Sweeps, Snapshots, RegistryTypeOK, ProgramsMatch, Requests, Idle
  <2>4. BootCovers'
    BY <1>a, <1>9 DEF BootCovers, Sweeps, Snapshots, RegistryTypeOK, ProgramsMatch, RequestsAreFree, Found
  <2>5. QED
    BY <2>1, <2>2, <2>3, <2>4 DEF ProgramsInv
<1>10. CASE OtherClaims(id)
  <2>1. RegistryTypeOK'
    BY <1>a, <1>10 DEF RegistryTypeOK, OtherClaims, Processes, Requests, Saves
  <2>2. ProgramsMatch'
    BY <1>a, <1>10 DEF ProgramsMatch, OtherClaims, RegistryTypeOK, RequestsAreFree, BootCovers
  <2>3. RequestsAreFree'
    BY <1>a, <1>10 DEF RequestsAreFree, OtherClaims, RegistryTypeOK, ProgramsMatch, Requests, Idle
  <2>4. BootCovers'
    BY <1>a, <1>10 DEF BootCovers, OtherClaims, RegistryTypeOK, ProgramsMatch, RequestsAreFree, Found
  <2>5. QED
    BY <2>1, <2>2, <2>3, <2>4 DEF ProgramsInv
<1>11. CASE OtherLeaves(id)
  <2>1. RegistryTypeOK'
    BY <1>a, <1>11 DEF RegistryTypeOK, OtherLeaves, Processes, Requests, Saves
  <2>2. ProgramsMatch'
    BY <1>a, <1>11 DEF ProgramsMatch, OtherLeaves, RegistryTypeOK, RequestsAreFree, BootCovers
  <2>3. RequestsAreFree'
    BY <1>a, <1>11 DEF RequestsAreFree, OtherLeaves, RegistryTypeOK, ProgramsMatch, Requests, Idle
  <2>4. BootCovers'
    BY <1>a, <1>11 DEF BootCovers, OtherLeaves, RegistryTypeOK, ProgramsMatch, RequestsAreFree, Found
  <2>5. QED
    BY <2>1, <2>2, <2>3, <2>4 DEF ProgramsInv
<1>12. QED
  BY <1>1, <1>2, <1>3, <1>4, <1>5, <1>6, <1>7, <1>8, <1>9, <1>10, <1>11

(* The end of the server, and of the machine.                                *)
LEMMA EndingKeeps ==
  ASSUME ProgramsInv,
         Crash \/ Shutdown \/ MachineReboots
  PROVE  ProgramsInv'
<1>a. RegistryTypeOK /\ ProgramsMatch /\ RequestsAreFree /\ BootCovers
  BY DEF ProgramsInv
<1>1. CASE Crash
  <2>1. RegistryTypeOK'
    BY <1>a, <1>1 DEF RegistryTypeOK, Crash, Stops, Live, Processes, Requests, Saves
  <2>2. ProgramsMatch'
    BY <1>a, <1>1 DEF ProgramsMatch, Crash, Stops, Live, RegistryTypeOK, RequestsAreFree, BootCovers
  <2>3. RequestsAreFree'
    BY <1>a, <1>1 DEF RequestsAreFree, Crash, Stops, Live, RegistryTypeOK, ProgramsMatch, Requests, Idle
  <2>4. BootCovers'
    BY <1>a, <1>1 DEF BootCovers, Crash, Stops, Live, RegistryTypeOK, ProgramsMatch, RequestsAreFree, Found
  <2>5. QED
    BY <2>1, <2>2, <2>3, <2>4 DEF ProgramsInv
<1>2. CASE Shutdown
  <2>1. RegistryTypeOK'
    BY <1>a, <1>2 DEF RegistryTypeOK, Shutdown, Stops, Live, Processes, Requests, Saves
  <2>2. ProgramsMatch'
    BY <1>a, <1>2 DEF ProgramsMatch, Shutdown, Stops, Live, RegistryTypeOK, RequestsAreFree, BootCovers
  <2>3. RequestsAreFree'
    BY <1>a, <1>2 DEF RequestsAreFree, Shutdown, Stops, Live, RegistryTypeOK, ProgramsMatch, Requests, Idle
  <2>4. BootCovers'
    BY <1>a, <1>2 DEF BootCovers, Shutdown, Stops, Live, RegistryTypeOK, ProgramsMatch, RequestsAreFree, Found
  <2>5. QED
    BY <2>1, <2>2, <2>3, <2>4 DEF ProgramsInv
<1>3. CASE MachineReboots
  <2>1. RegistryTypeOK'
    BY <1>a, <1>3 DEF RegistryTypeOK, MachineReboots, Listed, Snapshots, Processes, Requests, Saves
  <2>2. ProgramsMatch'
    BY <1>a, <1>3 DEF ProgramsMatch, MachineReboots, Listed, Snapshots, RegistryTypeOK, RequestsAreFree, BootCovers
  <2>3. RequestsAreFree'
    BY <1>a, <1>3 DEF RequestsAreFree, MachineReboots, Listed, Snapshots, RegistryTypeOK, ProgramsMatch, Requests, Idle
  <2>4. BootCovers'
    BY <1>a, <1>3 DEF BootCovers, MachineReboots, Listed, Snapshots, RegistryTypeOK, ProgramsMatch, RequestsAreFree, Found
  <2>5. QED
    BY <2>1, <2>2, <2>3, <2>4 DEF ProgramsInv
<1>4. QED
  BY <1>1, <1>2, <1>3

(* The boot finds every program before it restores.                          *)
LEMMA BootKeeps ==
  ASSUME ProgramsInv,
         BootBegins \/ RestoreBegins \/ RestoreConsumes \/ RestoreEnds
  PROVE  ProgramsInv'
<1>a. RegistryTypeOK /\ ProgramsMatch /\ RequestsAreFree /\ BootCovers
  BY DEF ProgramsInv
<1>1. CASE BootBegins
  <2>1. RegistryTypeOK'
    BY <1>a, <1>1 DEF RegistryTypeOK, BootBegins, Processes, Requests, Saves
  <2>2. ProgramsMatch'
    BY <1>a, <1>1 DEF ProgramsMatch, BootBegins, RegistryTypeOK, RequestsAreFree, BootCovers
  <2>3. RequestsAreFree'
    BY <1>a, <1>1 DEF RequestsAreFree, BootBegins, RegistryTypeOK, ProgramsMatch, Requests, Idle
  <2>4. BootCovers'
    BY <1>a, <1>1 DEF BootCovers, BootBegins, RegistryTypeOK, ProgramsMatch, RequestsAreFree, Found
  <2>5. QED
    BY <2>1, <2>2, <2>3, <2>4 DEF ProgramsInv
<1>2. CASE RestoreBegins
  <2>1. RegistryTypeOK'
    BY <1>a, <1>2 DEF RegistryTypeOK, RestoreBegins, Offered, Snapshots, Processes, Requests, Saves
  <2>2. ProgramsMatch'
    BY <1>a, <1>2 DEF ProgramsMatch, RestoreBegins, Offered, Snapshots, RegistryTypeOK, RequestsAreFree, BootCovers
  <2>3. RequestsAreFree'
    BY <1>a, <1>2 DEF RequestsAreFree, RestoreBegins, Offered, Snapshots, RegistryTypeOK, ProgramsMatch, Requests, Idle
  <2>4. BootCovers'
    BY <1>a, <1>2 DEF BootCovers, RestoreBegins, Offered, Snapshots, RegistryTypeOK, ProgramsMatch, RequestsAreFree, Found
  <2>5. QED
    BY <2>1, <2>2, <2>3, <2>4 DEF ProgramsInv
<1>3. CASE RestoreConsumes
  <2>1. RegistryTypeOK'
    BY <1>a, <1>3 DEF RegistryTypeOK, RestoreConsumes, Processes, Requests, Saves
  <2>2. ProgramsMatch'
    BY <1>a, <1>3 DEF ProgramsMatch, RestoreConsumes, RegistryTypeOK, RequestsAreFree, BootCovers
  <2>3. RequestsAreFree'
    BY <1>a, <1>3 DEF RequestsAreFree, RestoreConsumes, RegistryTypeOK, ProgramsMatch, Requests, Idle
  <2>4. BootCovers'
    BY <1>a, <1>3 DEF BootCovers, RestoreConsumes, RegistryTypeOK, ProgramsMatch, RequestsAreFree, Found
  <2>5. QED
    BY <2>1, <2>2, <2>3, <2>4 DEF ProgramsInv
<1>4. CASE RestoreEnds
  <2>1. RegistryTypeOK'
    BY <1>a, <1>4 DEF RegistryTypeOK, RestoreEnds, Processes, Requests, Saves
  <2>2. ProgramsMatch'
    BY <1>a, <1>4 DEF ProgramsMatch, RestoreEnds, RegistryTypeOK, RequestsAreFree, BootCovers
  <2>3. RequestsAreFree'
    BY <1>a, <1>4 DEF RequestsAreFree, RestoreEnds, RegistryTypeOK, ProgramsMatch, Requests, Idle
  <2>4. BootCovers'
    BY <1>a, <1>4 DEF BootCovers, RestoreEnds, RegistryTypeOK, ProgramsMatch, RequestsAreFree, Found
  <2>5. QED
    BY <2>1, <2>2, <2>3, <2>4 DEF ProgramsInv
<1>5. QED
  BY <1>1, <1>2, <1>3, <1>4

(* Recovering and restoring one number.                                     *)
LEMMA RecoverKeeps ==
  ASSUME ProgramsInv, NEW id \in Numbers,
         RecoverOne(id) \/ RestoreSkips(id) \/ RestoreOne(id)
  PROVE  ProgramsInv'
<1>a. RegistryTypeOK /\ ProgramsMatch /\ RequestsAreFree /\ BootCovers
  BY DEF ProgramsInv
<1>1. CASE RecoverOne(id)
  <2>1. /\ process = "recovering" /\ id \in todo /\ todo' = todo \ {id}
        /\ UNCHANGED <<process, programs, born, snap, metaFile, index, nextFile, closed, call, saving,
                       allow, safe, consuming, members, ghosts>>
    BY <1>1 DEF RecoverOne
  <2>2. \A c \in Creators : call[c] = Idle
    BY <1>a, <2>1 DEF RequestsAreFree
  <2>3. RequestsAreFree'
    BY <2>1, <2>2 DEF RequestsAreFree, Idle
  <2>4. CASE programs[id] = 0 /\ manifest' = manifest \ {id} /\ UNCHANGED <<owner, held, sessions, nextId, metas>>
    <3>1. RegistryTypeOK'
      BY <1>a, <2>1, <2>4 DEF RegistryTypeOK
    <3>2. ProgramsMatch'
      BY <1>a, <2>1, <2>4 DEF ProgramsMatch
    <3>3. BootCovers'
      BY <1>a, <2>1, <2>4 DEF BootCovers, Found
    <3>4. QED
      BY <2>3, <3>1, <3>2, <3>3 DEF ProgramsInv
  <2>5. CASE programs[id] > 0 /\ held' = held \cup {id} /\ UNCHANGED <<owner, manifest, sessions, nextId, metas>>
    <3>1. RegistryTypeOK'
      BY <1>a, <2>1, <2>5 DEF RegistryTypeOK
    <3>2. ProgramsMatch'
      BY <1>a, <2>1, <2>5 DEF ProgramsMatch
    <3>3. BootCovers'
      BY <1>a, <2>1, <2>5 DEF BootCovers, Found
    <3>4. QED
      BY <2>3, <3>1, <3>2, <3>3 DEF ProgramsInv
  <2>6. CASE /\ programs[id] > 0 /\ owner[id] = "none" /\ owner' = [owner EXCEPT ![id] = "us"]
             /\ sessions' = [sessions EXCEPT ![id] = born[id]]
             /\ nextId' = Larger(nextId, id + 1) /\ metas' = [metas EXCEPT ![id] = Meta(id)]
             /\ UNCHANGED <<manifest, held>>
    <3>1. id + 1 \in Nat /\ nextId' \in Nat /\ id \in Numbers
      BY <1>a, <2>6 DEF RegistryTypeOK, Larger, Numbers
    <3>2. metas' \in [Numbers -> SUBSET Nat]
      BY <1>a, <2>6 DEF RegistryTypeOK, Meta
    <3>3. born[id] \in Nat /\ born[id] # 0
      BY <1>a, <2>6 DEF RegistryTypeOK, ProgramsMatch
    <3>4. RegistryTypeOK'
      BY <1>a, <2>1, <2>6, <3>1, <3>2, <3>3 DEF RegistryTypeOK
    <3>5. ProgramsMatch'
      BY <1>a, <2>1, <2>6, <3>3 DEF ProgramsMatch, RegistryTypeOK
    <3>6. BootCovers'
      BY <1>a, <2>1, <2>6, <3>3 DEF BootCovers, Found, RegistryTypeOK
    <3>7. QED
      BY <2>3, <3>4, <3>5, <3>6 DEF ProgramsInv
  <2>7. QED
    BY <1>1, <2>4, <2>5, <2>6 DEF RecoverOne
<1>2. CASE RestoreSkips(id)
  <2>1. RegistryTypeOK'
    BY <1>a, <1>2 DEF RegistryTypeOK, RestoreSkips, Processes, Requests, Saves
  <2>2. ProgramsMatch'
    BY <1>a, <1>2 DEF ProgramsMatch, RestoreSkips, RegistryTypeOK, RequestsAreFree, BootCovers
  <2>3. RequestsAreFree'
    BY <1>a, <1>2 DEF RequestsAreFree, RestoreSkips, RegistryTypeOK, ProgramsMatch, Requests, Idle
  <2>4. BootCovers'
    BY <1>a, <1>2 DEF BootCovers, RestoreSkips, RegistryTypeOK, ProgramsMatch, RequestsAreFree, Found
  <2>5. QED
    BY <2>1, <2>2, <2>3, <2>4 DEF ProgramsInv
<1>3. CASE RestoreOne(id)
  <2>1. /\ process = "restoring" /\ id \in todo /\ snap[id] # 0 /\ sessions[id] = 0 /\ id \notin held
        /\ todo' = todo \ {id} /\ consuming' = id
        /\ UNCHANGED <<process, snap, index, nextFile, closed, held, call, saving, allow, safe, members,
                       births, boots, stray>>
    BY <1>3 DEF RestoreOne, ToRestore
  <2>2. id \in Numbers /\ programs[id] = 0
    BY <1>a, <2>1 DEF ProgramsMatch, BootCovers, Found
  <2>3. \A c \in Creators : call[c] = Idle
    BY <1>a, <2>1 DEF RequestsAreFree
  <2>4. RequestsAreFree'
    BY <2>1, <2>3 DEF RequestsAreFree, Idle
  <2>5. CASE /\ programs' = [programs EXCEPT ![id] = @ + 1] /\ born' = [born EXCEPT ![id] = snap[id]]
             /\ owner' = [owner EXCEPT ![id] = "us"] /\ manifest' = manifest \cup {id}
             /\ sessions' = [sessions EXCEPT ![id] = snap[id]] /\ nextId' = Larger(nextId, id + 1)
             /\ PutMeta(id, snap[id]) /\ UNCHANGED owed
    <3>1. id + 1 \in Nat /\ nextId' \in Nat /\ snap[id] \in Nat
      BY <1>a, <2>5 DEF RegistryTypeOK, Larger, Numbers
    <3>2. metas' \in [Numbers -> SUBSET Nat] /\ metaFile' \in [Numbers -> SUBSET Nat]
      BY <1>a, <2>5, <3>1 DEF RegistryTypeOK, PutMeta, Meta
    <3>a. /\ programs' \in [Numbers -> Int] /\ born' \in [Numbers -> Nat]
          /\ owner' \in [Numbers -> {"none", "us", "other"}] /\ sessions' \in [Numbers -> Nat]
      BY <1>a, <2>2, <2>5, <3>1 DEF RegistryTypeOK
    <3>b. manifest' \in SUBSET Numbers /\ todo' \in SUBSET Numbers /\ consuming' \in {0} \cup Numbers
      BY <1>a, <2>1, <2>2, <2>5 DEF RegistryTypeOK
    <3>3. RegistryTypeOK'
      BY <1>a, <2>1, <2>5, <3>1, <3>2, <3>a, <3>b DEF RegistryTypeOK
    <3>4. ProgramsMatch'
      BY <1>a, <2>1, <2>2, <2>5 DEF ProgramsMatch, RegistryTypeOK
    <3>5. BootCovers'
      BY <1>a, <2>1, <2>5 DEF BootCovers, Found, RegistryTypeOK
    <3>6. QED
      BY <2>4, <3>3, <3>4, <3>5 DEF ProgramsInv
  <2>6. CASE owed' = owed \ {id} /\ UNCHANGED <<world, manifest, sessions, nextId, metas, metaFile>>
    <3>1. RegistryTypeOK'
      BY <1>a, <2>1, <2>2, <2>6 DEF RegistryTypeOK
    <3>2. ProgramsMatch'
      BY <1>a, <2>1, <2>6 DEF ProgramsMatch
    <3>3. BootCovers'
      BY <1>a, <2>1, <2>6 DEF BootCovers, Found
    <3>4. QED
      BY <2>4, <3>1, <3>2, <3>3 DEF ProgramsInv
  <2>7. QED
    BY <1>3, <2>5, <2>6 DEF RestoreOne
<1>4. QED
  BY <1>1, <1>2, <1>3

(* At first there is nothing.                                               *)
LEMMA RegistryStarts == RegistryInit => ProgramsInv
<1> SUFFICES ASSUME RegistryInit  PROVE ProgramsInv
  OBVIOUS
<1>1. RegistryTypeOK
  BY DEF RegistryInit, RegistryTypeOK, Processes, Requests, Saves
<1>2. ProgramsMatch /\ BootCovers
  BY DEF RegistryInit, ProgramsMatch, BootCovers
<1>3. RequestsAreFree
  BY DEF RegistryInit, RequestsAreFree, Idle
<1>4. QED
  BY <1>1, <1>2, <1>3 DEF ProgramsInv

(* Every step keeps the invariant.                                          *)
LEMMA RegistryKeeps ==
  ASSUME OneRequest
  PROVE  ProgramsInv /\ [RegistryNext]_registryVars => ProgramsInv'
<1> SUFFICES ASSUME ProgramsInv, [RegistryNext]_registryVars  PROVE ProgramsInv'
  OBVIOUS
<1>1. CASE UNCHANGED registryVars
  BY <1>1 DEF registryVars, ProgramsInv, RegistryTypeOK, ProgramsMatch, RequestsAreFree, BootCovers, Found
<1>2. CASE Registers
  BY <1>2, RegisterKeeps DEF Registers
<1>3. QED
  BY <1>1, <1>2, SessionKeeps, EndingKeeps, BootKeeps, RecoverKeeps, Zenon DEF RegistryNext

(* No number ever has two programs, however often servers stop, machines go down   *)
(* and other servers take sessions over: a boot restores only what no program      *)
(* runs under, and a new session gets a number nothing is left under (allocateId,   *)
(* recoverOne, restoreFromSnapshots).                                        *)
THEOREM RegistryOneProgramPerId ==
  ASSUME OneRequest
  PROVE  RegistrySpec => []OneProgramPerId
<1>1. ProgramsInv => OneProgramPerId
  BY DEF ProgramsInv, ProgramsMatch, OneProgramPerId
<1>2. QED
  BY <1>1, RegistryStarts, RegistryKeeps, PTL DEF RegistrySpec

-----------------------------------------------------------------------------
(* Whose files are whose.                                                   *)

(* The births that something of a number tells of.                            *)
Marks(id) ==
  metaFile[id] \cup metas[id] \cup ({snap[id], sessions[id]} \ {0})
    \cup (IF programs[id] # 0 THEN {born[id]} ELSE {})

(* All that a number has left tells of one birth, and so does what a save brings.  *)
MarksAgree ==
  \A id \in Numbers \ stray :
    /\ \A a, b \in Marks(id) : a = b
    /\ metas[id] \in {{}, metaFile[id]}

(* A number a request may settle on has nothing left of anybody.               *)
NewAreClean ==
  \A c \in Creators :
    /\ call[c].at = "picks" =>
         \A id \in Numbers \ (call[c].files \cup stray) : sessions[id] = 0 => Marks(id) = {}
    /\ call[c].at = "spawns" => call[c].id \in stray \/ Marks(call[c].id) = {}

SavesHaveBirths == \A id \in Numbers : saving[id] # Idle => saving[id].birth # 0

FilesInv == MarksAgree /\ NewAreClean /\ SavesHaveBirths

(* Marks that only go keep the files apart, and so does what is added to strays.    *)
LEMMA AgreeKept ==
  ASSUME MarksAgree, stray \subseteq stray',
         \A n \in Numbers \ stray' : Marks(n)' \subseteq Marks(n) /\ metas'[n] \in {{}, metaFile'[n]}
  PROVE  MarksAgree'
<1>1. ASSUME NEW n \in Numbers \ stray'
      PROVE  /\ \A a, b \in Marks(n)' : a = b
             /\ metas'[n] \in {{}, metaFile'[n]}
  <2>1. \A a, b \in Marks(n) : a = b
    BY <1>1 DEF MarksAgree
  <2>2. Marks(n)' \subseteq Marks(n) /\ metas'[n] \in {{}, metaFile'[n]}
    BY <1>1
  <2>3. QED
    BY <2>1, <2>2
<1>2. QED
  BY <1>1 DEF MarksAgree

(* A number a request may settle on stays clean as long as marks come to numbers    *)
(* with a session only, and a session that goes leaves none.                    *)
LEMMA CleanKept ==
  ASSUME NewAreClean, RequestsAreFree, stray \subseteq stray', call' = call,
         \A n \in Numbers \ stray' : sessions[n] = 0 => Marks(n)' \subseteq Marks(n),
         \A n \in Numbers \ stray' :
           (\E c \in Creators : call[c].at = "picks") /\ sessions[n] # 0 /\ sessions'[n] = 0
             => Marks(n)' = {}
  PROVE  NewAreClean'
<1> SUFFICES ASSUME NEW c \in Creators
             PROVE  /\ call[c].at = "picks" =>
                         \A n \in Numbers \ (call[c].files \cup stray') :
                           sessions'[n] = 0 => Marks(n)' = {}
                    /\ call[c].at = "spawns" => call[c].id \in stray' \/ Marks(call[c].id)' = {}
  BY DEF NewAreClean
<1>1. ASSUME call[c].at = "picks", NEW n \in Numbers \ (call[c].files \cup stray'), sessions'[n] = 0
      PROVE  Marks(n)' = {}
  <2>1. n \in Numbers \ stray' /\ n \in Numbers \ (call[c].files \cup stray)
    BY <1>1
  <2>2. CASE sessions[n] = 0
    <3>1. Marks(n) = {} /\ Marks(n)' \subseteq Marks(n)
      BY <1>1, <2>1, <2>2 DEF NewAreClean
    <3>2. QED
      BY <3>1
  <2>3. CASE sessions[n] # 0
    BY <1>1, <2>1, <2>3
  <2>4. QED
    BY <2>2, <2>3
<1>2. ASSUME call[c].at = "spawns", call[c].id \notin stray'
      PROVE  Marks(call[c].id)' = {}
  <2>1. call[c].id \in Numbers /\ sessions[call[c].id] = 0 /\ call[c].id \notin stray
    BY <1>2 DEF RequestsAreFree
  <2>2. Marks(call[c].id) = {} /\ Marks(call[c].id)' \subseteq Marks(call[c].id)
    BY <1>2, <2>1 DEF NewAreClean
  <2>3. QED
    BY <2>2
<1>3. QED
  BY <1>1, <1>2

(* What touches no file, session or program leaves all this as it is.            *)
LEMMA FilesUntouched ==
  ASSUME FilesInv,
         UNCHANGED <<metaFile, metas, snap, sessions, programs, born, call, saving, stray>>
  PROVE  FilesInv'
BY DEF FilesInv, MarksAgree, NewAreClean, SavesHaveBirths, Marks

(* Where no request is under way there is nothing to keep clean.                 *)
LEMMA IdleIsClean ==
  ASSUME \A c \in Creators : call'[c] = Idle
  PROVE  NewAreClean'
BY DEF NewAreClean, Idle

(* The session's birth, the snapshot's and that of the running program are marks,    *)
(* and so is what the meta says.                                             *)
LEMMA AreMarks ==
  ASSUME NEW n \in Numbers
  PROVE  /\ sessions[n] # 0 => sessions[n] \in Marks(n)
         /\ snap[n] # 0 => snap[n] \in Marks(n)
         /\ programs[n] # 0 => born[n] \in Marks(n)
         /\ metas[n] \subseteq Marks(n) /\ metaFile[n] \subseteq Marks(n) /\ Meta(n) \subseteq Marks(n)
BY DEF Marks, Meta

(* A request to create takes a number with nothing left of anybody.              *)
LEMMA RegisterFiles ==
  ASSUME OneRequest, ProgramsInv, FilesInv, NEW c \in Creators,
         CreateReads(c) \/ CreatePicks(c) \/ CreateSpawns(c) \/ CreateConnects(c) \/ CreateFails(c)
  PROVE  FilesInv'
<1>a. /\ RegistryTypeOK /\ ProgramsMatch /\ RequestsAreFree
      /\ MarksAgree /\ NewAreClean /\ SavesHaveBirths
  BY DEF ProgramsInv, FilesInv
<1>b. \A d \in Creators : d = c
  BY DEF OneRequest
<1>1. CASE CreateReads(c)
  <2>1. /\ call' = [call EXCEPT ![c] = [at |-> "picks", files |-> Traces]]
        /\ UNCHANGED <<metaFile, metas, snap, sessions, programs, born, saving, stray>>
    BY <1>1 DEF CreateReads
  <2>2. MarksAgree' /\ SavesHaveBirths'
    BY <1>a, <2>1 DEF MarksAgree, SavesHaveBirths, Marks
  <2>3. ASSUME NEW n \in Numbers \ (Traces \cup stray), sessions[n] = 0  PROVE Marks(n)' = {}
    <3>1. n \notin manifest /\ snap[n] = 0 /\ metaFile[n] = {}
      BY <2>3 DEF Traces, Snapshots
    <3>2. programs[n] = 0 /\ metas[n] = {}
      BY <1>a, <2>3, <3>1 DEF ProgramsMatch, MarksAgree
    <3>3. QED
      BY <2>1, <2>3, <3>1, <3>2 DEF Marks
  <2>4. call'[c].at = "picks" /\ call'[c].files = Traces
    BY <1>a, <2>1 DEF RegistryTypeOK
  <2> HIDE DEF Traces
  <2>5. NewAreClean'
    BY <1>b, <2>1, <2>3, <2>4 DEF NewAreClean
  <2>6. QED
    BY <2>2, <2>5 DEF FilesInv
<1>2. CASE CreatePicks(c)
  <2> DEFINE files == call[c].files
             id == PickSessionId(nextId, Taken(files))
  <2>1. id \in Numbers \ Taken(files) /\ call[c].at = "picks"
    BY <1>a, <1>2, PicksFree
  <2>2. /\ call' = [call EXCEPT ![c] = [at |-> "spawns", id |-> id]]
        /\ UNCHANGED <<metaFile, metas, snap, sessions, programs, born, saving, stray>>
    BY <1>2 DEF CreatePicks
  <2> HIDE DEF id
  <2>3. MarksAgree' /\ SavesHaveBirths'
    BY <1>a, <2>2 DEF MarksAgree, SavesHaveBirths, Marks
  <2>4. id \in Numbers /\ id \notin files /\ sessions[id] = 0
    BY <2>1 DEF Taken
  <2>5. id \in stray \/ Marks(id) = {}
    BY <1>a, <2>1, <2>4 DEF NewAreClean
  <2>6. \A n \in Numbers : n = id => n \in stray' \/ Marks(n)' = {}
    BY <2>2, <2>5 DEF Marks
  <2>7. call'[c].at = "spawns" /\ call'[c].id = id
    BY <1>a, <2>2 DEF RegistryTypeOK
  <2>8. NewAreClean'
    BY <1>b, <2>4, <2>6, <2>7 DEF NewAreClean
  <2>9. QED
    BY <2>3, <2>8 DEF FilesInv
<1>3. CASE CreateSpawns(c)
  <2> DEFINE id == call[c].id
  <2>1. /\ call[c].at = "spawns"
        /\ programs' = [programs EXCEPT ![id] = @ + 1] /\ born' = [born EXCEPT ![id] = births + 1]
        /\ call' = [call EXCEPT ![c] = [at |-> "connects", id |-> id]]
        /\ UNCHANGED <<metaFile, metas, snap, sessions, saving, stray>>
    BY <1>3 DEF CreateSpawns
  <2>2. id \in Numbers /\ (id \in stray \/ Marks(id) = {})
    BY <1>a, <2>1 DEF RequestsAreFree, NewAreClean
  <2>3. call'[c].at = "connects"
    BY <1>a, <2>1 DEF RegistryTypeOK
  <2>4. NewAreClean' /\ SavesHaveBirths'
    BY <1>a, <1>b, <2>1, <2>3 DEF NewAreClean, SavesHaveBirths
  <2> HIDE DEF id
  <2>5. ASSUME NEW n \in Numbers \ stray'
        PROVE  /\ \A a, b \in Marks(n)' : a = b
               /\ metas'[n] \in {{}, metaFile'[n]}
    <3>1. CASE n = id
      <4>1. metaFile[n] = {} /\ metas[n] = {} /\ snap[n] = 0 /\ sessions[n] = 0
        BY <2>1, <2>2, <2>5, <3>1 DEF Marks
      <4>2. Marks(n)' \subseteq {born'[n]}
        BY <2>1, <4>1 DEF Marks
      <4>3. QED
        BY <2>1, <4>1, <4>2
    <3>2. CASE n # id
      <4>1. programs'[n] = programs[n] /\ born'[n] = born[n]
        BY <1>a, <2>1, <2>5, <3>2 DEF RegistryTypeOK
      <4>2. Marks(n)' = Marks(n)
        BY <2>1, <4>1 DEF Marks
      <4>3. QED
        BY <1>a, <2>1, <2>5, <4>2 DEF MarksAgree
    <3>3. QED
      BY <3>1, <3>2
  <2>6. MarksAgree'
    BY <2>5 DEF MarksAgree
  <2>7. QED
    BY <2>4, <2>6 DEF FilesInv
<1>4. CASE CreateConnects(c)
  <2> DEFINE id == call[c].id
  <2>1. /\ call[c].at = "connects" /\ programs[id] > 0
        /\ sessions' = [sessions EXCEPT ![id] = born[id]]
        /\ metas' = [metas EXCEPT ![id] = Meta(id) \cup {born[id]}]
        /\ metaFile' = [metaFile EXCEPT ![id] = Meta(id) \cup {born[id]}]
        /\ call' = [call EXCEPT ![c] = Idle]
        /\ UNCHANGED <<snap, programs, born, saving, stray>>
    BY <1>4 DEF CreateConnects, PutMeta
  <2>2. id \in Numbers
    BY <1>a, <2>1 DEF RequestsAreFree
  <2>3. \A d \in Creators : call'[d] = Idle
    BY <1>a, <1>b, <2>1 DEF RegistryTypeOK
  <2> HIDE DEF id
  <2>4. born[id] \in Marks(id) /\ Meta(id) \subseteq Marks(id)
    BY <1>a, <2>1, <2>2, AreMarks DEF RegistryTypeOK
  <2>5. ASSUME NEW n \in Numbers \ stray'
        PROVE  Marks(n)' \subseteq Marks(n) /\ metas'[n] \in {{}, metaFile'[n]}
    <3>1. CASE n = id
      <4>1. /\ metas'[n] = Meta(id) \cup {born[id]} /\ metaFile'[n] = Meta(id) \cup {born[id]}
            /\ sessions'[n] = born[id]
        BY <1>a, <2>1, <2>2, <3>1 DEF RegistryTypeOK
      <4>2. QED
        BY <2>1, <2>4, <3>1, <4>1 DEF Marks
    <3>2. CASE n # id
      <4>1. metas'[n] = metas[n] /\ metaFile'[n] = metaFile[n] /\ sessions'[n] = sessions[n]
        BY <1>a, <2>1, <2>5, <3>2 DEF RegistryTypeOK
      <4>2. QED
        BY <1>a, <2>1, <2>5, <4>1 DEF MarksAgree, Marks
    <3>3. QED
      BY <3>1, <3>2
  <2>6. MarksAgree'
    BY <1>a, <2>1, <2>5, AgreeKept
  <2>7. QED
    BY <1>a, <2>1, <2>3, <2>6, IdleIsClean DEF FilesInv, SavesHaveBirths
<1>5. CASE CreateFails(c)
  <2>1. /\ call' = [call EXCEPT ![c] = Idle]
        /\ UNCHANGED <<metaFile, metas, snap, sessions, programs, born, saving, stray>>
    BY <1>5 DEF CreateFails
  <2>2. \A d \in Creators : call'[d] = Idle
    BY <1>a, <1>b, <2>1 DEF RegistryTypeOK
  <2>3. MarksAgree' /\ SavesHaveBirths'
    BY <1>a, <2>1 DEF MarksAgree, SavesHaveBirths, Marks
  <2>4. QED
    BY <2>2, <2>3, IdleIsClean DEF FilesInv
<1>6. QED
  BY <1>1, <1>2, <1>3, <1>4, <1>5

(* So does what becomes of a session: a save that outlives its session leaves       *)
(* strays, and nothing else gets a mark that is not its own.                    *)
LEMMA SessionFiles ==
  ASSUME ProgramsInv, FilesInv, NEW id \in Numbers,
         \/ Joins(id) \/ Leaves(id) \/ Destroy(id) \/ Exits(id) \/ Forgets(id) \/ SaveBegins(id)
         \/ SaveNotesCwd(id) \/ SaveWrites(id) \/ Sweeps(id) \/ OtherClaims(id) \/ OtherLeaves(id)
  PROVE  FilesInv'
<1>a. /\ RegistryTypeOK /\ ProgramsMatch /\ RequestsAreFree
      /\ MarksAgree /\ NewAreClean /\ SavesHaveBirths
  BY DEF ProgramsInv, FilesInv
<1>1. CASE Joins(id) \/ Leaves(id) \/ OtherClaims(id) \/ OtherLeaves(id)
  <2>1. UNCHANGED <<metaFile, metas, snap, sessions, programs, born, call, saving, stray>>
    BY <1>1 DEF Joins, Leaves, OtherClaims, OtherLeaves, ghosts
  <2>2. QED
    BY <2>1, FilesUntouched
<1>2. CASE Destroy(id)
  <2>1. /\ metas' = [metas EXCEPT ![id] = {}] /\ metaFile' = [metaFile EXCEPT ![id] = {}]
        /\ snap' = [snap EXCEPT ![id] = 0] /\ sessions' = [sessions EXCEPT ![id] = 0]
        /\ programs' \in [Numbers -> Int] /\ programs'[id] = 0
        /\ \A n \in Numbers \ {id} : programs'[n] = programs[n]
        /\ UNCHANGED <<born, call, saving, stray>>
    BY <1>a, <1>2 DEF Destroy, RegistryTypeOK, ProgramsMatch
  <2>2. Marks(id)' = {} /\ metas'[id] = {}
    BY <1>a, <2>1 DEF Marks, RegistryTypeOK
  <2>3. \A n \in Numbers \ {id} : /\ metas'[n] = metas[n] /\ metaFile'[n] = metaFile[n]
                                  /\ sessions'[n] = sessions[n] /\ Marks(n)' = Marks(n)
    BY <1>a, <2>1 DEF Marks, RegistryTypeOK
  <2>4. \A n \in Numbers \ stray' : Marks(n)' \subseteq Marks(n) /\ metas'[n] \in {{}, metaFile'[n]}
    BY <1>a, <2>1, <2>2, <2>3 DEF MarksAgree
  <2>5. MarksAgree'
    BY <1>a, <2>1, <2>4, AgreeKept
  <2>6. NewAreClean'
    BY <1>a, <2>1, <2>2, <2>3, <2>4, CleanKept
  <2>7. QED
    BY <1>a, <2>1, <2>5, <2>6 DEF FilesInv, SavesHaveBirths
<1>3. CASE Exits(id)
  <2>1. /\ programs'[id] = 0 /\ \A n \in Numbers \ {id} : programs'[n] = programs[n]
        /\ UNCHANGED <<metaFile, metas, snap, sessions, born, call, saving, stray>>
    BY <1>a, <1>3 DEF Exits, RegistryTypeOK, ProgramsMatch
  <2>2. \A n \in Numbers : Marks(n)' \subseteq Marks(n)
    BY <2>1 DEF Marks
  <2>3. MarksAgree'
    BY <1>a, <2>1, <2>2, AgreeKept DEF MarksAgree
  <2>4. NewAreClean'
    BY <1>a, <2>1, <2>2, CleanKept
  <2>5. QED
    BY <1>a, <2>1, <2>3, <2>4 DEF FilesInv, SavesHaveBirths
<1>4. CASE Forgets(id)
  <2>1. /\ sessions' = [sessions EXCEPT ![id] = 0]
        /\ \A c \in Creators : call[c].at # "picks"
        /\ UNCHANGED <<metaFile, metas, snap, programs, born, call, saving, stray>>
    BY <1>4 DEF Forgets
  <2>2. \A n \in Numbers : sessions'[n] \in {0, sessions[n]}
    BY <1>a, <2>1 DEF RegistryTypeOK
  <2>3. \A n \in Numbers : Marks(n)' \subseteq Marks(n)
    BY <2>1, <2>2 DEF Marks
  <2>4. MarksAgree'
    BY <1>a, <2>1, <2>3, AgreeKept DEF MarksAgree
  <2>5. NewAreClean'
    BY <1>a, <2>1, <2>3, CleanKept
  <2>6. QED
    BY <1>a, <2>1, <2>4, <2>5 DEF FilesInv, SavesHaveBirths
<1>5. CASE SaveBegins(id)
  <2>1. /\ sessions[id] # 0 /\ metas' = [metas EXCEPT ![id] = Meta(id)]
        /\ saving' = [saving EXCEPT ![id] = [at |-> "cwd", birth |-> sessions[id]]]
        /\ UNCHANGED <<metaFile, snap, sessions, programs, born, call, stray>>
    BY <1>5 DEF SaveBegins, Live
  <2>2. SavesHaveBirths'
    BY <1>a, <2>1 DEF SavesHaveBirths, RegistryTypeOK
  <2>3. \A n \in Numbers \ {id} : metas'[n] = metas[n]
    BY <1>a, <2>1 DEF RegistryTypeOK
  <2>4. metas'[id] = Meta(id) /\ Meta(id) \subseteq Marks(id)
    BY <1>a, <2>1, AreMarks DEF RegistryTypeOK
  <2>5. \A n \in Numbers : Marks(n)' \subseteq Marks(n)
    BY <2>1, <2>3, <2>4 DEF Marks
  <2>6. \A n \in Numbers \ stray' : metas'[n] \in {{}, metaFile'[n]}
    BY <1>a, <2>1, <2>3, <2>4 DEF MarksAgree, Meta
  <2>7. MarksAgree'
    BY <1>a, <2>1, <2>5, <2>6, AgreeKept
  <2>8. NewAreClean'
    BY <1>a, <2>1, <2>5, CleanKept
  <2>9. QED
    BY <2>2, <2>7, <2>8 DEF FilesInv
<1>6. CASE SaveNotesCwd(id)
  <2>1. /\ saving[id].at = "cwd" /\ saving' = [saving EXCEPT ![id].at = "writes"]
        /\ stray \subseteq stray'
        /\ UNCHANGED <<snap, sessions, programs, born, call>>
    BY <1>6 DEF SaveNotesCwd, Strayed
  <2>2. SavesHaveBirths'
    <3>1. saving[id] \in Saves /\ saving[id] # Idle
      BY <1>a, <2>1 DEF RegistryTypeOK, Idle
    <3>2. saving'[id].birth = saving[id].birth
      BY <1>a, <2>1, <3>1 DEF RegistryTypeOK, Saves
    <3>3. \A n \in Numbers \ {id} : saving'[n] = saving[n]
      BY <1>a, <2>1 DEF RegistryTypeOK
    <3>4. QED
      BY <1>a, <3>1, <3>2, <3>3 DEF SavesHaveBirths
  <2>3. CASE UNCHANGED <<metas, metaFile, stray>>
    <3>1. \A n \in Numbers : Marks(n)' = Marks(n)
      BY <2>1, <2>3 DEF Marks
    <3>2. MarksAgree' /\ NewAreClean'
      BY <1>a, <2>1, <2>3, <3>1 DEF MarksAgree, NewAreClean, RequestsAreFree
    <3>3. QED
      BY <2>2, <3>2 DEF FilesInv
  <2>4. CASE PutMeta(id, saving[id].birth) /\ stray' = Strayed(id)
    <3> DEFINE b == saving[id].birth
    <3>1. saving[id] # Idle
      BY <2>1 DEF Idle
    <3>2. id \notin stray' => sessions[id] = b /\ b # 0
      BY <1>a, <2>4, <3>1 DEF Strayed, SavesHaveBirths
    <3>3. /\ metas' = [metas EXCEPT ![id] = Meta(id) \cup {b}]
          /\ metaFile' = [metaFile EXCEPT ![id] = Meta(id) \cup {b}]
      BY <2>4 DEF PutMeta
    <3> HIDE DEF b
    <3>4. \A n \in Numbers \ {id} : metas'[n] = metas[n] /\ metaFile'[n] = metaFile[n]
      BY <1>a, <3>3 DEF RegistryTypeOK
    <3>5. metas'[id] = Meta(id) \cup {b} /\ metaFile'[id] = Meta(id) \cup {b}
      BY <1>a, <3>3 DEF RegistryTypeOK
    <3>6. Meta(id) \subseteq Marks(id) /\ (sessions[id] # 0 => sessions[id] \in Marks(id))
      BY AreMarks
    <3>7. id \notin stray' => Marks(id)' \subseteq Marks(id)
      BY <2>1, <3>2, <3>5, <3>6 DEF Marks
    <3>8. \A n \in Numbers \ {id} : Marks(n)' = Marks(n)
      BY <2>1, <3>4 DEF Marks
    <3>9. \A n \in Numbers \ stray' : Marks(n)' \subseteq Marks(n) /\ metas'[n] \in {{}, metaFile'[n]}
      BY <1>a, <2>1, <3>4, <3>5, <3>7, <3>8 DEF MarksAgree
    <3>10. MarksAgree'
      BY <1>a, <2>1, <3>9, AgreeKept
    <3>11. NewAreClean'
      BY <1>a, <2>1, <3>9, CleanKept
    <3>12. QED
      BY <2>2, <3>10, <3>11 DEF FilesInv
  <2>5. QED
    BY <1>6, <2>3, <2>4 DEF SaveNotesCwd
<1>7. CASE SaveWrites(id)
  <2>1. /\ saving[id].at = "writes" /\ saving' = [saving EXCEPT ![id] = Idle]
        /\ stray \subseteq stray'
        /\ UNCHANGED <<metas, metaFile, sessions, programs, born, call>>
    BY <1>7 DEF SaveWrites, Strayed
  <2>2. SavesHaveBirths'
    BY <1>a, <2>1 DEF SavesHaveBirths, RegistryTypeOK
  <2>3. saving[id] # Idle
    BY <2>1 DEF Idle
  <2>4. \A n \in Numbers \ {id} : snap'[n] = snap[n]
    BY <1>a, <1>7 DEF SaveWrites, RegistryTypeOK
  <2>5. id \notin stray' => snap'[id] \in {snap[id], sessions[id]}
    BY <1>a, <1>7 DEF SaveWrites, RegistryTypeOK, Strayed
  <2>6. \A n \in Numbers \ stray' : Marks(n)' \subseteq Marks(n)
    BY <2>1, <2>4, <2>5 DEF Marks
  <2>7. MarksAgree'
    BY <1>a, <2>1, <2>6, AgreeKept DEF MarksAgree
  <2>8. NewAreClean'
    BY <1>a, <2>1, <2>6, CleanKept
  <2>9. QED
    BY <2>2, <2>7, <2>8 DEF FilesInv
<1>8. CASE Sweeps(id)
  <2>1. /\ stray \subseteq stray' /\ (metas[id] # {} => id \in stray')
        /\ \A n \in Numbers : snap'[n] \in {0, snap[n]} /\ metaFile'[n] \in {{}, metaFile[n]}
        /\ \A n \in Numbers \ {id} : metaFile'[n] = metaFile[n]
        /\ UNCHANGED <<metas, sessions, programs, born, call, saving>>
    BY <1>a, <1>8 DEF Sweeps, RegistryTypeOK
  <2>2. \A n \in Numbers : Marks(n)' \subseteq Marks(n)
    BY <2>1 DEF Marks
  <2>3. \A n \in Numbers \ stray' : metas'[n] \in {{}, metaFile'[n]}
    BY <1>a, <2>1 DEF MarksAgree
  <2>4. MarksAgree'
    BY <1>a, <2>1, <2>2, <2>3, AgreeKept
  <2>5. NewAreClean'
    BY <1>a, <2>1, <2>2, CleanKept
  <2>6. QED
    BY <1>a, <2>1, <2>4, <2>5 DEF FilesInv, SavesHaveBirths
<1>9. QED
  BY <1>1, <1>2, <1>3, <1>4, <1>5, <1>6, <1>7, <1>8

(* So do the ends of the server and the machine: a shutdown writes the live         *)
(* sessions' own snapshots.                                                  *)
LEMMA EndingFiles ==
  ASSUME ProgramsInv, FilesInv, Crash \/ Shutdown \/ MachineReboots
  PROVE  FilesInv'
<1>a. RegistryTypeOK /\ ProgramsMatch /\ MarksAgree /\ NewAreClean /\ SavesHaveBirths
  BY DEF ProgramsInv, FilesInv
<1>1. CASE Crash \/ Shutdown
  <2>1. /\ sessions' = [n \in Numbers |-> 0] /\ metas' = [n \in Numbers |-> {}]
        /\ call' = [c \in Creators |-> Idle] /\ saving' = [n \in Numbers |-> Idle]
        /\ UNCHANGED <<metaFile, programs, born, stray>>
    BY <1>1 DEF Crash, Shutdown, Stops
  <2>2. \A n \in Numbers : snap'[n] \in {snap[n], sessions[n]}
    BY <1>a, <1>1 DEF Crash, Shutdown, RegistryTypeOK
  <2>3. \A n \in Numbers : Marks(n)' \subseteq Marks(n) /\ metas'[n] = {}
    BY <2>1, <2>2 DEF Marks
  <2>4. MarksAgree'
    BY <1>a, <2>1, <2>3, AgreeKept
  <2>5. SavesHaveBirths' /\ NewAreClean'
    BY <2>1, IdleIsClean DEF SavesHaveBirths
  <2>6. QED
    BY <2>4, <2>5 DEF FilesInv
<1>2. CASE MachineReboots
  <2>1. /\ programs' = [n \in Numbers |-> 0] /\ process = "down"
        /\ UNCHANGED <<metaFile, metas, snap, sessions, born, call, saving, stray>>
    BY <1>2 DEF MachineReboots
  <2>2. \A n \in Numbers : Marks(n)' \subseteq Marks(n)
    BY <2>1 DEF Marks
  <2>3. MarksAgree'
    BY <1>a, <2>1, <2>2, AgreeKept DEF MarksAgree
  <2>4. \A c \in Creators : call'[c] = Idle
    BY <2>1 DEF ProgramsInv, RequestsAreFree
  <2>5. QED
    BY <1>a, <2>1, <2>3, <2>4, IdleIsClean DEF FilesInv, SavesHaveBirths
<1>3. QED
  BY <1>1, <1>2

(* So does the boot: what it restores has the birth of its snapshot.              *)
LEMMA BootFiles ==
  ASSUME ProgramsInv, FilesInv,
         \/ BootBegins \/ RestoreBegins \/ RestoreConsumes \/ RestoreEnds
         \/ \E id \in Numbers : RecoverOne(id) \/ RestoreSkips(id) \/ RestoreOne(id)
  PROVE  FilesInv'
<1>a. RegistryTypeOK /\ ProgramsMatch /\ MarksAgree /\ NewAreClean /\ SavesHaveBirths
  BY DEF ProgramsInv, FilesInv
<1>1. CASE BootBegins \/ RestoreBegins \/ RestoreEnds \/ \E id \in Numbers : RestoreSkips(id)
  <2>1. UNCHANGED <<metaFile, metas, snap, sessions, programs, born, call, saving, stray>>
    BY <1>1 DEF BootBegins, RestoreBegins, RestoreEnds, RestoreSkips
  <2>2. QED
    BY <2>1, FilesUntouched
<1>2. CASE RestoreConsumes
  <2>1. /\ process = "restoring" /\ snap' = [snap EXCEPT ![consuming] = 0]
        /\ UNCHANGED <<metaFile, metas, sessions, programs, born, call, saving, stray>>
    BY <1>2 DEF RestoreConsumes
  <2>2. \A n \in Numbers : snap'[n] \in {0, snap[n]}
    BY <1>a, <2>1 DEF RegistryTypeOK
  <2>3. \A n \in Numbers : Marks(n)' \subseteq Marks(n)
    BY <2>1, <2>2 DEF Marks
  <2>4. MarksAgree'
    BY <1>a, <2>1, <2>3, AgreeKept DEF MarksAgree
  <2>5. \A c \in Creators : call'[c] = Idle
    BY <2>1 DEF ProgramsInv, RequestsAreFree
  <2>6. QED
    BY <1>a, <2>1, <2>4, <2>5, IdleIsClean DEF FilesInv, SavesHaveBirths
<1>3. ASSUME NEW id \in Numbers, RecoverOne(id)  PROVE FilesInv'
  <2>1. /\ process = "recovering" /\ UNCHANGED <<metaFile, snap, programs, born, call, saving, stray>>
        /\ \/ UNCHANGED <<sessions, metas>>
           \/ /\ programs[id] > 0 /\ sessions' = [sessions EXCEPT ![id] = born[id]]
              /\ metas' = [metas EXCEPT ![id] = Meta(id)]
    BY <1>3 DEF RecoverOne
  <2>2. \A n \in Numbers \ {id} : sessions'[n] = sessions[n] /\ metas'[n] = metas[n]
    BY <1>a, <2>1 DEF RegistryTypeOK
  <2>3. /\ sessions'[id] = sessions[id] \/ sessions'[id] \in Marks(id)
        /\ metas'[id] = metas[id] \/ metas'[id] = Meta(id)
    BY <1>a, <2>1, AreMarks DEF RegistryTypeOK
  <2>4. Meta(id) \subseteq Marks(id)
    BY AreMarks
  <2>5. Marks(id)' \subseteq Marks(id)
    BY <2>1, <2>3, <2>4 DEF Marks
  <2>6. \A n \in Numbers \ {id} : Marks(n)' \subseteq Marks(n)
    BY <2>1, <2>2 DEF Marks
  <2>7. \A n \in Numbers \ stray' : metas'[n] \in {{}, metaFile'[n]}
    BY <1>a, <2>1, <2>2, <2>3 DEF MarksAgree, Meta
  <2>8. MarksAgree'
    BY <1>a, <2>1, <2>5, <2>6, <2>7, AgreeKept
  <2>9. \A c \in Creators : call'[c] = Idle
    BY <2>1 DEF ProgramsInv, RequestsAreFree
  <2>10. QED
    BY <1>a, <2>1, <2>8, <2>9, IdleIsClean DEF FilesInv, SavesHaveBirths
<1>4. ASSUME NEW id \in Numbers, RestoreOne(id)  PROVE FilesInv'
  <2>1. process = "restoring" /\ snap[id] # 0 /\ UNCHANGED <<snap, call, saving, stray>>
    BY <1>4 DEF RestoreOne, ToRestore
  <2>2. \A c \in Creators : call'[c] = Idle
    BY <2>1 DEF ProgramsInv, RequestsAreFree
  <2>3. CASE UNCHANGED <<world, sessions, metas, metaFile>>
    BY <2>1, <2>3, FilesUntouched
  <2>4. CASE /\ programs' = [programs EXCEPT ![id] = @ + 1] /\ born' = [born EXCEPT ![id] = snap[id]]
             /\ sessions' = [sessions EXCEPT ![id] = snap[id]] /\ PutMeta(id, snap[id])
    <3>1. \A n \in Numbers \ {id} :
            /\ programs'[n] = programs[n] /\ born'[n] = born[n] /\ sessions'[n] = sessions[n]
            /\ metas'[n] = metas[n] /\ metaFile'[n] = metaFile[n]
      BY <1>a, <2>4 DEF RegistryTypeOK, PutMeta
    <3>2. /\ born'[id] = snap[id] /\ sessions'[id] = snap[id]
          /\ metas'[id] = Meta(id) \cup {snap[id]} /\ metaFile'[id] = Meta(id) \cup {snap[id]}
      BY <1>a, <2>4 DEF RegistryTypeOK, PutMeta
    <3>3. snap[id] \in Marks(id) /\ Meta(id) \subseteq Marks(id)
      BY <2>1, AreMarks
    <3>4. Marks(id)' \subseteq Marks(id)
      BY <2>1, <3>2, <3>3 DEF Marks
    <3>5. \A n \in Numbers \ {id} : Marks(n)' \subseteq Marks(n)
      BY <2>1, <3>1 DEF Marks
    <3>6. \A n \in Numbers \ stray' : metas'[n] \in {{}, metaFile'[n]}
      BY <1>a, <2>1, <3>1, <3>2 DEF MarksAgree
    <3>7. MarksAgree'
      BY <1>a, <2>1, <3>4, <3>5, <3>6, AgreeKept
    <3>8. QED
      BY <1>a, <2>1, <2>2, <3>7, IdleIsClean DEF FilesInv, SavesHaveBirths
  <2>5. QED
    BY <1>4, <2>3, <2>4 DEF RestoreOne
<1>5. QED
  BY <1>1, <1>2, <1>3, <1>4

(* Every step keeps the files apart.                                         *)
LEMMA FilesKeep ==
  ASSUME OneRequest
  PROVE  ProgramsInv /\ FilesInv /\ [RegistryNext]_registryVars => FilesInv'
<1> SUFFICES ASSUME ProgramsInv, FilesInv, [RegistryNext]_registryVars  PROVE FilesInv'
  OBVIOUS
<1>1. CASE UNCHANGED registryVars
  <2>1. UNCHANGED <<metaFile, metas, snap, sessions, programs, born, call, saving, stray>>
    BY <1>1 DEF registryVars
  <2>2. QED
    BY <2>1, FilesUntouched
<1>2. CASE Registers
  BY <1>2, RegisterFiles DEF Registers
<1>3. QED
  BY <1>1, <1>2, SessionFiles, EndingFiles, BootFiles, Zenon DEF RegistryNext

(* A session has its own meta and its own snapshot, whatever number it was given      *)
(* and whatever ran under it before, but for what a save wrote after its session was   *)
(* gone and for a cached meta whose file was swept (allocateId, persistSession).     *)
THEOREM RegistryFilesAreOwn ==
  ASSUME OneRequest
  PROVE  RegistrySpec => []FilesAreOwn
<1>1. ProgramsInv /\ FilesInv => FilesAreOwn
  <2> SUFFICES ASSUME ProgramsInv, FilesInv, NEW id \in Live \ stray
               PROVE  metas[id] \subseteq {sessions[id]} /\ snap[id] \in {0, sessions[id]}
    BY DEF FilesAreOwn
  <2>1. id \in Numbers \ stray /\ sessions[id] # 0
    BY DEF Live
  <2>2. \A a, b \in Marks(id) : a = b
    BY <2>1 DEF FilesInv, MarksAgree
  <2>3. /\ sessions[id] \in Marks(id) /\ metas[id] \subseteq Marks(id)
        /\ snap[id] # 0 => snap[id] \in Marks(id)
    BY <2>1, AreMarks
  <2>4. QED
    BY <2>2, <2>3
<1>2. RegistryInit => FilesInv
  BY DEF RegistryInit, FilesInv, MarksAgree, NewAreClean, SavesHaveBirths, Marks, Idle
<1>3. QED
  BY <1>1, <1>2, RegistryStarts, RegistryKeeps, FilesKeep, PTL DEF RegistrySpec

-----------------------------------------------------------------------------
(* What is owed.                                                           *)

(* What is owed has not ended: where another server has it, or a restore of it has    *)
(* just succeeded, its program runs; a restore is only under way in the boot.                                        *)
OwedAreOpen ==
  /\ closed \cap owed = {}
  /\ \A id \in owed : id \in held \/ id = consuming => programs[id] # 0
  /\ consuming # 0 => process = "restoring"

(* What is owed can come back: its program runs, or its snapshot will be looked at;   *)
(* and once the server is up it has.                                         *)
OwedInReach ==
  /\ process # "up" => owed \subseteq members
  /\ process = "up" => \A id \in owed \cap members : programs[id] # 0 /\ Found(id)
  /\ process \in {"down", "recovering"} => \A id \in owed : programs[id] # 0 \/ id \in Listed
  /\ process = "restoring" => \A id \in owed : programs[id] # 0 \/ id \in Listed \cap todo

(* The boot allows what was a member, and owes no snapshot in safe mode.             *)
BootRemembers ==
  process \in {"recovering", "restoring"} =>
    allow = members /\ (safe => \A id \in owed : programs[id] # 0)

OwedInv == OwedAreOpen /\ OwedInReach /\ BootRemembers

(* A request to create touches nothing that is owed: its number is free.          *)
LEMMA RegisterOwed ==
  ASSUME ProgramsInv, OwedInv, NEW c \in Creators,
         CreateReads(c) \/ CreatePicks(c) \/ CreateSpawns(c) \/ CreateConnects(c) \/ CreateFails(c)
  PROVE  OwedInv'
<1>a. /\ RegistryTypeOK /\ ProgramsMatch /\ RequestsAreFree /\ BootCovers
      /\ OwedAreOpen /\ OwedInReach /\ BootRemembers
  BY DEF ProgramsInv, OwedInv
<1>1. CASE CreateReads(c)
  <2>1. OwedAreOpen'
    BY <1>a, <1>1 DEF OwedAreOpen, CreateReads, Traces, Snapshots, RoomLeft, RegistryTypeOK, ProgramsMatch, RequestsAreFree, Idle
  <2>2. OwedInReach'
    BY <1>a, <1>1
    DEF OwedInReach, OwedAreOpen, Found, Listed, Snapshots, CreateReads, Traces, RoomLeft, RegistryTypeOK, ProgramsMatch,
        RequestsAreFree, Idle, BootCovers, BootRemembers
  <2>3. BootRemembers'
    BY <1>a, <1>1 DEF BootRemembers, CreateReads, Traces, Snapshots, RoomLeft, RegistryTypeOK, RequestsAreFree, Idle, ProgramsMatch
  <2>4. QED
    BY <2>1, <2>2, <2>3 DEF OwedInv
<1>2. CASE CreatePicks(c)
  <2>1. OwedAreOpen'
    BY <1>a, <1>2 DEF OwedAreOpen, CreatePicks, RegistryTypeOK, ProgramsMatch, RequestsAreFree, Idle
  <2>2. OwedInReach'
    BY <1>a, <1>2
    DEF OwedInReach, OwedAreOpen, Found, Listed, Snapshots, CreatePicks, RegistryTypeOK, ProgramsMatch,
        RequestsAreFree, Idle, BootCovers, BootRemembers
  <2>3. BootRemembers'
    BY <1>a, <1>2 DEF BootRemembers, CreatePicks, RegistryTypeOK, RequestsAreFree, Idle, ProgramsMatch
  <2>4. QED
    BY <2>1, <2>2, <2>3 DEF OwedInv
<1>3. CASE CreateSpawns(c)
  <2>1. OwedAreOpen'
    BY <1>a, <1>3 DEF OwedAreOpen, CreateSpawns, RegistryTypeOK, ProgramsMatch, RequestsAreFree, Idle
  <2>2. OwedInReach'
    BY <1>a, <1>3
    DEF OwedInReach, OwedAreOpen, Found, Listed, Snapshots, CreateSpawns, RegistryTypeOK, ProgramsMatch,
        RequestsAreFree, Idle, BootCovers, BootRemembers
  <2>3. BootRemembers'
    BY <1>a, <1>3 DEF BootRemembers, CreateSpawns, RegistryTypeOK, RequestsAreFree, Idle, ProgramsMatch
  <2>4. QED
    BY <2>1, <2>2, <2>3 DEF OwedInv
<1>4. CASE CreateConnects(c)
  <2>1. OwedAreOpen'
    BY <1>a, <1>4 DEF OwedAreOpen, CreateConnects, PutMeta, Meta, RegistryTypeOK, ProgramsMatch, RequestsAreFree, Idle
  <2>2. OwedInReach'
    BY <1>a, <1>4
    DEF OwedInReach, OwedAreOpen, Found, Listed, Snapshots, CreateConnects, PutMeta, Meta, RegistryTypeOK, ProgramsMatch,
        RequestsAreFree, Idle, BootCovers, BootRemembers
  <2>3. BootRemembers'
    BY <1>a, <1>4 DEF BootRemembers, CreateConnects, PutMeta, Meta, RegistryTypeOK, RequestsAreFree, Idle, ProgramsMatch
  <2>4. QED
    BY <2>1, <2>2, <2>3 DEF OwedInv
<1>5. CASE CreateFails(c)
  <2>1. OwedAreOpen'
    BY <1>a, <1>5 DEF OwedAreOpen, CreateFails, RegistryTypeOK, ProgramsMatch, RequestsAreFree, Idle
  <2>2. OwedInReach'
    BY <1>a, <1>5
    DEF OwedInReach, OwedAreOpen, Found, Listed, Snapshots, CreateFails, RegistryTypeOK, ProgramsMatch,
        RequestsAreFree, Idle, BootCovers, BootRemembers
  <2>3. BootRemembers'
    BY <1>a, <1>5 DEF BootRemembers, CreateFails, RegistryTypeOK, RequestsAreFree, Idle, ProgramsMatch
  <2>4. QED
    BY <2>1, <2>2, <2>3 DEF OwedInv
<1>6. QED
  BY <1>1, <1>2, <1>3, <1>4, <1>5

(* Whatever ends a session takes it off what is owed; a member's snapshot is never  *)
(* swept, and a save writes one that can be read.                            *)
LEMMA SessionOwed ==
  ASSUME ProgramsInv, FilesInv, OwedInv, NEW id \in Numbers,
         Joins(id) \/ Leaves(id) \/ Destroy(id) \/ Exits(id) \/ Forgets(id)
           \/ SaveBegins(id) \/ SaveNotesCwd(id) \/ SaveWrites(id) \/ Sweeps(id) \/ OtherClaims(id)
           \/ OtherLeaves(id)
  PROVE  OwedInv'
<1>a. /\ RegistryTypeOK /\ ProgramsMatch /\ RequestsAreFree /\ BootCovers
      /\ OwedAreOpen /\ OwedInReach /\ BootRemembers /\ SavesHaveBirths
  BY DEF ProgramsInv, OwedInv, FilesInv
<1>1. CASE Joins(id)
  <2>1. OwedAreOpen'
    BY <1>a, <1>1 DEF OwedAreOpen, Joins, Live, RegistryTypeOK, ProgramsMatch, RequestsAreFree, Idle
  <2>2. OwedInReach'
    BY <1>a, <1>1
    DEF OwedInReach, OwedAreOpen, Found, Listed, Snapshots, Joins, Live, RegistryTypeOK, ProgramsMatch,
        RequestsAreFree, Idle, BootCovers, BootRemembers
  <2>3. BootRemembers'
    BY <1>a, <1>1 DEF BootRemembers, Joins, Live, RegistryTypeOK, RequestsAreFree, Idle, ProgramsMatch
  <2>4. QED
    BY <2>1, <2>2, <2>3 DEF OwedInv
<1>2. CASE Leaves(id)
  <2>1. OwedAreOpen'
    BY <1>a, <1>2 DEF OwedAreOpen, Leaves, RegistryTypeOK, ProgramsMatch, RequestsAreFree, Idle
  <2>2. OwedInReach'
    BY <1>a, <1>2
    DEF OwedInReach, OwedAreOpen, Found, Listed, Snapshots, Leaves, RegistryTypeOK, ProgramsMatch,
        RequestsAreFree, Idle, BootCovers, BootRemembers
  <2>3. BootRemembers'
    BY <1>a, <1>2 DEF BootRemembers, Leaves, RegistryTypeOK, RequestsAreFree, Idle, ProgramsMatch
  <2>4. QED
    BY <2>1, <2>2, <2>3 DEF OwedInv
<1>3. CASE Destroy(id)
  <2>1. OwedAreOpen'
    BY <1>a, <1>3 DEF OwedAreOpen, Destroy, RegistryTypeOK, ProgramsMatch, RequestsAreFree, Idle
  <2>2. OwedInReach'
    BY <1>a, <1>3
    DEF OwedInReach, OwedAreOpen, Found, Listed, Snapshots, Destroy, RegistryTypeOK, ProgramsMatch,
        RequestsAreFree, Idle, BootCovers, BootRemembers
  <2>3. BootRemembers'
    BY <1>a, <1>3 DEF BootRemembers, Destroy, RegistryTypeOK, RequestsAreFree, Idle, ProgramsMatch
  <2>4. QED
    BY <2>1, <2>2, <2>3 DEF OwedInv
<1>4. CASE Exits(id)
  <2>1. OwedAreOpen'
    BY <1>a, <1>4 DEF OwedAreOpen, Exits, RegistryTypeOK, ProgramsMatch, RequestsAreFree, Idle
  <2>2. OwedInReach'
    BY <1>a, <1>4
    DEF OwedInReach, OwedAreOpen, Found, Listed, Snapshots, Exits, RegistryTypeOK, ProgramsMatch,
        RequestsAreFree, Idle, BootCovers, BootRemembers
  <2>3. BootRemembers'
    BY <1>a, <1>4 DEF BootRemembers, Exits, RegistryTypeOK, RequestsAreFree, Idle, ProgramsMatch
  <2>4. QED
    BY <2>1, <2>2, <2>3 DEF OwedInv
<1>5. CASE Forgets(id)
  <2>1. OwedAreOpen'
    BY <1>a, <1>5 DEF OwedAreOpen, Forgets, RegistryTypeOK, ProgramsMatch, RequestsAreFree, Idle
  <2>2. OwedInReach'
    BY <1>a, <1>5
    DEF OwedInReach, OwedAreOpen, Found, Listed, Snapshots, Forgets, RegistryTypeOK, ProgramsMatch,
        RequestsAreFree, Idle, BootCovers, BootRemembers
  <2>3. BootRemembers'
    BY <1>a, <1>5 DEF BootRemembers, Forgets, RegistryTypeOK, RequestsAreFree, Idle, ProgramsMatch
  <2>4. QED
    BY <2>1, <2>2, <2>3 DEF OwedInv
<1>6. CASE SaveBegins(id)
  <2>1. OwedAreOpen'
    BY <1>a, <1>6 DEF OwedAreOpen, SaveBegins, Meta, Live, RegistryTypeOK, ProgramsMatch, RequestsAreFree, Idle
  <2>2. OwedInReach'
    BY <1>a, <1>6
    DEF OwedInReach, OwedAreOpen, Found, Listed, Snapshots, SaveBegins, Meta, Live, RegistryTypeOK, ProgramsMatch,
        RequestsAreFree, Idle, BootCovers, BootRemembers
  <2>3. BootRemembers'
    BY <1>a, <1>6 DEF BootRemembers, SaveBegins, Meta, Live, RegistryTypeOK, RequestsAreFree, Idle, ProgramsMatch
  <2>4. QED
    BY <2>1, <2>2, <2>3 DEF OwedInv
<1>7. CASE SaveNotesCwd(id)
  <2>1. OwedAreOpen'
    BY <1>a, <1>7 DEF OwedAreOpen, SaveNotesCwd, PutMeta, Meta, Strayed, RegistryTypeOK, ProgramsMatch, RequestsAreFree, Idle
  <2>2. OwedInReach'
    BY <1>a, <1>7
    DEF OwedInReach, OwedAreOpen, Found, Listed, Snapshots, SaveNotesCwd, PutMeta, Meta, Strayed, RegistryTypeOK, ProgramsMatch,
        RequestsAreFree, Idle, BootCovers, BootRemembers
  <2>3. BootRemembers'
    BY <1>a, <1>7 DEF BootRemembers, SaveNotesCwd, PutMeta, Meta, Strayed, RegistryTypeOK, RequestsAreFree, Idle, ProgramsMatch
  <2>4. QED
    BY <2>1, <2>2, <2>3 DEF OwedInv
<1>8. CASE SaveWrites(id)
  <2>1. OwedAreOpen'
    BY <1>a, <1>8 DEF OwedAreOpen, SaveWrites, Strayed
  <2>2. saving[id] # Idle /\ saving[id].birth # 0
    BY <1>a, <1>8 DEF SavesHaveBirths, SaveWrites, Idle
  <2>3. \A n \in Numbers : snap[n] # 0 => snap'[n] # 0
    BY <1>a, <1>8, <2>2 DEF SaveWrites, RegistryTypeOK
  <2>4. Listed \subseteq Listed'
    BY <1>8, <2>3 DEF Listed, Snapshots, SaveWrites
  <2>5. OwedInReach'
    BY <1>a, <1>8, <2>4 DEF OwedInReach, Found, SaveWrites, RegistryTypeOK
  <2>6. BootRemembers'
    BY <1>a, <1>8 DEF BootRemembers, SaveWrites, Strayed
  <2>7. QED
    BY <2>1, <2>5, <2>6 DEF OwedInv
<1>9. CASE Sweeps(id)
  <2>1. OwedAreOpen'
    BY <1>a, <1>9 DEF OwedAreOpen, Sweeps, Snapshots, RegistryTypeOK, ProgramsMatch, RequestsAreFree, Idle
  <2>2. OwedInReach'
    BY <1>a, <1>9
    DEF OwedInReach, OwedAreOpen, Found, Listed, Snapshots, Sweeps, RegistryTypeOK, ProgramsMatch,
        RequestsAreFree, Idle, BootCovers, BootRemembers
  <2>3. BootRemembers'
    BY <1>a, <1>9 DEF BootRemembers, Sweeps, Snapshots, RegistryTypeOK, RequestsAreFree, Idle, ProgramsMatch
  <2>4. QED
    BY <2>1, <2>2, <2>3 DEF OwedInv
<1>10. CASE OtherClaims(id)
  <2>1. OwedAreOpen'
    BY <1>a, <1>10 DEF OwedAreOpen, OtherClaims, RegistryTypeOK, ProgramsMatch, RequestsAreFree, Idle
  <2>2. OwedInReach'
    BY <1>a, <1>10
    DEF OwedInReach, OwedAreOpen, Found, Listed, Snapshots, OtherClaims, RegistryTypeOK, ProgramsMatch,
        RequestsAreFree, Idle, BootCovers, BootRemembers
  <2>3. BootRemembers'
    BY <1>a, <1>10 DEF BootRemembers, OtherClaims, RegistryTypeOK, RequestsAreFree, Idle, ProgramsMatch
  <2>4. QED
    BY <2>1, <2>2, <2>3 DEF OwedInv
<1>11. CASE OtherLeaves(id)
  <2>1. OwedAreOpen'
    BY <1>a, <1>11 DEF OwedAreOpen, OtherLeaves, RegistryTypeOK, ProgramsMatch, RequestsAreFree, Idle
  <2>2. OwedInReach'
    BY <1>a, <1>11
    DEF OwedInReach, OwedAreOpen, Found, Listed, Snapshots, OtherLeaves, RegistryTypeOK, ProgramsMatch,
        RequestsAreFree, Idle, BootCovers, BootRemembers
  <2>3. BootRemembers'
    BY <1>a, <1>11 DEF BootRemembers, OtherLeaves, RegistryTypeOK, RequestsAreFree, Idle, ProgramsMatch
  <2>4. QED
    BY <2>1, <2>2, <2>3 DEF OwedInv
<1>12. QED
  BY <1>1, <1>2, <1>3, <1>4, <1>5, <1>6, <1>7, <1>8, <1>9, <1>10, <1>11

(* What the server drove at its end is owed, and its program still runs; what a     *)
(* machine's end leaves owed has a snapshot on offer.                          *)
LEMMA EndingOwed ==
  ASSUME ProgramsInv, OwedInv,
         Crash \/ Shutdown \/ MachineReboots
  PROVE  OwedInv'
<1>a. /\ RegistryTypeOK /\ ProgramsMatch /\ RequestsAreFree /\ BootCovers
      /\ OwedAreOpen /\ OwedInReach /\ BootRemembers
  BY DEF ProgramsInv, OwedInv
<1>1. CASE Crash
  <2>1. /\ closed' = {} /\ held' = {} /\ consuming' = 0 /\ process' = "down"
        /\ owed' = (owed \cup Live) \cap members /\ members' = members /\ programs' = programs
    BY <1>1 DEF Crash, Stops
  <2>2. owed' \subseteq Numbers
    BY <1>a, <2>1 DEF RegistryTypeOK, Live
  <2>3. OwedAreOpen'
    BY <2>1, <2>2 DEF OwedAreOpen, Numbers
  <2>4. \A n \in Live : programs[n] # 0
    BY <1>a DEF Live, ProgramsMatch
  <2>5. Listed' = Listed
    BY <1>1 DEF Crash, Listed, Snapshots
  <2>6. \A n \in owed' : programs[n] # 0 \/ n \in Listed
    BY <1>a, <1>1, <2>1, <2>4, Zenon DEF OwedInReach, Crash, RegistryTypeOK, Processes, Found
  <2>7. OwedInReach'
    BY <2>1, <2>5, <2>6 DEF OwedInReach
  <2>8. BootRemembers'
    BY <2>1 DEF BootRemembers
  <2>9. QED
    BY <2>3, <2>7, <2>8 DEF OwedInv
<1>2. CASE Shutdown
  <2>1. /\ closed' = {} /\ held' = {} /\ consuming' = 0 /\ process' = "down"
        /\ owed' = (owed \cup Live) \cap members /\ members' = members /\ programs' = programs
    BY <1>2 DEF Shutdown, Stops
  <2>2. owed' \subseteq Numbers
    BY <1>a, <2>1 DEF RegistryTypeOK, Live
  <2>3. OwedAreOpen'
    BY <2>1, <2>2 DEF OwedAreOpen, Numbers
  <2>4. \A n \in Live : programs[n] # 0
    BY <1>a DEF Live, ProgramsMatch
  <2>5. \A n \in owed' : programs[n] # 0
    BY <1>a, <1>2, <2>1, <2>4 DEF OwedInReach, Shutdown
  <2>6. OwedInReach'
    BY <2>1, <2>5 DEF OwedInReach
  <2>7. BootRemembers'
    BY <2>1 DEF BootRemembers
  <2>8. QED
    BY <2>3, <2>6, <2>7 DEF OwedInv
<1>3. CASE MachineReboots
  <2>1. process = "down" /\ process' = "down" /\ held' = held /\ consuming' = consuming /\ closed' = closed
        /\ owed' = owed \cap Listed /\ Listed' = Listed /\ members' = members
    BY <1>3 DEF MachineReboots, Listed, Snapshots
  <2>2. held = {} /\ consuming = 0 /\ owed \subseteq Numbers
    BY <1>a, <2>1 DEF BootCovers, OwedAreOpen, RegistryTypeOK
  <2>3. OwedAreOpen'
    BY <1>a, <2>1, <2>2 DEF OwedAreOpen, Numbers
  <2>4. OwedInReach'
    BY <1>a, <2>1 DEF OwedInReach
  <2>5. BootRemembers'
    BY <2>1 DEF BootRemembers
  <2>6. QED
    BY <2>3, <2>4, <2>5 DEF OwedInv
<1>4. QED
  BY <1>1, <1>2, <1>3

(* The boot takes up every snapshot of a member, and consumes one only after its     *)
(* restore.                                                               *)
LEMMA BootOwed ==
  ASSUME ProgramsInv, OwedInv,
         BootBegins \/ RestoreBegins \/ RestoreConsumes \/ RestoreEnds
  PROVE  OwedInv'
<1>a. /\ RegistryTypeOK /\ ProgramsMatch /\ RequestsAreFree /\ BootCovers
      /\ OwedAreOpen /\ OwedInReach /\ BootRemembers
  BY DEF ProgramsInv, OwedInv
<1>1. CASE BootBegins
  <2>1. OwedAreOpen'
    BY <1>a, <1>1 DEF OwedAreOpen, BootBegins, RegistryTypeOK, ProgramsMatch, RequestsAreFree, Idle
  <2>2. OwedInReach'
    BY <1>a, <1>1
    DEF OwedInReach, OwedAreOpen, Found, Listed, Snapshots, BootBegins, RegistryTypeOK, ProgramsMatch,
        RequestsAreFree, Idle, BootCovers, BootRemembers
  <2>3. BootRemembers'
    BY <1>a, <1>1 DEF BootRemembers, BootBegins, RegistryTypeOK, RequestsAreFree, Idle, ProgramsMatch
  <2>4. QED
    BY <2>1, <2>2, <2>3 DEF OwedInv
<1>2. CASE RestoreBegins
  <2>1. OwedAreOpen'
    BY <1>a, <1>2 DEF OwedAreOpen, RestoreBegins, Offered, Snapshots, RegistryTypeOK, ProgramsMatch, RequestsAreFree, Idle
  <2>2. OwedInReach'
    BY <1>a, <1>2
    DEF OwedInReach, OwedAreOpen, Found, Listed, Snapshots, RestoreBegins, Offered, RegistryTypeOK, ProgramsMatch,
        RequestsAreFree, Idle, BootCovers, BootRemembers
  <2>3. BootRemembers'
    BY <1>a, <1>2 DEF BootRemembers, RestoreBegins, Offered, Snapshots, RegistryTypeOK, RequestsAreFree, Idle, ProgramsMatch
  <2>4. QED
    BY <2>1, <2>2, <2>3 DEF OwedInv
<1>3. CASE RestoreConsumes
  <2>1. OwedAreOpen'
    <3>1. consuming' = 0 /\ closed' = closed /\ owed' = owed /\ held' = held /\ programs' = programs
      BY <1>3 DEF RestoreConsumes
    <3>2. owed \subseteq Numbers
      BY <1>a DEF RegistryTypeOK
    <3>3. QED
      BY <1>a, <3>1, <3>2 DEF OwedAreOpen, Numbers
  <2>2. OwedInReach'
    BY <1>a, <1>3
    DEF OwedInReach, OwedAreOpen, Found, Listed, Snapshots, RestoreConsumes, RegistryTypeOK, ProgramsMatch,
        RequestsAreFree, Idle, BootCovers, BootRemembers
  <2>3. BootRemembers'
    BY <1>a, <1>3 DEF BootRemembers, RestoreConsumes, RegistryTypeOK, RequestsAreFree, Idle, ProgramsMatch
  <2>4. QED
    BY <2>1, <2>2, <2>3 DEF OwedInv
<1>4. CASE RestoreEnds
  <2>1. OwedAreOpen'
    BY <1>a, <1>4 DEF OwedAreOpen, RestoreEnds, RegistryTypeOK, ProgramsMatch, RequestsAreFree, Idle
  <2>2. OwedInReach'
    BY <1>a, <1>4
    DEF OwedInReach, OwedAreOpen, Found, Listed, Snapshots, RestoreEnds, RegistryTypeOK, ProgramsMatch,
        RequestsAreFree, Idle, BootCovers, BootRemembers
  <2>3. BootRemembers'
    BY <1>a, <1>4 DEF BootRemembers, RestoreEnds, RegistryTypeOK, RequestsAreFree, Idle, ProgramsMatch
  <2>4. QED
    BY <2>1, <2>2, <2>3 DEF OwedInv
<1>5. QED
  BY <1>1, <1>2, <1>3, <1>4

(* Recovering finds what runs; restoring, what only a snapshot remembers.          *)
LEMMA RecoverOwed ==
  ASSUME ProgramsInv, OwedInv, NEW id \in Numbers,
         RecoverOne(id) \/ RestoreSkips(id) \/ RestoreOne(id)
  PROVE  OwedInv'
<1>a. /\ RegistryTypeOK /\ ProgramsMatch /\ RequestsAreFree /\ BootCovers
      /\ OwedAreOpen /\ OwedInReach /\ BootRemembers
  BY DEF ProgramsInv, OwedInv
<1>1. CASE RecoverOne(id)
  <2>1. OwedAreOpen'
    BY <1>a, <1>1 DEF OwedAreOpen, RecoverOne, Meta, Larger, RegistryTypeOK, ProgramsMatch, RequestsAreFree, Idle
  <2>2. OwedInReach'
    BY <1>a, <1>1
    DEF OwedInReach, OwedAreOpen, Found, Listed, Snapshots, RecoverOne, Meta, Larger, RegistryTypeOK, ProgramsMatch,
        RequestsAreFree, Idle, BootCovers, BootRemembers
  <2>3. BootRemembers'
    BY <1>a, <1>1 DEF BootRemembers, RecoverOne, Meta, Larger, RegistryTypeOK, RequestsAreFree, Idle, ProgramsMatch
  <2>4. QED
    BY <2>1, <2>2, <2>3 DEF OwedInv
<1>2. CASE RestoreSkips(id)
  <2>1. OwedAreOpen'
    BY <1>a, <1>2 DEF OwedAreOpen, RestoreSkips, RegistryTypeOK, ProgramsMatch, RequestsAreFree, Idle
  <2>2. OwedInReach'
    BY <1>a, <1>2
    DEF OwedInReach, OwedAreOpen, Found, Listed, Snapshots, RestoreSkips, RegistryTypeOK, ProgramsMatch,
        RequestsAreFree, Idle, BootCovers, BootRemembers
  <2>3. BootRemembers'
    BY <1>a, <1>2 DEF BootRemembers, RestoreSkips, RegistryTypeOK, RequestsAreFree, Idle, ProgramsMatch
  <2>4. QED
    BY <2>1, <2>2, <2>3 DEF OwedInv
<1>3. CASE RestoreOne(id)
  <2>1. OwedAreOpen'
    BY <1>a, <1>3 DEF OwedAreOpen, RestoreOne, ToRestore, PutMeta, Meta, Larger, RegistryTypeOK, ProgramsMatch, RequestsAreFree, Idle
  <2>2. OwedInReach'
    BY <1>a, <1>3
    DEF OwedInReach, OwedAreOpen, Found, Listed, Snapshots, RestoreOne, ToRestore, PutMeta, Meta, Larger, RegistryTypeOK, ProgramsMatch,
        RequestsAreFree, Idle, BootCovers, BootRemembers
  <2>3. BootRemembers'
    BY <1>a, <1>3 DEF BootRemembers, RestoreOne, ToRestore, PutMeta, Meta, Larger, RegistryTypeOK, RequestsAreFree, Idle, ProgramsMatch
  <2>4. QED
    BY <2>1, <2>2, <2>3 DEF OwedInv
<1>4. QED
  BY <1>1, <1>2, <1>3

(* Every step keeps what is owed in reach.                                    *)
LEMMA OwedKeep ==
  ASSUME OneRequest
  PROVE  ProgramsInv /\ FilesInv /\ OwedInv /\ [RegistryNext]_registryVars => OwedInv'
<1> SUFFICES ASSUME ProgramsInv, FilesInv, OwedInv, [RegistryNext]_registryVars  PROVE OwedInv'
  OBVIOUS
<1>1. CASE UNCHANGED registryVars
  BY <1>1 DEF registryVars, OwedInv, OwedAreOpen, OwedInReach, BootRemembers, Found, Listed, Snapshots
<1>2. CASE Registers
  BY <1>2, RegisterOwed DEF Registers
<1>3. QED
  BY <1>1, <1>2, SessionOwed, EndingOwed, BootOwed, RecoverOwed, Zenon DEF RegistryNext

(* A member's session that ran when its server ended, by a crash or a shutdown, is    *)
(* there again once a server is up, or another server has it, however many servers   *)
(* and machines end on the way; unless it ended, was destroyed, lost its snapshot    *)
(* with the machine, could not be restored or met a boot in safe mode (boot).       *)
THEOREM RegistryComesBack ==
  ASSUME OneRequest
  PROVE  RegistrySpec => []ComesBack
<1>1. OwedInv => ComesBack
  BY DEF OwedInv, OwedInReach, ComesBack, Found
<1>2. RegistryInit => FilesInv
  BY DEF RegistryInit, FilesInv, MarksAgree, NewAreClean, SavesHaveBirths, Marks, Idle
<1>3. RegistryInit => OwedInv
  BY DEF RegistryInit, OwedInv, OwedAreOpen, OwedInReach, BootRemembers
<1>4. QED
  BY <1>1, <1>2, <1>3, RegistryStarts, RegistryKeeps, FilesKeep, OwedKeep, PTL DEF RegistrySpec
=============================================================================
