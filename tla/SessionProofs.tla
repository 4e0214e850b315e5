----------------------------- MODULE SessionProofs -----------------------------
(***************************************************************************)
(* Proofs about what the server keeps of one session: the size of its terminal,   *)
(* for every number of viewers and every set of sizes, the prompts sent to its     *)
(* agent, for every number of them, and what is shown of the agent, for every     *)
(* number of its acts.                                                      *)
(***************************************************************************)
EXTENDS Geometry, Interactions, AgentHooks, TLAPS

-----------------------------------------------------------------------------
(* Geometry.  What the operators on a geometry g keep, where `owned` is the size  *)
(* its owner gave the session.                                             *)

(* Attached viewers and their modes.                                         *)
Attached == UNION {[those -> Modes] : those \in SUBSET Viewers}

Loans == {<<>>} \cup (Viewers \X TermSizes)

(* What Now can be.                                                          *)
Geometries == [size : TermSizes, unwatched : TermSizes \cup {None}, timer : BOOLEAN, borrow : Loans,
               viewers : Attached]

(* The size to return to is the owner's, and there is one whenever the size may be   *)
(* another.                                                                *)
ReturnsToOwner(g, owned) ==
  /\ g.unwatched = None => g.size = owned /\ g.borrow = <<>>
  /\ g.unwatched # None => g.unwatched = owned

(* A loan is an attached writer's.                                           *)
LoanIsHeld(g) ==
  g.borrow # <<>> => g.borrow[1] \in DOMAIN g.viewers /\ g.viewers[g.borrow[1]] = "readwrite"

(* Once the last writer has left, the timer runs or there is nothing to return to.  *)
TimerRuns(g) == ~HasWriter(g.viewers) /\ ~g.timer => g.unwatched = None

Kept(g, owned) == g \in Geometries /\ ReturnsToOwner(g, owned)

GeometryInv ==
  /\ Kept(Now, rest) /\ LoanIsHeld(Now) /\ TimerRuns(Now)
  /\ rest \in TermSizes
  /\ listens \subseteq Viewers /\ DOMAIN viewers \subseteq listens
  /\ knows \in [Viewers -> TermSizes \cup {None}]
  /\ \A v \in listens : knows[v] = size

(* None is not a size.                                                      *)
LEMMA NoneIsNoSize == \A s \in TermSizes : s # None
  BY GeometryAssumption DEF None

(* A writer that sets the size leaves the one to return to (viewerResize).        *)
LEMMA ResizeKeeps ==
  ASSUME NEW g, NEW owned, NEW s \in TermSizes, Kept(g, owned),
         NEW r, r = ViewerResize(g, s)
  PROVE  /\ Kept(r, owned) /\ r.borrow = g.borrow /\ r.viewers = g.viewers /\ r.size = s
         /\ r.unwatched # None
<1>1. r \in Geometries
  BY DEF ViewerResize, Kept, Geometries
<1>2. /\ r.borrow = g.borrow /\ r.viewers = g.viewers /\ r.size = s
      /\ r.unwatched = IF g.unwatched = None THEN g.size ELSE g.unwatched
  BY DEF ViewerResize, Kept, Geometries
<1>3. g.size \in TermSizes /\ g.size # None
  BY NoneIsNoSize DEF Kept, Geometries
<1>4. Kept(r, owned) /\ r.unwatched # None
  BY <1>1, <1>2, <1>3 DEF Kept, ReturnsToOwner
<1>5. QED
  BY <1>2, <1>4, Zenon

(* So does a borrower; a loan there is changes hands (borrowResize).             *)
LEMMA BorrowKeeps ==
  ASSUME NEW g, NEW owned, NEW s \in TermSizes, NEW v \in Viewers, Kept(g, owned),
         NEW r, r = BorrowResize(g, v, s)
  PROVE  /\ Kept(r, owned) /\ r.borrow # <<>> /\ r.borrow[1] = v /\ r.viewers = g.viewers
         /\ r.size = s /\ r.unwatched # None
<1> DEFINE lent == IF g.borrow = <<>> THEN <<v, g.size>> ELSE <<v, g.borrow[2]>>
           lends == [g EXCEPT !.borrow = lent]
<1>1. lent \in Viewers \X TermSizes /\ lent[1] = v /\ lent # <<>>
  BY DEF Kept, Geometries, Loans
<1> HIDE DEF lent
<1>2. /\ lends \in Geometries /\ lends.borrow = lent /\ lends.size = g.size
      /\ lends.unwatched = g.unwatched /\ lends.viewers = g.viewers
  BY <1>1 DEF Kept, Geometries, Loans
<1>3. r = ViewerResize(lends, s)
  BY DEF BorrowResize, lent, Kept, Geometries
<1>4. /\ r \in Geometries /\ r.borrow = lent /\ r.viewers = g.viewers /\ r.size = s
      /\ r.unwatched = IF g.unwatched = None THEN g.size ELSE g.unwatched
  <2> HIDE DEF lends
  <2>1. r \in Geometries
    BY <1>2, <1>3 DEF ViewerResize, Geometries
  <2>2. QED
    BY <1>2, <1>3, <2>1 DEF ViewerResize, Geometries
<1>5. g.size \in TermSizes /\ g.size # None
  BY NoneIsNoSize DEF Kept, Geometries
<1>6. Kept(r, owned) /\ r.unwatched # None
  BY <1>1, <1>4, <1>5 DEF Kept, ReturnsToOwner
<1>7. QED
  BY <1>1, <1>4, <1>6, Zenon

(* A loan given back leaves the size it was taken at (releaseBorrow).            *)
LEMMA ReleaseKeeps ==
  ASSUME NEW g, NEW owned, NEW v, Kept(g, owned),
         NEW r, r = ReleaseBorrow(g, v)
  PROVE  /\ Kept(r, owned) /\ r.viewers = g.viewers /\ r.timer = g.timer
         /\ r.unwatched = g.unwatched
         /\ r.borrow = <<>> \/ (r.borrow = g.borrow /\ r.borrow[1] # v)
<1>1. CASE g.borrow = <<>> \/ g.borrow[1] # v
  BY <1>1 DEF ReleaseBorrow, Kept
<1>2. CASE ~(g.borrow = <<>> \/ g.borrow[1] # v)
  <2>1. r = [g EXCEPT !.borrow = <<>>, !.size = g.borrow[2]]
    BY <1>2 DEF ReleaseBorrow
  <2>2. g.borrow[2] \in TermSizes
    BY <1>2 DEF Kept, Geometries, Loans
  <2>3. r \in Geometries
    BY <2>1, <2>2 DEF Kept, Geometries, Loans
  <2>4. r.viewers = g.viewers /\ r.timer = g.timer /\ r.unwatched = g.unwatched /\ r.borrow = <<>>
    BY <2>1 DEF Kept, Geometries
  <2>5. Kept(r, owned)
    BY <1>2, <2>3, <2>4 DEF Kept, ReturnsToOwner
  <2>6. QED
    BY <2>4, <2>5, Zenon
<1>3. QED
  BY <1>1, <1>2

(* A viewer that leaves takes its loan along, and the last writer starts the timer  *)
(* (removeViewer).                                                         *)
LEMMA RemoveKeeps ==
  ASSUME NEW g, NEW owned, NEW v, Kept(g, owned),
         g.borrow # <<>> => g.borrow[1] = v \/ LoanIsHeld(g),
         NEW r, r = RemoveViewer(g, v)
  PROVE  /\ Kept(r, owned) /\ LoanIsHeld(r) /\ TimerRuns(r)
         /\ DOMAIN r.viewers = DOMAIN g.viewers \ {v}
         /\ r.borrow # <<>> => r.borrow[1] # v
<1> DEFINE left == [w \in DOMAIN g.viewers \ {v} |-> g.viewers[w]]
           free == ReleaseBorrow(g, v)
           timer == free.timer \/ (g.unwatched # None /\ ~HasWriter(left))
<1>1. /\ Kept(free, owned) /\ free.timer = g.timer /\ free.unwatched = g.unwatched
      /\ free.viewers = g.viewers
      /\ free.borrow = <<>> \/ (free.borrow = g.borrow /\ free.borrow[1] # v)
  BY ReleaseKeeps
<1>2. DOMAIN left = DOMAIN g.viewers \ {v} /\ \A w \in DOMAIN left : left[w] = g.viewers[w]
  OBVIOUS
<1>3. left \in Attached
  <2>1. PICK those \in SUBSET Viewers : g.viewers \in [those -> Modes]
    BY DEF Kept, Geometries, Attached
  <2>2. left \in [those \ {v} -> Modes]
    BY <2>1
  <2>3. QED
    BY <2>2 DEF Attached
<1>4. timer \in BOOLEAN
  OBVIOUS
<1>5. r = [free EXCEPT !.viewers = left, !.timer = timer]
  BY Zenon DEF RemoveViewer
<1> HIDE DEF left, free
<1>6. ~HasWriter(left) /\ ~timer => g.unwatched = None
  OBVIOUS
<1> HIDE DEF timer
<1>7. r \in Geometries
  BY <1>1, <1>3, <1>4, <1>5 DEF Kept, Geometries
<1>8. /\ r.size = free.size /\ r.unwatched = g.unwatched /\ r.borrow = free.borrow /\ r.viewers = left
      /\ r.timer = timer
  BY <1>1, <1>5 DEF Kept, Geometries
<1>9. TimerRuns(r)
  BY <1>6, <1>8, Zenon DEF TimerRuns
<1>10. Kept(r, owned)
  BY <1>1, <1>7, <1>8 DEF Kept, ReturnsToOwner
<1>11. LoanIsHeld(r) /\ (r.borrow # <<>> => r.borrow[1] # v)
  BY <1>1, <1>2, <1>8 DEF LoanIsHeld
<1>12. QED
  BY <1>2, <1>8, <1>9, <1>10, <1>11, Zenon

(* A viewer is attached, once (addViewer); a loan of its own stays if it may write.  *)
LEMMA AddKeeps ==
  ASSUME NEW g, NEW owned, NEW v \in Viewers, NEW mode \in Modes, Kept(g, owned),
         v \notin DOMAIN g.viewers,
         g.borrow # <<>> => (g.borrow[1] = v /\ mode = "readwrite") \/ LoanIsHeld(g),
         TimerRuns(g) \/ mode = "readwrite",
         NEW r, r = AddViewer(g, v, mode)
  PROVE  /\ Kept(r, owned) /\ LoanIsHeld(r) /\ TimerRuns(r) /\ r.size = g.size
         /\ DOMAIN r.viewers = DOMAIN g.viewers \cup {v}
<1> DEFINE joined == [w \in DOMAIN g.viewers \cup {v} |-> IF w = v THEN mode ELSE g.viewers[w]]
<1>1. /\ DOMAIN joined = DOMAIN g.viewers \cup {v} /\ joined[v] = mode
      /\ \A w \in DOMAIN g.viewers : joined[w] = g.viewers[w]
  OBVIOUS
<1>2. joined \in Attached
  <2>1. PICK those \in SUBSET Viewers : g.viewers \in [those -> Modes]
    BY DEF Kept, Geometries, Attached
  <2>2. joined \in [those \cup {v} -> Modes]
    BY <2>1
  <2>3. QED
    BY <2>2 DEF Attached
<1>3. r = [g EXCEPT !.viewers = joined]
  BY Zenon DEF AddViewer
<1> HIDE DEF joined
<1>4. r \in Geometries
  BY <1>2, <1>3 DEF Kept, Geometries
<1>5. /\ r.size = g.size /\ r.timer = g.timer /\ r.unwatched = g.unwatched /\ r.borrow = g.borrow
      /\ r.viewers = joined
  BY <1>3 DEF Kept, Geometries
<1>6. Kept(r, owned)
  BY <1>4, <1>5 DEF Kept, ReturnsToOwner
<1>7. LoanIsHeld(r)
  BY <1>1, <1>5 DEF LoanIsHeld
<1>8. HasWriter(g.viewers) \/ mode = "readwrite" => HasWriter(joined)
  BY <1>1 DEF HasWriter
<1>9. TimerRuns(r)
  BY <1>5, <1>8, Zenon DEF TimerRuns
<1>10. QED
  BY <1>1, <1>5, <1>6, <1>7, <1>9, Zenon

-----------------------------------------------------------------------------
(* The steps.                                                              *)

(* A geometry that keeps its promises is a state that does.                     *)
LEMMA BecomesKeeps ==
  ASSUME NEW g, NEW owned, Kept(g, owned), LoanIsHeld(g), TimerRuns(g), Becomes(g)
  PROVE  Kept(Now', owned) /\ LoanIsHeld(Now') /\ TimerRuns(Now')
<1>1. /\ Now'.size = g.size /\ Now'.unwatched = g.unwatched /\ Now'.timer = g.timer
      /\ Now'.borrow = g.borrow /\ Now'.viewers = g.viewers
  BY Zenon DEF Becomes, Now
<1>2. Now' \in Geometries
  BY DEF Becomes, Now, Kept, Geometries
<1>3. TimerRuns(Now')
  BY <1>1, Zenon DEF TimerRuns
<1>4. QED
  BY <1>1, <1>2, <1>3 DEF Kept, ReturnsToOwner, LoanIsHeld

(* What the state says of Now.                                              *)
LEMMA NowIs ==
  /\ Now.size = size /\ Now.unwatched = unwatched /\ Now.timer = unwatchedTimer
  /\ Now.borrow = borrow /\ Now.viewers = viewers
  BY Zenon DEF Now

(* Who has the loan may write.                                              *)
LEMMA LoanMeansWriter ==
  ASSUME NEW g, LoanIsHeld(g), g.borrow # <<>>
  PROVE  HasWriter(g.viewers)
  BY DEF LoanIsHeld, HasWriter

(* A size for all who listen.                                               *)
LEMMA TellsAll ==
  ASSUME GeometryInv, NEW g, Kept(g, rest'), Becomes(g), Tells(g.size), UNCHANGED listens
  PROVE  /\ knows' \in [Viewers -> TermSizes \cup {None}]
         /\ \A v \in listens' : knows'[v] = size'
<1>1. g.size \in TermSizes /\ size' = g.size
  BY Zenon DEF Kept, Geometries, Becomes
<1>2. QED
  BY <1>1 DEF GeometryInv, Tells

(* RESIZE: as a writer is there, no timer is needed (viewerResize, borrowResize,      *)
(* releaseBorrow).                                                         *)
LEMMA ResizesKeeps ==
  ASSUME GeometryInv, NEW v \in Viewers, NEW s \in TermSizes,
         \/ Resizes(v, ViewerResize(Now, s))
         \/ Resizes(v, BorrowResize(Now, v, s))
         \/ Resizes(v, ReleaseBorrow(Now, v))
  PROVE  GeometryInv'
<1>1. PICK g \in {ViewerResize(Now, s), BorrowResize(Now, v, s), ReleaseBorrow(Now, v)} : Resizes(v, g)
  OBVIOUS
<1>2. Kept(Now, rest) /\ LoanIsHeld(Now)
  BY DEF GeometryInv
<1>3. v \in DOMAIN viewers /\ viewers[v] = "readwrite"
  BY <1>1 DEF Resizes
<1>4. /\ Kept(g, rest) /\ g.viewers = viewers
      /\ g.borrow # <<>> => g.borrow = borrow \/ g.borrow[1] = v
  <2>1. CASE g = ViewerResize(Now, s)
    <3>1. Kept(g, rest) /\ g.borrow = Now.borrow /\ g.viewers = Now.viewers
      BY <1>2, <2>1, ResizeKeeps
    <3>2. QED
      BY <3>1, NowIs, Zenon
  <2>2. CASE g = BorrowResize(Now, v, s)
    <3>1. Kept(g, rest) /\ g.borrow[1] = v /\ g.viewers = Now.viewers
      BY <1>2, <2>2, BorrowKeeps
    <3>2. QED
      BY <3>1, NowIs, Zenon
  <2>3. CASE g = ReleaseBorrow(Now, v)
    <3>1. /\ Kept(g, rest) /\ g.viewers = Now.viewers
          /\ g.borrow = <<>> \/ (g.borrow = Now.borrow /\ g.borrow[1] # v)
      BY <1>2, <2>3, ReleaseKeeps
    <3>2. QED
      BY <3>1, NowIs, Zenon
  <2>4. QED
    BY <2>1, <2>2, <2>3, Zenon
<1>5. LoanIsHeld(g)
  BY <1>2, <1>3, <1>4, NowIs DEF LoanIsHeld
<1>6. TimerRuns(g)
  BY <1>3, <1>4 DEF TimerRuns, HasWriter
<1>7. Becomes(g) /\ Tells(g.size) /\ UNCHANGED <<listens, rest>>
  BY <1>1 DEF Resizes
<1>8. Kept(Now', rest') /\ LoanIsHeld(Now') /\ TimerRuns(Now')
  BY <1>4, <1>5, <1>6, <1>7, BecomesKeeps
<1>9. viewers' = viewers
  BY <1>4, <1>7 DEF Becomes
<1>10. /\ knows' \in [Viewers -> TermSizes \cup {None}]
       /\ \A w \in listens' : knows'[w] = size'
  BY <1>4, <1>7, TellsAll
<1>11. QED
  BY <1>7, <1>8, <1>9, <1>10 DEF GeometryInv

(* ATTACH: a viewer that is there already is removed first, with its loan           *)
(* (wireSession).                                                          *)
LEMMA AttachKeeps ==
  ASSUME GeometryInv, NEW v \in Viewers, NEW mode \in Modes, NEW s \in TermSizes \cup {None},
         NEW borrows \in BOOLEAN, AttachSized(v, mode, s, borrows)
  PROVE  GeometryInv'
<1> DEFINE sized == CASE mode = "readonly" \/ s = None -> Now
                      [] mode = "readwrite" /\ s # None /\ borrows -> BorrowResize(Now, v, s)
                      [] mode = "readwrite" /\ s # None /\ ~borrows -> ViewerResize(Now, s)
           freed == IF v \in DOMAIN viewers THEN RemoveViewer(sized, v) ELSE sized
           added == AddViewer(freed, v, mode)
<1>1. Kept(Now, rest) /\ LoanIsHeld(Now) /\ TimerRuns(Now)
  BY DEF GeometryInv
<1>2. /\ Kept(sized, rest) /\ sized.viewers = viewers
      /\ sized.borrow # <<>> => (sized.borrow[1] = v /\ mode = "readwrite") \/ LoanIsHeld(sized)
      /\ TimerRuns(sized) \/ mode = "readwrite"
  <2>1. CASE mode = "readonly" \/ s = None
    <3>1. sized = Now
      BY <2>1
    <3>2. QED
      BY <1>1, <3>1, NowIs, Zenon
  <2>2. CASE mode = "readwrite" /\ s # None /\ borrows
    <3>1. sized = BorrowResize(Now, v, s) /\ s \in TermSizes
      BY <2>2
    <3> HIDE DEF sized
    <3>2. Kept(sized, rest) /\ sized.borrow[1] = v /\ sized.viewers = Now.viewers
      BY <1>1, <3>1, BorrowKeeps
    <3>3. QED
      BY <2>2, <3>2, NowIs, Zenon
  <2>3. CASE mode = "readwrite" /\ s # None /\ ~borrows
    <3>1. sized = ViewerResize(Now, s) /\ s \in TermSizes
      BY <2>3
    <3> HIDE DEF sized
    <3>2. Kept(sized, rest) /\ sized.viewers = viewers /\ sized.borrow = borrow
      BY <1>1, <3>1, NowIs, ResizeKeeps
    <3>3. sized.borrow # <<>> => LoanIsHeld(sized)
      BY <1>1, <3>2, NowIs DEF LoanIsHeld
    <3>4. QED
      BY <2>3, <3>2, <3>3
  <2>4. QED
    BY <2>1, <2>2, <2>3 DEF Modes
<1> HIDE DEF sized
<1>3. /\ Kept(freed, rest) /\ v \notin DOMAIN freed.viewers /\ DOMAIN freed.viewers = DOMAIN viewers \ {v}
      /\ freed.borrow # <<>> => (freed.borrow[1] = v /\ mode = "readwrite") \/ LoanIsHeld(freed)
      /\ TimerRuns(freed) \/ mode = "readwrite"
  <2>1. CASE v \in DOMAIN viewers
    <3>1. freed = RemoveViewer(sized, v)
      BY <2>1
    <3> HIDE DEF freed
    <3>2. /\ Kept(freed, rest) /\ LoanIsHeld(freed) /\ TimerRuns(freed)
          /\ DOMAIN freed.viewers = DOMAIN sized.viewers \ {v}
      BY <1>2, <3>1, RemoveKeeps, Zenon
    <3>3. QED
      BY <1>2, <3>2
  <2>2. CASE v \notin DOMAIN viewers
    <3>1. freed = sized
      BY <2>2
    <3>2. QED
      BY <1>2, <2>2, <3>1
  <2>3. QED
    BY <2>1, <2>2
<1>4. /\ Becomes(added) /\ listens' = listens \cup {v} /\ rest' = rest
      /\ knows' = [w \in Viewers |-> IF w \in listens \cup {v} THEN freed.size ELSE knows[w]]
  BY Zenon DEF AttachSized, Listens, sized
<1> HIDE DEF freed
<1>5. /\ Kept(added, rest) /\ LoanIsHeld(added) /\ TimerRuns(added) /\ added.size = freed.size
      /\ DOMAIN added.viewers = DOMAIN freed.viewers \cup {v}
  BY <1>3, AddKeeps
<1>6. Kept(Now', rest') /\ LoanIsHeld(Now') /\ TimerRuns(Now')
  <2> HIDE DEF added
  <2>1. QED
    BY <1>4, <1>5, BecomesKeeps
<1>7. size' = freed.size /\ DOMAIN viewers' = DOMAIN viewers \cup {v}
  BY <1>3, <1>4, <1>5 DEF Becomes
<1>8. freed.size \in TermSizes
  BY <1>3 DEF Kept, Geometries
<1>9. /\ knows' \in [Viewers -> TermSizes \cup {None}]
      /\ \A w \in listens' : knows'[w] = size'
  BY <1>4, <1>7, <1>8 DEF GeometryInv
<1>10. QED
  BY <1>4, <1>6, <1>7, <1>9 DEF GeometryInv

(* DETACH, and a socket that closes.                                          *)
LEMMA LeaveKeeps ==
  ASSUME GeometryInv, NEW v \in Viewers, DetachSized(v) \/ HangsUp(v)
  PROVE  GeometryInv'
<1> DEFINE g == IF v \in DOMAIN viewers THEN RemoveViewer(Now, v) ELSE Now
<1>1. /\ Kept(g, rest) /\ LoanIsHeld(g) /\ TimerRuns(g)
      /\ DOMAIN g.viewers = DOMAIN viewers \ {v}
  <2>1. Kept(Now, rest) /\ LoanIsHeld(Now) /\ TimerRuns(Now)
    BY DEF GeometryInv
  <2>2. CASE v \in DOMAIN viewers
    <3>1. g = RemoveViewer(Now, v)
      BY <2>2
    <3>2. QED
      BY <2>1, <3>1, NowIs, RemoveKeeps
  <2>3. CASE v \notin DOMAIN viewers
    <3>1. g = Now
      BY <2>3
    <3>2. QED
      BY <2>1, <2>3, <3>1, NowIs, Zenon
  <2>4. QED
    BY <2>2, <2>3
<1>2. Becomes(g) /\ rest' = rest
  BY Zenon DEF DetachSized, HangsUp
<1> HIDE DEF g
<1>3. Kept(Now', rest') /\ LoanIsHeld(Now') /\ TimerRuns(Now')
  BY <1>1, <1>2, BecomesKeeps
<1>4. size' \in TermSizes /\ DOMAIN viewers' = DOMAIN viewers \ {v}
  BY <1>1, <1>2 DEF Kept, Geometries, Becomes
<1>5. CASE DetachSized(v)
  BY <1>2, <1>3, <1>4, <1>5 DEF GeometryInv, DetachSized, Tells
<1>6. CASE HangsUp(v)
  BY <1>2, <1>3, <1>4, <1>6 DEF GeometryInv, HangsUp
<1>7. QED
  BY <1>5, <1>6

(* The owner's resize is what to return to from now on.                          *)
LEMMA OwnerKeeps ==
  ASSUME GeometryInv, NEW s \in TermSizes, OwnerResize(s)
  PROVE  GeometryInv'
<1> DEFINE g == [Now EXCEPT !.size = s, !.unwatched = IF @ = None THEN None ELSE s]
<1>1. Kept(Now, rest) /\ LoanIsHeld(Now) /\ TimerRuns(Now)
  BY DEF GeometryInv
<1>2. /\ g \in Geometries /\ g.size = s /\ g.unwatched = IF unwatched = None THEN None ELSE s
      /\ g.timer = Now.timer /\ g.borrow = borrow /\ g.viewers = viewers
  <2>1. Now \in Geometries
    BY <1>1 DEF Kept
  <2>2. g \in Geometries
    BY <2>1 DEF Geometries
  <2>3. QED
    BY <2>1, <2>2, NowIs DEF Geometries
<1>3. Becomes(g) /\ Tells(s) /\ rest' = s /\ UNCHANGED listens
  BY Zenon DEF OwnerResize
<1> HIDE DEF g
<1>4. Kept(g, s)
  BY <1>1, <1>2, NoneIsNoSize, NowIs DEF Kept, ReturnsToOwner
<1>5. LoanIsHeld(g)
  BY <1>1, <1>2, NowIs DEF LoanIsHeld
<1>6. unwatched = None => g.unwatched = None
  BY <1>2
<1>7. TimerRuns(g)
  BY <1>1, <1>2, <1>6, NowIs, Zenon DEF TimerRuns
<1>8. Kept(Now', rest') /\ LoanIsHeld(Now') /\ TimerRuns(Now')
  BY <1>3, <1>4, <1>5, <1>7, BecomesKeeps
<1>9. /\ knows' \in [Viewers -> TermSizes \cup {None}]
      /\ \A v \in listens' : knows'[v] = size'
  BY <1>2, <1>3, <1>4, TellsAll
<1>10. viewers' = viewers
  BY <1>2, <1>3 DEF Becomes
<1>11. QED
  BY <1>3, <1>8, <1>9, <1>10 DEF GeometryInv

(* The timer restores only what nobody borrows or watches.                       *)
LEMMA RestoresKeeps ==
  ASSUME GeometryInv, Restores
  PROVE  GeometryInv'
<1> DEFINE quieted == [Now EXCEPT !.timer = FALSE]
           own == [Now EXCEPT !.timer = FALSE, !.unwatched = None, !.size = unwatched]
           stays == HasWriter(viewers) \/ unwatched = None
           g == IF stays THEN quieted ELSE own
<1>1. Kept(Now, rest) /\ LoanIsHeld(Now) /\ TimerRuns(Now) /\ Now \in Geometries
  BY DEF GeometryInv, Kept
<1>2. Becomes(g) /\ Tells(size') /\ UNCHANGED <<listens, rest>>
  BY Zenon DEF Restores
<1>3. Kept(g, rest) /\ LoanIsHeld(g) /\ TimerRuns(g) /\ g.viewers = viewers
  <2>1. CASE stays
    <3>1. g = quieted
      BY <2>1
    <3>2. /\ quieted \in Geometries /\ quieted.size = size /\ quieted.unwatched = unwatched
          /\ quieted.borrow = borrow /\ quieted.viewers = viewers
      BY <1>1, NowIs DEF Geometries
    <3> HIDE DEF quieted
    <3>3. TimerRuns(quieted)
      BY <2>1, <3>2 DEF TimerRuns
    <3>4. QED
      BY <1>1, <3>1, <3>2, <3>3, NowIs DEF Kept, ReturnsToOwner, LoanIsHeld
  <2>2. CASE ~stays
    <3>1. g = own
      BY <2>2
    <3>2. unwatched \in TermSizes /\ unwatched # None /\ unwatched = rest
      BY <1>1, <2>2, NowIs DEF Kept, ReturnsToOwner, Geometries
    <3>3. borrow = <<>>
      BY <1>1, <2>2, NowIs, LoanMeansWriter
    <3>4. /\ own \in Geometries /\ own.size = rest /\ own.unwatched = None
          /\ own.borrow = <<>> /\ own.viewers = viewers
      BY <1>1, <3>2, <3>3, NowIs DEF Geometries
    <3> HIDE DEF own
    <3>5. QED
      BY <3>1, <3>4 DEF Kept, ReturnsToOwner, LoanIsHeld, TimerRuns
  <2>3. QED
    BY <2>1, <2>2
<1> HIDE DEF g
<1>4. Kept(Now', rest') /\ LoanIsHeld(Now') /\ TimerRuns(Now')
  BY <1>2, <1>3, BecomesKeeps
<1>5. size' = g.size /\ viewers' = viewers
  BY <1>2, <1>3 DEF Becomes
<1>6. /\ knows' \in [Viewers -> TermSizes \cup {None}]
      /\ \A v \in listens' : knows'[v] = size'
  BY <1>2, <1>3, <1>5, TellsAll
<1>7. QED
  BY <1>2, <1>4, <1>5, <1>6 DEF GeometryInv

(* At first the size is the owner's, and one viewer at most knows it.               *)
LEMMA GeometryStarts == GeometryInit => GeometryInv
<1> SUFFICES ASSUME GeometryInit  PROVE GeometryInv
  OBVIOUS
<1>1. viewers \in Attached
  <2>1. viewers \in [listens -> Modes] /\ listens \in SUBSET Viewers
    BY DEF GeometryInit, Modes
  <2>2. QED
    BY <2>1 DEF Attached
<1>2. Now \in Geometries
  BY <1>1 DEF GeometryInit, Now, Geometries, Loans
<1>3. Kept(Now, rest) /\ LoanIsHeld(Now) /\ TimerRuns(Now)
  BY <1>2, NowIs DEF GeometryInit, Kept, ReturnsToOwner, LoanIsHeld, TimerRuns
<1>4. QED
  BY <1>3 DEF GeometryInit, GeometryInv

(* Every step keeps the invariant.                                          *)
LEMMA GeometryKeeps == GeometryInv /\ [GeometryNext]_geometryVars => GeometryInv'
<1> SUFFICES ASSUME GeometryInv, [GeometryNext]_geometryVars  PROVE GeometryInv'
  OBVIOUS
<1>1. CASE UNCHANGED geometryVars
  <2>1. /\ Now' = Now /\ rest' = rest /\ listens' = listens /\ viewers' = viewers /\ knows' = knows
        /\ size' = size
    BY <1>1, Zenon DEF geometryVars, Now
  <2>2. QED
    BY <2>1 DEF GeometryInv
<1>2. ASSUME NEW v \in Viewers, NEW s \in TermSizes,
             \/ Resizes(v, ViewerResize(Now, s)) \/ Resizes(v, BorrowResize(Now, v, s))
             \/ Resizes(v, ReleaseBorrow(Now, v))
      PROVE  GeometryInv'
  BY <1>2, ResizesKeeps
<1>3. size \in TermSizes
  BY NowIs DEF GeometryInv, Kept, Geometries
<1>4. QED
  BY <1>1, <1>2, <1>3, AttachKeeps, LeaveKeeps, OwnerKeeps, RestoresKeeps, Zenon DEF GeometryNext

(* Every variable of the geometry keeps its type.                               *)
THEOREM GeometryTypeCorrect == GeometrySpec => []GeometryTypeOK
<1>1. GeometryInv => GeometryTypeOK
  <2> SUFFICES ASSUME GeometryInv  PROVE GeometryTypeOK
    OBVIOUS
  <2>1. Now \in Geometries
    BY DEF GeometryInv, Kept
  <2>2. unwatchedTimer \in BOOLEAN
    BY <2>1, NowIs DEF Geometries
  <2>3. size \in TermSizes /\ unwatched \in TermSizes \cup {None} /\ borrow \in Loans /\ viewers \in Attached
    BY <2>1, NowIs DEF Geometries
  <2>4. DOMAIN viewers \subseteq Viewers /\ \A v \in DOMAIN viewers : viewers[v] \in Modes
    BY <2>3 DEF Attached
  <2>5. QED
    BY <2>2, <2>3, <2>4 DEF GeometryTypeOK, GeometryInv, Loans
<1>2. QED
  BY <1>1, GeometryStarts, GeometryKeeps, PTL DEF GeometrySpec

(* Unwatched for 3 s, a session has the size its owner gave it, whatever its viewers  *)
(* resized, borrowed, re-attached and left in whatever order, and nobody holds a     *)
(* loan; and an attached viewer always knows the size (session.ts, wireSession).     *)
THEOREM GeometrySizeIsRightful == GeometrySpec => []SizeIsRightful
<1>1. GeometryInv => SizeIsRightful
  <2> SUFFICES ASSUME GeometryInv  PROVE SizeIsRightful
    OBVIOUS
  <2>1. ~HasWriter(viewers) /\ ~unwatchedTimer => unwatched = None
    BY NowIs, Zenon DEF GeometryInv, TimerRuns
  <2>2. unwatched = None => size = rest /\ borrow = <<>>
    BY NowIs DEF GeometryInv, Kept, ReturnsToOwner
  <2>3. \A v \in DOMAIN viewers : knows[v] = size
    BY DEF GeometryInv
  <2>4. QED
    BY <2>1, <2>2, <2>3, Zenon DEF SizeIsRightful
<1>2. QED
  BY <1>1, GeometryStarts, GeometryKeeps, PTL DEF GeometrySpec

-----------------------------------------------------------------------------
(* Prompts.  The inductive invariant, in parts.                               *)

Whoever == Prompts \cup {Person}

Kinds == {"UserPromptSubmit", "Stop", "StopFailure"}

Hook(kind, p) == [hook |-> kind, of |-> p]

HooksOf == [hook : Kinds, of : Whoever]

Records == [status : {"none", "pending", "completed", "failed"}, created : Nat,
            how : {"none", "superseded", "stuck", "answered", "error", "interrupted", "exited"},
            reply : Whoever]

InteractionTypeOK ==
  /\ rec \in [Prompts -> Records] /\ slot \in Whoever
  /\ req \in [Prompts -> {"none", "types", "waits", "told"}]
  /\ inbox \in Seq(Whoever) /\ turn \in {<<>>} \cup {<<p>> : p \in Whoever} /\ post \in Seq(HooksOf)
  /\ meta \in [open : BOOLEAN, activeAt : Nat] /\ idleAt \in Nat
  /\ reading \in {<<>>} \cup (Prompts \X Whoever)
  /\ sweep \in {<<>>} \cup ({"status", "ended"} \X Nat)
  /\ clock \in Nat /\ cut \subseteq Whoever /\ alone \subseteq Prompts

(* No note of a time is ahead of the clock.                                    *)
ClockLeads ==
  /\ meta.activeAt <= clock /\ idleAt <= clock
  /\ sweep # <<>> => sweep[2] <= clock
  /\ \A p \in Prompts : rec[p].created <= clock

(* One prompt at most is pending, and it is the one in flight; a reading is of a      *)
(* prompt that was sent.                                                    *)
SlotIsPending ==
  /\ slot # 0 => rec[slot].status = "pending"
  /\ \A p \in Prompts : rec[p].status = "pending" => slot = p
  /\ \A p \in Prompts : req[p] = "none" <=> rec[p].status = "none"
  /\ reading # <<>> => rec[reading[1]].status # "none"

Has(s, x) == \E i \in DOMAIN s : s[i] = x

(* The turn of p, or a later one, was announced, and what ends it is to come: a Stop,  *)
(* the reading that settles p, or a sweep that has found it over.               *)
UnderWay(p) ==
  \/ meta.open /\ rec[p].created <= meta.activeAt
  \/ reading # <<>> /\ reading[1] = p
  \/ sweep # <<>> /\ sweep[1] = "ended" /\ rec[p].created <= sweep[2]

(* A prompt that was typed is queued, about to be announced, or under way.         *)
PromptsAreAnswerable ==
  lives => \A p \in Prompts :
    rec[p].status = "pending" /\ req[p] # "types" =>
      Has(inbox, p) \/ Has(post, Hook("UserPromptSubmit", p)) \/ UnderWay(p)

(* The stages of a prompt nothing crosses: typed, queued, begun, running, its end     *)
(* told, over.                                                             *)
Ahead(p) == rec[p].created > meta.activeAt
IsTyped(p) == req[p] = "types" /\ inbox = <<>> /\ turn = <<>> /\ post = <<>> /\ Ahead(p)
IsQueued(p) == req[p] # "types" /\ inbox = <<p>> /\ turn = <<>> /\ post = <<>> /\ Ahead(p)
Begun(p) ==
  /\ req[p] # "types" /\ inbox = <<>> /\ turn = <<p>> /\ post = <<Hook("UserPromptSubmit", p)>>
  /\ Ahead(p) /\ idleAt = 0
Runs(p) == req[p] # "types" /\ inbox = <<>> /\ turn = <<p>> /\ post = <<>> /\ idleAt = 0
IsTold(p) ==
  /\ req[p] # "types" /\ inbox = <<>> /\ turn = <<>>
  /\ post = <<Hook("Stop", p)>> \/ post = <<Hook("StopFailure", p)>>
Over(p) ==
  req[p] # "types" /\ inbox = <<>> /\ turn = <<>> /\ post = <<>> /\ (meta.open => p \in cut)

OnItsPath(p) == IsTyped(p) \/ IsQueued(p) \/ Begun(p) \/ Runs(p) \/ IsTold(p) \/ Over(p)

(* A sweep that would end the turn of p has found that one cut.                   *)
SweepFinds(p) ==
  sweep # <<>> =>
    /\ sweep[1] = "ended" /\ rec[p].created <= sweep[2] => p \in cut
    /\ sweep[1] = "status" /\ meta.open /\ rec[p].created <= meta.activeAt /\ meta.activeAt < sweep[2]
         => p \in cut

AloneOnPath ==
  \A p \in alone : rec[p].status = "pending" =>
    /\ \A o \in Prompts \ {p} : req[o] # "types"
    /\ lives => OnItsPath(p) /\ SweepFinds(p)

(* A prompt nothing crosses is settled by a Stop of its own.                      *)
ReadsItsOwn ==
  /\ \A p \in alone : rec[p].status # "none"
  /\ reading # <<>> /\ reading[1] \in alone => reading[2] = reading[1]

InteractionInv ==
  /\ InteractionTypeOK /\ ClockLeads /\ SlotIsPending /\ PromptsAreAnswerable
  /\ AloneOnPath /\ ReadsItsOwn /\ EndsAreOwn

-----------------------------------------------------------------------------
(* Lemmas on queues, and on the end of a record.                               *)

(* A queue that grows has what it had, and what came.                           *)
LEMMA QueueGrows ==
  ASSUME NEW S, NEW s \in Seq(S), NEW x \in S
  PROVE  /\ Append(s, x) \in Seq(S)
         /\ Has(Append(s, x), x)
         /\ \A y : Has(s, y) => Has(Append(s, x), y)
<1>1. /\ Append(s, x) \in Seq(S) /\ Len(Append(s, x)) = Len(s) + 1 /\ Append(s, x)[Len(s) + 1] = x
      /\ \A i \in 1 .. Len(s) : Append(s, x)[i] = s[i]
      /\ DOMAIN s = 1 .. Len(s) /\ DOMAIN Append(s, x) = 1 .. Len(s) + 1 /\ Len(s) \in Nat
  OBVIOUS
<1>2. QED
  BY <1>1 DEF Has

(* A queue that shrinks loses its head.                                        *)
LEMMA QueueShrinks ==
  ASSUME NEW S, NEW s \in Seq(S), s # <<>>
  PROVE  /\ Head(s) \in S /\ Tail(s) \in Seq(S)
         /\ \A y : Has(s, y) => y = Head(s) \/ Has(Tail(s), y)
<1>1. /\ Head(s) = s[1] /\ Head(s) \in S /\ Tail(s) \in Seq(S) /\ Len(Tail(s)) = Len(s) - 1
      /\ \A i \in 1 .. Len(s) - 1 : Tail(s)[i] = s[i + 1]
      /\ DOMAIN s = 1 .. Len(s) /\ DOMAIN Tail(s) = 1 .. Len(s) - 1 /\ Len(s) \in Nat
  OBVIOUS
<1>2. \A i \in DOMAIN s : i # 1 => i - 1 \in DOMAIN Tail(s) /\ Tail(s)[i - 1] = s[i]
  BY <1>1
<1>3. QED
  BY <1>1, <1>2 DEF Has

(* Queues of one.                                                          *)
LEMMA Singles ==
  ASSUME NEW x
  PROVE  Append(<<>>, x) = <<x>> /\ Head(<<x>>) = x /\ Tail(<<x>>) = <<>> /\ <<x>> # <<>> /\ <<x>>[1] = x
OBVIOUS

(* What the end of a record changes (settle).                                  *)
LEMMA EndsMeans ==
  ASSUME InteractionTypeOK, NEW p \in Prompts, NEW status \in {"completed", "failed"},
         NEW how \in {"superseded", "stuck", "answered", "error", "interrupted", "exited"},
         NEW reply \in Whoever, EndsRecord(p, status, how, reply)
  PROVE  /\ rec' \in [Prompts -> Records] /\ slot' = (IF slot = p THEN 0 ELSE slot)
         /\ \A o \in Prompts \ {p} : rec'[o] = rec[o]
         /\ rec'[p].status = status /\ rec'[p].how = how /\ rec'[p].reply = reply
         /\ rec'[p].created = rec[p].created
<1>1. p # 0
  BY InteractionAssumption
<1>2. rec' = [rec EXCEPT ![p].status = status, ![p].how = how, ![p].reply = reply]
      /\ slot' = (IF slot = p THEN 0 ELSE slot)
  BY <1>1 DEF EndsRecord, Settled
<1>3. rec[p] \in Records
  BY DEF InteractionTypeOK
<1>4. QED
  BY <1>2, <1>3 DEF InteractionTypeOK, Records

(* What the types say of the parts of a state.                                  *)
LEMMA PartsTyped ==
  ASSUME InteractionTypeOK
  PROVE  /\ sweep # <<>> => sweep[1] \in {"status", "ended"} /\ sweep[2] \in Nat
         /\ reading # <<>> => reading[1] \in Prompts /\ reading[2] \in Whoever
         /\ \A p \in Prompts : rec[p].created \in Nat /\ p # 0 /\ p \in Whoever
         /\ slot # 0 => slot \in Prompts
         /\ turn # <<>> => turn[1] \in Whoever /\ turn = <<turn[1]>>
         /\ meta.activeAt \in Nat /\ idleAt \in Nat /\ clock \in Nat /\ alone \subseteq Prompts
         /\ 0 \in Whoever /\ 0 \notin Prompts
<1>1. sweep # <<>> => sweep \in {"status", "ended"} \X Nat
  BY DEF InteractionTypeOK
<1>2. reading # <<>> => reading \in Prompts \X Whoever
  BY DEF InteractionTypeOK
<1>3. turn # <<>> => \E p \in Whoever : turn = <<p>>
  BY DEF InteractionTypeOK
<1>4. /\ \A p \in Prompts : rec[p].created \in Nat /\ p # 0 /\ p \in Whoever
      /\ slot # 0 => slot \in Prompts
      /\ meta.activeAt \in Nat /\ idleAt \in Nat /\ clock \in Nat /\ alone \subseteq Prompts
      /\ 0 \in Whoever /\ 0 \notin Prompts
  BY InteractionAssumption DEF InteractionTypeOK, Records, Whoever, Person
<1>5. QED
  BY <1>1, <1>2, <1>3, <1>4

(* The end of the record in flight leaves none pending.                         *)
LEMMA EndsInFlight ==
  ASSUME InteractionTypeOK, SlotIsPending, NEW status \in {"completed", "failed"},
         NEW how \in {"superseded", "stuck", "answered", "error", "interrupted", "exited"},
         NEW reply \in Whoever, EndsRecord(slot, status, how, reply)
  PROVE  /\ rec' \in [Prompts -> Records] /\ slot' = 0
         /\ \A p \in Prompts : /\ rec'[p].status # "pending" /\ rec'[p].created = rec[p].created
                               /\ rec'[p].status = "none" <=> rec[p].status = "none"
                               /\ p # slot => rec'[p] = rec[p]
         /\ slot # 0 => rec'[slot].status = status /\ rec'[slot].how = how /\ rec'[slot].reply = reply
<1>1. CASE slot = 0
  <2>1. rec' = rec /\ slot' = slot /\ rec \in [Prompts -> Records]
    BY <1>1 DEF EndsRecord, InteractionTypeOK
  <2>2. QED
    BY <1>1, <2>1, PartsTyped DEF SlotIsPending
<1>2. CASE slot # 0
  <2>1. slot \in Prompts
    BY <1>2, PartsTyped
  <2>2. /\ rec' \in [Prompts -> Records] /\ slot' = 0 /\ \A o \in Prompts \ {slot} : rec'[o] = rec[o]
        /\ rec'[slot].status = status /\ rec'[slot].how = how /\ rec'[slot].reply = reply
        /\ rec'[slot].created = rec[slot].created
    BY <2>1, EndsMeans
  <2>3. QED
    BY <1>2, <2>1, <2>2 DEF SlotIsPending
<1>3. QED
  BY <1>1, <1>2

(* A turn starts with the head of the queue.                              *)
LEMMA TurnStartsAnswers ==
  ASSUME InteractionInv, TurnStarts
  PROVE  InteractionInv'
<1>1. /\ InteractionTypeOK /\ ClockLeads /\ SlotIsPending /\ PromptsAreAnswerable
      /\ AloneOnPath /\ ReadsItsOwn /\ EndsAreOwn
  BY DEF InteractionInv

<1>2. /\ lives /\ turn = <<>> /\ inbox # <<>> /\ turn' = <<Head(inbox)>> /\ inbox' = Tail(inbox)
      /\ idleAt' = 0 /\ post' = Append(post, Hook("UserPromptSubmit", Head(inbox)))
      /\ rec' = rec /\ slot' = slot /\ req' = req /\ reading' = reading /\ sweep' = sweep /\ cut' = cut
      /\ meta' = meta /\ lives' = lives /\ clock' = clock /\ alone' = alone
  BY DEF TurnStarts, tracker, Hook
<1>3. /\ Head(inbox) \in Whoever /\ inbox' \in Seq(Whoever)
      /\ \A y : Has(inbox, y) => y = Head(inbox) \/ Has(inbox', y)
  BY <1>1, <1>2, QueueShrinks DEF InteractionTypeOK
<1>4. /\ post' \in Seq(HooksOf) /\ Has(post', Hook("UserPromptSubmit", Head(inbox)))
      /\ \A y : Has(post, y) => Has(post', y)
  <2>1. Hook("UserPromptSubmit", Head(inbox)) \in HooksOf /\ post \in Seq(HooksOf)
    BY <1>1, <1>3 DEF InteractionTypeOK, Hook, HooksOf, Kinds
  <2>2. QED
    BY <1>2, <2>1, QueueGrows
<1>5. \A p \in Prompts : inbox = <<p>> => Head(inbox) = p /\ inbox' = <<>>
  BY <1>2, Singles
<1>6. post = <<>> => post' = <<Hook("UserPromptSubmit", Head(inbox))>>
  BY <1>2, Singles
<1>7. InteractionTypeOK'
  BY <1>1, <1>2, <1>3, <1>4, <1>5, <1>6, PartsTyped DEF InteractionTypeOK
<1>8. ClockLeads'
  BY <1>1, <1>2, <1>3, <1>4, <1>5, <1>6, PartsTyped DEF ClockLeads
<1>9. SlotIsPending'
  BY <1>1, <1>2, <1>3, <1>4, <1>5, <1>6, PartsTyped DEF SlotIsPending
<1>10. PromptsAreAnswerable'
  BY <1>1, <1>2, <1>3, <1>4, <1>5, <1>6, PartsTyped DEF PromptsAreAnswerable, UnderWay, SlotIsPending, ClockLeads
<1>11. AloneOnPath'
  BY <1>1, <1>2, <1>3, <1>4, <1>5, <1>6, PartsTyped DEF AloneOnPath, OnItsPath, IsTyped, IsQueued, Begun, Runs, IsTold, Over, Ahead, SweepFinds, SlotIsPending, ClockLeads
<1>12. ReadsItsOwn'
  BY <1>1, <1>2, <1>3, <1>4, <1>5, <1>6, PartsTyped DEF ReadsItsOwn, SlotIsPending, AloneOnPath
<1>13. EndsAreOwn'
  BY <1>1, <1>2, <1>3, <1>4, <1>5, <1>6, PartsTyped DEF EndsAreOwn, ReadsItsOwn
<1>14. QED
  BY <1>7, <1>8, <1>9, <1>10, <1>11, <1>12, <1>13 DEF InteractionInv

(* A request starts: what was in flight is superseded.                    *)
LEMMA StartAnswers ==
  ASSUME InteractionInv, NEW p \in Prompts, Start(p)
  PROVE  InteractionInv'
<1>1. /\ InteractionTypeOK /\ ClockLeads /\ SlotIsPending /\ PromptsAreAnswerable
      /\ AloneOnPath /\ ReadsItsOwn /\ EndsAreOwn
  BY DEF InteractionInv

<1>2. /\ lives /\ req[p] = "none" /\ req' = [req EXCEPT ![p] = "types"] /\ slot' = p /\ clock' = clock + 1
      /\ inbox' = inbox /\ turn' = turn /\ idleAt' = idleAt /\ cut' = cut /\ post' = post /\ meta' = meta
      /\ reading' = reading /\ sweep' = sweep /\ lives' = lives
  BY DEF Start, agent
<1>3. /\ req' \in [Prompts -> {"none", "types", "waits", "told"}] /\ req'[p] = "types"
      /\ \A o \in Prompts \ {p} : req'[o] = req[o]
  BY <1>1, <1>2 DEF InteractionTypeOK
<1>4. rec[p].status = "none" /\ p # slot /\ p # 0 /\ p \notin alone
  BY <1>1, <1>2, PartsTyped DEF SlotIsPending, ReadsItsOwn
<1>5. /\ rec' \in [Prompts -> Records] /\ rec'[p].status = "pending" /\ rec'[p].created = clock + 1
      /\ rec'[p].how = "none" /\ \A o \in Prompts : o # p /\ o # slot => rec'[o] = rec[o]
      /\ slot # 0 => rec'[slot].status = "failed" /\ rec'[slot].how = "superseded"
                     /\ rec'[slot].created = rec[slot].created
  <2>1. /\ clock + 1 \in Nat /\ 0 \in Whoever /\ rec \in [Prompts -> Records] /\ (slot # 0 => slot \in Prompts)
    BY <1>1, PartsTyped DEF InteractionTypeOK
  <2>2. CASE slot = 0
    <3>1. rec' = [rec EXCEPT ![p] = [status |-> "pending", created |-> clock + 1, how |-> "none", reply |-> 0]]
      BY <2>2 DEF Start
    <3>2. [status |-> "pending", created |-> clock + 1, how |-> "none", reply |-> 0] \in Records
      BY <2>1 DEF Records
    <3>3. QED
      BY <2>1, <2>2, <3>1, <3>2
  <2>3. CASE slot # 0
    <3> DEFINE before == [rec EXCEPT ![slot].status = "failed", ![slot].how = "superseded", ![slot].reply = 0]
    <3>1. rec' = [before EXCEPT ![p] = [status |-> "pending", created |-> clock + 1, how |-> "none", reply |-> 0]]
      BY <2>3 DEF Start, Settled
    <3>2. [status |-> "pending", created |-> clock + 1, how |-> "none", reply |-> 0] \in Records
      BY <2>1 DEF Records
    <3>3. /\ before \in [Prompts -> Records] /\ \A o \in Prompts : o # slot => before[o] = rec[o]
          /\ before[slot].status = "failed" /\ before[slot].how = "superseded"
          /\ before[slot].created = rec[slot].created
      BY <2>1, <2>3 DEF Records
    <3> HIDE DEF before
    <3>4. QED
      BY <1>4, <2>1, <2>3, <3>1, <3>2, <3>3
  <2>4. QED
    BY <2>2, <2>3
<1>6. /\ alone' \subseteq alone \cup {p} /\ slot \notin alone'
      /\ p \in alone' => /\ slot = 0 /\ turn = <<>> /\ inbox = <<>> /\ post = <<>> /\ reading = <<>>
                         /\ \A o \in Prompts : req[o] # "types"
  BY <1>1, <1>4, PartsTyped DEF Start
<1>7. InteractionTypeOK'
  BY <1>1, <1>2, <1>3, <1>4, <1>5, <1>6, PartsTyped DEF InteractionTypeOK
<1>8. ClockLeads'
  BY <1>1, <1>2, <1>3, <1>4, <1>5, <1>6, PartsTyped DEF ClockLeads
<1>9. SlotIsPending'
  BY <1>1, <1>2, <1>3, <1>4, <1>5, <1>6, PartsTyped DEF SlotIsPending
<1>10. PromptsAreAnswerable'
  BY <1>1, <1>2, <1>3, <1>4, <1>5, <1>6, PartsTyped DEF PromptsAreAnswerable, UnderWay, SlotIsPending, ClockLeads
<1>11. AloneOnPath'
  BY <1>1, <1>2, <1>3, <1>4, <1>5, <1>6, PartsTyped DEF AloneOnPath, OnItsPath, IsTyped, IsQueued, Begun, Runs, IsTold, Over, Ahead, SweepFinds, SlotIsPending, ClockLeads
<1>12. ReadsItsOwn'
  BY <1>1, <1>2, <1>3, <1>4, <1>5, <1>6, PartsTyped DEF ReadsItsOwn, SlotIsPending, AloneOnPath
<1>13. EndsAreOwn'
  BY <1>1, <1>2, <1>3, <1>4, <1>5, <1>6, PartsTyped DEF EndsAreOwn, ReadsItsOwn
<1>14. QED
  BY <1>7, <1>8, <1>9, <1>10, <1>11, <1>12, <1>13 DEF InteractionInv

(* The text of a prompt is queued for the agent.                          *)
LEMMA TypesAnswers ==
  ASSUME InteractionInv, NEW p \in Prompts, Types(p)
  PROVE  InteractionInv'
<1>1. /\ InteractionTypeOK /\ ClockLeads /\ SlotIsPending /\ PromptsAreAnswerable
      /\ AloneOnPath /\ ReadsItsOwn /\ EndsAreOwn
  BY DEF InteractionInv

<1>2. /\ req[p] = "types" /\ req' = [req EXCEPT ![p] = IF rec[p].status = "pending" THEN "waits" ELSE "told"]
      /\ inbox' = IF lives THEN Append(inbox, p) ELSE inbox
      /\ rec' = rec /\ slot' = slot /\ turn' = turn /\ idleAt' = idleAt /\ cut' = cut /\ post' = post /\ meta' = meta
      /\ reading' = reading /\ sweep' = sweep /\ lives' = lives /\ clock' = clock /\ alone' = alone
  BY DEF Types, WaitsFor
<1>3. /\ req' \in [Prompts -> {"none", "types", "waits", "told"}] /\ req'[p] # "types" /\ req'[p] # "none"
      /\ \A o \in Prompts \ {p} : req'[o] = req[o]
  BY <1>1, <1>2 DEF InteractionTypeOK
<1>4. /\ inbox' \in Seq(Whoever) /\ (lives => Has(inbox', p))
      /\ \A y : Has(inbox, y) => Has(inbox', y)
  <2>1. p \in Whoever /\ inbox \in Seq(Whoever)
    BY <1>1 DEF InteractionTypeOK, Whoever
  <2>2. QED
    BY <1>2, <2>1, QueueGrows
<1>5. lives /\ inbox = <<>> => inbox' = <<p>>
  BY <1>2, Singles
<1>6. InteractionTypeOK'
  BY <1>1, <1>2, <1>3, <1>4, <1>5, PartsTyped DEF InteractionTypeOK
<1>7. ClockLeads'
  BY <1>1, <1>2, <1>3, <1>4, <1>5, PartsTyped DEF ClockLeads
<1>8. SlotIsPending'
  BY <1>1, <1>2, <1>3, <1>4, <1>5, PartsTyped DEF SlotIsPending
<1>9. PromptsAreAnswerable'
  BY <1>1, <1>2, <1>3, <1>4, <1>5, PartsTyped DEF PromptsAreAnswerable, UnderWay, SlotIsPending, ClockLeads
<1>10. AloneOnPath'
  BY <1>1, <1>2, <1>3, <1>4, <1>5, PartsTyped DEF AloneOnPath, OnItsPath, IsTyped, IsQueued, Begun, Runs, IsTold, Over, Ahead, SweepFinds, SlotIsPending, ClockLeads
<1>11. ReadsItsOwn'
  BY <1>1, <1>2, <1>3, <1>4, <1>5, PartsTyped DEF ReadsItsOwn, SlotIsPending, AloneOnPath
<1>12. EndsAreOwn'
  BY <1>1, <1>2, <1>3, <1>4, <1>5, PartsTyped DEF EndsAreOwn, ReadsItsOwn
<1>13. QED
  BY <1>6, <1>7, <1>8, <1>9, <1>10, <1>11, <1>12 DEF InteractionInv

(* The text stays in the composer: what is in flight fails.               *)
LEMMA SticksAnswers ==
  ASSUME InteractionInv, NEW p \in Prompts, Sticks(p)
  PROVE  InteractionInv'
<1>1. /\ InteractionTypeOK /\ ClockLeads /\ SlotIsPending /\ PromptsAreAnswerable
      /\ AloneOnPath /\ ReadsItsOwn /\ EndsAreOwn
  BY DEF InteractionInv

<1>2. /\ lives /\ req[p] = "types" /\ EndsRecord(slot, "failed", "stuck", p)
      /\ req' = [req EXCEPT ![p] = IF rec'[p].status = "pending" THEN "waits" ELSE "told"]
      /\ inbox' = inbox /\ turn' = turn /\ idleAt' = idleAt /\ cut' = cut /\ post' = post /\ meta' = meta
      /\ reading' = reading /\ sweep' = sweep /\ lives' = lives /\ clock' = clock /\ alone' = alone
  BY DEF Sticks, WaitsFor, agent
<1>3. /\ req' \in [Prompts -> {"none", "types", "waits", "told"}] /\ req'[p] # "types" /\ req'[p] # "none"
      /\ \A o \in Prompts \ {p} : req'[o] = req[o]
  BY <1>1, <1>2 DEF InteractionTypeOK
<1>4. /\ rec' \in [Prompts -> Records] /\ slot' = 0
      /\ \A o \in Prompts : /\ rec'[o].status # "pending" /\ rec'[o].created = rec[o].created
                            /\ rec'[o].status = "none" <=> rec[o].status = "none"
                            /\ o # slot => rec'[o] = rec[o]
      /\ slot # 0 => rec'[slot].status = "failed" /\ rec'[slot].how = "stuck" /\ rec'[slot].reply = p
  <2>1. p \in Whoever
    BY DEF Whoever
  <2>2. QED
    BY <1>1, <1>2, <2>1, EndsInFlight
<1>5. slot # 0 /\ slot \in alone => slot = p
  BY <1>1, <1>2, PartsTyped DEF SlotIsPending, AloneOnPath
<1>6. InteractionTypeOK'
  BY <1>1, <1>2, <1>3, <1>4, <1>5, PartsTyped DEF InteractionTypeOK
<1>7. ClockLeads'
  BY <1>1, <1>2, <1>3, <1>4, <1>5, PartsTyped DEF ClockLeads
<1>8. SlotIsPending'
  BY <1>1, <1>2, <1>3, <1>4, <1>5, PartsTyped DEF SlotIsPending
<1>9. PromptsAreAnswerable'
  BY <1>1, <1>2, <1>3, <1>4, <1>5, PartsTyped DEF PromptsAreAnswerable, UnderWay, SlotIsPending, ClockLeads
<1>10. AloneOnPath'
  BY <1>1, <1>2, <1>3, <1>4, <1>5, PartsTyped DEF AloneOnPath, OnItsPath, IsTyped, IsQueued, Begun, Runs, IsTold, Over, Ahead, SweepFinds, SlotIsPending, ClockLeads
<1>11. ReadsItsOwn'
  BY <1>1, <1>2, <1>3, <1>4, <1>5, PartsTyped DEF ReadsItsOwn, SlotIsPending, AloneOnPath
<1>12. EndsAreOwn'
  BY <1>1, <1>2, <1>3, <1>4, <1>5, PartsTyped DEF EndsAreOwn, ReadsItsOwn
<1>13. QED
  BY <1>6, <1>7, <1>8, <1>9, <1>10, <1>11, <1>12 DEF InteractionInv

(* A waiter is answered.                                                  *)
LEMMA AnsweredAnswers ==
  ASSUME InteractionInv, NEW p \in Prompts, Answered(p)
  PROVE  InteractionInv'
<1>1. /\ InteractionTypeOK /\ ClockLeads /\ SlotIsPending /\ PromptsAreAnswerable
      /\ AloneOnPath /\ ReadsItsOwn /\ EndsAreOwn
  BY DEF InteractionInv

<1>2. /\ req[p] = "waits" /\ req' = [req EXCEPT ![p] = "told"]
      /\ rec' = rec /\ slot' = slot /\ inbox' = inbox /\ turn' = turn /\ idleAt' = idleAt /\ cut' = cut /\ post' = post /\ meta' = meta
      /\ reading' = reading /\ sweep' = sweep /\ lives' = lives /\ clock' = clock /\ alone' = alone
  BY DEF Answered, agent
<1>3. /\ req' \in [Prompts -> {"none", "types", "waits", "told"}] /\ req'[p] = "told"
      /\ \A o \in Prompts \ {p} : req'[o] = req[o]
  BY <1>1, <1>2 DEF InteractionTypeOK
<1>4. InteractionTypeOK'
  BY <1>1, <1>2, <1>3, PartsTyped DEF InteractionTypeOK
<1>5. ClockLeads'
  BY <1>1, <1>2, <1>3, PartsTyped DEF ClockLeads
<1>6. SlotIsPending'
  BY <1>1, <1>2, <1>3, PartsTyped DEF SlotIsPending
<1>7. PromptsAreAnswerable'
  BY <1>1, <1>2, <1>3, PartsTyped DEF PromptsAreAnswerable, UnderWay, SlotIsPending, ClockLeads
<1>8. AloneOnPath'
  BY <1>1, <1>2, <1>3, PartsTyped DEF AloneOnPath, OnItsPath, IsTyped, IsQueued, Begun, Runs, IsTold, Over, Ahead, SweepFinds, SlotIsPending, ClockLeads
<1>9. ReadsItsOwn'
  BY <1>1, <1>2, <1>3, PartsTyped DEF ReadsItsOwn, SlotIsPending, AloneOnPath
<1>10. EndsAreOwn'
  BY <1>1, <1>2, <1>3, PartsTyped DEF EndsAreOwn, ReadsItsOwn
<1>11. QED
  BY <1>4, <1>5, <1>6, <1>7, <1>8, <1>9, <1>10 DEF InteractionInv

(* A person types at the same pane.                                       *)
LEMMA PersonTypesAnswers ==
  ASSUME InteractionInv, PersonTypes
  PROVE  InteractionInv'
<1>1. /\ InteractionTypeOK /\ ClockLeads /\ SlotIsPending /\ PromptsAreAnswerable
      /\ AloneOnPath /\ ReadsItsOwn /\ EndsAreOwn
  BY DEF InteractionInv

<1>2. /\ lives /\ inbox' = Append(inbox, Person)
      /\ alone' = alone \ {p \in Prompts : rec[p].status = "pending"}
      /\ rec' = rec /\ slot' = slot /\ req' = req /\ turn' = turn /\ idleAt' = idleAt /\ cut' = cut /\ post' = post /\ meta' = meta
      /\ reading' = reading /\ sweep' = sweep /\ lives' = lives /\ clock' = clock
  BY DEF PersonTypes, Crosses, tracker
<1>3. inbox' \in Seq(Whoever) /\ \A y : Has(inbox, y) => Has(inbox', y)
  <2>1. Person \in Whoever /\ inbox \in Seq(Whoever)
    BY <1>1 DEF InteractionTypeOK, Whoever
  <2>2. QED
    BY <1>2, <2>1, QueueGrows
<1>4. InteractionTypeOK'
  BY <1>1, <1>2, <1>3, PartsTyped DEF InteractionTypeOK
<1>5. ClockLeads'
  BY <1>1, <1>2, <1>3, PartsTyped DEF ClockLeads
<1>6. SlotIsPending'
  BY <1>1, <1>2, <1>3, PartsTyped DEF SlotIsPending
<1>7. PromptsAreAnswerable'
  BY <1>1, <1>2, <1>3, PartsTyped DEF PromptsAreAnswerable, UnderWay, SlotIsPending, ClockLeads
<1>8. AloneOnPath'
  BY <1>1, <1>2, <1>3, PartsTyped DEF AloneOnPath, OnItsPath, IsTyped, IsQueued, Begun, Runs, IsTold, Over, Ahead, SweepFinds, SlotIsPending, ClockLeads
<1>9. ReadsItsOwn'
  BY <1>1, <1>2, <1>3, PartsTyped DEF ReadsItsOwn, SlotIsPending, AloneOnPath
<1>10. EndsAreOwn'
  BY <1>1, <1>2, <1>3, PartsTyped DEF EndsAreOwn, ReadsItsOwn
<1>11. QED
  BY <1>4, <1>5, <1>6, <1>7, <1>8, <1>9, <1>10 DEF InteractionInv

(* A turn ends, and is told or cut.                                       *)
LEMMA TurnEndsAnswers ==
  ASSUME InteractionInv, TurnEnds
  PROVE  InteractionInv'
<1>1. /\ InteractionTypeOK /\ ClockLeads /\ SlotIsPending /\ PromptsAreAnswerable
      /\ AloneOnPath /\ ReadsItsOwn /\ EndsAreOwn
  BY DEF InteractionInv

<1>2. /\ lives /\ turn # <<>> /\ \A i \in DOMAIN post : post[i].hook # "UserPromptSubmit"
      /\ turn' = <<>> /\ idleAt' = clock + 1 /\ clock' = clock + 1
      /\ rec' = rec /\ slot' = slot /\ req' = req /\ inbox' = inbox /\ meta' = meta /\ reading' = reading
      /\ sweep' = sweep /\ lives' = lives /\ alone' = alone
  BY DEF TurnEnds, tracker
<1>3. \/ cut' = cut /\ \E hook \in {"Stop", "StopFailure"} : post' = Append(post, Hook(hook, turn[1]))
      \/ cut' = cut \cup {turn[1]} /\ post' = post
  BY DEF TurnEnds, Hook
<1>4. turn[1] \in Whoever /\ turn = <<turn[1]>> /\ post \in Seq(HooksOf)
  BY <1>1, <1>2, PartsTyped DEF InteractionTypeOK
<1>5. /\ post' \in Seq(HooksOf) /\ cut \subseteq cut' /\ cut' \subseteq Whoever
      /\ \A y : Has(post, y) => Has(post', y)
  <2>1. CASE cut' = cut \cup {turn[1]} /\ post' = post
    BY <1>1, <1>4, <2>1 DEF InteractionTypeOK
  <2>2. ASSUME cut' = cut, NEW hook \in {"Stop", "StopFailure"}, post' = Append(post, Hook(hook, turn[1]))
        PROVE  /\ post' \in Seq(HooksOf) /\ cut \subseteq cut' /\ cut' \subseteq Whoever
               /\ \A y : Has(post, y) => Has(post', y)
    <3>1. Hook(hook, turn[1]) \in HooksOf
      BY <1>4 DEF Hook, HooksOf, Kinds
    <3>2. QED
      BY <1>1, <1>4, <2>2, <3>1, QueueGrows DEF InteractionTypeOK
  <2>3. QED
    BY <1>3, <2>1, <2>2
<1>6. post = <<>> => \/ post' = <<Hook("Stop", turn[1])>> \/ post' = <<Hook("StopFailure", turn[1])>>
                     \/ post' = <<>> /\ turn[1] \in cut'
  BY <1>3, Singles
<1>7. \A p \in Prompts : post # <<Hook("UserPromptSubmit", p)>>
  BY <1>2 DEF Hook
<1>8. \A p \in Prompts : turn = <<p>> => turn[1] = p
  OBVIOUS
<1>9. InteractionTypeOK'
  BY <1>1, <1>2, <1>3, <1>4, <1>5, <1>6, <1>7, <1>8, PartsTyped DEF InteractionTypeOK
<1>10. ClockLeads'
  BY <1>1, <1>2, <1>3, <1>4, <1>5, <1>6, <1>7, <1>8, PartsTyped DEF ClockLeads
<1>11. SlotIsPending'
  BY <1>1, <1>2, <1>3, <1>4, <1>5, <1>6, <1>7, <1>8, PartsTyped DEF SlotIsPending
<1>12. PromptsAreAnswerable'
  BY <1>1, <1>2, <1>3, <1>4, <1>5, <1>6, <1>7, <1>8, PartsTyped DEF PromptsAreAnswerable, UnderWay, SlotIsPending, ClockLeads
<1>13. AloneOnPath'
  BY <1>1, <1>2, <1>3, <1>4, <1>5, <1>6, <1>7, <1>8, PartsTyped DEF AloneOnPath, OnItsPath, IsTyped, IsQueued, Begun, Runs, IsTold, Over, Ahead, SweepFinds, SlotIsPending, ClockLeads
<1>14. ReadsItsOwn'
  BY <1>1, <1>2, <1>3, <1>4, <1>5, <1>6, <1>7, <1>8, PartsTyped DEF ReadsItsOwn, SlotIsPending, AloneOnPath
<1>15. EndsAreOwn'
  BY <1>1, <1>2, <1>3, <1>4, <1>5, <1>6, <1>7, <1>8, PartsTyped DEF EndsAreOwn, ReadsItsOwn
<1>16. QED
  BY <1>9, <1>10, <1>11, <1>12, <1>13, <1>14, <1>15 DEF InteractionInv

(* A turn is announced.                                                   *)
LEMMA HookOpensAnswers ==
  ASSUME InteractionInv, HookOpens
  PROVE  InteractionInv'
<1>1. /\ InteractionTypeOK /\ ClockLeads /\ SlotIsPending /\ PromptsAreAnswerable
      /\ AloneOnPath /\ ReadsItsOwn /\ EndsAreOwn
  BY DEF InteractionInv

<1>2. /\ lives /\ post # <<>> /\ Head(post).hook = "UserPromptSubmit" /\ reading = <<>>
      /\ meta' = [open |-> TRUE, activeAt |-> clock + 1] /\ clock' = clock + 1 /\ post' = Tail(post)
      /\ rec' = rec /\ slot' = slot /\ req' = req /\ inbox' = inbox /\ turn' = turn /\ idleAt' = idleAt /\ cut' = cut
      /\ reading' = reading /\ sweep' = sweep /\ lives' = lives /\ alone' = alone
  BY DEF HookOpens, tracker, agent
<1>3. /\ meta' \in [open : BOOLEAN, activeAt : Nat] /\ meta'.activeAt = clock + 1 /\ clock' \in Nat
  <2>1. clock + 1 \in Nat
    BY <1>1, PartsTyped
  <2>2. QED
    BY <1>2, <2>1
<1>4. meta'.open
  BY <1>2, Zenon
<1>5. /\ post' \in Seq(HooksOf)
  BY <1>1, <1>2, QueueShrinks DEF InteractionTypeOK
<1>6. \A x : post = <<x>> => Head(post) = x /\ post' = <<>>
  BY <1>2, Singles
<1>7. \A p \in Prompts : post # <<Hook("Stop", p)>> /\ post # <<Hook("StopFailure", p)>>
  BY <1>2, <1>6 DEF Hook
<1>8. InteractionTypeOK'
  BY <1>1, <1>2, <1>3, <1>4, <1>5, <1>6, <1>7, PartsTyped DEF InteractionTypeOK
<1>9. ClockLeads'
  BY <1>1, <1>2, <1>3, <1>4, <1>5, <1>6, <1>7, PartsTyped DEF ClockLeads
<1>10. SlotIsPending'
  BY <1>1, <1>2, <1>3, <1>4, <1>5, <1>6, <1>7, PartsTyped DEF SlotIsPending
<1>11. PromptsAreAnswerable'
  BY <1>1, <1>2, <1>3, <1>4, <1>5, <1>6, <1>7, PartsTyped DEF PromptsAreAnswerable, UnderWay, SlotIsPending, ClockLeads
<1>12. AloneOnPath'
  BY <1>1, <1>2, <1>3, <1>4, <1>5, <1>6, <1>7, PartsTyped DEF AloneOnPath, OnItsPath, IsTyped, IsQueued, Begun, Runs, IsTold, Over, Ahead, SweepFinds, SlotIsPending, ClockLeads
<1>13. ReadsItsOwn'
  BY <1>1, <1>2, <1>3, <1>4, <1>5, <1>6, <1>7, PartsTyped DEF ReadsItsOwn, SlotIsPending, AloneOnPath
<1>14. EndsAreOwn'
  BY <1>1, <1>2, <1>3, <1>4, <1>5, <1>6, <1>7, PartsTyped DEF EndsAreOwn, ReadsItsOwn
<1>15. QED
  BY <1>8, <1>9, <1>10, <1>11, <1>12, <1>13, <1>14 DEF InteractionInv

(* A hook tells the end of a turn.                                        *)
LEMMA HookStopsAnswers ==
  ASSUME InteractionInv, HookStops
  PROVE  InteractionInv'
<1>1. /\ InteractionTypeOK /\ ClockLeads /\ SlotIsPending /\ PromptsAreAnswerable
      /\ AloneOnPath /\ ReadsItsOwn /\ EndsAreOwn
  BY DEF InteractionInv

<1>2. /\ lives /\ post # <<>> /\ Head(post).hook # "UserPromptSubmit" /\ reading = <<>>
      /\ post' = Tail(post)
      /\ req' = req /\ inbox' = inbox /\ turn' = turn /\ idleAt' = idleAt /\ cut' = cut
      /\ sweep' = sweep /\ lives' = lives /\ clock' = clock /\ alone' = alone
  BY DEF HookStops, agent
<1>3. /\ meta' \in [open : BOOLEAN, activeAt : Nat] /\ meta'.activeAt = meta.activeAt
  <2>1. meta \in [open : BOOLEAN, activeAt : Nat]
    BY <1>1 DEF InteractionTypeOK
  <2>2. meta' = [meta EXCEPT !.open = FALSE]
    BY DEF HookStops
  <2>3. QED
    BY <2>1, <2>2
<1>4. ~meta'.open
  <2>1. meta \in [open : BOOLEAN, activeAt : Nat]
    BY <1>1 DEF InteractionTypeOK
  <2>2. meta' = [meta EXCEPT !.open = FALSE]
    BY DEF HookStops
  <2>3. QED
    BY <2>1, <2>2, Zenon
<1>5. /\ Head(post) \in HooksOf /\ post' \in Seq(HooksOf)
      /\ \A y : Has(post, y) => y = Head(post) \/ Has(post', y)
  BY <1>1, <1>2, QueueShrinks DEF InteractionTypeOK
<1>6. \A x : post = <<x>> => Head(post) = x /\ post' = <<>>
  BY <1>2, Singles
<1>7. \A p \in Prompts : Hook("UserPromptSubmit", p) # Head(post) /\ post # <<Hook("UserPromptSubmit", p)>>
  BY <1>2, <1>6 DEF Hook
<1>8. \A p \in Prompts : IsTold(p) => Head(post).of = p /\ post' = <<>>
  BY <1>6 DEF IsTold, Hook
<1>9. Head(post).of \in Whoever
  BY <1>5 DEF HooksOf
<1>10. slot # 0 /\ slot \in alone => Head(post).of = slot
  <2>1. SUFFICES ASSUME slot # 0, slot \in alone PROVE Head(post).of = slot
    OBVIOUS
  <2>2. OnItsPath(slot) /\ slot \in Prompts
    BY <1>1, <1>2, <2>1, PartsTyped DEF AloneOnPath, SlotIsPending
  <2>3. QED
    BY <1>2, <1>7, <1>8, <2>2 DEF OnItsPath, IsTyped, IsQueued, Begun, Runs, Over
<1>11. /\ rec' \in [Prompts -> Records] /\ slot' \in {slot, 0}
       /\ reading' # <<>> => slot # 0 /\ reading' = <<slot, Head(post).of>>
       /\ \A p \in Prompts : /\ rec'[p].created = rec[p].created
                             /\ rec'[p].status = "none" <=> rec[p].status = "none"
                             /\ p # slot => rec'[p] = rec[p]
                             /\ rec'[p].status = "pending" =>
                                  rec[p].status = "pending" /\ reading' # <<>> /\ slot' = p /\ slot = p
       /\ slot # 0 => \/ rec'[slot] = rec[slot]
                      \/ rec'[slot].status = "failed" /\ rec'[slot].how = "error" /\ slot' = 0
       /\ slot' # 0 => rec' = rec
       /\ reading' # <<>> => reading'[1] = slot /\ reading'[2] = Head(post).of
  <2>1. \/ reading' = Takes(Head(post).of) /\ rec' = rec /\ slot' = slot
        \/ EndsRecord(slot, "failed", "error", Head(post).of) /\ reading' = reading
    BY DEF HookStops
  <2>2. CASE reading' = Takes(Head(post).of) /\ rec' = rec /\ slot' = slot
    BY <1>1, <2>2, PartsTyped DEF Takes, SlotIsPending, InteractionTypeOK
  <2>3. CASE EndsRecord(slot, "failed", "error", Head(post).of) /\ reading' = reading
    <3>1. /\ rec' \in [Prompts -> Records] /\ slot' = 0
          /\ \A p \in Prompts : /\ rec'[p].status # "pending" /\ rec'[p].created = rec[p].created
                                /\ rec'[p].status = "none" <=> rec[p].status = "none"
                                /\ p # slot => rec'[p] = rec[p]
          /\ slot # 0 => rec'[slot].status = "failed" /\ rec'[slot].how = "error"
      BY <1>1, <1>9, <2>3, EndsInFlight
    <3>2. QED
      BY <1>2, <2>3, <3>1
  <2>4. QED
    BY <2>1, <2>2, <2>3
<1>12. InteractionTypeOK'
  BY <1>1, <1>2, <1>3, <1>4, <1>5, <1>6, <1>7, <1>8, <1>9, <1>10, <1>11, PartsTyped DEF InteractionTypeOK
<1>13. ClockLeads'
  BY <1>1, <1>2, <1>3, <1>4, <1>5, <1>6, <1>7, <1>8, <1>9, <1>10, <1>11, PartsTyped DEF ClockLeads
<1>14. SlotIsPending'
  BY <1>1, <1>2, <1>3, <1>4, <1>5, <1>6, <1>7, <1>8, <1>9, <1>10, <1>11, PartsTyped DEF SlotIsPending
<1>15. PromptsAreAnswerable'
  BY <1>1, <1>2, <1>3, <1>4, <1>5, <1>6, <1>7, <1>8, <1>9, <1>10, <1>11, PartsTyped DEF PromptsAreAnswerable, UnderWay, SlotIsPending, ClockLeads
<1>16. AloneOnPath'
  BY <1>1, <1>2, <1>3, <1>4, <1>5, <1>6, <1>7, <1>8, <1>9, <1>10, <1>11, PartsTyped DEF AloneOnPath, OnItsPath, IsTyped, IsQueued, Begun, Runs, IsTold, Over, Ahead, SweepFinds, SlotIsPending, ClockLeads
<1>17. ReadsItsOwn'
  BY <1>1, <1>2, <1>3, <1>4, <1>5, <1>6, <1>7, <1>8, <1>9, <1>10, <1>11, PartsTyped DEF ReadsItsOwn, SlotIsPending, AloneOnPath
<1>18. EndsAreOwn'
  BY <1>1, <1>2, <1>3, <1>4, <1>5, <1>6, <1>7, <1>8, <1>9, <1>10, <1>11, PartsTyped DEF EndsAreOwn, ReadsItsOwn
<1>19. QED
  BY <1>12, <1>13, <1>14, <1>15, <1>16, <1>17, <1>18 DEF InteractionInv

(* The record a reading was begun for is settled.                         *)
LEMMA StopSettlesAnswers ==
  ASSUME InteractionInv, StopSettles
  PROVE  InteractionInv'
<1>1. /\ InteractionTypeOK /\ ClockLeads /\ SlotIsPending /\ PromptsAreAnswerable
      /\ AloneOnPath /\ ReadsItsOwn /\ EndsAreOwn
  BY DEF InteractionInv

<1>2. /\ reading # <<>> /\ reading' = <<>> /\ EndsRecord(reading[1], "completed", "answered", reading[2])
      /\ req' = req /\ inbox' = inbox /\ turn' = turn /\ idleAt' = idleAt /\ cut' = cut /\ post' = post /\ meta' = meta
      /\ sweep' = sweep /\ lives' = lives /\ clock' = clock /\ alone' = alone
  BY DEF StopSettles, agent
<1>3. /\ reading[1] \in Prompts /\ rec' \in [Prompts -> Records]
      /\ slot' = (IF slot = reading[1] THEN 0 ELSE slot)
      /\ \A o \in Prompts \ {reading[1]} : rec'[o] = rec[o]
      /\ rec'[reading[1]].status = "completed" /\ rec'[reading[1]].how = "answered"
      /\ rec'[reading[1]].reply = reading[2] /\ rec'[reading[1]].created = rec[reading[1]].created
  <2>1. reading[1] \in Prompts /\ reading[2] \in Whoever
    BY <1>1, <1>2, PartsTyped
  <2>2. QED
    BY <1>1, <1>2, <2>1, EndsMeans
<1>4. InteractionTypeOK'
  BY <1>1, <1>2, <1>3, PartsTyped DEF InteractionTypeOK
<1>5. ClockLeads'
  BY <1>1, <1>2, <1>3, PartsTyped DEF ClockLeads
<1>6. SlotIsPending'
  BY <1>1, <1>2, <1>3, PartsTyped DEF SlotIsPending
<1>7. PromptsAreAnswerable'
  BY <1>1, <1>2, <1>3, PartsTyped DEF PromptsAreAnswerable, UnderWay, SlotIsPending, ClockLeads
<1>8. AloneOnPath'
  BY <1>1, <1>2, <1>3, PartsTyped DEF AloneOnPath, OnItsPath, IsTyped, IsQueued, Begun, Runs, IsTold, Over, Ahead, SweepFinds, SlotIsPending, ClockLeads
<1>9. ReadsItsOwn'
  BY <1>1, <1>2, <1>3, PartsTyped DEF ReadsItsOwn, SlotIsPending, AloneOnPath
<1>10. EndsAreOwn'
  BY <1>1, <1>2, <1>3, PartsTyped DEF EndsAreOwn, ReadsItsOwn
<1>11. QED
  BY <1>4, <1>5, <1>6, <1>7, <1>8, <1>9, <1>10 DEF InteractionInv

(* The sweep reads the status file of an idle agent.                      *)
LEMMA SweepReadsAnswers ==
  ASSUME InteractionInv, SweepReads
  PROVE  InteractionInv'
<1>1. /\ InteractionTypeOK /\ ClockLeads /\ SlotIsPending /\ PromptsAreAnswerable
      /\ AloneOnPath /\ ReadsItsOwn /\ EndsAreOwn
  BY DEF InteractionInv

<1>2. /\ lives /\ sweep = <<>> /\ idleAt > 0 /\ post = <<>> /\ meta.open /\ sweep' = <<"status", idleAt>>
      /\ rec' = rec /\ slot' = slot /\ req' = req /\ inbox' = inbox /\ turn' = turn /\ idleAt' = idleAt /\ cut' = cut /\ post' = post
      /\ meta' = meta /\ reading' = reading /\ lives' = lives /\ clock' = clock /\ alone' = alone
  BY DEF SweepReads, agent
<1>3. /\ sweep' \in {"status", "ended"} \X Nat /\ sweep'[1] = "status" /\ sweep'[2] = idleAt
  BY <1>1, <1>2, PartsTyped
<1>4. InteractionTypeOK'
  BY <1>1, <1>2, <1>3, PartsTyped DEF InteractionTypeOK
<1>5. ClockLeads'
  BY <1>1, <1>2, <1>3, PartsTyped DEF ClockLeads
<1>6. SlotIsPending'
  BY <1>1, <1>2, <1>3, PartsTyped DEF SlotIsPending
<1>7. PromptsAreAnswerable'
  BY <1>1, <1>2, <1>3, PartsTyped DEF PromptsAreAnswerable, UnderWay, SlotIsPending, ClockLeads
<1>8. AloneOnPath'
  BY <1>1, <1>2, <1>3, PartsTyped DEF AloneOnPath, OnItsPath, IsTyped, IsQueued, Begun, Runs, IsTold, Over, Ahead, SweepFinds, SlotIsPending, ClockLeads
<1>9. ReadsItsOwn'
  BY <1>1, <1>2, <1>3, PartsTyped DEF ReadsItsOwn, SlotIsPending, AloneOnPath
<1>10. EndsAreOwn'
  BY <1>1, <1>2, <1>3, PartsTyped DEF EndsAreOwn, ReadsItsOwn
<1>11. QED
  BY <1>4, <1>5, <1>6, <1>7, <1>8, <1>9, <1>10 DEF InteractionInv

(* The sweep judges the turn on the meta as it is now.                    *)
LEMMA SweepJudgesAnswers ==
  ASSUME InteractionInv, SweepJudges
  PROVE  InteractionInv'
<1>1. /\ InteractionTypeOK /\ ClockLeads /\ SlotIsPending /\ PromptsAreAnswerable
      /\ AloneOnPath /\ ReadsItsOwn /\ EndsAreOwn
  BY DEF InteractionInv

<1>2. /\ sweep # <<>> /\ sweep[1] = "status"
      /\ rec' = rec /\ slot' = slot /\ req' = req /\ inbox' = inbox /\ turn' = turn /\ idleAt' = idleAt /\ cut' = cut /\ post' = post
      /\ reading' = reading /\ lives' = lives /\ clock' = clock /\ alone' = alone
  BY DEF SweepJudges, agent
<1>3. \/ /\ meta.open /\ meta.activeAt < sweep[2] /\ ~meta'.open /\ sweep'[1] = "ended"
         /\ sweep' # <<>> /\ sweep'[2] = meta.activeAt /\ meta'.activeAt = meta.activeAt
         /\ sweep' \in {"status", "ended"} \X Nat /\ meta' \in [open : BOOLEAN, activeAt : Nat]
      \/ sweep' = <<>> /\ meta' = meta
  <2>1. meta \in [open : BOOLEAN, activeAt : Nat] /\ meta.activeAt \in Nat
    BY <1>1, PartsTyped DEF InteractionTypeOK
  <2>2. CASE meta.open /\ meta.activeAt < sweep[2]
    <3>1. meta' = [meta EXCEPT !.open = FALSE] /\ sweep' = <<"ended", meta.activeAt>>
      BY <2>2 DEF SweepJudges
    <3>2. ~meta'.open
      BY <2>1, <3>1, Zenon
    <3>3. meta' \in [open : BOOLEAN, activeAt : Nat] /\ meta'.activeAt = meta.activeAt
      BY <2>1, <3>1
    <3>4. QED
      BY <2>1, <2>2, <3>1, <3>2, <3>3
  <2>3. CASE ~(meta.open /\ meta.activeAt < sweep[2])
    BY <2>3 DEF SweepJudges
  <2>4. QED
    BY <2>2, <2>3
<1>4. InteractionTypeOK'
  BY <1>1, <1>2, <1>3, PartsTyped DEF InteractionTypeOK
<1>5. ClockLeads'
  BY <1>1, <1>2, <1>3, PartsTyped DEF ClockLeads
<1>6. SlotIsPending'
  BY <1>1, <1>2, <1>3, PartsTyped DEF SlotIsPending
<1>7. PromptsAreAnswerable'
  BY <1>1, <1>2, <1>3, PartsTyped DEF PromptsAreAnswerable, UnderWay, SlotIsPending, ClockLeads
<1>8. AloneOnPath'
  BY <1>1, <1>2, <1>3, PartsTyped DEF AloneOnPath, OnItsPath, IsTyped, IsQueued, Begun, Runs, IsTold, Over, Ahead, SweepFinds, SlotIsPending, ClockLeads
<1>9. ReadsItsOwn'
  BY <1>1, <1>2, <1>3, PartsTyped DEF ReadsItsOwn, SlotIsPending, AloneOnPath
<1>10. EndsAreOwn'
  BY <1>1, <1>2, <1>3, PartsTyped DEF EndsAreOwn, ReadsItsOwn
<1>11. QED
  BY <1>4, <1>5, <1>6, <1>7, <1>8, <1>9, <1>10 DEF InteractionInv

(* The sweep ends the prompt of the turn it has found over.               *)
LEMMA SweepSettlesAnswers ==
  ASSUME InteractionInv, SweepSettles
  PROVE  InteractionInv'
<1>1. /\ InteractionTypeOK /\ ClockLeads /\ SlotIsPending /\ PromptsAreAnswerable
      /\ AloneOnPath /\ ReadsItsOwn /\ EndsAreOwn
  BY DEF InteractionInv

<1>2. /\ sweep # <<>> /\ sweep[1] = "ended" /\ sweep' = <<>>
      /\ req' = req /\ inbox' = inbox /\ turn' = turn /\ idleAt' = idleAt /\ cut' = cut /\ post' = post /\ meta' = meta
      /\ reading' = reading /\ lives' = lives /\ clock' = clock /\ alone' = alone
  BY DEF SweepSettles, agent
<1>3. /\ rec' \in [Prompts -> Records] /\ slot' \in {slot, 0}
      /\ \A p \in Prompts : /\ rec'[p].created = rec[p].created
                            /\ rec'[p].status = "none" <=> rec[p].status = "none"
                            /\ p # slot => rec'[p] = rec[p]
                            /\ rec'[p].status = "pending" =>
                                 /\ rec[p].status = "pending" /\ slot' = p
                                 /\ lives => ~(rec[p].created <= sweep[2])
      /\ slot # 0 => \/ rec'[slot] = rec[slot]
                     \/ /\ rec'[slot].status = "failed" /\ rec'[slot].how = "interrupted"
                        /\ lives /\ rec[slot].created <= sweep[2]
      /\ slot' # 0 => rec' = rec
  <2>1. CASE ~(lives /\ slot # 0 /\ TurnWasOf(slot, sweep[2]))
    <3>1. rec' = rec /\ slot' = slot /\ (lives => slot = 0 \/ ~(rec[slot].created <= sweep[2]))
      BY <2>1 DEF SweepSettles, TurnWasOf
    <3>2. QED
      BY <1>1, <3>1, PartsTyped DEF SlotIsPending, InteractionTypeOK
  <2>2. CASE lives /\ slot # 0 /\ TurnWasOf(slot, sweep[2])
    <3>1. EndsRecord(slot, "failed", "interrupted", 0) /\ 0 \in Whoever
      BY <1>1, <2>2, PartsTyped DEF SweepSettles
    <3>2. /\ rec' \in [Prompts -> Records] /\ slot' = 0
          /\ \A p \in Prompts : /\ rec'[p].status # "pending" /\ rec'[p].created = rec[p].created
                                /\ rec'[p].status = "none" <=> rec[p].status = "none"
                                /\ p # slot => rec'[p] = rec[p]
          /\ slot # 0 => rec'[slot].status = "failed" /\ rec'[slot].how = "interrupted"
      BY <1>1, <3>1, EndsInFlight
    <3>3. lives /\ rec[slot].created <= sweep[2]
      BY <2>2 DEF TurnWasOf
    <3>4. QED
      BY <2>2, <3>2, <3>3
  <2>3. QED
    BY <2>1, <2>2
<1>4. lives /\ slot # 0 /\ slot \in alone /\ rec[slot].created <= sweep[2] => slot \in cut
  BY <1>1, <1>2 DEF AloneOnPath, SlotIsPending, SweepFinds
<1>5. InteractionTypeOK'
  BY <1>1, <1>2, <1>3, <1>4, PartsTyped DEF InteractionTypeOK
<1>6. ClockLeads'
  BY <1>1, <1>2, <1>3, <1>4, PartsTyped DEF ClockLeads
<1>7. SlotIsPending'
  BY <1>1, <1>2, <1>3, <1>4, PartsTyped DEF SlotIsPending
<1>8. PromptsAreAnswerable'
  BY <1>1, <1>2, <1>3, <1>4, PartsTyped DEF PromptsAreAnswerable, UnderWay, SlotIsPending, ClockLeads
<1>9. AloneOnPath'
  BY <1>1, <1>2, <1>3, <1>4, PartsTyped DEF AloneOnPath, OnItsPath, IsTyped, IsQueued, Begun, Runs, IsTold, Over, Ahead, SweepFinds, SlotIsPending, ClockLeads
<1>10. ReadsItsOwn'
  BY <1>1, <1>2, <1>3, <1>4, PartsTyped DEF ReadsItsOwn, SlotIsPending, AloneOnPath
<1>11. EndsAreOwn'
  BY <1>1, <1>2, <1>3, <1>4, PartsTyped DEF EndsAreOwn, ReadsItsOwn
<1>12. QED
  BY <1>5, <1>6, <1>7, <1>8, <1>9, <1>10, <1>11 DEF InteractionInv

(* The session ends.                                                      *)
LEMMA SessionEndsAnswers ==
  ASSUME InteractionInv, SessionEnds
  PROVE  InteractionInv'
<1>1. /\ InteractionTypeOK /\ ClockLeads /\ SlotIsPending /\ PromptsAreAnswerable
      /\ AloneOnPath /\ ReadsItsOwn /\ EndsAreOwn
  BY DEF InteractionInv

<1>2. /\ lives /\ lives' = FALSE /\ turn' = <<>> /\ inbox' = <<>> /\ post' = <<>>
      /\ req' = req /\ idleAt' = idleAt /\ cut' = cut /\ meta' = meta
      /\ reading' = reading /\ sweep' = sweep /\ clock' = clock /\ alone' = alone
  BY DEF SessionEnds
<1>3. ~lives'
  BY <1>2, Zenon
<1>4. \/ rec' = rec /\ slot' = slot
      \/ /\ rec' \in [Prompts -> Records] /\ slot' = 0
         /\ \A p \in Prompts : /\ rec'[p].status # "pending" /\ rec'[p].created = rec[p].created
                               /\ rec'[p].status = "none" <=> rec[p].status = "none"
                               /\ p # slot => rec'[p] = rec[p]
         /\ slot # 0 => rec'[slot].status = "failed" /\ rec'[slot].how = "exited"
  <2>1. CASE UNCHANGED <<rec, slot>>
    BY <2>1
  <2>2. CASE EndsRecord(slot, "failed", "exited", 0)
    <3>1. 0 \in Whoever
      BY <1>1, PartsTyped
    <3>2. QED
      BY <1>1, <2>2, <3>1, EndsInFlight
  <2>3. QED
    BY <2>1, <2>2 DEF SessionEnds
<1>5. InteractionTypeOK'
  BY <1>1, <1>2, <1>3, <1>4, PartsTyped DEF InteractionTypeOK
<1>6. ClockLeads'
  BY <1>1, <1>2, <1>3, <1>4, PartsTyped DEF ClockLeads
<1>7. SlotIsPending'
  BY <1>1, <1>2, <1>3, <1>4, PartsTyped DEF SlotIsPending
<1>8. PromptsAreAnswerable'
  BY <1>1, <1>2, <1>3, <1>4, PartsTyped DEF PromptsAreAnswerable, UnderWay, SlotIsPending, ClockLeads
<1>9. AloneOnPath'
  BY <1>1, <1>2, <1>3, <1>4, PartsTyped DEF AloneOnPath, OnItsPath, IsTyped, IsQueued, Begun, Runs, IsTold, Over, Ahead, SweepFinds, SlotIsPending, ClockLeads
<1>10. ReadsItsOwn'
  BY <1>1, <1>2, <1>3, <1>4, PartsTyped DEF ReadsItsOwn, SlotIsPending, AloneOnPath
<1>11. EndsAreOwn'
  BY <1>1, <1>2, <1>3, <1>4, PartsTyped DEF EndsAreOwn, ReadsItsOwn
<1>12. QED
  BY <1>5, <1>6, <1>7, <1>8, <1>9, <1>10, <1>11 DEF InteractionInv

-----------------------------------------------------------------------------
(* The invariant is inductive.                                               *)

(* Nothing was sent: the first state.                                          *)
LEMMA InteractionStarts == InteractionInit => InteractionInv
<1> SUFFICES ASSUME InteractionInit PROVE InteractionInv
  OBVIOUS
<1>1. /\ \A p \in Prompts : rec[p] = Unsent /\ req[p] = "none"
      /\ slot = 0 /\ inbox = <<>> /\ turn = <<>> /\ post = <<>> /\ reading = <<>> /\ sweep = <<>>
      /\ meta.activeAt = 0 /\ idleAt = 1 /\ clock = 1 /\ cut = {} /\ alone = {}
  BY DEF InteractionInit
<1>2. InteractionTypeOK
  <2>1. Unsent \in Records /\ 0 \in Whoever
    BY DEF Unsent, Records, Whoever, Person
  <2>2. meta \in [open : BOOLEAN, activeAt : Nat]
    BY DEF InteractionInit
  <2>3. /\ rec \in [Prompts -> Records] /\ req \in [Prompts -> {"none", "types", "waits", "told"}]
    BY <2>1 DEF InteractionInit
  <2>4. inbox \in Seq(Whoever) /\ post \in Seq(HooksOf)
    BY <1>1
  <2>5. QED
    BY <1>1, <2>1, <2>2, <2>3, <2>4 DEF InteractionTypeOK
<1>3. \A p \in Prompts : rec[p].status = "none" /\ rec[p].created = 0
  BY <1>1 DEF Unsent
<1>4. QED
  BY <1>1, <1>2, <1>3 DEF InteractionInv, ClockLeads, SlotIsPending, PromptsAreAnswerable, AloneOnPath,
                          ReadsItsOwn, EndsAreOwn

(* Every step keeps it.                                                     *)
LEMMA InteractionKeeps == InteractionInv /\ [InteractionNext]_interactionVars => InteractionInv'
<1> SUFFICES ASSUME InteractionInv, [InteractionNext]_interactionVars PROVE InteractionInv'
  OBVIOUS
<1>1. CASE UNCHANGED interactionVars
  BY <1>1 DEF interactionVars, InteractionInv, InteractionTypeOK, ClockLeads, SlotIsPending, PromptsAreAnswerable,
              UnderWay, AloneOnPath, OnItsPath, IsTyped, IsQueued, Begun, Runs, IsTold, Over, Ahead, SweepFinds,
              ReadsItsOwn, EndsAreOwn
<1>2. ASSUME NEW p \in Prompts, Start(p) \/ Types(p) \/ Sticks(p) \/ Answered(p) PROVE InteractionInv'
  BY <1>2, StartAnswers, TypesAnswers, SticksAnswers, AnsweredAnswers
<1>3. CASE PersonTypes
  BY <1>3, PersonTypesAnswers
<1>4. CASE TurnStarts
  BY <1>4, TurnStartsAnswers
<1>5. CASE TurnEnds
  BY <1>5, TurnEndsAnswers
<1>6. CASE HookOpens
  BY <1>6, HookOpensAnswers
<1>7. CASE HookStops
  BY <1>7, HookStopsAnswers
<1>8. CASE StopSettles
  BY <1>8, StopSettlesAnswers
<1>9. CASE SweepReads
  BY <1>9, SweepReadsAnswers
<1>10. CASE SweepJudges
  BY <1>10, SweepJudgesAnswers
<1>11. CASE SweepSettles
  BY <1>11, SweepSettlesAnswers
<1>12. CASE SessionEnds
  BY <1>12, SessionEndsAnswers
<1>13. QED
  BY <1>1, <1>2, <1>3, <1>4, <1>5, <1>6, <1>7, <1>8, <1>9, <1>10, <1>11, <1>12 DEF InteractionNext

THEOREM InteractionInvariant == InteractionSpec => []InteractionInv
BY InteractionStarts, InteractionKeeps, PTL DEF InteractionSpec

(* A prompt sent to an agent at rest and not crossed by another is answered by     *)
(* its own turn, and is called interrupted only when that turn was.              *)
THEOREM PromptsEndsAreOwn == InteractionSpec => []EndsAreOwn
<1>1. InteractionInv => EndsAreOwn
  BY DEF InteractionInv
<1>2. QED
  BY <1>1, InteractionInvariant, PTL

(* Nobody waits for an agent at rest: a prompt that was typed is queued, about to     *)
(* be announced or under way as long as it is pending, and at rest it is neither.    *)
THEOREM PromptsRestEndsWaits == InteractionSpec => []RestEndsWaits
<1>1. InteractionInv => RestEndsWaits
  <2>1. SUFFICES ASSUME InteractionInv, lives, turn = <<>>, inbox = <<>>, post = <<>>, reading = <<>>,
                        sweep = <<>>, ~meta.open, NEW p \in Prompts, req[p] \in {"waits", "told"},
                        rec[p].status = "pending"
                 PROVE  FALSE
    BY DEF RestEndsWaits
  <2>2. Has(inbox, p) \/ Has(post, Hook("UserPromptSubmit", p)) \/ UnderWay(p)
    BY <2>1 DEF InteractionInv, PromptsAreAnswerable
  <2>3. DOMAIN <<>> = {}
    OBVIOUS
  <2>4. ~Has(inbox, p) /\ ~Has(post, Hook("UserPromptSubmit", p))
    BY <2>1, <2>3 DEF Has
  <2>5. QED
    BY <2>1, <2>2, <2>4 DEF UnderWay
<1>2. QED
  BY <1>1, InteractionInvariant, PTL

-----------------------------------------------------------------------------
(* Agent hooks.  What the state is made of; TRUE and FALSE as values of a record's      *)
(* field.                                                                 *)
Truths == {TRUE, FALSE}
Threads == {"main", "sub"}
Doings == {"rest", "works", "asks"}
TurnHooks == {"UserPromptSubmit", "active: false", "Stop", "StopFailure"}
AllHooks == [event : TurnHooks \cup PromptHooks \cup {"SessionStart", "PostToolUse", "SubagentStop"}, by : Threads]
StatusFiles == [status : {"idle", "busy", "waiting"}, updatedAt : Nat]
Metas == [active : Truths, open : Truths, turnAt : Nat, interrupted : Truths,
          waiting : {<<>>} \cup {<<w>> : w \in [by : Threads, at : Nat]}]
Looks == [at : {"looks"}, read : Metas, quiet : Truths]
Judges == [at : {"judges"}, read : Metas, quiet : Truths, status : StatusFiles]

HooksTypeOK ==
  /\ now \in Nat /\ found \in Truths /\ threads \in [main : Doings, sub : Doings] /\ statusFile \in StatusFiles
  /\ turnEnded \in {"runs", "answered", "failed", "cut", "cancelled"} /\ escAt \in Nat /\ acts \in Nat
  /\ hooks \in Seq(AllHooks)
  /\ runtime \in Metas /\ agentWaiting \in Truths /\ saves \in Seq(Metas)
  /\ announced \in [active : Truths, waiting : Truths, interrupted : Truths]
  /\ sweeping \in {NoSweep} \cup Looks \cup Judges
  /\ quietSince \in Nat /\ calm \in Truths /\ disturbed \in Truths

LEMMA SweepsAre ==
  ASSUME sweeping \in {NoSweep} \cup Looks \cup Judges
  PROVE  /\ sweeping = NoSweep \/ sweeping \in Looks \/ sweeping \in Judges
         /\ sweeping = NoSweep => sweeping.at = "none"
         /\ sweeping \in Looks => sweeping.at = "looks"
         /\ sweeping \in Judges => sweeping.at = "judges"
  BY DEF NoSweep, Looks, Judges

LEMMA GoesIs ==
  ASSUME NEW ts, NEW said, Goes(ts, said)
  PROVE  /\ now' = now /\ found' = found /\ quietSince' = now /\ calm' = FALSE
         /\ runtime' = runtime /\ agentWaiting' = agentWaiting /\ saves' = saves /\ announced' = announced
         /\ threads' = ts /\ hooks' = hooks \o said /\ acts' = acts + 1
         /\ statusFile' = IF StatusOf(ts) = statusFile.status THEN statusFile ELSE [status |-> StatusOf(ts), updatedAt |-> now]
<1>1. Happens /\ UNCHANGED paneVars
  BY DEF Goes
<1>2. now' = now /\ found' = found /\ quietSince' = now /\ calm' = FALSE
  BY <1>1 DEF Happens
<1>3. runtime' = runtime /\ agentWaiting' = agentWaiting /\ saves' = saves /\ announced' = announced
  BY <1>1 DEF paneVars
<1> QED BY <1>1, <1>2, <1>3 DEF Goes

LEMMA GoesTyped ==
  ASSUME HooksTypeOK, NEW ts \in [main : Doings, sub : Doings], NEW said \in Seq(AllHooks), Goes(ts, said)
  PROVE  /\ now' \in Nat /\ found' \in Truths /\ threads' \in [main : Doings, sub : Doings] /\ statusFile' \in StatusFiles
         /\ acts' \in Nat /\ hooks' \in Seq(AllHooks)
         /\ runtime' \in Metas /\ agentWaiting' \in Truths /\ saves' \in Seq(Metas)
         /\ announced' \in [active : Truths, waiting : Truths, interrupted : Truths]
         /\ sweeping' \in {NoSweep} \cup Looks \cup Judges
         /\ quietSince' \in Nat /\ calm' \in Truths
<1>0. /\ now' = now /\ found' = found /\ quietSince' = now /\ calm' = FALSE
      /\ runtime' = runtime /\ agentWaiting' = agentWaiting /\ saves' = saves /\ announced' = announced
      /\ threads' = ts /\ hooks' = hooks \o said /\ acts' = acts + 1
  BY GoesIs
<1>1. statusFile' \in StatusFiles
  BY DEF Goes, HooksTypeOK, StatusFiles, StatusOf
<1>2. hooks' \in Seq(AllHooks)
  BY <1>0 DEF HooksTypeOK
<1>3. sweeping' \in {NoSweep} \cup Looks \cup Judges
  <2>1. CASE sweeping = NoSweep
    BY <2>1 DEF Goes, Happens
  <2>2. CASE sweeping \in Looks
    BY <2>2, SweepsAre DEF Goes, Happens, HooksTypeOK, Looks, Truths, NoSweep
  <2>3. CASE sweeping \in Judges
    BY <2>3, SweepsAre DEF Goes, Happens, HooksTypeOK, Judges, Truths, NoSweep
  <2> QED BY <2>1, <2>2, <2>3, SweepsAre DEF HooksTypeOK
<1>4. now' \in Nat /\ acts' \in Nat /\ quietSince' \in Nat
  BY <1>0 DEF HooksTypeOK
<1>7. found' \in Truths /\ calm' \in Truths
  BY <1>0, Zenon DEF HooksTypeOK, Truths
<1>5. runtime' \in Metas /\ agentWaiting' \in Truths /\ saves' \in Seq(Metas)
  BY <1>0 DEF HooksTypeOK
<1>6. announced' \in [active : Truths, waiting : Truths, interrupted : Truths] /\ threads' \in [main : Doings, sub : Doings]
  BY <1>0 DEF HooksTypeOK
<1> QED BY <1>1, <1>2, <1>3, <1>4, <1>5, <1>6, <1>7

(* No time is ahead of the clock, and what is stamped has happened.                  *)
Stamped ==
  /\ quietSince <= now /\ statusFile.updatedAt <= quietSince /\ escAt <= now /\ runtime.turnAt <= now
  /\ runtime.waiting # <<>> => runtime.waiting[1].at <= quietSince
  /\ sweeping.at = "judges" => sweeping.status.updatedAt <= now

(* A sweep that nothing has disturbed has read what is so still.                        *)
ReadIsCurrent ==
  /\ calm = TRUE => now > quietSince + SweepPeriod
  /\ sweeping # NoSweep /\ (calm = TRUE \/ sweeping.quiet = TRUE) =>
       /\ now > quietSince + SweepPeriod /\ sweeping.read = runtime
       /\ sweeping.at = "judges" => sweeping.status = statusFile

(* Claude's own part: one dialog, a turn while the main thread is not at rest, the status      *)
(* file up to date.                                                        *)
ClaudeIsWhole ==
  /\ ~(threads.main = "asks" /\ threads.sub = "asks")
  /\ threads.main = "rest" <=> turnEnded # "runs"
  /\ statusFile.status = StatusOf(threads)

(* The Stop of a turn comes right after what closes it.                                *)
StopFollows ==
  \A i \in DOMAIN hooks :
    /\ hooks[i].event \in {"Stop", "StopFailure"} => IF i = 1 THEN runtime.open = FALSE ELSE hooks[i - 1].event = "active: false"
    /\ hooks[i].event = "active: false" => i < Len(hooks) /\ hooks[i + 1].event \in {"Stop", "StopFailure"}

(* Without a prompt no hook tells of one, and one that is noted has ended since.             *)
NoPrompt == \A j \in DOMAIN hooks : hooks[j].event \notin PromptHooks
PromptEnds ==
  ~Asking(threads) => NoPrompt /\ (runtime.waiting # <<>> => statusFile.updatedAt > runtime.waiting[1].at + Margin)

(* Where only the hooks tell of prompts, the one of thread t is on its way or noted.          *)
EndsFor(h, t) ==
  \/ h.event \in {"UserPromptSubmit", "Stop", "StopFailure"} /\ t = "main"
  \/ h.event = "PostToolUse" /\ h.by = t
  \/ h.event = "SubagentStop" /\ t = "sub"
  \/ h.event = "PermissionRequest"
PromptIsComing(t) ==
  \E i \in DOMAIN hooks : hooks[i] = ByHook("PermissionRequest", t) /\ \A j \in DOMAIN hooks : j > i => ~EndsFor(hooks[j], t)
PromptIsUp(t) ==
  runtime.waiting # <<>> /\ runtime.waiting[1].by = t /\ \A j \in DOMAIN hooks : ~EndsFor(hooks[j], t)
PromptsAreTold == found = FALSE => \A t \in Threads : threads[t] = "asks" => PromptIsComing(t) \/ PromptIsUp(t)

(* What the last broadcast said is what the meta says, or will be.                          *)
Shows(m, waits) ==
  /\ announced.active = TRUE <=> AgentIsActive(m)
  /\ announced.waiting = TRUE <=> waits = TRUE \/ m.waiting # <<>>
  /\ announced.interrupted = m.interrupted
IsShown ==
  /\ saves = <<>> => Shows(runtime, agentWaiting)
  /\ saves # <<>> => saves[Len(saves)] = runtime

(* How the turn stands, or how it ended: the hooks on their way tell it at last, or the        *)
(* meta does.                                                             *)
Told == \A j \in DOMAIN hooks : hooks[j].event \notin TurnHooks
TurnIsComing ==
  \E i \in DOMAIN hooks :
    /\ \A j \in DOMAIN hooks : j > i => hooks[j].event \notin TurnHooks
    /\ \/ turnEnded = "runs" /\ hooks[i].event = "UserPromptSubmit" /\ escAt < now
       \/ turnEnded = "answered" /\ hooks[i].event = "Stop"
       \/ turnEnded = "failed" /\ hooks[i].event = "StopFailure"
RestIsSeen ==
  /\ now > runtime.turnAt + Margin
  /\ statusFile.status = "idle" => statusFile.updatedAt > runtime.turnAt + Margin
TurnIsNoted ==
  /\ Told
  /\ turnEnded = "runs" =>
       /\ runtime.open = TRUE /\ runtime.active = TRUE /\ runtime.interrupted = FALSE /\ escAt < runtime.turnAt
       /\ sweeping.at = "judges" /\ sweeping.status.status = "idle" => sweeping.status.updatedAt <= runtime.turnAt
  /\ turnEnded = "answered" => runtime.open = FALSE /\ runtime.interrupted = FALSE
  /\ turnEnded = "failed" => runtime.open = FALSE /\ runtime.interrupted = TRUE
  /\ turnEnded = "cut" /\ runtime.open = TRUE => escAt < runtime.turnAt /\ RestIsSeen
  /\ turnEnded = "cut" /\ runtime.open = FALSE => runtime.interrupted = TRUE
  /\ turnEnded = "cancelled" => runtime.interrupted = FALSE /\ (runtime.open = TRUE => runtime.turnAt <= escAt /\ RestIsSeen)
TurnIsTold == TurnIsComing \/ TurnIsNoted

(* What a sweep has concluded, when nothing has happened since.                           *)
SweepHasSeen ==
  calm = TRUE =>
    /\ found = TRUE => (agentWaiting = TRUE <=> Asking(threads))
    /\ ~Asking(threads) => agentWaiting = FALSE /\ runtime.waiting = <<>>
    /\ found = TRUE /\ threads.main = "rest" /\ ~Asking(threads) /\ Told => runtime.open = FALSE

HooksInv ==
  /\ HooksTypeOK /\ Stamped /\ ReadIsCurrent /\ ClaudeIsWhole /\ StopFollows
  /\ disturbed = FALSE => PromptEnds /\ PromptsAreTold /\ IsShown /\ TurnIsTold /\ SweepHasSeen

LEMMA HooksStart == HooksInit => HooksInv
<1> SUFFICES ASSUME HooksInit PROVE HooksInv
  OBVIOUS
<1>1. HooksTypeOK
  <2>1. runtime \in Metas
    BY DEF HooksInit, Metas, Truths
  <2>2. now \in Nat /\ threads \in [main : Doings, sub : Doings] /\ statusFile \in StatusFiles
        /\ turnEnded \in {"runs", "answered", "failed", "cut", "cancelled"} /\ escAt \in Nat /\ acts \in Nat
        /\ hooks \in Seq(AllHooks) /\ saves \in Seq(Metas) /\ quietSince \in Nat
    BY DEF HooksInit, Doings, StatusFiles
  <2>3. found \in Truths /\ agentWaiting \in Truths /\ calm \in Truths /\ disturbed \in Truths /\ sweeping \in {NoSweep} \cup Looks \cup Judges
    BY Zenon DEF HooksInit, Truths
  <2>4. announced \in [active : Truths, waiting : Truths, interrupted : Truths]
    BY DEF HooksInit, Truths
  <2> QED BY <2>1, <2>2, <2>3, <2>4 DEF HooksTypeOK
<1>2. Stamped /\ ReadIsCurrent /\ ClaudeIsWhole /\ StopFollows
  BY DEF HooksInit, Stamped, ReadIsCurrent, ClaudeIsWhole, StopFollows, StatusOf, Asking, NoSweep
<1>3. PromptEnds /\ PromptsAreTold /\ TurnIsTold /\ SweepHasSeen
  BY DEF HooksInit, PromptEnds, NoPrompt, PromptsAreTold, TurnIsTold, TurnIsNoted, Told, SweepHasSeen, Threads, RestIsSeen
<1>4. IsShown
  BY DEF HooksInit, IsShown, Shows, AgentIsActive
<1> QED BY <1>1, <1>2, <1>3, <1>4 DEF HooksInv

(* The property is what the invariant comes to when all is still.                          *)
LEMMA HooksShown == HooksInv => StateIsShown
<1> SUFFICES ASSUME HooksInv, calm, hooks = <<>>, saves = <<>>, ~disturbed
             PROVE  /\ announced.waiting <=> Asking(threads)
                    /\ found /\ ~Asking(threads) =>
                         /\ announced.active <=> threads.main # "rest"
                         /\ announced.interrupted <=> turnEnded \in {"cut", "failed"}
  BY DEF StateIsShown
<1>1. HooksTypeOK /\ calm = TRUE /\ disturbed = FALSE
  BY Zenon DEF HooksInv, HooksTypeOK, Truths
<1>2. PromptEnds /\ PromptsAreTold /\ IsShown /\ TurnIsTold /\ SweepHasSeen /\ ClaudeIsWhole
  BY <1>1 DEF HooksInv
<1>3. /\ announced.active \in Truths /\ announced.waiting \in Truths /\ announced.interrupted \in Truths
      /\ runtime.open \in Truths /\ runtime.active \in Truths /\ runtime.interrupted \in Truths
      /\ agentWaiting \in Truths /\ found \in Truths
  BY <1>1 DEF HooksTypeOK, Metas
<1>4. DOMAIN hooks = {}
  OBVIOUS
<1>5. TurnIsNoted /\ Told
  BY <1>2, <1>4 DEF TurnIsTold, TurnIsComing, TurnIsNoted
<1>6. announced.waiting = TRUE <=> Asking(threads)
  <2>1. CASE Asking(threads) /\ found = TRUE
    BY <2>1, <1>1, <1>2 DEF SweepHasSeen, IsShown, Shows
  <2>2. CASE Asking(threads) /\ found = FALSE
    <3>1. PICK t \in Threads : threads[t] = "asks"
      BY <2>2, <1>1 DEF Asking, HooksTypeOK, Threads
    <3>2. runtime.waiting # <<>>
      BY <3>1, <2>2, <1>2, <1>4 DEF PromptsAreTold, PromptIsComing, PromptIsUp
    <3> QED BY <3>2, <2>2, <1>2 DEF IsShown, Shows
  <2>3. CASE ~Asking(threads)
    BY <2>3, <1>1, <1>2 DEF SweepHasSeen, IsShown, Shows
  <2> QED BY <2>1, <2>2, <2>3, <1>3, Zenon DEF Truths
<1>7. announced.waiting <=> Asking(threads)
  BY <1>6, <1>3, Zenon DEF Truths
<1>8. ASSUME found, ~Asking(threads)
      PROVE  announced.active = TRUE <=> threads.main # "rest"
  <2>1. found = TRUE
    BY <1>8, <1>3, Zenon DEF Truths
  <2>2. CASE threads.main = "rest"
    BY <2>1, <2>2, <1>8, <1>1, <1>2, <1>5, <1>3 DEF SweepHasSeen, IsShown, Shows, AgentIsActive, Truths
  <2>3. CASE threads.main # "rest"
    <3>1. runtime.open = TRUE /\ runtime.active = TRUE
      BY <2>3, <1>2, <1>5 DEF ClaudeIsWhole, TurnIsNoted
    <3> QED BY <3>1, <2>3, <1>2, Zenon DEF IsShown, Shows, AgentIsActive
  <2> QED BY <2>2, <2>3
<1>9. ASSUME found, ~Asking(threads)
      PROVE  announced.interrupted = TRUE <=> turnEnded \in {"cut", "failed"}
  <2>1. found = TRUE
    BY <1>9, <1>3, Zenon DEF Truths
  <2>2. announced.interrupted = runtime.interrupted
    BY <1>2 DEF IsShown, Shows
  <2>3. threads.main = "rest" => runtime.open = FALSE
    BY <2>1, <1>9, <1>1, <1>2, <1>5 DEF SweepHasSeen
  <2>4. runtime.interrupted = TRUE <=> turnEnded \in {"cut", "failed"}
    BY <2>3, <1>1, <1>2, <1>5 DEF ClaudeIsWhole, TurnIsNoted, HooksTypeOK
  <2> QED BY <2>2, <2>4
<1>10. ASSUME found, ~Asking(threads)
      PROVE  (announced.active <=> threads.main # "rest") /\ (announced.interrupted <=> turnEnded \in {"cut", "failed"})
  BY <1>10, <1>8, <1>9, <1>3, Zenon DEF Truths
<1> QED BY <1>7, <1>10

(* What Claude's own steps keep, whatever they say.                                  *)
LEMMA SaidAre ==
  ASSUME hooks \in Seq(AllHooks), NEW said \in Seq(AllHooks), hooks' = hooks \o said
  PROVE  /\ hooks' \in Seq(AllHooks) /\ Len(hooks') = Len(hooks) + Len(said)
         /\ DOMAIN hooks = 1 .. Len(hooks) /\ DOMAIN hooks' = 1 .. (Len(hooks) + Len(said)) /\ DOMAIN said = 1 .. Len(said)
         /\ \A i \in DOMAIN hooks : hooks'[i] = hooks[i]
         /\ \A k \in DOMAIN said : hooks'[Len(hooks) + k] = said[k]
         /\ \A i \in DOMAIN hooks' : i \notin DOMAIN hooks => i - Len(hooks) \in DOMAIN said /\ hooks'[i] = said[i - Len(hooks)]
  OBVIOUS

LEMMA Neighbours ==
  ASSUME hooks \in Seq(AllHooks), NEW said \in Seq(AllHooks), hooks' = hooks \o said, NEW i \in DOMAIN hooks
  PROVE  (i # 1 => i - 1 \in DOMAIN hooks) /\ (i < Len(hooks) => i + 1 \in DOMAIN hooks /\ i < Len(hooks'))
  OBVIOUS

LEMMA GoesKeepsSweep ==
  ASSUME HooksTypeOK, Stamped, ReadIsCurrent,
         NEW ts \in [main : Doings, sub : Doings], NEW said \in Seq(AllHooks), Goes(ts, said), escAt' \in Nat, escAt' <= now
  PROVE  /\ Stamped' /\ ReadIsCurrent' /\ SweepHasSeen'
         /\ sweeping'.at = sweeping.at
         /\ sweeping.at = "judges" => sweeping'.status = sweeping.status
<1>0. /\ now' = now /\ found' = found /\ quietSince' = now /\ calm' = FALSE
      /\ runtime' = runtime /\ agentWaiting' = agentWaiting /\ saves' = saves /\ announced' = announced
      /\ threads' = ts /\ hooks' = hooks \o said
  BY GoesIs
<1>1. /\ sweeping'.at = sweeping.at /\ (sweeping' = NoSweep <=> sweeping = NoSweep)
      /\ sweeping # NoSweep => sweeping'.quiet = FALSE
      /\ sweeping.at = "judges" => sweeping'.status = sweeping.status
  <2>1. CASE sweeping = NoSweep
    BY <2>1 DEF Goes, Happens, NoSweep
  <2>2. CASE sweeping \in Looks
    BY <2>2, SweepsAre DEF Goes, Happens, HooksTypeOK, Looks, NoSweep
  <2>3. CASE sweeping \in Judges
    BY <2>3, SweepsAre DEF Goes, Happens, HooksTypeOK, Judges, NoSweep
  <2> QED BY <2>1, <2>2, <2>3, SweepsAre DEF HooksTypeOK
<1>2. statusFile'.updatedAt <= now
  BY DEF Goes, HooksTypeOK, Stamped, StatusFiles
<1>3. Stamped'
  <2>1. quietSince' <= now' /\ statusFile'.updatedAt <= quietSince' /\ escAt' <= now' /\ runtime'.turnAt <= now'
    BY <1>0, <1>2 DEF HooksTypeOK, Stamped
  <2>2. ASSUME runtime'.waiting # <<>> PROVE runtime'.waiting[1].at <= quietSince'
    <3>1. runtime.waiting[1].at \in Nat
      BY <2>2, <1>0 DEF HooksTypeOK, Metas
    <3> QED BY <3>1, <2>2, <1>0 DEF HooksTypeOK, Stamped
  <2>3. sweeping'.at = "judges" => sweeping'.status.updatedAt <= now'
    BY <1>0, <1>1 DEF Stamped
  <2> QED BY <2>1, <2>2, <2>3 DEF Stamped
<1>4. ReadIsCurrent'
  BY <1>0, <1>1, Zenon DEF ReadIsCurrent
<1>5. SweepHasSeen'
  BY <1>0, Zenon DEF SweepHasSeen
<1> QED BY <1>1, <1>3, <1>4, <1>5

LEMMA GoesKeepsStops ==
  ASSUME HooksTypeOK, StopFollows, NEW ts, NEW said \in Seq(AllHooks), Goes(ts, said),
         \A k \in DOMAIN said : said[k].event \notin {"Stop", "StopFailure", "active: false"}
  PROVE  StopFollows'
<1>0. runtime' = runtime /\ hooks' = hooks \o said
  BY GoesIs
<1>1. hooks \in Seq(AllHooks)
  BY DEF HooksTypeOK
<1> HIDE DEF HooksTypeOK
<1> SUFFICES ASSUME NEW i \in DOMAIN hooks'
             PROVE  /\ hooks'[i].event \in {"Stop", "StopFailure"} => IF i = 1 THEN runtime'.open = FALSE ELSE hooks'[i - 1].event = "active: false"
                    /\ hooks'[i].event = "active: false" => i < Len(hooks') /\ hooks'[i + 1].event \in {"Stop", "StopFailure"}
  BY DEF StopFollows
<1>2. CASE i \in DOMAIN hooks
  <2>c. \A j \in DOMAIN hooks : hooks'[j] = hooks[j]
    BY <1>0, <1>1, SaidAre
  <2>d. (i # 1 => i - 1 \in DOMAIN hooks) /\ (i < Len(hooks) => i + 1 \in DOMAIN hooks /\ i < Len(hooks'))
    BY <1>0, <1>1, <1>2, Neighbours
  <2>1. hooks'[i] = hooks[i] /\ (i # 1 => hooks'[i - 1] = hooks[i - 1]) /\ (i < Len(hooks) => i < Len(hooks') /\ hooks'[i + 1] = hooks[i + 1])
    BY <2>c, <2>d, <1>2
  <2> QED BY <2>1, <1>0, <1>2 DEF StopFollows
<1>3. CASE i \notin DOMAIN hooks
  <2>1. i - Len(hooks) \in DOMAIN said /\ hooks'[i] = said[i - Len(hooks)]
    BY <1>0, <1>1, <1>3, SaidAre
  <2> QED BY <2>1
<1> QED BY <1>2, <1>3

LEMMA GoesKeepsPrompts ==
  ASSUME HooksTypeOK, Stamped, ClaudeIsWhole, NEW ts \in [main : Doings, sub : Doings], NEW said \in Seq(AllHooks), Goes(ts, said),
         ~Asking(ts) =>
           /\ \A k \in DOMAIN said : said[k].event \notin PromptHooks
           /\ NoPrompt
           /\ runtime.waiting # <<>> =>
                    IF Asking(threads) THEN now > runtime.waiting[1].at + Margin ELSE statusFile.updatedAt > runtime.waiting[1].at + Margin
  PROVE  PromptEnds'
<1>0. runtime' = runtime /\ hooks' = hooks \o said /\ threads' = ts
  BY GoesIs
<1>1. hooks \in Seq(AllHooks)
  BY DEF HooksTypeOK
<1> SUFFICES ASSUME ~Asking(ts) 
             PROVE  NoPrompt' /\ (runtime'.waiting # <<>> => statusFile'.updatedAt > runtime'.waiting[1].at + Margin)
  BY <1>0 DEF PromptEnds, Asking
<1>2. NoPrompt'
  <2> SUFFICES ASSUME NEW i \in DOMAIN hooks' PROVE hooks'[i].event \notin PromptHooks
    BY DEF NoPrompt
  <2> QED BY <1>0, <1>1, SaidAre DEF NoPrompt
<1>3. ASSUME runtime.waiting # <<>> PROVE statusFile'.updatedAt > runtime.waiting[1].at + Margin
  <2>1. runtime.waiting[1].at \in Nat /\ Margin \in Nat
    BY <1>3 DEF HooksTypeOK, Metas, Margin
  <2>2. CASE ~Asking(threads) /\ statusFile.updatedAt > runtime.waiting[1].at + Margin
    BY <2>1, <2>2 DEF HooksTypeOK, Stamped, Goes, StatusFiles
  <2>3. CASE Asking(threads) /\ now > runtime.waiting[1].at + Margin
    BY <2>1, <2>3 DEF HooksTypeOK, Stamped, Goes, StatusFiles, ClaudeIsWhole, StatusOf
  <2> QED BY <2>2, <2>3, <1>3
<1> QED BY <1>0, <1>2, <1>3

LEMMA GoesKeepsTold ==
  ASSUME HooksTypeOK, PromptsAreTold, NEW ts \in [main : Doings, sub : Doings], NEW said \in Seq(AllHooks), Goes(ts, said),
         NEW t \in Threads, found' = FALSE, threads[t] = "asks",
         \A k \in DOMAIN said : ~EndsFor(said[k], t)
  PROVE  PromptIsComing(t)' \/ PromptIsUp(t)'
<1>0. runtime' = runtime /\ hooks' = hooks \o said /\ found' = found
  BY GoesIs
<1>1. hooks \in Seq(AllHooks)
  BY DEF HooksTypeOK
<1>2. PromptIsComing(t) \/ PromptIsUp(t)
  BY <1>0 DEF PromptsAreTold
<1>3. CASE PromptIsComing(t)
  <2>1. PICK i \in DOMAIN hooks : hooks[i] = ByHook("PermissionRequest", t) /\ \A j \in DOMAIN hooks : j > i => ~EndsFor(hooks[j], t)
    BY <1>3 DEF PromptIsComing
  <2>2. i \in DOMAIN hooks' /\ hooks'[i] = ByHook("PermissionRequest", t)
    BY <2>1, <1>0, <1>1, SaidAre
  <2>3. ASSUME NEW j \in DOMAIN hooks', j > i PROVE ~EndsFor(hooks'[j], t)
    <3>1. CASE j \in DOMAIN hooks
      BY <3>1, <2>1, <2>3, <1>0, <1>1, SaidAre
    <3>2. CASE j \notin DOMAIN hooks
      BY <3>2, <1>0, <1>1, SaidAre
    <3> QED BY <3>1, <3>2
  <2> QED BY <2>2, <2>3 DEF PromptIsComing, EndsFor, ByHook
<1>4. CASE PromptIsUp(t)
  <2>1. ASSUME NEW j \in DOMAIN hooks' PROVE ~EndsFor(hooks'[j], t)
    <3>1. CASE j \in DOMAIN hooks
      BY <3>1, <1>4, <1>0, <1>1, SaidAre DEF PromptIsUp
    <3>2. CASE j \notin DOMAIN hooks
      BY <3>2, <1>0, <1>1, SaidAre
    <3> QED BY <3>1, <3>2
  <2> QED BY <2>1, <1>0, <1>4 DEF PromptIsUp, EndsFor
<1> QED BY <1>2, <1>3, <1>4

LEMMA GoesKeepsTurn ==
  ASSUME HooksTypeOK, Stamped, ReadIsCurrent, TurnIsTold,
         NEW ts \in [main : Doings, sub : Doings], NEW said \in Seq(AllHooks), Goes(ts, said),
         \A k \in DOMAIN said : said[k].event \notin TurnHooks,
         turnEnded' = turnEnded, escAt' = escAt
  PROVE  TurnIsTold'
<1>0. runtime' = runtime /\ hooks' = hooks \o said /\ now' = now
  BY GoesIs
<1>1. hooks \in Seq(AllHooks) /\ escAt \in Nat /\ escAt <= now
  BY DEF HooksTypeOK, Stamped
<1>2. sweeping'.at = sweeping.at /\ (sweeping.at = "judges" => sweeping'.status = sweeping.status)
  BY <1>1, GoesKeepsSweep
<1>3. ASSUME NEW i \in DOMAIN hooks', i \notin DOMAIN hooks PROVE hooks'[i].event \notin TurnHooks
  BY <1>0, <1>1, <1>3, SaidAre
<1>4. \A i \in DOMAIN hooks : i \in DOMAIN hooks' /\ hooks'[i] = hooks[i]
  BY <1>0, <1>1, SaidAre
<1>5. CASE TurnIsComing
  <2>1. PICK i \in DOMAIN hooks :
          /\ \A j \in DOMAIN hooks : j > i => hooks[j].event \notin TurnHooks
          /\ \/ turnEnded = "runs" /\ hooks[i].event = "UserPromptSubmit" /\ escAt < now
             \/ turnEnded = "answered" /\ hooks[i].event = "Stop"
             \/ turnEnded = "failed" /\ hooks[i].event = "StopFailure"
    BY <1>5 DEF TurnIsComing
  <2>2. \A j \in DOMAIN hooks' : j > i => hooks'[j].event \notin TurnHooks
    BY <2>1, <1>3, <1>4
  <2> QED BY <2>1, <2>2, <1>0, <1>4 DEF TurnIsComing, TurnIsTold
<1>6. CASE TurnIsNoted
  <2>1. Told'
    BY <1>6, <1>3, <1>4 DEF TurnIsNoted, Told
  <2>2. RestIsSeen => RestIsSeen'
    BY <1>0 DEF RestIsSeen, Goes, HooksTypeOK, StatusFiles, Metas
  <2> QED BY <2>1, <2>2, <1>0, <1>2, <1>6 DEF TurnIsNoted, TurnIsTold
<1> QED BY <1>5, <1>6 DEF TurnIsTold

LEMMA GoesShown ==
  ASSUME NEW ts, NEW said, Goes(ts, said), IsShown
  PROVE  IsShown'
<1>1. runtime' = runtime /\ agentWaiting' = agentWaiting /\ saves' = saves /\ announced' = announced
  BY GoesIs
<1> QED BY <1>1, Zenon DEF IsShown, Shows, AgentIsActive

(* A step of Claude's keeps what is not of the turn.                                    *)
LEMMA GoesKeeps ==
  ASSUME HooksInv, NEW ts \in [main : Doings, sub : Doings], NEW said \in Seq(AllHooks), Goes(ts, said),
         turnEnded' \in {"runs", "answered", "failed", "cut", "cancelled"}, escAt' \in Nat, escAt' <= now, disturbed' \in Truths,
         disturbed' = FALSE => disturbed = FALSE,
         ts.main = "asks" => ts.sub # "asks", ts.main = "rest" <=> turnEnded' # "runs",
         ~Asking(ts) => \A k \in DOMAIN said : said[k].event \notin PromptHooks,
         \A t \in Threads : ts[t] = "asks" =>
           IF threads[t] = "asks" THEN \A k \in DOMAIN said : ~EndsFor(said[k], t)
                                  ELSE said = <<ByHook("PermissionRequest", t)>>,
         disturbed' = FALSE /\ Asking(threads) /\ ~Asking(ts) =>
           NoPrompt /\ runtime.waiting # <<>> /\ now > runtime.waiting[1].at + Margin,
         StopFollows', disturbed' = FALSE => TurnIsTold'
  PROVE  HooksInv'
<1>0. /\ now' = now /\ found' = found /\ runtime' = runtime /\ threads' = ts /\ hooks' = hooks \o said
  BY GoesIs
<1>1. HooksTypeOK /\ Stamped /\ ReadIsCurrent /\ ClaudeIsWhole /\ StopFollows
  BY DEF HooksInv
<1>2. HooksTypeOK'
  <2>1. /\ now' \in Nat /\ found' \in Truths /\ threads' \in [main : Doings, sub : Doings] /\ statusFile' \in StatusFiles
        /\ acts' \in Nat /\ hooks' \in Seq(AllHooks)
        /\ runtime' \in Metas /\ agentWaiting' \in Truths /\ saves' \in Seq(Metas)
        /\ announced' \in [active : Truths, waiting : Truths, interrupted : Truths]
        /\ sweeping' \in {NoSweep} \cup Looks \cup Judges
        /\ quietSince' \in Nat /\ calm' \in Truths
    BY <1>1, GoesTyped
  <2> QED BY <2>1 DEF HooksTypeOK
<1>3. Stamped' /\ ReadIsCurrent' /\ SweepHasSeen'
  BY <1>1, GoesKeepsSweep
<1>4. ClaudeIsWhole'
  <2>1. statusFile'.status = StatusOf(ts)
    BY <1>1 DEF Goes, HooksTypeOK, StatusFiles
  <2> QED BY <2>1, <1>0, <1>1 DEF ClaudeIsWhole, StatusOf, Asking
<1>6. ASSUME disturbed' = FALSE PROVE PromptEnds' /\ PromptsAreTold' /\ IsShown'
  <2>1. PromptEnds /\ PromptsAreTold /\ IsShown
    BY <1>6 DEF HooksInv
  <2>2. IsShown'
    BY <2>1, GoesShown
  <2>3. ASSUME ~Asking(ts)
        PROVE  /\ NoPrompt
               /\ runtime.waiting # <<>> =>
                    IF Asking(threads) THEN now > runtime.waiting[1].at + Margin ELSE statusFile.updatedAt > runtime.waiting[1].at + Margin
    <3>1. CASE Asking(threads)
      <4>1. NoPrompt /\ runtime.waiting # <<>> /\ now > runtime.waiting[1].at + Margin
        BY <1>6, <2>3, <3>1
      <4> QED BY <4>1, <3>1
    <3>2. CASE ~Asking(threads)
      BY <2>1, <3>2, Zenon DEF PromptEnds
    <3> QED BY <3>1, <3>2
  <2>4. PromptEnds'
    BY <1>1, <2>3, GoesKeepsPrompts
  <2>5. ASSUME found' = FALSE, NEW t \in Threads, ts[t] = "asks" PROVE PromptIsComing(t)' \/ PromptIsUp(t)'
    <3>1. CASE threads[t] = "asks"
      BY <3>1, <2>1, <2>5, <1>1, GoesKeepsTold
    <3>2. CASE threads[t] # "asks"
      <4>1. said = <<ByHook("PermissionRequest", t)>>
        BY <3>2, <2>5
      <4>2. hooks \in Seq(AllHooks)
        BY <1>1 DEF HooksTypeOK
      <4>3. Len(hooks) + 1 \in DOMAIN hooks' /\ hooks'[Len(hooks) + 1] = ByHook("PermissionRequest", t)
            /\ \A j \in DOMAIN hooks' : ~(j > Len(hooks) + 1)
        BY <4>1, <4>2, <1>0
      <4> QED BY <4>3 DEF PromptIsComing
    <3> QED BY <3>1, <3>2
  <2> QED BY <2>2, <2>4, <2>5, <1>0 DEF PromptsAreTold
<1> QED BY <1>2, <1>3, <1>4, <1>6 DEF HooksInv

(* A step of Claude's that neither begins nor ends a turn.                                *)
LEMMA GoesOn ==
  ASSUME HooksInv, NEW ts \in [main : Doings, sub : Doings], NEW said \in Seq(AllHooks), Goes(ts, said),
         turnEnded' = turnEnded, escAt' = escAt, disturbed' \in Truths, disturbed' = FALSE => disturbed = FALSE,
         ts.main = "asks" => ts.sub # "asks", ts.main = "rest" <=> threads.main = "rest",
         \A k \in DOMAIN said : said[k].event \notin TurnHooks,
         ~Asking(ts) => \A k \in DOMAIN said : said[k].event \notin PromptHooks,
         disturbed' = FALSE /\ Asking(threads) /\ ~Asking(ts) =>
           NoPrompt /\ runtime.waiting # <<>> /\ now > runtime.waiting[1].at + Margin,
         \A t \in Threads : ts[t] = "asks" =>
           IF threads[t] = "asks" THEN \A k \in DOMAIN said : ~EndsFor(said[k], t)
                                  ELSE said = <<ByHook("PermissionRequest", t)>>
  PROVE  HooksInv'
<1>1. HooksTypeOK /\ Stamped /\ ReadIsCurrent /\ ClaudeIsWhole /\ StopFollows /\ (disturbed = FALSE => TurnIsTold)
  BY DEF HooksInv
<1>2. turnEnded' \in {"runs", "answered", "failed", "cut", "cancelled"} /\ escAt' \in Nat /\ escAt' <= now
  BY <1>1 DEF HooksTypeOK, Stamped
<1>3. StopFollows'
  BY <1>1, GoesKeepsStops DEF TurnHooks
<1>4. disturbed' = FALSE => TurnIsTold'
  BY <1>1, GoesKeepsTurn
<1>5. ts.main = "rest" <=> turnEnded' # "runs"
  BY <1>1 DEF ClaudeIsWhole
<1> QED BY <1>2, <1>3, <1>4, <1>5, GoesKeeps, Zenon

LEMMA SaidTyped ==
  /\ <<>> \in Seq(AllHooks) /\ DOMAIN <<>> = {}
  /\ \A e \in TurnHooks \cup PromptHooks \cup {"SessionStart", "PostToolUse", "SubagentStop"} : \A t \in Threads :
       /\ ByHook(e, t) \in AllHooks /\ ByHook(e, t).event = e /\ ByHook(e, t).by = t
       /\ <<ByHook(e, t)>> \in Seq(AllHooks) /\ DOMAIN <<ByHook(e, t)>> = {1} /\ <<ByHook(e, t)>>[1] = ByHook(e, t)
<1> SUFFICES ASSUME NEW e \in TurnHooks \cup PromptHooks \cup {"SessionStart", "PostToolUse", "SubagentStop"}, NEW t \in Threads
             PROVE  /\ ByHook(e, t) \in AllHooks /\ ByHook(e, t).event = e /\ ByHook(e, t).by = t
                    /\ <<ByHook(e, t)>> \in Seq(AllHooks) /\ DOMAIN <<ByHook(e, t)>> = {1} /\ <<ByHook(e, t)>>[1] = ByHook(e, t)
  OBVIOUS
<1>1. ByHook(e, t) \in AllHooks /\ ByHook(e, t).event = e /\ ByHook(e, t).by = t
  BY DEF ByHook, AllHooks
<1> QED BY <1>1

(* With a prompt's end noted, it was up for longer than the margin.                         *)
LEMMA EndsUndisturbed ==
  ASSUME HooksTypeOK, ~Disturbs(PromptHooks, PromptSince)
  PROVE  NoPrompt /\ runtime.waiting # <<>> /\ now > runtime.waiting[1].at + Margin
<1>1. NoPrompt
  BY DEF Disturbs, NoPrompt
<1>2. now \in Nat /\ ~(now <= PromptSince + Margin)
  BY DEF Disturbs, HooksTypeOK
<1>3. runtime.waiting # <<>>
  BY <1>2 DEF PromptSince, Margin
<1>4. runtime.waiting[1].at \in Nat
  BY <1>3 DEF HooksTypeOK, Metas
<1> QED BY <1>1, <1>2, <1>3, <1>4 DEF PromptSince, Margin

LEMMA CompactsKeeps == ASSUME HooksInv, Compacts PROVE HooksInv'
<1> DEFINE said == <<ByHook("SessionStart", "main")>>
<1>1. HooksTypeOK /\ ClaudeIsWhole
  BY DEF HooksInv
<1>2. said \in Seq(AllHooks) /\ \A k \in DOMAIN said : said[k].event = "SessionStart"
  BY SaidTyped DEF Threads
<1>3. Goes(threads, said) /\ turnEnded' = turnEnded /\ escAt' = escAt /\ disturbed' = disturbed
  BY DEF Compacts, Calm
<1>4. /\ \A k \in DOMAIN said : said[k].event \notin TurnHooks /\ said[k].event \notin PromptHooks
      /\ \A k \in DOMAIN said : \A t \in Threads : ~EndsFor(said[k], t)
  BY <1>2, Zenon DEF TurnHooks, PromptHooks, EndsFor
<1>5. threads \in [main : Doings, sub : Doings] /\ disturbed \in Truths
  BY <1>1 DEF HooksTypeOK
<1> HIDE DEF said
<1>6. threads.main = "asks" => threads.sub # "asks"
  BY <1>1 DEF ClaudeIsWhole
<1>7. \A t \in Threads : threads[t] = "asks" =>
        IF threads[t] = "asks" THEN \A k \in DOMAIN said : ~EndsFor(said[k], t) ELSE said = <<ByHook("PermissionRequest", t)>>
  BY <1>4
<1> QED BY <1>2, <1>3, <1>4, <1>5, <1>6, <1>7, GoesOn, Zenon

LEMMA DelegatesKeeps == ASSUME HooksInv, Delegates PROVE HooksInv'
<1> DEFINE ts == [threads EXCEPT !.sub = "works"]
<1>1. HooksTypeOK /\ ClaudeIsWhole
  BY DEF HooksInv
<1>2. Goes(ts, <<>>) /\ turnEnded' = turnEnded /\ escAt' = escAt /\ disturbed' = disturbed /\ threads.main = "works"
  BY DEF Delegates, Calm
<1>3. ts \in [main : Doings, sub : Doings] /\ ts.main = threads.main /\ ts.sub = "works" /\ disturbed \in Truths
  BY <1>1 DEF HooksTypeOK, Doings
<1>4. ts.main = "asks" => ts.sub # "asks"
  BY <1>3
<1>5. \A t \in Threads : ts[t] # "asks"
  BY <1>2, <1>3 DEF Threads
<1>6. ~Asking(threads) \/ Asking(ts)
  BY <1>1, <1>2, <1>3 DEF Asking, Delegates, HooksTypeOK
<1> HIDE DEF ts
<1> QED BY <1>2, <1>3, <1>4, <1>5, <1>6, GoesOn, SaidTyped, Zenon

LEMMA UsesToolKeeps == ASSUME HooksInv, NEW u \in Threads, UsesTool(u) PROVE HooksInv'
<1> DEFINE said == <<ByHook("PostToolUse", u)>>
<1>1. HooksTypeOK /\ ClaudeIsWhole
  BY DEF HooksInv
<1>2. said \in Seq(AllHooks) /\ \A k \in DOMAIN said : said[k].event = "PostToolUse" /\ said[k].by = u
  BY SaidTyped
<1>3. Goes(threads, said) /\ turnEnded' = turnEnded /\ escAt' = escAt /\ disturbed' = disturbed /\ threads[u] = "works"
  BY DEF UsesTool, Calm
<1>4. \A k \in DOMAIN said : said[k].event \notin TurnHooks /\ said[k].event \notin PromptHooks
  BY <1>2, Zenon DEF TurnHooks, PromptHooks
<1>5. \A t \in Threads : threads[t] = "asks" => \A k \in DOMAIN said : ~EndsFor(said[k], t)
  BY <1>2, <1>3, Zenon DEF EndsFor
<1>6. threads \in [main : Doings, sub : Doings] /\ disturbed \in Truths
  BY <1>1 DEF HooksTypeOK
<1>7. threads.main = "asks" => threads.sub # "asks"
  BY <1>1 DEF ClaudeIsWhole
<1> HIDE DEF said
<1> QED BY <1>2, <1>3, <1>4, <1>5, <1>6, <1>7, GoesOn, Zenon

LEMMA NotifiesKeeps == ASSUME HooksInv, Notifies PROVE HooksInv'
<1> DEFINE said == <<ByHook("Notification", "main")>>
<1>1. HooksTypeOK /\ ClaudeIsWhole
  BY DEF HooksInv
<1>2. said \in Seq(AllHooks) /\ \A k \in DOMAIN said : said[k].event = "Notification"
  BY SaidTyped DEF Threads, PromptHooks
<1>3. Goes(threads, said) /\ turnEnded' = turnEnded /\ escAt' = escAt /\ disturbed' = disturbed /\ Asking(threads)
  BY DEF Notifies, Calm
<1>4. /\ \A k \in DOMAIN said : said[k].event \notin TurnHooks
      /\ \A k \in DOMAIN said : \A t \in Threads : ~EndsFor(said[k], t)
  BY <1>2, Zenon DEF TurnHooks, EndsFor
<1>5. threads \in [main : Doings, sub : Doings] /\ disturbed \in Truths
  BY <1>1 DEF HooksTypeOK
<1>6. threads.main = "asks" => threads.sub # "asks"
  BY <1>1 DEF ClaudeIsWhole
<1> HIDE DEF said
<1> QED BY <1>2, <1>3, <1>4, <1>5, <1>6, GoesOn, Zenon

LEMMA SubEndsKeeps == ASSUME HooksInv, SubEnds PROVE HooksInv'
<1> DEFINE said == <<ByHook("SubagentStop", "sub")>>
<1> DEFINE ts == [threads EXCEPT !.sub = "rest"]
<1>1. HooksTypeOK /\ ClaudeIsWhole
  BY DEF HooksInv
<1>2. said \in Seq(AllHooks) /\ \A k \in DOMAIN said : said[k].event = "SubagentStop"
  BY SaidTyped DEF Threads
<1>3. Goes(ts, said) /\ turnEnded' = turnEnded /\ escAt' = escAt /\ disturbed' = disturbed /\ threads.sub = "works"
  BY DEF SubEnds, Calm
<1>4. ts \in [main : Doings, sub : Doings] /\ ts.main = threads.main /\ ts.sub = "rest" /\ disturbed \in Truths
  BY <1>1 DEF HooksTypeOK, Doings
<1>5. /\ \A k \in DOMAIN said : said[k].event \notin TurnHooks /\ said[k].event \notin PromptHooks
      /\ \A k \in DOMAIN said : ~EndsFor(said[k], "main")
  BY <1>2, Zenon DEF TurnHooks, PromptHooks, EndsFor
<1>6. \A t \in Threads : ts[t] = "asks" => threads[t] = "asks" /\ t = "main"
  BY <1>4 DEF Threads
<1>7. Asking(threads) => Asking(ts)
  BY <1>3, <1>4 DEF Asking
<1> HIDE DEF said, ts
<1>8. \A t \in Threads : ts[t] = "asks" => threads[t] = "asks" /\ \A k \in DOMAIN said : ~EndsFor(said[k], t)
  BY <1>5, <1>6
<1> QED BY <1>2, <1>3, <1>4, <1>5, <1>7, <1>8, GoesOn, Zenon

LEMMA AsksLeaveKeeps == ASSUME HooksInv, NEW u \in Threads, AsksLeave(u) PROVE HooksInv'
<1> DEFINE said == <<ByHook("PermissionRequest", u)>>
<1> DEFINE ts == [threads EXCEPT ![u] = "asks"]
<1>1. HooksTypeOK /\ ClaudeIsWhole
  BY DEF HooksInv
<1>2. said \in Seq(AllHooks) /\ \A k \in DOMAIN said : said[k].event = "PermissionRequest"
  BY SaidTyped DEF PromptHooks
<1>3. Goes(ts, said) /\ turnEnded' = turnEnded /\ escAt' = escAt /\ disturbed' = disturbed /\ threads[u] = "works" /\ ~Asking(threads)
  BY DEF AsksLeave, Calm
<1>4. ts \in [main : Doings, sub : Doings] /\ (ts.main = "rest" <=> threads.main = "rest") /\ disturbed \in Truths
  BY <1>1, <1>3 DEF HooksTypeOK, Doings, Threads
<1>5. \A k \in DOMAIN said : said[k].event \notin TurnHooks
  BY <1>2, Zenon DEF TurnHooks
<1>6. \A t \in Threads : ts[t] = "asks" => threads[t] # "asks" /\ t = u
  BY <1>1, <1>3, <1>4 DEF Threads, Asking, HooksTypeOK
<1>7. Asking(ts) /\ (ts.main = "asks" => ts.sub # "asks")
  BY <1>1, <1>3, <1>4, <1>6 DEF Asking, Threads, HooksTypeOK
<1> HIDE DEF ts
<1>8. \A t \in Threads : ts[t] = "asks" => threads[t] # "asks" /\ said = <<ByHook("PermissionRequest", t)>>
  BY <1>6
<1> HIDE DEF said
<1> QED BY <1>2, <1>3, <1>4, <1>5, <1>7, <1>8, GoesOn, Zenon

LEMMA ApprovesKeeps == ASSUME HooksInv, NEW u \in Threads, Approves(u) PROVE HooksInv'
<1> DEFINE ts == [threads EXCEPT ![u] = "works"]
<1>1. HooksTypeOK /\ ClaudeIsWhole
  BY DEF HooksInv
<1>2. /\ Goes(ts, <<>>) /\ turnEnded' = turnEnded /\ escAt' = escAt /\ threads[u] = "asks"
      /\ disturbed' = (disturbed \/ Disturbs(PromptHooks, PromptSince))
  BY DEF Approves
<1>3. ts \in [main : Doings, sub : Doings] /\ (ts.main = "rest" <=> threads.main = "rest") /\ disturbed \in Truths
  BY <1>1, <1>2 DEF HooksTypeOK, Doings, Threads
<1>4. disturbed' \in Truths /\ (disturbed' = FALSE => disturbed = FALSE /\ ~Disturbs(PromptHooks, PromptSince))
  BY <1>2, <1>3, Zenon DEF Truths
<1>5. disturbed' = FALSE => NoPrompt /\ runtime.waiting # <<>> /\ now > runtime.waiting[1].at + Margin
  BY <1>1, <1>4, EndsUndisturbed
<1>6. \A t \in Threads : ts[t] # "asks"
  BY <1>1, <1>2, <1>3 DEF ClaudeIsWhole, HooksTypeOK, Threads
<1>7. ts.main = "asks" => ts.sub # "asks"
  BY <1>6 DEF Threads
<1>8. <<>> \in Seq(AllHooks) /\ \A k \in DOMAIN <<>> : FALSE
  OBVIOUS
<1> HIDE DEF ts
<1> QED BY <1>2, <1>3, <1>4, <1>5, <1>6, <1>7, <1>8, GoesOn, Zenon

LEMMA SubDeniedKeeps == ASSUME HooksInv, SubDenied PROVE HooksInv'
<1> DEFINE ts == [threads EXCEPT !.sub = "rest"]
<1>1. HooksTypeOK /\ ClaudeIsWhole
  BY DEF HooksInv
<1>2. /\ Goes(ts, <<>>) /\ turnEnded' = turnEnded /\ escAt' = escAt /\ threads.sub = "asks"
      /\ disturbed' = (disturbed \/ Disturbs(PromptHooks, PromptSince))
  BY DEF SubDenied
<1>3. ts \in [main : Doings, sub : Doings] /\ ts.main = threads.main /\ ts.sub = "rest" /\ disturbed \in Truths
  BY <1>1 DEF HooksTypeOK, Doings
<1>4. disturbed' \in Truths /\ (disturbed' = FALSE => disturbed = FALSE /\ ~Disturbs(PromptHooks, PromptSince))
  BY <1>2, <1>3, Zenon DEF Truths
<1>5. disturbed' = FALSE => NoPrompt /\ runtime.waiting # <<>> /\ now > runtime.waiting[1].at + Margin
  BY <1>1, <1>4, EndsUndisturbed
<1>6. \A t \in Threads : ts[t] # "asks"
  BY <1>1, <1>2, <1>3 DEF ClaudeIsWhole, HooksTypeOK, Threads
<1>7. ts.main = "asks" => ts.sub # "asks"
  BY <1>6 DEF Threads
<1> HIDE DEF ts
<1> QED BY <1>2, <1>3, <1>4, <1>5, <1>6, <1>7, GoesOn, SaidTyped, Zenon

LEMMA SubmitsKeeps == ASSUME HooksInv, Submits PROVE HooksInv'
<1> DEFINE said == <<ByHook("UserPromptSubmit", "main")>>
<1> DEFINE ts == [threads EXCEPT !.main = "works"]
<1>1. HooksTypeOK /\ Stamped /\ ClaudeIsWhole /\ StopFollows
  BY DEF HooksInv
<1>2. said \in Seq(AllHooks) /\ \A k \in DOMAIN said : said[k].event = "UserPromptSubmit"
  <2>1. "UserPromptSubmit" \in TurnHooks /\ "main" \in Threads
    BY DEF TurnHooks, Threads
  <2> QED BY <2>1, SaidTyped
<1>3. /\ Goes(ts, said) /\ turnEnded' = "runs" /\ escAt' = escAt /\ threads.main = "rest"
      /\ disturbed' = (disturbed \/ escAt = now)
  BY DEF Submits
<1>4. ts \in [main : Doings, sub : Doings] /\ ts.main = "works" /\ ts.sub = threads.sub /\ disturbed \in Truths
  BY <1>1 DEF HooksTypeOK, Doings
<1>5. disturbed' \in Truths /\ (disturbed' = FALSE => disturbed = FALSE /\ escAt # now)
  BY <1>3, <1>4, Zenon DEF Truths
<1>6. escAt' \in Nat /\ escAt' <= now
  BY <1>1, <1>3 DEF HooksTypeOK, Stamped
<1>7. turnEnded' \in {"runs", "answered", "failed", "cut", "cancelled"} /\ (ts.main = "rest" <=> turnEnded' # "runs") /\ ts.main # "asks"
  BY <1>3, <1>4
<1>8. /\ \A k \in DOMAIN said : said[k].event \notin {"Stop", "StopFailure", "active: false"}
      /\ \A k \in DOMAIN said : said[k].event \notin PromptHooks
      /\ \A k \in DOMAIN said : ~EndsFor(said[k], "sub")
  BY <1>2, Zenon DEF PromptHooks, EndsFor
<1>9. \A t \in Threads : ts[t] = "asks" => threads[t] = "asks" /\ t = "sub"
  BY <1>4 DEF Threads
<1>10. Asking(threads) => Asking(ts)
  BY <1>3, <1>4 DEF Asking
<1>11. disturbed' = FALSE => TurnIsTold'
  <2> SUFFICES ASSUME disturbed' = FALSE PROVE TurnIsComing'
    BY DEF TurnIsTold
  <2>1. hooks' = hooks \o said /\ hooks \in Seq(AllHooks) /\ now' = now
    BY <1>1, <1>3, GoesIs DEF HooksTypeOK
  <2>2. /\ Len(hooks) + 1 \in DOMAIN hooks' /\ hooks'[Len(hooks) + 1] = ByHook("UserPromptSubmit", "main")
        /\ \A j \in DOMAIN hooks' : ~(j > Len(hooks) + 1)
    BY <2>1
  <2>3. escAt' < now'
    BY <1>1, <1>3, <1>5, <2>1 DEF HooksTypeOK, Stamped
  <2>4. hooks'[Len(hooks) + 1].event = "UserPromptSubmit"
    BY <2>2 DEF ByHook
  <2> QED BY <1>3, <2>2, <2>3, <2>4, Zenon DEF TurnIsComing
<1> HIDE DEF said, ts
<1>12. StopFollows'
  BY <1>1, <1>2, <1>3, <1>8, GoesKeepsStops
<1>13. \A t \in Threads : ts[t] = "asks" => threads[t] = "asks" /\ \A k \in DOMAIN said : ~EndsFor(said[k], t)
  BY <1>8, <1>9
<1> QED BY <1>2, <1>3, <1>4, <1>5, <1>6, <1>7, <1>8, <1>10, <1>11, <1>12, <1>13, GoesKeeps, Zenon

LEMMA PairIs ==
  ASSUME NEW a \in AllHooks, NEW b \in AllHooks
  PROVE  <<a, b>> \in Seq(AllHooks) /\ DOMAIN <<a, b>> = {1, 2} /\ <<a, b>>[1] = a /\ <<a, b>>[2] = b
  OBVIOUS

LEMMA PairSaid ==
  ASSUME hooks \in Seq(AllHooks), NEW a \in AllHooks, NEW b \in AllHooks, hooks' = hooks \o <<a, b>>
  PROVE  /\ \A i \in DOMAIN hooks' : i \in DOMAIN hooks \/ i = Len(hooks) + 1 \/ i = Len(hooks) + 2
         /\ \A i \in DOMAIN hooks :
              /\ hooks'[i] = hooks[i] /\ i < Len(hooks')
              /\ i # 1 => hooks'[i - 1] = hooks[i - 1]
              /\ i < Len(hooks) => hooks'[i + 1] = hooks[i + 1]
         /\ Len(hooks) + 1 < Len(hooks') /\ hooks'[Len(hooks) + 1] = a /\ hooks'[Len(hooks) + 1 + 1] = b
         /\ Len(hooks) + 2 \in DOMAIN hooks' /\ hooks'[Len(hooks) + 2] = b
         /\ \A i : i = Len(hooks) + 2 => i # 1 /\ hooks'[i - 1] = a
         /\ \A j \in DOMAIN hooks' : ~(j > Len(hooks) + 2)
<1>1. /\ Len(hooks) \in Nat /\ DOMAIN hooks = 1 .. Len(hooks)
      /\ DOMAIN hooks' = 1 .. (Len(hooks) + 2) /\ Len(hooks') = Len(hooks) + 2
      /\ \A i \in 1 .. Len(hooks) : hooks'[i] = hooks[i]
      /\ hooks'[Len(hooks) + 1] = a /\ hooks'[Len(hooks) + 2] = b
  OBVIOUS
<1>2. ASSUME NEW i, i = Len(hooks) + 2 PROVE i # 1 /\ hooks'[i - 1] = a
  <2>1. i \in Int /\ i # 1 /\ i - 1 = Len(hooks) + 1
    BY <1>1, <1>2
  <2> QED BY <2>1, <1>1
<1> QED BY <1>1, <1>2

LEMMA StopIsSaid ==
  ASSUME hooks \in Seq(AllHooks), StopFollows, runtime' = runtime, NEW a \in AllHooks, NEW b \in AllHooks, hooks' = hooks \o <<a, b>>,
         a.event = "active: false", b.event \in {"Stop", "StopFailure"}
  PROVE  StopFollows'
<1> SUFFICES ASSUME NEW i \in DOMAIN hooks'
             PROVE  /\ hooks'[i].event \in {"Stop", "StopFailure"} => IF i = 1 THEN runtime'.open = FALSE ELSE hooks'[i - 1].event = "active: false"
                    /\ hooks'[i].event = "active: false" => i < Len(hooks') /\ hooks'[i + 1].event \in {"Stop", "StopFailure"}
  BY DEF StopFollows
<1>1. CASE i \in DOMAIN hooks
  <2>1. /\ hooks'[i] = hooks[i] /\ i < Len(hooks')
        /\ i # 1 => hooks'[i - 1] = hooks[i - 1]
        /\ i < Len(hooks) => hooks'[i + 1] = hooks[i + 1]
    BY <1>1, PairSaid, Zenon
  <2> QED BY <2>1, <1>1 DEF StopFollows
<1>2. CASE i = Len(hooks) + 1
  <2>1. hooks'[i] = a /\ hooks'[i + 1] = b /\ i < Len(hooks')
    BY <1>2, PairSaid
  <2> QED BY <2>1
<1>3. CASE i = Len(hooks) + 2
  <2>1. hooks'[i] = b /\ hooks'[i - 1] = a /\ i # 1
    BY <1>3, PairSaid, Zenon
  <2> QED BY <2>1
<1> QED BY <1>1, <1>2, <1>3, PairSaid

LEMMA ConcludesKeeps == ASSUME HooksInv, Concludes PROVE HooksInv'
<1>1. HooksTypeOK /\ Stamped /\ ClaudeIsWhole /\ StopFollows
  BY DEF HooksInv
<1>2. PICK how \in {"answered", "failed"} :
        /\ turnEnded' = how
        /\ Goes([threads EXCEPT !.main = "rest"], <<ByHook("active: false", "main"), ByHook(IF how = "answered" THEN "Stop" ELSE "StopFailure", "main")>>)
  BY DEF Concludes
<1> DEFINE stop == ByHook(IF how = "answered" THEN "Stop" ELSE "StopFailure", "main")
<1> DEFINE said == <<ByHook("active: false", "main"), stop>>
<1> DEFINE ts == [threads EXCEPT !.main = "rest"]
<1>3. Goes(ts, said) /\ escAt' = escAt /\ disturbed' = disturbed /\ threads.main = "works"
  BY <1>2 DEF Concludes
<1>4. ts \in [main : Doings, sub : Doings] /\ ts.main = "rest" /\ ts.sub = threads.sub /\ disturbed \in Truths
  BY <1>1 DEF HooksTypeOK, Doings
<1>5. /\ stop \in AllHooks /\ stop.event = (IF how = "answered" THEN "Stop" ELSE "StopFailure")
      /\ ByHook("active: false", "main") \in AllHooks /\ ByHook("active: false", "main").event = "active: false"
  BY SaidTyped, <1>2 DEF Threads, TurnHooks
<1> HIDE DEF stop
<1>6. said \in Seq(AllHooks) /\ \A k \in DOMAIN said : said[k].event \in {"active: false", "Stop", "StopFailure"}
  <2>1. said \in Seq(AllHooks) /\ DOMAIN said = {1, 2} /\ said[1] = ByHook("active: false", "main") /\ said[2] = stop
    BY <1>5, PairIs
  <2>2. stop.event \in {"Stop", "StopFailure"}
    BY <1>5
  <2> QED BY <2>1, <2>2, <1>5
<1>7. hooks' = hooks \o said /\ hooks \in Seq(AllHooks) /\ runtime' = runtime
  BY <1>1, <1>3, GoesIs, Zenon DEF HooksTypeOK
<1>8. /\ StopFollows'
      /\ Len(hooks) + 2 \in DOMAIN hooks' /\ hooks'[Len(hooks) + 2] = stop /\ \A j \in DOMAIN hooks' : ~(j > Len(hooks) + 2)
  <2>1. stop.event \in {"Stop", "StopFailure"}
    BY <1>5
  <2>2. StopFollows'
    BY <2>1, <1>1, <1>5, <1>7, StopIsSaid
  <2> QED BY <2>2, <1>5, <1>7, PairSaid
<1>9. TurnIsTold'
  BY <1>2, <1>5, <1>8 DEF TurnIsComing, TurnIsTold
<1>10. /\ \A k \in DOMAIN said : said[k].event \notin PromptHooks
       /\ \A k \in DOMAIN said : ~EndsFor(said[k], "sub")
  BY <1>6, Zenon DEF PromptHooks, EndsFor
<1>11. \A t \in Threads : ts[t] = "asks" => threads[t] = "asks" /\ t = "sub"
  BY <1>4 DEF Threads
<1>12. Asking(threads) => Asking(ts)
  BY <1>3, <1>4 DEF Asking
<1>13. escAt' \in Nat /\ escAt' <= now
  BY <1>1, <1>3 DEF HooksTypeOK, Stamped
<1>14. turnEnded' \in {"runs", "answered", "failed", "cut", "cancelled"} /\ (ts.main = "rest" <=> turnEnded' # "runs") /\ ts.main # "asks"
  BY <1>2, <1>4
<1> HIDE DEF said, ts
<1>15. \A t \in Threads : ts[t] = "asks" => threads[t] = "asks" /\ \A k \in DOMAIN said : ~EndsFor(said[k], t)
  BY <1>10, <1>11
<1> QED BY <1>3, <1>4, <1>6, <1>8, <1>9, <1>10, <1>12, <1>13, <1>14, <1>15, GoesKeeps, Zenon

LEMMA IsCutKeeps == ASSUME HooksInv, IsCut PROVE HooksInv'
<1> DEFINE ts == [threads EXCEPT !.main = "rest"]
<1>1. HooksTypeOK /\ Stamped /\ ReadIsCurrent /\ ClaudeIsWhole /\ StopFollows
  BY DEF HooksInv
<1>2. /\ Goes(ts, <<>>) /\ threads.main # "rest" /\ threads.sub # "asks"
      /\ (turnEnded' = "cut" /\ escAt' = escAt) \/ (turnEnded' = "cancelled" /\ escAt' = now)
      /\ disturbed' = \/ disturbed \/ Disturbs({"UserPromptSubmit"}, runtime.turnAt)
                      \/ threads.main = "asks" /\ Disturbs(PromptHooks, PromptSince)
  BY DEF IsCut
<1>3. ts \in [main : Doings, sub : Doings] /\ ts.main = "rest" /\ ts.sub = threads.sub /\ disturbed \in Truths
  BY <1>1 DEF HooksTypeOK, Doings
<1>4. /\ disturbed' \in Truths
      /\ disturbed' = FALSE => /\ disturbed = FALSE /\ ~Disturbs({"UserPromptSubmit"}, runtime.turnAt)
                               /\ threads.main = "asks" => ~Disturbs(PromptHooks, PromptSince)
  BY <1>2, <1>3, Zenon DEF Truths
<1>5. escAt' \in Nat /\ escAt' <= now /\ turnEnded' \in {"runs", "answered", "failed", "cut", "cancelled"} /\ turnEnded' # "runs"
  BY <1>1, <1>2 DEF HooksTypeOK, Stamped
<1>6. hooks' = hooks /\ runtime' = runtime /\ now' = now
  <2>1. hooks' = hooks \o <<>> /\ runtime' = runtime /\ now' = now
    BY <1>2, GoesIs
  <2>2. hooks \in Seq(AllHooks)
    BY <1>1 DEF HooksTypeOK
  <2> QED BY <2>1, <2>2
<1>7. StopFollows'
  BY <1>1, <1>6 DEF StopFollows
<1>8. ASSUME disturbed' = FALSE PROVE TurnIsNoted'
  <2>1. TurnIsTold /\ turnEnded = "runs" /\ ~Disturbs({"UserPromptSubmit"}, runtime.turnAt)
    BY <1>1, <1>2, <1>4, <1>8 DEF HooksInv, ClaudeIsWhole
  <2>2. now > runtime.turnAt + Margin /\ \A i \in DOMAIN hooks : hooks[i].event # "UserPromptSubmit"
    BY <2>1, <1>1 DEF Disturbs, HooksTypeOK, Metas, Margin
  <2>3. TurnIsNoted
    BY <2>1, <2>2 DEF TurnIsTold, TurnIsComing
  <2>4. statusFile.status # "idle"
    BY <1>1, <1>2 DEF ClaudeIsWhole, StatusOf, Asking, HooksTypeOK, Doings
  <2>5. RestIsSeen'
    BY <2>2, <2>4, <1>2, <1>6 DEF RestIsSeen, Goes
  <2>6. escAt' = escAt \/ runtime.turnAt <= escAt'
    BY <1>1, <1>2 DEF Stamped, HooksTypeOK, Metas
  <2>7. Told' /\ runtime'.open = TRUE /\ runtime'.interrupted = FALSE /\ escAt < runtime'.turnAt
    BY <2>1, <2>3, <1>6 DEF TurnIsNoted, Told
  <2>8. CASE turnEnded' = "cut"
    BY <2>8, <2>5, <2>7, <1>2 DEF TurnIsNoted
  <2>9. CASE turnEnded' = "cancelled"
    BY <2>9, <2>5, <2>6, <2>7, <1>2, <1>6, <1>1 DEF TurnIsNoted, Stamped, HooksTypeOK, Metas
  <2> QED BY <2>8, <2>9, <1>2
<1>9. disturbed' = FALSE /\ Asking(threads) => NoPrompt /\ runtime.waiting # <<>> /\ now > runtime.waiting[1].at + Margin
  BY <1>1, <1>2, <1>4, EndsUndisturbed DEF Asking
<1>10. /\ (ts.main = "rest" <=> turnEnded' # "runs") /\ ts.main # "asks"
       /\ \A t \in Threads : ts[t] # "asks"
  BY <1>2, <1>3, <1>5 DEF Threads
<1>11. <<>> \in Seq(AllHooks) /\ \A k \in DOMAIN <<>> : FALSE
  OBVIOUS
<1>12. disturbed' = FALSE => TurnIsTold'
  BY <1>8 DEF TurnIsTold
<1> HIDE DEF ts
<1> QED BY <1>2, <1>3, <1>4, <1>5, <1>7, <1>9, <1>10, <1>11, <1>12, GoesKeeps, Zenon

(* What a hook makes of the meta.                                                    *)
LEMMA PatchedIs ==
  ASSUME NEW h \in AllHooks
  PROVE  /\ h.event = "UserPromptSubmit" => Patched(h) = Unasked([runtime EXCEPT !.active = TRUE, !.open = TRUE, !.turnAt = now, !.interrupted = FALSE], "main")
         /\ h.event = "PostToolUse" => Patched(h) = Unasked([runtime EXCEPT !.active = @ \/ runtime.open], h.by)
         /\ h.event = "PermissionRequest" => Patched(h) = [runtime EXCEPT !.waiting = Opened(h.by)]
         /\ h.event = "Notification" => Patched(h) = IF runtime.waiting = <<>> THEN [runtime EXCEPT !.waiting = Opened("main")] ELSE runtime
         /\ h.event = "SubagentStop" => Patched(h) = Unasked(runtime, "sub")
         /\ h.event = "SessionStart" => Patched(h) = [runtime EXCEPT !.active = TRUE]
         /\ h.event = "active: false" => Patched(h) = [runtime EXCEPT !.active = FALSE, !.open = FALSE]
         /\ h.event = "Stop" => Patched(h) = Unasked([runtime EXCEPT !.interrupted = FALSE], "main")
         /\ h.event = "StopFailure" => Patched(h) = Unasked([runtime EXCEPT !.interrupted = TRUE], "main")
  BY Zenon DEF Patched

LEMMA MetasAre ==
  ASSUME NEW m \in Metas
  PROVE  /\ m.active \in Truths /\ m.open \in Truths /\ m.interrupted \in Truths /\ m.turnAt \in Nat
         /\ m.waiting = <<>> \/ \E w \in [by : Threads, at : Nat] : m.waiting = <<w>>
         /\ \A b \in Truths : /\ [m EXCEPT !.active = b] \in Metas /\ [m EXCEPT !.active = b].active = b
                              /\ [m EXCEPT !.active = b].open = m.open /\ [m EXCEPT !.active = b].turnAt = m.turnAt
                              /\ [m EXCEPT !.active = b].interrupted = m.interrupted /\ [m EXCEPT !.active = b].waiting = m.waiting
         /\ \A b \in Truths : /\ [m EXCEPT !.interrupted = b] \in Metas /\ [m EXCEPT !.interrupted = b].interrupted = b
                              /\ [m EXCEPT !.interrupted = b].open = m.open /\ [m EXCEPT !.interrupted = b].turnAt = m.turnAt
                              /\ [m EXCEPT !.interrupted = b].active = m.active /\ [m EXCEPT !.interrupted = b].waiting = m.waiting
         /\ \A w \in {<<>>} \cup {<<u>> : u \in [by : Threads, at : Nat]} :
              /\ [m EXCEPT !.waiting = w] \in Metas /\ [m EXCEPT !.waiting = w].waiting = w
              /\ [m EXCEPT !.waiting = w].open = m.open /\ [m EXCEPT !.waiting = w].turnAt = m.turnAt
              /\ [m EXCEPT !.waiting = w].active = m.active /\ [m EXCEPT !.waiting = w].interrupted = m.interrupted
  BY DEF Metas

LEMMA UnaskedIs ==
  ASSUME NEW m \in Metas, NEW t
  PROVE  /\ Unasked(m, t) \in Metas
         /\ Unasked(m, t).open = m.open /\ Unasked(m, t).turnAt = m.turnAt
         /\ Unasked(m, t).active = m.active /\ Unasked(m, t).interrupted = m.interrupted
         /\ Unasked(m, t).waiting = IF Closes(t) THEN <<>> ELSE m.waiting
  BY MetasAre DEF Unasked

LEMMA TurnPatched ==
  ASSUME HooksTypeOK, NEW h \in AllHooks, NEW m, m = Patched(h)
  PROVE  /\ m \in Metas
         /\ m.open = IF h.event = "UserPromptSubmit" THEN TRUE ELSE IF h.event = "active: false" THEN FALSE ELSE runtime.open
         /\ h.event = "UserPromptSubmit" => m.active = TRUE
         /\ h.event # "active: false" /\ runtime.open = TRUE /\ runtime.active = TRUE => m.active = TRUE
         /\ m.turnAt = IF h.event = "UserPromptSubmit" THEN now ELSE runtime.turnAt
         /\ m.interrupted = IF h.event \in {"UserPromptSubmit", "Stop"} THEN FALSE ELSE IF h.event = "StopFailure" THEN TRUE ELSE runtime.interrupted
<1>0. now \in Nat /\ runtime \in Metas
  BY DEF HooksTypeOK
<1>1. CASE h.event = "UserPromptSubmit"
  <2> DEFINE o == [runtime EXCEPT !.active = TRUE, !.open = TRUE, !.turnAt = now, !.interrupted = FALSE]
  <2>1. o \in Metas /\ o.open = TRUE /\ o.active = TRUE /\ o.turnAt = now /\ o.interrupted = FALSE
    BY <1>0 DEF Metas, Truths
  <2>2. m = Unasked(o, "main")
    BY <1>1, PatchedIs
  <2> HIDE DEF o
  <2> QED BY <1>1, <2>1, <2>2, UnaskedIs
<1>2. CASE h.event = "PostToolUse"
  <2> DEFINE o == [runtime EXCEPT !.active = @ \/ runtime.open]
  <2>1. runtime.active \in Truths /\ runtime.open \in Truths
    BY <1>0, MetasAre
  <2>2. (runtime.active \/ runtime.open) \in Truths /\ (runtime.active = TRUE => (runtime.active \/ runtime.open) = TRUE)
    BY <2>1, Zenon DEF Truths
  <2>3. o = [runtime EXCEPT !.active = (runtime.active \/ runtime.open)]
    OBVIOUS
  <2>4. /\ o \in Metas /\ o.open = runtime.open /\ (runtime.active = TRUE => o.active = TRUE)
        /\ o.turnAt = runtime.turnAt /\ o.interrupted = runtime.interrupted
    BY <1>0, <2>2, <2>3, MetasAre, Zenon
  <2>5. m = Unasked(o, h.by)
    BY <1>2, PatchedIs
  <2> HIDE DEF o
  <2> QED BY <1>2, <2>4, <2>5, UnaskedIs
<1>3. CASE h.event = "PermissionRequest"
  <2>1. m = [runtime EXCEPT !.waiting = Opened(h.by)] /\ Opened(h.by) \in {<<u>> : u \in [by : Threads, at : Nat]}
    BY <1>0, <1>3, PatchedIs DEF Opened, AllHooks
  <2> QED BY <1>0, <1>3, <2>1, MetasAre
<1>4. CASE h.event = "Notification"
  <2>1. m = IF runtime.waiting = <<>> THEN [runtime EXCEPT !.waiting = Opened("main")] ELSE runtime
    BY <1>4, PatchedIs
  <2>2. Opened("main") \in {<<u>> : u \in [by : Threads, at : Nat]}
    BY <1>0 DEF Opened, Threads
  <2> QED BY <1>0, <1>4, <2>1, <2>2, MetasAre
<1>5. CASE h.event = "SubagentStop"
  <2>1. m = Unasked(runtime, "sub")
    BY <1>5, PatchedIs
  <2>2. m \in Metas /\ m.open = runtime.open /\ m.active = runtime.active /\ m.turnAt = runtime.turnAt /\ m.interrupted = runtime.interrupted
    BY <1>0, <2>1, UnaskedIs
  <2> QED BY <1>5, <2>2
<1>6. CASE h.event = "SessionStart"
  <2>1. m = [runtime EXCEPT !.active = TRUE] /\ TRUE \in Truths
    BY <1>6, PatchedIs DEF Truths
  <2>2. m \in Metas /\ m.open = runtime.open /\ m.active = TRUE /\ m.turnAt = runtime.turnAt /\ m.interrupted = runtime.interrupted
    BY <1>0, <2>1 DEF Metas, Truths
  <2> QED BY <1>6, <2>2
<1>7. CASE h.event = "active: false"
  <2>1. m = [runtime EXCEPT !.active = FALSE, !.open = FALSE]
    BY <1>7, PatchedIs
  <2>2. m \in Metas /\ m.open = FALSE /\ m.turnAt = runtime.turnAt /\ m.interrupted = runtime.interrupted
    BY <1>0, <2>1 DEF Metas, Truths
  <2> QED BY <1>7, <2>2
<1>8. CASE h.event = "Stop"
  <2> DEFINE o == [runtime EXCEPT !.interrupted = FALSE]
  <2>1. m = Unasked(o, "main") /\ FALSE \in Truths
    BY <1>8, PatchedIs DEF Truths
  <2>2. o \in Metas /\ o.open = runtime.open /\ o.active = runtime.active /\ o.turnAt = runtime.turnAt /\ o.interrupted = FALSE
    BY <1>0, <2>1, MetasAre
  <2> HIDE DEF o
  <2>3. m \in Metas /\ m.open = o.open /\ m.active = o.active /\ m.turnAt = o.turnAt /\ m.interrupted = o.interrupted
    BY <2>1, <2>2, UnaskedIs
  <2> QED BY <1>8, <2>2, <2>3
<1>9. CASE h.event = "StopFailure"
  <2> DEFINE o == [runtime EXCEPT !.interrupted = TRUE]
  <2>1. m = Unasked(o, "main") /\ TRUE \in Truths
    BY <1>9, PatchedIs DEF Truths
  <2>2. o \in Metas /\ o.open = runtime.open /\ o.active = runtime.active /\ o.turnAt = runtime.turnAt /\ o.interrupted = TRUE
    BY <1>0, <2>1, MetasAre
  <2> HIDE DEF o
  <2>3. m \in Metas /\ m.open = o.open /\ m.active = o.active /\ m.turnAt = o.turnAt /\ m.interrupted = o.interrupted
    BY <2>1, <2>2, UnaskedIs
  <2> QED BY <1>9, <2>2, <2>3
<1> QED BY <1>1, <1>2, <1>3, <1>4, <1>5, <1>6, <1>7, <1>8, <1>9 DEF AllHooks, TurnHooks, PromptHooks

LEMMA PromptPatched ==
  ASSUME HooksTypeOK, NEW h \in AllHooks, NEW m, m = Patched(h)
  PROVE  \/ m.waiting = runtime.waiting /\ h.event # "PermissionRequest" /\ (h.event = "Notification" => runtime.waiting # <<>>)
         \/ m.waiting = <<>> /\ runtime.waiting # <<>> /\ h.event \notin PromptHooks /\ EndsFor(h, runtime.waiting[1].by)
         \/ m.waiting = Opened(h.by) /\ h.event = "PermissionRequest"
         \/ m.waiting = Opened("main") /\ h.event = "Notification" /\ runtime.waiting = <<>>
<1>0. now \in Nat /\ runtime \in Metas
  BY DEF HooksTypeOK
<1>1. CASE h.event \in {"UserPromptSubmit", "Stop", "StopFailure"}
  <2>1. PICK o \in Metas : m = Unasked(o, "main") /\ o.waiting = runtime.waiting
    <3>1. CASE h.event = "UserPromptSubmit"
      <4> DEFINE o == [runtime EXCEPT !.active = TRUE, !.open = TRUE, !.turnAt = now, !.interrupted = FALSE]
      <4>1. o \in Metas /\ o.waiting = runtime.waiting
        BY <1>0 DEF Metas, Truths
      <4> QED BY <3>1, <4>1, PatchedIs
    <3>2. CASE h.event = "Stop"
      <4>1. m = Unasked([runtime EXCEPT !.interrupted = FALSE], "main") /\ FALSE \in Truths
        BY <3>2, PatchedIs DEF Truths
      <4>2. [runtime EXCEPT !.interrupted = FALSE] \in Metas /\ [runtime EXCEPT !.interrupted = FALSE].waiting = runtime.waiting
        BY <1>0, <4>1, MetasAre
      <4> QED BY <4>1, <4>2
    <3>3. CASE h.event = "StopFailure"
      <4>1. m = Unasked([runtime EXCEPT !.interrupted = TRUE], "main") /\ TRUE \in Truths
        BY <3>3, PatchedIs DEF Truths
      <4>2. [runtime EXCEPT !.interrupted = TRUE] \in Metas /\ [runtime EXCEPT !.interrupted = TRUE].waiting = runtime.waiting
        BY <1>0, <4>1, MetasAre
      <4> QED BY <4>1, <4>2
    <3> QED BY <1>1, <3>1, <3>2, <3>3
  <2>2. m.waiting = IF Closes("main") THEN <<>> ELSE runtime.waiting
    BY <2>1, UnaskedIs
  <2> QED BY <1>1, <2>2 DEF Closes, EndsFor, PromptHooks
<1>2. CASE h.event = "PostToolUse"
  <2> DEFINE o == [runtime EXCEPT !.active = @ \/ runtime.open]
  <2>1. runtime.active \in Truths /\ runtime.open \in Truths
    BY <1>0, MetasAre
  <2>2. (runtime.active \/ runtime.open) \in Truths
    BY <2>1, Zenon DEF Truths
  <2>3. o = [runtime EXCEPT !.active = (runtime.active \/ runtime.open)]
    OBVIOUS
  <2>4. o \in Metas /\ o.waiting = runtime.waiting
    BY <1>0, <2>2, <2>3, MetasAre, Zenon
  <2>5. m = Unasked(o, h.by)
    BY <1>2, PatchedIs
  <2> HIDE DEF o
  <2>6. m.waiting = IF Closes(h.by) THEN <<>> ELSE runtime.waiting
    BY <2>4, <2>5, UnaskedIs
  <2> QED BY <1>2, <2>6 DEF Closes, EndsFor, PromptHooks
<1>3. CASE h.event = "PermissionRequest"
  <2>1. m = [runtime EXCEPT !.waiting = Opened(h.by)] /\ Opened(h.by) \in {<<u>> : u \in [by : Threads, at : Nat]}
    BY <1>0, <1>3, PatchedIs DEF Opened, AllHooks
  <2> QED BY <1>0, <1>3, <2>1, MetasAre
<1>4. CASE h.event = "Notification"
  <2>1. m = IF runtime.waiting = <<>> THEN [runtime EXCEPT !.waiting = Opened("main")] ELSE runtime
    BY <1>4, PatchedIs
  <2>2. Opened("main") \in {<<u>> : u \in [by : Threads, at : Nat]}
    BY <1>0 DEF Opened, Threads
  <2> QED BY <1>0, <1>4, <2>1, <2>2, MetasAre
<1>5. CASE h.event = "SubagentStop"
  <2>0. m = Unasked(runtime, "sub")
    BY <1>5, PatchedIs
  <2>1. m.waiting = IF Closes("sub") THEN <<>> ELSE runtime.waiting
    BY <1>0, <2>0, UnaskedIs
  <2> QED BY <1>5, <2>1 DEF Closes, EndsFor, PromptHooks
<1>6. CASE h.event \in {"SessionStart", "active: false"}
  <2>1. m.waiting = runtime.waiting
    BY <1>0, <1>6, PatchedIs DEF Metas
  <2> QED BY <1>6, <2>1
<1> QED BY <1>1, <1>2, <1>3, <1>4, <1>5, <1>6 DEF AllHooks, TurnHooks, PromptHooks

LEMMA TailIs ==
  ASSUME hooks \in Seq(AllHooks), hooks # <<>>, hooks' = Tail(hooks)
  PROVE  /\ hooks' \in Seq(AllHooks) /\ Head(hooks) \in AllHooks /\ Head(hooks) = hooks[1] /\ 1 \in DOMAIN hooks
         /\ \A i \in DOMAIN hooks' :
              /\ i + 1 \in DOMAIN hooks /\ i + 1 # 1 /\ hooks'[i] = hooks[i + 1] /\ i + 1 - 1 = i
              /\ i # 1 => hooks'[i - 1] = hooks[i]
              /\ i + 1 < Len(hooks) => i < Len(hooks') /\ hooks'[i + 1] = hooks[i + 1 + 1]
         /\ \A i \in DOMAIN hooks : i # 1 => /\ i - 1 \in DOMAIN hooks' /\ hooks'[i - 1] = hooks[i]
                                            /\ \A j \in DOMAIN hooks' : j > i - 1 => j + 1 > i
         /\ \A j \in DOMAIN hooks' : j + 1 > 1
<1>1. /\ Len(hooks) \in Nat /\ Len(hooks) > 0 /\ DOMAIN hooks = 1 .. Len(hooks)
      /\ hooks' \in Seq(AllHooks) /\ Len(hooks') = Len(hooks) - 1 /\ DOMAIN hooks' = 1 .. (Len(hooks) - 1)
      /\ \A i \in 1 .. (Len(hooks) - 1) : hooks'[i] = hooks[i + 1]
      /\ Head(hooks) = hooks[1]
  OBVIOUS
<1>2. Head(hooks) \in AllHooks
  BY <1>1
<1>3. ASSUME NEW i \in DOMAIN hooks'
      PROVE  /\ i + 1 \in DOMAIN hooks /\ i + 1 # 1 /\ hooks'[i] = hooks[i + 1] /\ i + 1 - 1 = i /\ i + 1 > 1
             /\ i # 1 => hooks'[i - 1] = hooks[i]
             /\ i + 1 < Len(hooks) => i < Len(hooks') /\ hooks'[i + 1] = hooks[i + 1 + 1]
  BY <1>1
<1>4. ASSUME NEW i \in DOMAIN hooks, i # 1
      PROVE  i - 1 \in DOMAIN hooks' /\ hooks'[i - 1] = hooks[i] /\ \A j \in DOMAIN hooks' : j > i - 1 => j + 1 > i
  BY <1>1, <1>4
<1> QED BY <1>1, <1>2, <1>3, <1>4

LEMMA HappensIs ==
  ASSUME HooksTypeOK, Happens
  PROVE  /\ quietSince' = now /\ calm' = FALSE /\ now' = now /\ found' = found
         /\ sweeping' \in {NoSweep} \cup Looks \cup Judges
         /\ sweeping'.at = sweeping.at /\ (sweeping' = NoSweep <=> sweeping = NoSweep)
         /\ sweeping # NoSweep => sweeping'.quiet = FALSE
         /\ sweeping.at = "judges" => sweeping'.status = sweeping.status
<1>1. CASE sweeping = NoSweep
  BY <1>1 DEF Happens, NoSweep
<1>2. CASE sweeping \in Looks
  BY <1>2, SweepsAre DEF Happens, HooksTypeOK, Looks, NoSweep, Truths
<1>3. CASE sweeping \in Judges
  BY <1>3, SweepsAre DEF Happens, HooksTypeOK, Judges, NoSweep, Truths
<1> QED BY <1>1, <1>2, <1>3, SweepsAre DEF HooksTypeOK

LEMMA MetaSaved ==
  ASSUME saves \in Seq(Metas), NEW m \in Metas, saves' = Append(saves, m)
  PROVE  saves' \in Seq(Metas) /\ saves' # <<>> /\ saves'[Len(saves')] = m
  OBVIOUS

LEMMA HandlesKeeps == ASSUME HooksInv, Handles PROVE HooksInv'
<1> DEFINE h == Head(hooks)
<1> DEFINE m == Patched(h)
<1>1. HooksTypeOK /\ Stamped /\ ReadIsCurrent /\ ClaudeIsWhole /\ StopFollows
  BY DEF HooksInv
<1>2. /\ hooks # <<>> /\ hooks' = Tail(hooks) /\ hooks \in Seq(AllHooks)
      /\ runtime' = m /\ saves' = (IF m = runtime THEN saves ELSE Append(saves, m)) /\ Happens
      /\ threads' = threads /\ statusFile' = statusFile /\ turnEnded' = turnEnded /\ escAt' = escAt /\ acts' = acts
      /\ agentWaiting' = agentWaiting /\ announced' = announced /\ disturbed' = disturbed
  BY <1>1 DEF Handles, SetMeta, HooksTypeOK
<1>3. /\ quietSince' = now /\ calm' = FALSE /\ now' = now /\ found' = found
      /\ sweeping' \in {NoSweep} \cup Looks \cup Judges
      /\ sweeping'.at = sweeping.at /\ (sweeping' = NoSweep <=> sweeping = NoSweep)
      /\ sweeping # NoSweep => sweeping'.quiet = FALSE
      /\ sweeping.at = "judges" => sweeping'.status = sweeping.status
  BY <1>1, <1>2, HappensIs
<1>4. hooks' \in Seq(AllHooks) /\ h \in AllHooks /\ h = hooks[1] /\ 1 \in DOMAIN hooks
  BY <1>2, TailIs
<1>5. \A i \in DOMAIN hooks' :
        /\ i + 1 \in DOMAIN hooks /\ i + 1 # 1 /\ hooks'[i] = hooks[i + 1] /\ i + 1 - 1 = i /\ i + 1 > 1
        /\ i # 1 => hooks'[i - 1] = hooks[i]
        /\ i + 1 < Len(hooks) => i < Len(hooks') /\ hooks'[i + 1] = hooks[i + 1 + 1]
  BY <1>2, TailIs, Zenon
<1>6. \A i \in DOMAIN hooks : i # 1 => /\ i - 1 \in DOMAIN hooks' /\ hooks'[i - 1] = hooks[i]
                                      /\ \A j \in DOMAIN hooks' : j > i - 1 => j + 1 > i
  BY <1>2, TailIs, Zenon
<1>7. /\ m \in Metas
      /\ m.open = IF h.event = "UserPromptSubmit" THEN TRUE ELSE IF h.event = "active: false" THEN FALSE ELSE runtime.open
      /\ h.event = "UserPromptSubmit" => m.active = TRUE
      /\ h.event # "active: false" /\ runtime.open = TRUE /\ runtime.active = TRUE => m.active = TRUE
      /\ m.turnAt = IF h.event = "UserPromptSubmit" THEN now ELSE runtime.turnAt
      /\ m.interrupted = IF h.event \in {"UserPromptSubmit", "Stop"} THEN FALSE ELSE IF h.event = "StopFailure" THEN TRUE ELSE runtime.interrupted
  BY <1>1, <1>4, TurnPatched
<1>8. \/ m.waiting = runtime.waiting /\ h.event # "PermissionRequest" /\ (h.event = "Notification" => runtime.waiting # <<>>)
      \/ m.waiting = <<>> /\ runtime.waiting # <<>> /\ h.event \notin PromptHooks /\ EndsFor(h, runtime.waiting[1].by)
      \/ m.waiting = Opened(h.by) /\ h.event = "PermissionRequest"
      \/ m.waiting = Opened("main") /\ h.event = "Notification" /\ runtime.waiting = <<>>
  BY <1>1, <1>4, PromptPatched
<1> HIDE DEF m, h
<1>9. HooksTypeOK'
  <2>1. saves' \in Seq(Metas)
    <3>1. saves \in Seq(Metas)
      BY <1>1 DEF HooksTypeOK
    <3> QED BY <3>1, <1>2, <1>7, MetaSaved
  <2>2. runtime' \in Metas /\ calm' \in Truths
    BY <1>2, <1>3, <1>7 DEF Truths
  <2>3. /\ now' \in Nat /\ found' \in Truths /\ threads' \in [main : Doings, sub : Doings] /\ statusFile' \in StatusFiles
        /\ turnEnded' \in {"runs", "answered", "failed", "cut", "cancelled"} /\ escAt' \in Nat /\ acts' \in Nat
        /\ agentWaiting' \in Truths /\ announced' \in [active : Truths, waiting : Truths, interrupted : Truths]
        /\ quietSince' \in Nat /\ disturbed' \in Truths
    BY <1>1, <1>2, <1>3 DEF HooksTypeOK
  <2> QED BY <2>1, <2>2, <2>3, <1>3, <1>4 DEF HooksTypeOK
<1>10. Stamped'
  <2>1. quietSince' <= now' /\ statusFile'.updatedAt <= quietSince' /\ escAt' <= now' /\ runtime'.turnAt <= now'
    <3>1. /\ now \in Nat /\ quietSince \in Nat /\ statusFile.updatedAt \in Nat
          /\ quietSince <= now /\ statusFile.updatedAt <= quietSince /\ escAt <= now /\ runtime.turnAt <= now
      BY <1>1 DEF Stamped, HooksTypeOK, StatusFiles
    <3>2. runtime'.turnAt = now \/ runtime'.turnAt = runtime.turnAt
      BY <1>2, <1>7
    <3>3. quietSince' = now /\ now' = now /\ statusFile' = statusFile /\ escAt' = escAt
      BY <1>2, <1>3
    <3> QED BY <3>1, <3>2, <3>3
  <2>2. ASSUME runtime'.waiting # <<>> PROVE runtime'.waiting[1].at <= quietSince'
    <3>1. CASE m.waiting = runtime.waiting
      <4>1. runtime.waiting[1].at \in Nat
        BY <2>2, <3>1, <1>1, <1>2 DEF HooksTypeOK, Metas
      <4> QED BY <2>2, <3>1, <4>1, <1>1, <1>2, <1>3 DEF Stamped, HooksTypeOK
    <3>2. CASE m.waiting = Opened(h.by) \/ m.waiting = Opened("main")
      BY <3>2, <1>1, <1>2, <1>3 DEF Opened, HooksTypeOK
    <3> QED BY <1>2, <1>8, <2>2, <3>1, <3>2
  <2>3. sweeping'.at = "judges" => sweeping'.status.updatedAt <= now'
    BY <1>1, <1>3 DEF Stamped
  <2> QED BY <2>1, <2>2, <2>3 DEF Stamped
<1>11. ReadIsCurrent' /\ SweepHasSeen'
  BY <1>3, Zenon DEF ReadIsCurrent, SweepHasSeen
<1>12. ClaudeIsWhole'
  BY <1>1, <1>2 DEF ClaudeIsWhole, StatusOf, Asking
<1>13. StopFollows'
  <2> SUFFICES ASSUME NEW i \in DOMAIN hooks'
               PROVE  /\ hooks'[i].event \in {"Stop", "StopFailure"} => IF i = 1 THEN runtime'.open = FALSE ELSE hooks'[i - 1].event = "active: false"
                      /\ hooks'[i].event = "active: false" => i < Len(hooks') /\ hooks'[i + 1].event \in {"Stop", "StopFailure"}
    BY DEF StopFollows
  <2>1. /\ i + 1 \in DOMAIN hooks /\ i + 1 # 1 /\ hooks'[i] = hooks[i + 1] /\ i + 1 - 1 = i
        /\ i # 1 => hooks'[i - 1] = hooks[i]
        /\ i + 1 < Len(hooks) => i < Len(hooks') /\ hooks'[i + 1] = hooks[i + 1 + 1]
    BY <1>5
  <2>2. /\ hooks[i + 1].event \in {"Stop", "StopFailure"} => hooks[i].event = "active: false"
        /\ hooks[i + 1].event = "active: false" => i + 1 < Len(hooks) /\ hooks[i + 1 + 1].event \in {"Stop", "StopFailure"}
    <3>1. PICK k : k = i + 1
      OBVIOUS
    <3>2. k \in DOMAIN hooks /\ k # 1 /\ k - 1 = i
      BY <2>1, <3>1
    <3>3. /\ hooks[k].event \in {"Stop", "StopFailure"} => IF k = 1 THEN runtime.open = FALSE ELSE hooks[k - 1].event = "active: false"
          /\ hooks[k].event = "active: false" => k < Len(hooks) /\ hooks[k + 1].event \in {"Stop", "StopFailure"}
      BY <1>1, <3>2 DEF StopFollows
    <3>4. /\ hooks[k].event \in {"Stop", "StopFailure"} => hooks[i].event = "active: false"
          /\ hooks[k].event = "active: false" => k < Len(hooks) /\ hooks[k + 1].event \in {"Stop", "StopFailure"}
      BY <3>2, <3>3
    <3> QED BY <3>1, <3>4, Zenon
  <2>3. i = 1 /\ hooks[i].event = "active: false" => runtime'.open = FALSE
    BY <1>2, <1>4, <1>7
  <2> QED BY <2>1, <2>2, <2>3
<1>14. ASSUME disturbed' = FALSE PROVE PromptEnds' /\ PromptsAreTold' /\ IsShown' /\ TurnIsTold'
  <2>0. PromptEnds /\ PromptsAreTold /\ IsShown /\ TurnIsTold
    BY <1>2, <1>14 DEF HooksInv
  <2>1. PromptEnds'
    <3> SUFFICES ASSUME ~Asking(threads)
                 PROVE  NoPrompt' /\ (runtime'.waiting # <<>> => statusFile'.updatedAt > runtime'.waiting[1].at + Margin)
      BY <1>2 DEF PromptEnds, Asking
    <3>1. NoPrompt /\ (runtime.waiting # <<>> => statusFile.updatedAt > runtime.waiting[1].at + Margin)
      BY <2>0 DEF PromptEnds
    <3>2. NoPrompt'
      BY <3>1, <1>5 DEF NoPrompt
    <3>3. h.event \notin PromptHooks
      BY <3>1, <1>4 DEF NoPrompt
    <3> QED BY <3>1, <3>2, <3>3, <1>2, <1>8 DEF PromptHooks
  <2>2. PromptsAreTold'
    <3> SUFFICES ASSUME found = FALSE, NEW t \in Threads, threads[t] = "asks" PROVE PromptIsComing(t)' \/ PromptIsUp(t)'
      BY <1>2, <1>3 DEF PromptsAreTold
    <3>1. CASE PromptIsComing(t)
      <4>1. PICK i \in DOMAIN hooks : hooks[i] = ByHook("PermissionRequest", t) /\ \A j \in DOMAIN hooks : j > i => ~EndsFor(hooks[j], t)
        BY <3>1 DEF PromptIsComing
      <4>2. CASE i = 1
        <5>1. h = ByHook("PermissionRequest", t)
          BY <4>1, <4>2, <1>4
        <5>2. h.event = "PermissionRequest" /\ h.by = t
          BY <5>1 DEF ByHook
        <5>3. runtime'.waiting = Opened(t)
          BY <5>2, <1>2, <1>8 DEF PromptHooks
        <5>4. runtime'.waiting # <<>> /\ runtime'.waiting[1].by = t
          BY <5>3 DEF Opened
        <5>5. \A j \in DOMAIN hooks' : ~EndsFor(hooks'[j], t)
          BY <4>1, <4>2, <1>5
        <5> QED BY <5>4, <5>5 DEF PromptIsUp, EndsFor
      <4>3. CASE i # 1
        <5>1. i - 1 \in DOMAIN hooks' /\ hooks'[i - 1] = ByHook("PermissionRequest", t)
          BY <4>1, <4>3, <1>6
        <5>2. \A j \in DOMAIN hooks' : j > i - 1 => ~EndsFor(hooks'[j], t)
          BY <4>1, <4>3, <1>5, <1>6, Zenon
        <5> QED BY <5>1, <5>2 DEF PromptIsComing, EndsFor, ByHook
      <4> QED BY <4>2, <4>3
    <3>2. CASE PromptIsUp(t)
      <4>1. ~EndsFor(h, t) /\ runtime.waiting # <<>> /\ runtime.waiting[1].by = t
        BY <3>2, <1>4 DEF PromptIsUp
      <4>2. runtime'.waiting = runtime.waiting
        BY <4>1, <1>2, <1>8 DEF EndsFor
      <4>3. \A j \in DOMAIN hooks' : ~EndsFor(hooks'[j], t)
        BY <3>2, <1>5 DEF PromptIsUp
      <4> QED BY <4>1, <4>2, <4>3 DEF PromptIsUp, EndsFor
    <3> QED BY <2>0, <3>1, <3>2 DEF PromptsAreTold
  <2>3. IsShown'
    <3>1. CASE m = runtime
      BY <3>1, <2>0, <1>2, Zenon DEF IsShown, Shows, AgentIsActive
    <3>2. CASE m # runtime
      <4>1. saves' # <<>> /\ saves'[Len(saves')] = m
        <5>1. saves \in Seq(Metas)
          BY <1>1 DEF HooksTypeOK
        <5> QED BY <5>1, <3>2, <1>2, <1>7, MetaSaved
      <4> QED BY <4>1, <1>2 DEF IsShown
    <3> QED BY <3>1, <3>2
  <2>4. TurnIsTold'
    <3>1. CASE TurnIsComing
      <4>1. PICK i \in DOMAIN hooks :
              /\ \A j \in DOMAIN hooks : j > i => hooks[j].event \notin TurnHooks
              /\ \/ turnEnded = "runs" /\ hooks[i].event = "UserPromptSubmit" /\ escAt < now
                 \/ turnEnded = "answered" /\ hooks[i].event = "Stop"
                 \/ turnEnded = "failed" /\ hooks[i].event = "StopFailure"
        BY <3>1 DEF TurnIsComing
      <4>2. CASE i = 1
        <5>1. Told'
          BY <4>1, <4>2, <1>5 DEF Told
        <5>2. CASE turnEnded = "runs"
          <6>1. h.event = "UserPromptSubmit" /\ escAt < now
            BY <4>1, <4>2, <5>2, <1>4
          <6>2. sweeping'.at = "judges" => sweeping'.status.updatedAt <= runtime'.turnAt
            BY <6>1, <1>1, <1>2, <1>3, <1>7 DEF Stamped
          <6> QED BY <5>1, <5>2, <6>1, <6>2, <1>2, <1>3, <1>7 DEF TurnIsNoted, TurnIsTold
        <5>3. CASE turnEnded # "runs"
          <6>1. h.event = IF turnEnded = "answered" THEN "Stop" ELSE "StopFailure"
            BY <4>1, <4>2, <5>3, <1>4
          <6>2. runtime.open = FALSE
            BY <6>1, <1>1, <1>4 DEF StopFollows
          <6> QED BY <4>1, <5>1, <5>3, <6>1, <6>2, <1>2, <1>7 DEF TurnIsNoted, TurnIsTold
        <5> QED BY <5>2, <5>3
      <4>3. CASE i # 1
        <5>1. i - 1 \in DOMAIN hooks' /\ hooks'[i - 1] = hooks[i]
          BY <4>1, <4>3, <1>6
        <5>2. \A j \in DOMAIN hooks' : j > i - 1 => hooks'[j].event \notin TurnHooks
          BY <4>1, <4>3, <1>5, <1>6, Zenon
        <5> QED BY <4>1, <5>1, <5>2, <1>2, <1>3 DEF TurnIsComing, TurnIsTold
      <4> QED BY <4>2, <4>3
    <3>2. CASE TurnIsNoted
      <4>1. h.event \notin TurnHooks
        BY <3>2, <1>4 DEF TurnIsNoted, Told
      <4>2. runtime'.open = runtime.open /\ runtime'.turnAt = runtime.turnAt /\ runtime'.interrupted = runtime.interrupted
        BY <4>1, <1>2, <1>7 DEF TurnHooks
      <4>3. runtime.open = TRUE /\ runtime.active = TRUE => runtime'.active = TRUE
        BY <4>1, <1>2, <1>7 DEF TurnHooks
      <4>4. Told'
        BY <3>2, <1>5 DEF TurnIsNoted, Told
      <4>5. RestIsSeen => RestIsSeen'
        BY <4>2, <1>2, <1>3 DEF RestIsSeen
      <4> QED BY <3>2, <4>2, <4>3, <4>4, <4>5, <1>2, <1>3 DEF TurnIsNoted, TurnIsTold
    <3> QED BY <2>0, <3>1, <3>2 DEF TurnIsTold
  <2> QED BY <2>1, <2>2, <2>3, <2>4
<1> QED BY <1>9, <1>10, <1>11, <1>12, <1>13, <1>14 DEF HooksInv

LEMMA OneOrMore == \A n \in Nat : \A i \in 1 .. n : n = 1 \/ n > 1
  OBVIOUS

LEMMA MetaRemoved ==
  ASSUME saves \in Seq(Metas), NEW i \in DOMAIN saves
  PROVE  /\ RemoveAt(saves, i) \in Seq(Metas) /\ saves # <<>> /\ saves[i] \in Metas
         /\ i = 1 => \/ RemoveAt(saves, i) = <<>> /\ saves[Len(saves)] = saves[i]
                     \/ RemoveAt(saves, i) # <<>> /\ RemoveAt(saves, i)[Len(RemoveAt(saves, i))] = saves[Len(saves)]
<1>1. /\ SubSeq(saves, 1, i - 1) \in Seq(Metas) /\ SubSeq(saves, i + 1, Len(saves)) \in Seq(Metas)
      /\ Len(SubSeq(saves, 1, i - 1)) = i - 1 /\ Len(SubSeq(saves, i + 1, Len(saves))) = Len(saves) - i
      /\ i \in 1 .. Len(saves) /\ Len(saves) \in Nat
  OBVIOUS
<1>2. RemoveAt(saves, i) = SubSeq(saves, 1, i - 1) \o SubSeq(saves, i + 1, Len(saves))
  BY DEF RemoveAt
<1>3. ASSUME i = 1
      PROVE  \/ RemoveAt(saves, i) = <<>> /\ saves[Len(saves)] = saves[i]
             \/ RemoveAt(saves, i) # <<>> /\ RemoveAt(saves, i)[Len(RemoveAt(saves, i))] = saves[Len(saves)]
  <2>1. CASE Len(saves) = 1
    BY <1>1, <1>2, <1>3, <2>1
  <2>2. CASE Len(saves) > 1
    <3>1. Len(RemoveAt(saves, i)) = Len(saves) - 1
      BY <1>1, <1>2, <1>3
    <3>2. RemoveAt(saves, i)[Len(saves) - 1] = saves[Len(saves)]
      BY <1>1, <1>2, <1>3, <2>2
    <3> QED BY <1>1, <3>1, <3>2, <2>2
  <2>3. Len(saves) = 1 \/ Len(saves) > 1
    <3>1. i \in 1 .. Len(saves) /\ Len(saves) \in Nat
      OBVIOUS
    <3> QED BY <3>1, OneOrMore
  <2> QED BY <2>1, <2>2, <2>3
<1>4. RemoveAt(saves, i) \in Seq(Metas)
  BY <1>1, <1>2
<1>5. saves # <<>> /\ saves[i] \in Metas
  BY <1>1
<1> QED BY <1>3, <1>4, <1>5

LEMMA PromptsRest ==
  ASSUME hooks' = hooks, runtime' = runtime, statusFile' = statusFile, threads' = threads, found' = found
  PROVE  (PromptEnds => PromptEnds') /\ (PromptsAreTold => PromptsAreTold')
<1>1. PromptEnds => PromptEnds'
  BY Zenon DEF PromptEnds, NoPrompt, Asking
<1>2. \A t : (PromptIsComing(t) => PromptIsComing(t)') /\ (PromptIsUp(t) => PromptIsUp(t)')
  BY DEF PromptIsComing, PromptIsUp, EndsFor, ByHook
<1>3. PromptsAreTold => PromptsAreTold'
  BY <1>2 DEF PromptsAreTold
<1> QED BY <1>1, <1>3

LEMMA AnnouncesKeeps == ASSUME HooksInv, NEW i \in DOMAIN saves, Announces(i) PROVE HooksInv'
<1>1. HooksTypeOK /\ Stamped /\ ReadIsCurrent /\ ClaudeIsWhole /\ StopFollows
  BY DEF HooksInv
<1>2. /\ announced' = [active |-> AgentIsActive(saves[i]), waiting |-> agentWaiting \/ saves[i].waiting # <<>>, interrupted |-> saves[i].interrupted]
      /\ saves' = RemoveAt(saves, i) /\ disturbed' = (disturbed \/ i # 1)
      /\ now' = now /\ found' = found /\ threads' = threads /\ statusFile' = statusFile /\ turnEnded' = turnEnded /\ escAt' = escAt
      /\ hooks' = hooks /\ acts' = acts /\ runtime' = runtime /\ agentWaiting' = agentWaiting /\ sweeping' = sweeping
      /\ quietSince' = quietSince /\ calm' = calm
  BY DEF Announces, claudeVars
<1>3. disturbed \in Truths /\ saves \in Seq(Metas) /\ agentWaiting \in Truths
  BY <1>1 DEF HooksTypeOK
<1>4. disturbed' \in Truths /\ (disturbed' = FALSE => disturbed = FALSE /\ i = 1)
  BY <1>2, <1>3, Zenon DEF Truths
<1>5. saves' \in Seq(Metas) /\ saves # <<>> /\ saves[i] \in Metas
  BY <1>2, <1>3, MetaRemoved
<1>6. AgentIsActive(saves[i]) \in Truths /\ (agentWaiting \/ saves[i].waiting # <<>>) \in Truths /\ saves[i].interrupted \in Truths
  <2>1. saves[i].active \in Truths /\ saves[i].open \in Truths /\ saves[i].interrupted \in Truths
    BY <1>5, MetasAre
  <2> QED BY <2>1, <1>3, Zenon DEF AgentIsActive, Truths
<1>7. HooksTypeOK'
  <2>1. announced' \in [active : Truths, waiting : Truths, interrupted : Truths]
    BY <1>2, <1>6
  <2>2. /\ now' \in Nat /\ found' \in Truths /\ threads' \in [main : Doings, sub : Doings] /\ statusFile' \in StatusFiles
        /\ turnEnded' \in {"runs", "answered", "failed", "cut", "cancelled"} /\ escAt' \in Nat /\ acts' \in Nat
        /\ hooks' \in Seq(AllHooks) /\ runtime' \in Metas /\ agentWaiting' \in Truths
        /\ sweeping' \in {NoSweep} \cup Looks \cup Judges /\ quietSince' \in Nat /\ calm' \in Truths
    BY <1>1, <1>2, Zenon DEF HooksTypeOK
  <2> QED BY <2>1, <2>2, <1>4, <1>5 DEF HooksTypeOK
<1>8. Stamped' /\ ReadIsCurrent' /\ ClaudeIsWhole' /\ StopFollows'
  BY <1>1, <1>2, Zenon DEF Stamped, ReadIsCurrent, ClaudeIsWhole, StopFollows, StatusOf, Asking
<1>9. ASSUME disturbed' = FALSE PROVE PromptEnds' /\ PromptsAreTold' /\ IsShown' /\ TurnIsTold' /\ SweepHasSeen'
  <2>0. PromptEnds /\ PromptsAreTold /\ IsShown /\ TurnIsTold /\ SweepHasSeen /\ i = 1
    BY <1>4, <1>9 DEF HooksInv
  <2>1. PromptEnds' /\ PromptsAreTold'
    BY <2>0, <1>2, PromptsRest
  <2>2. TurnIsTold'
    BY <2>0, <1>2, Zenon DEF TurnIsTold, TurnIsComing, TurnIsNoted, Told, RestIsSeen
  <2>3. SweepHasSeen'
    BY <2>0, <1>2, Zenon DEF SweepHasSeen, Asking, Told
  <2>4. IsShown'
    <3>1. saves[Len(saves)] = runtime
      BY <2>0, <1>5 DEF IsShown
    <3>2. CASE saves' = <<>>
      <4>1. saves[i] = runtime
        BY <3>1, <3>2, <2>0, <1>2, <1>3, MetaRemoved
      <4>2. announced'.active = AgentIsActive(runtime) /\ announced'.waiting = (agentWaiting \/ runtime.waiting # <<>>) /\ announced'.interrupted = runtime.interrupted
        BY <4>1, <1>2
      <4> QED BY <3>2, <4>2, <1>2, <1>3, Zenon DEF IsShown, Shows, AgentIsActive, Truths
    <3>3. CASE saves' # <<>>
      BY <3>1, <3>3, <2>0, <1>2, <1>3, MetaRemoved DEF IsShown
    <3> QED BY <3>2, <3>3
  <2> QED BY <2>1, <2>2, <2>3, <2>4
<1> QED BY <1>7, <1>8, <1>9 DEF HooksInv

(* A sweep's reading, and time's passing.                                          *)
LEMMA ReadsMetaKeeps == ASSUME HooksInv, ReadsMeta PROVE HooksInv'
<1>1. HooksTypeOK /\ Stamped /\ ReadIsCurrent /\ ClaudeIsWhole /\ StopFollows
  BY DEF HooksInv
<1>2. /\ sweeping = NoSweep /\ sweeping' = [at |-> "looks", read |-> runtime, quiet |-> now > quietSince + SweepPeriod]
      /\ now' = now /\ found' = found /\ threads' = threads /\ statusFile' = statusFile /\ turnEnded' = turnEnded /\ escAt' = escAt
      /\ hooks' = hooks /\ acts' = acts /\ runtime' = runtime /\ agentWaiting' = agentWaiting /\ saves' = saves /\ announced' = announced
      /\ quietSince' = quietSince /\ calm' = calm /\ disturbed' = disturbed
  BY DEF ReadsMeta, claudeVars, paneVars
<1>3. runtime \in Metas /\ (now > quietSince + SweepPeriod) \in Truths
  <2>1. runtime \in Metas
    BY <1>1 DEF HooksTypeOK
  <2>2. (now > quietSince + SweepPeriod) \in BOOLEAN
    OBVIOUS
  <2>3. \A b \in BOOLEAN : b \in Truths
    BY Zenon DEF Truths
  <2> QED BY <2>1, <2>2, <2>3
<1>4. sweeping' \in Looks /\ sweeping'.at = "looks" /\ sweeping'.read = runtime /\ (sweeping'.quiet = TRUE => now > quietSince + SweepPeriod)
  <2>1. sweeping' \in Looks /\ sweeping'.at = "looks" /\ sweeping'.read = runtime /\ sweeping'.quiet = (now > quietSince + SweepPeriod)
    BY <1>2, <1>3, Zenon DEF Looks
  <2> QED BY <2>1, Zenon
<1>5. HooksTypeOK'
  <2>1. /\ now' \in Nat /\ found' \in Truths /\ threads' \in [main : Doings, sub : Doings] /\ statusFile' \in StatusFiles
        /\ turnEnded' \in {"runs", "answered", "failed", "cut", "cancelled"} /\ escAt' \in Nat /\ acts' \in Nat
        /\ hooks' \in Seq(AllHooks) /\ runtime' \in Metas /\ agentWaiting' \in Truths /\ saves' \in Seq(Metas)
        /\ announced' \in [active : Truths, waiting : Truths, interrupted : Truths]
        /\ quietSince' \in Nat /\ calm' \in Truths /\ disturbed' \in Truths
    BY <1>1, <1>2, Zenon DEF HooksTypeOK
  <2> QED BY <2>1, <1>4 DEF HooksTypeOK
<1>6. Stamped' /\ ReadIsCurrent' /\ ClaudeIsWhole' /\ StopFollows'
  <2>1. sweeping'.at # "judges"
    BY <1>4
  <2>2. Stamped'
    BY <2>1, <1>1, <1>2, Zenon DEF Stamped
  <2>3. ReadIsCurrent'
    BY <2>1, <1>1, <1>2, <1>4, Zenon DEF ReadIsCurrent
  <2> QED BY <2>2, <2>3, <1>1, <1>2, Zenon DEF ClaudeIsWhole, StopFollows, StatusOf, Asking
<1>7. ASSUME disturbed' = FALSE PROVE PromptEnds' /\ PromptsAreTold' /\ IsShown' /\ TurnIsTold' /\ SweepHasSeen'
  <2>0. PromptEnds /\ PromptsAreTold /\ IsShown /\ TurnIsTold /\ SweepHasSeen
    BY <1>2, <1>7 DEF HooksInv
  <2>1. PromptEnds' /\ PromptsAreTold'
    BY <2>0, <1>2, PromptsRest
  <2>2. sweeping'.at # "judges"
    BY <1>4
  <2>3. TurnIsTold'
    BY <2>0, <2>2, <1>2, Zenon DEF TurnIsTold, TurnIsComing, TurnIsNoted, Told, RestIsSeen
  <2>4. SweepHasSeen' /\ IsShown'
    BY <2>0, <1>2, Zenon DEF SweepHasSeen, Asking, Told, IsShown, Shows, AgentIsActive
  <2> QED BY <2>1, <2>3, <2>4
<1> QED BY <1>5, <1>6, <1>7 DEF HooksInv

LEMMA ReadsStatusKeeps == ASSUME HooksInv, ReadsStatus PROVE HooksInv'
<1>1. HooksTypeOK /\ Stamped /\ ReadIsCurrent /\ ClaudeIsWhole /\ StopFollows
  BY DEF HooksInv
<1>2. /\ sweeping.at = "looks"
      /\ sweeping' = [at |-> "judges", read |-> sweeping.read, quiet |-> sweeping.quiet, status |-> statusFile]
      /\ now' = now /\ found' = found /\ threads' = threads /\ statusFile' = statusFile /\ turnEnded' = turnEnded /\ escAt' = escAt
      /\ hooks' = hooks /\ acts' = acts /\ runtime' = runtime /\ agentWaiting' = agentWaiting /\ saves' = saves /\ announced' = announced
      /\ quietSince' = quietSince /\ calm' = calm /\ disturbed' = disturbed
  BY DEF ReadsStatus, claudeVars, paneVars
<1>3. sweeping \in Looks /\ sweeping # NoSweep
  BY <1>1, <1>2, SweepsAre DEF HooksTypeOK
<1>4. /\ sweeping' \in Judges /\ sweeping'.at = "judges" /\ sweeping'.read = sweeping.read /\ sweeping'.quiet = sweeping.quiet
      /\ sweeping'.status = statusFile /\ sweeping' # NoSweep
  BY <1>1, <1>2, <1>3, SweepsAre DEF Looks, Judges, HooksTypeOK, NoSweep
<1>5. HooksTypeOK'
  <2>1. /\ now' \in Nat /\ found' \in Truths /\ threads' \in [main : Doings, sub : Doings] /\ statusFile' \in StatusFiles
        /\ turnEnded' \in {"runs", "answered", "failed", "cut", "cancelled"} /\ escAt' \in Nat /\ acts' \in Nat
        /\ hooks' \in Seq(AllHooks) /\ runtime' \in Metas /\ agentWaiting' \in Truths /\ saves' \in Seq(Metas)
        /\ announced' \in [active : Truths, waiting : Truths, interrupted : Truths]
        /\ quietSince' \in Nat /\ calm' \in Truths /\ disturbed' \in Truths
    BY <1>1, <1>2, Zenon DEF HooksTypeOK
  <2> QED BY <2>1, <1>4 DEF HooksTypeOK
<1>6. Stamped' /\ ReadIsCurrent' /\ ClaudeIsWhole' /\ StopFollows'
  <2>1. statusFile.updatedAt <= now
    BY <1>1 DEF Stamped, HooksTypeOK, StatusFiles
  <2>2. Stamped'
    BY <2>1, <1>1, <1>2, <1>4, Zenon DEF Stamped
  <2>3. ReadIsCurrent'
    BY <1>1, <1>2, <1>3, <1>4, Zenon DEF ReadIsCurrent
  <2> QED BY <2>2, <2>3, <1>1, <1>2, Zenon DEF ClaudeIsWhole, StopFollows, StatusOf, Asking
<1>7. ASSUME disturbed' = FALSE PROVE PromptEnds' /\ PromptsAreTold' /\ IsShown' /\ TurnIsTold' /\ SweepHasSeen'
  <2>0. PromptEnds /\ PromptsAreTold /\ IsShown /\ TurnIsTold /\ SweepHasSeen
    BY <1>2, <1>7 DEF HooksInv
  <2>1. PromptEnds' /\ PromptsAreTold'
    BY <2>0, <1>2, PromptsRest
  <2>2. turnEnded = "runs" => statusFile.status # "idle"
    BY <1>1 DEF ClaudeIsWhole, StatusOf, Asking, HooksTypeOK, Doings
  <2>3. TurnIsTold'
    BY <2>0, <2>2, <1>2, <1>4, Zenon DEF TurnIsTold, TurnIsComing, TurnIsNoted, Told, RestIsSeen
  <2>4. SweepHasSeen' /\ IsShown'
    BY <2>0, <1>2, Zenon DEF SweepHasSeen, Asking, Told, IsShown, Shows, AgentIsActive
  <2> QED BY <2>1, <2>3, <2>4
<1> QED BY <1>5, <1>6, <1>7 DEF HooksInv

LEMMA LaterKeeps == ASSUME HooksInv, Later PROVE HooksInv'
<1>1. HooksTypeOK /\ Stamped /\ ReadIsCurrent /\ ClaudeIsWhole /\ StopFollows
  BY DEF HooksInv
<1>2. /\ now' = now + SweepPeriod + 1
      /\ found' = found /\ threads' = threads /\ statusFile' = statusFile /\ turnEnded' = turnEnded /\ escAt' = escAt
      /\ hooks' = hooks /\ acts' = acts /\ runtime' = runtime /\ agentWaiting' = agentWaiting /\ saves' = saves /\ announced' = announced
      /\ sweeping' = sweeping /\ quietSince' = quietSince /\ calm' = calm /\ disturbed' = disturbed
  BY DEF Later, claudeVars, paneVars
<1>3. now \in Nat /\ quietSince \in Nat /\ escAt \in Nat /\ runtime.turnAt \in Nat /\ statusFile.updatedAt \in Nat /\ now' \in Nat /\ now' > now
      /\ SweepPeriod \in Nat /\ Margin \in Nat
  BY <1>1, <1>2 DEF HooksTypeOK, Metas, StatusFiles, SweepPeriod, Margin
<1>4. \A x \in Int : (x <= now => x <= now') /\ (now > x => now' > x)
  BY <1>3
<1>5. HooksTypeOK'
  BY <1>1, <1>2, <1>3, Zenon DEF HooksTypeOK
<1>6. Stamped' /\ ReadIsCurrent' /\ ClaudeIsWhole' /\ StopFollows'
  <2>1. sweeping.at = "judges" => sweeping.status.updatedAt \in Nat
    BY <1>1, SweepsAre DEF HooksTypeOK, Judges, StatusFiles
  <2>2. Stamped'
    <3>1. quietSince' <= now' /\ escAt' <= now' /\ runtime'.turnAt <= now'
      BY <1>1, <1>2, <1>3, <1>4 DEF Stamped
    <3>2. sweeping'.at = "judges" => sweeping'.status.updatedAt <= now'
      BY <2>1, <1>1, <1>2, <1>4 DEF Stamped
    <3> QED BY <3>1, <3>2, <1>1, <1>2, Zenon DEF Stamped
  <2>3. now > quietSince + SweepPeriod => now' > quietSince' + SweepPeriod
    BY <1>2, <1>3, <1>4
  <2>4. ReadIsCurrent'
    BY <2>3, <1>1, <1>2, Zenon DEF ReadIsCurrent
  <2> QED BY <2>2, <2>4, <1>1, <1>2, Zenon DEF ClaudeIsWhole, StopFollows, StatusOf, Asking
<1>7. ASSUME disturbed' = FALSE PROVE PromptEnds' /\ PromptsAreTold' /\ IsShown' /\ TurnIsTold' /\ SweepHasSeen'
  <2>0. PromptEnds /\ PromptsAreTold /\ IsShown /\ TurnIsTold /\ SweepHasSeen
    BY <1>2, <1>7 DEF HooksInv
  <2>1. PromptEnds' /\ PromptsAreTold'
    BY <2>0, <1>2, PromptsRest
  <2>2. (escAt < now => escAt' < now') /\ (RestIsSeen => RestIsSeen')
    BY <1>2, <1>3 DEF RestIsSeen
  <2>3. TurnIsTold'
    BY <2>0, <2>2, <1>2, Zenon DEF TurnIsTold, TurnIsComing, TurnIsNoted, Told
  <2>4. SweepHasSeen' /\ IsShown'
    BY <2>0, <1>2, Zenon DEF SweepHasSeen, Asking, Told, IsShown, Shows, AgentIsActive
  <2> QED BY <2>1, <2>3, <2>4
<1> QED BY <1>5, <1>6, <1>7 DEF HooksInv

(* What a sweep closes: a turn over the grace ago, a prompt that is over.                  *)
Ends(s) == found /\ now > s.updatedAt + Grace /\ TurnIsStale(runtime, s)
ReadAs(s) == IF found /\ now > s.updatedAt + Grace THEN runtime ELSE sweeping.read
IsOver(s) == PromptIsOver(ReadAs(s), s)
Judged(s) ==
  LET closed == IF Ends(s) THEN TurnClosed(runtime, runtime) ELSE runtime
  IN  IF IsOver(s) THEN [closed EXCEPT !.waiting = <<>>] ELSE closed
Sees(s) == IF found THEN s.status = "waiting" ELSE ReadAs(s).waiting = <<>> /\ ReadAs(s).open /\ Asking(threads)

LEMMA JudgesIs ==
  ASSUME JudgesPane, sweeping \in Judges
  PROVE  /\ runtime' = Judged(sweeping.status) /\ agentWaiting' = Sees(sweeping.status)
         /\ saves' = saves \o (IF runtime' # runtime THEN <<runtime'>> ELSE <<>>)
                           \o (IF agentWaiting' # agentWaiting THEN <<runtime'>> ELSE <<>>)
         /\ sweeping' = NoSweep /\ calm' = (calm \/ sweeping.quiet)
         /\ now' = now /\ found' = found /\ threads' = threads /\ statusFile' = statusFile /\ turnEnded' = turnEnded /\ escAt' = escAt
         /\ hooks' = hooks /\ acts' = acts /\ announced' = announced /\ quietSince' = quietSince /\ disturbed' = disturbed
<1>1. /\ sweeping' = NoSweep /\ calm' = (calm \/ sweeping.quiet)
      /\ now' = now /\ found' = found /\ threads' = threads /\ statusFile' = statusFile /\ turnEnded' = turnEnded /\ escAt' = escAt
      /\ hooks' = hooks /\ acts' = acts /\ announced' = announced /\ quietSince' = quietSince /\ disturbed' = disturbed
  BY DEF JudgesPane, claudeVars
<1>2. runtime' = Judged(sweeping.status) /\ agentWaiting' = Sees(sweeping.status)
  <2> DEFINE s == sweeping.status
  <2>1. CASE found /\ now > s.updatedAt + Grace
    BY <2>1, Zenon DEF JudgesPane, Judged, Sees, Ends, ReadAs, IsOver
  <2>2. CASE ~(found /\ now > s.updatedAt + Grace)
    BY <2>2, Zenon DEF JudgesPane, Judged, Sees, Ends, ReadAs, IsOver
  <2> QED BY <2>1, <2>2
<1>3. saves' = saves \o (IF runtime' # runtime THEN <<runtime'>> ELSE <<>>)
                     \o (IF agentWaiting' # agentWaiting THEN <<runtime'>> ELSE <<>>)
  BY Zenon DEF JudgesPane
<1> QED BY <1>1, <1>2, <1>3

LEMMA JudgedIs ==
  ASSUME HooksTypeOK, NEW s \in StatusFiles, NEW m, m = Judged(s)
  PROVE  /\ m \in Metas /\ m.turnAt = runtime.turnAt
         /\ Ends(s) => /\ m.active = FALSE /\ m.open = FALSE
                       /\ m.interrupted = TRUE <=> runtime.interrupted = TRUE \/ (runtime.open = TRUE /\ escAt < runtime.turnAt)
         /\ ~Ends(s) => m.active = runtime.active /\ m.open = runtime.open /\ m.interrupted = runtime.interrupted
         /\ m.waiting = IF IsOver(s) THEN <<>> ELSE runtime.waiting
<1> DEFINE closed == IF Ends(s) THEN TurnClosed(runtime, runtime) ELSE runtime
<1>1. runtime \in Metas /\ runtime.interrupted \in Truths /\ runtime.open \in Truths
  BY MetasAre DEF HooksTypeOK
<1>2. (runtime.interrupted \/ (runtime.open /\ escAt < runtime.turnAt)) \in Truths
  <2>1. (runtime.interrupted \/ (runtime.open /\ escAt < runtime.turnAt)) \in BOOLEAN
    OBVIOUS
  <2>2. \A b \in BOOLEAN : b \in Truths
    BY Zenon DEF Truths
  <2> QED BY <2>1, <2>2
<1>3. TurnClosed(runtime, runtime) = [runtime EXCEPT !.active = FALSE, !.open = FALSE, !.interrupted = (runtime.interrupted \/ (runtime.open /\ escAt < runtime.turnAt))]
  BY DEF TurnClosed
<1>4. /\ TurnClosed(runtime, runtime) \in Metas /\ TurnClosed(runtime, runtime).turnAt = runtime.turnAt
      /\ TurnClosed(runtime, runtime).active = FALSE /\ TurnClosed(runtime, runtime).open = FALSE
      /\ TurnClosed(runtime, runtime).waiting = runtime.waiting
      /\ TurnClosed(runtime, runtime).interrupted = (runtime.interrupted \/ (runtime.open /\ escAt < runtime.turnAt))
  <2> DEFINE b == runtime.interrupted \/ (runtime.open /\ escAt < runtime.turnAt)
  <2>1. b \in Truths
    BY <1>2
  <2>2. TurnClosed(runtime, runtime) = [runtime EXCEPT !.active = FALSE, !.open = FALSE, !.interrupted = b]
    BY <1>3
  <2> HIDE DEF b
  <2>3. /\ TurnClosed(runtime, runtime) \in Metas /\ TurnClosed(runtime, runtime).turnAt = runtime.turnAt
        /\ TurnClosed(runtime, runtime).active = FALSE /\ TurnClosed(runtime, runtime).open = FALSE
        /\ TurnClosed(runtime, runtime).waiting = runtime.waiting
        /\ TurnClosed(runtime, runtime).interrupted = b
    BY <1>1, <2>1, <2>2 DEF Metas, Truths
  <2> QED BY <2>3 DEF b
<1>5. TurnClosed(runtime, runtime).interrupted = TRUE <=> runtime.interrupted = TRUE \/ (runtime.open = TRUE /\ escAt < runtime.turnAt)
  BY <1>1, <1>4, Zenon DEF Truths
<1>6. /\ closed \in Metas /\ closed.turnAt = runtime.turnAt /\ closed.waiting = runtime.waiting
      /\ Ends(s) => closed = TurnClosed(runtime, runtime)
      /\ ~Ends(s) => closed = runtime
  BY <1>1, <1>4
<1>7. m = IF IsOver(s) THEN [closed EXCEPT !.waiting = <<>>] ELSE closed
  BY DEF Judged
<1> HIDE DEF closed
<1>8. /\ m \in Metas /\ m.turnAt = closed.turnAt /\ m.active = closed.active /\ m.open = closed.open /\ m.interrupted = closed.interrupted
      /\ m.waiting = IF IsOver(s) THEN <<>> ELSE closed.waiting
  BY <1>6, <1>7, MetasAre
<1>9. Ends(s) => /\ m.active = FALSE /\ m.open = FALSE
                 /\ m.interrupted = TRUE <=> runtime.interrupted = TRUE \/ (runtime.open = TRUE /\ escAt < runtime.turnAt)
  BY <1>4, <1>5, <1>6, <1>8
<1> QED BY <1>6, <1>8, <1>9

LEMMA SavesAre ==
  ASSUME saves \in Seq(Metas), NEW m \in Metas, NEW a, NEW b, a \in {<<>>, <<m>>}, b \in {<<>>, <<m>>}
  PROVE  /\ saves \o a \o b \in Seq(Metas)
         /\ saves \o a \o b = <<>> => saves = <<>> /\ a = <<>> /\ b = <<>>
         /\ a = <<>> /\ b = <<>> => saves \o a \o b = saves
         /\ a # <<>> \/ b # <<>> => saves \o a \o b # <<>> /\ (saves \o a \o b)[Len(saves \o a \o b)] = m
<1>1. CASE a = <<>> /\ b = <<>>
  BY <1>1
<1>2. CASE a = <<m>> /\ b = <<>>
  BY <1>2
<1>3. CASE a = <<>> /\ b = <<m>>
  BY <1>3
<1>4. CASE a = <<m>> /\ b = <<m>>
  BY <1>4
<1> QED BY <1>1, <1>2, <1>3, <1>4

(* What the sweep's verdict leaves of a turn.                                      *)
LEMMA JudgedTurn ==
  ASSUME HooksTypeOK, TurnIsTold, NEW m, sweeping \in Judges, m = Judged(sweeping.status), runtime' = m, sweeping' = NoSweep,
         hooks' = hooks, turnEnded' = turnEnded, escAt' = escAt, now' = now, statusFile' = statusFile
  PROVE  TurnIsTold'
<1> DEFINE s == sweeping.status
<1>1. s \in StatusFiles /\ sweeping.at = "judges" /\ sweeping'.at = "none"
  BY DEF Judges, NoSweep
<1>2. /\ m \in Metas /\ m.turnAt = runtime.turnAt
      /\ Ends(s) => /\ m.active = FALSE /\ m.open = FALSE
                    /\ m.interrupted = TRUE <=> runtime.interrupted = TRUE \/ (runtime.open = TRUE /\ escAt < runtime.turnAt)
      /\ ~Ends(s) => m.active = runtime.active /\ m.open = runtime.open /\ m.interrupted = runtime.interrupted
  BY <1>1, JudgedIs
<1>3. m.interrupted \in Truths /\ m.open \in Truths /\ runtime.open \in Truths /\ runtime.turnAt \in Nat /\ escAt \in Nat
  BY <1>2, MetasAre DEF HooksTypeOK
<1>4. CASE TurnIsComing
  BY <1>4, Zenon DEF TurnIsComing, TurnIsTold
<1>5. CASE TurnIsNoted
  <2>1. Told' /\ (RestIsSeen => RestIsSeen')
    BY <1>2, <1>5, Zenon DEF Told, RestIsSeen, TurnIsNoted
  <2>2. ASSUME turnEnded = "runs" PROVE ~Ends(s)
    <3>1. s.status = "idle" => s.updatedAt <= runtime.turnAt
      BY <1>1, <1>5, <2>2 DEF TurnIsNoted
    <3>2. s.updatedAt \in Nat
      BY <1>1 DEF StatusFiles
    <3> QED BY <3>1, <3>2, <1>3 DEF Ends, TurnIsStale, Margin
  <2>3. ~(runtime.turnAt <= escAt /\ escAt < runtime.turnAt)
    BY <1>3
  <2>4. turnEnded' = "runs" =>
       /\ runtime'.open = TRUE /\ runtime'.active = TRUE /\ runtime'.interrupted = FALSE /\ escAt' < runtime'.turnAt
       /\ sweeping'.at = "judges" /\ sweeping'.status.status = "idle" => sweeping'.status.updatedAt <= runtime'.turnAt
    BY <2>2, <1>1, <1>2, <1>5 DEF TurnIsNoted
  <2>5. turnEnded' = "answered" => runtime'.open = FALSE /\ runtime'.interrupted = FALSE
    BY <1>2, <1>3, <1>5, Zenon DEF TurnIsNoted, Truths
  <2>6. turnEnded' = "failed" => runtime'.open = FALSE /\ runtime'.interrupted = TRUE
    BY <1>2, <1>3, <1>5, Zenon DEF TurnIsNoted, Truths
  <2>7. turnEnded' = "cut" /\ runtime'.open = TRUE => escAt' < runtime'.turnAt /\ RestIsSeen'
    BY <2>1, <1>2, <1>3, <1>5, Zenon DEF TurnIsNoted, Truths
  <2>8. turnEnded' = "cut" /\ runtime'.open = FALSE => runtime'.interrupted = TRUE
    BY <1>2, <1>3, <1>5, Zenon DEF TurnIsNoted, Truths
  <2>9. turnEnded' = "cancelled" => runtime'.interrupted = FALSE /\ (runtime'.open = TRUE => runtime'.turnAt <= escAt' /\ RestIsSeen')
    BY <2>1, <2>3, <1>2, <1>3, <1>5, Zenon DEF TurnIsNoted, Truths
  <2>10. TurnIsNoted'
    BY <2>1, <2>4, <2>5, <2>6, <2>7, <2>8, <2>9, Zenon DEF TurnIsNoted
  <2> QED BY <2>10 DEF TurnIsTold
<1> QED BY <1>4, <1>5 DEF TurnIsTold

(* What a sweep concludes that nothing has disturbed.                                *)
LEMMA JudgedSeen ==
  ASSUME HooksTypeOK, Stamped, ReadIsCurrent, ClaudeIsWhole, PromptEnds, TurnIsTold, sweeping \in Judges,
         calm = TRUE \/ sweeping.quiet = TRUE, NEW m, m = Judged(sweeping.status)
  PROVE  /\ found = TRUE => (Sees(sweeping.status) = TRUE <=> Asking(threads))
         /\ ~Asking(threads) => ~Sees(sweeping.status) /\ m.waiting = <<>>
         /\ found = TRUE /\ threads.main = "rest" /\ ~Asking(threads) /\ Told => m.open = FALSE
<1> DEFINE s == sweeping.status
<1>1. s \in StatusFiles /\ sweeping.at = "judges" /\ sweeping # NoSweep
  BY SweepsAre DEF Judges, HooksTypeOK
<1>2. now > quietSince + SweepPeriod /\ sweeping.read = runtime /\ s = statusFile
  BY <1>1 DEF ReadIsCurrent
<1>3. /\ m.waiting = IF IsOver(s) THEN <<>> ELSE runtime.waiting
      /\ Ends(s) => m.open = FALSE
      /\ ~Ends(s) => m.open = runtime.open
  BY <1>1, JudgedIs
<1>4. ReadAs(s) = runtime
  BY <1>2 DEF ReadAs
<1>5. /\ now \in Nat /\ quietSince \in Nat /\ s.updatedAt \in Nat /\ s.updatedAt <= quietSince /\ found \in Truths
      /\ runtime.turnAt \in Nat /\ runtime.open \in Truths /\ s.status = StatusOf(threads)
      /\ runtime.waiting # <<>> => runtime.waiting[1].at \in Nat /\ runtime.waiting[1].at <= quietSince
  BY <1>2 DEF HooksTypeOK, Stamped, StatusFiles, Metas, ClaudeIsWhole
<1>6. s.status = "waiting" <=> Asking(threads)
  BY <1>5 DEF StatusOf
<1>7. ASSUME found = TRUE PROVE Sees(s) = TRUE <=> Asking(threads)
  BY <1>6, <1>7, Zenon DEF Sees
<1>8. ASSUME ~Asking(threads) PROVE ~Sees(s) /\ m.waiting = <<>>
  <2>1. ~Sees(s)
    BY <1>6, <1>8, Zenon DEF Sees
  <2>2. ASSUME runtime.waiting # <<>> PROVE IsOver(s)
    <3>1. s.status # "waiting" /\ s.updatedAt > runtime.waiting[1].at + Margin
      BY <2>2, <1>6, <1>8, <1>2 DEF PromptEnds
    <3>2. now > runtime.waiting[1].at + SweepPeriod
      BY <2>2, <1>2, <1>5 DEF SweepPeriod
    <3> QED BY <3>1, <3>2, <2>2, <1>4, <1>8, Zenon DEF IsOver, PromptIsOver
  <2> QED BY <2>1, <2>2, <1>3
<1>9. ASSUME found = TRUE, threads.main = "rest", ~Asking(threads), Told PROVE m.open = FALSE
  <2>1. TurnIsNoted
    BY <1>9, Zenon DEF TurnIsTold, TurnIsComing, Told, TurnHooks
  <2>2. turnEnded # "runs" /\ turnEnded \in {"runs", "answered", "failed", "cut", "cancelled"} /\ s.status = "idle"
    BY <1>5, <1>9 DEF ClaudeIsWhole, StatusOf, HooksTypeOK
  <2>3. ASSUME runtime.open = TRUE PROVE Ends(s)
    <3>1. RestIsSeen
      BY <2>1, <2>2, <2>3 DEF TurnIsNoted
    <3>2. s.updatedAt > runtime.turnAt + Margin
      BY <3>1, <2>2, <1>2 DEF RestIsSeen
    <3>3. now > s.updatedAt + Grace
      BY <1>2, <1>5 DEF SweepPeriod, Grace
    <3> QED BY <3>2, <3>3, <2>2, <2>3, <1>9, Zenon DEF Ends, TurnIsStale
  <2> QED BY <2>3, <1>3, <1>5, Zenon DEF Truths
<1> QED BY <1>7, <1>8, <1>9

LEMMA JudgesPaneKeeps == ASSUME HooksInv, JudgesPane PROVE HooksInv'
<1> DEFINE s == sweeping.status
           m == Judged(s)
<1>1. HooksTypeOK /\ Stamped /\ ReadIsCurrent /\ ClaudeIsWhole /\ StopFollows
  BY DEF HooksInv
<1>2. sweeping \in Judges /\ sweeping # NoSweep /\ s \in StatusFiles /\ sweeping.quiet \in Truths
  <2>1. sweeping.at = "judges"
    BY DEF JudgesPane
  <2>2. sweeping \in Judges /\ sweeping # NoSweep
    BY <2>1, <1>1, SweepsAre DEF HooksTypeOK
  <2> QED BY <2>2 DEF Judges
<1>3. /\ runtime' = m /\ agentWaiting' = Sees(s)
      /\ saves' = saves \o (IF runtime' # runtime THEN <<runtime'>> ELSE <<>>)
                        \o (IF agentWaiting' # agentWaiting THEN <<runtime'>> ELSE <<>>)
      /\ sweeping' = NoSweep /\ calm' = (calm \/ sweeping.quiet)
      /\ now' = now /\ found' = found /\ threads' = threads /\ statusFile' = statusFile /\ turnEnded' = turnEnded /\ escAt' = escAt
      /\ hooks' = hooks /\ acts' = acts /\ announced' = announced /\ quietSince' = quietSince /\ disturbed' = disturbed
  BY <1>2, JudgesIs
<1>4. /\ m \in Metas /\ m.turnAt = runtime.turnAt
      /\ Ends(s) => m.open = FALSE
      /\ ~Ends(s) => m.open = runtime.open
      /\ m.waiting = IF IsOver(s) THEN <<>> ELSE runtime.waiting
  BY <1>1, <1>2, JudgedIs
<1> HIDE DEF m, s
<1>5. calm \in Truths /\ agentWaiting \in Truths /\ saves \in Seq(Metas)
  BY <1>1 DEF HooksTypeOK
<1>6. agentWaiting' \in Truths
  <2>1. Sees(s) \in BOOLEAN
    <3>1. found \in Truths /\ ReadAs(s) \in Metas
      BY <1>1, <1>2 DEF HooksTypeOK, ReadAs, Judges
    <3>2. ReadAs(s).open \in BOOLEAN
      BY <3>1, MetasAre, Zenon DEF Truths
    <3> QED BY <3>2, Zenon DEF Sees, Asking
  <2>2. \A b \in BOOLEAN : b \in Truths
    BY Zenon DEF Truths
  <2> QED BY <2>1, <2>2, <1>3
<1>7. calm' \in Truths /\ (calm' = TRUE => calm = TRUE \/ sweeping.quiet = TRUE)
  BY <1>2, <1>3, <1>5, Zenon DEF Truths
<1>8. /\ saves' \in Seq(Metas)
      /\ saves' = <<>> => saves = <<>> /\ runtime' = runtime /\ agentWaiting' = agentWaiting
      /\ runtime' = runtime /\ agentWaiting' = agentWaiting => saves' = saves
      /\ runtime' # runtime \/ agentWaiting' # agentWaiting => saves' # <<>> /\ saves'[Len(saves')] = runtime'
  <2> DEFINE a == IF runtime' # runtime THEN <<runtime'>> ELSE <<>>
             b == IF agentWaiting' # agentWaiting THEN <<runtime'>> ELSE <<>>
  <2>1. runtime' \in Metas
    BY <1>3, <1>4
  <2>2. a \in {<<>>, <<runtime'>>} /\ b \in {<<>>, <<runtime'>>} /\ saves' = saves \o a \o b
    BY <1>3, Zenon
  <2>3. <<runtime'>> # <<>>
    OBVIOUS
  <2>4. (a = <<>> <=> runtime' = runtime) /\ (b = <<>> <=> agentWaiting' = agentWaiting)
    BY <2>3, Zenon
  <2> HIDE DEF a, b
  <2>5. /\ saves \o a \o b \in Seq(Metas)
        /\ saves \o a \o b = <<>> => saves = <<>> /\ a = <<>> /\ b = <<>>
        /\ a = <<>> /\ b = <<>> => saves \o a \o b = saves
        /\ a # <<>> \/ b # <<>> => saves \o a \o b # <<>> /\ (saves \o a \o b)[Len(saves \o a \o b)] = runtime'
    BY <2>1, <2>2, <1>5, SavesAre
  <2> QED BY <2>2, <2>4, <2>5, Zenon
<1>9. HooksTypeOK'
  <2>1. /\ now' \in Nat /\ found' \in Truths /\ threads' \in [main : Doings, sub : Doings] /\ statusFile' \in StatusFiles
        /\ turnEnded' \in {"runs", "answered", "failed", "cut", "cancelled"} /\ escAt' \in Nat /\ acts' \in Nat
        /\ hooks' \in Seq(AllHooks)
        /\ announced' \in [active : Truths, waiting : Truths, interrupted : Truths]
        /\ sweeping' \in {NoSweep} \cup Looks \cup Judges /\ quietSince' \in Nat /\ disturbed' \in Truths
    BY <1>1, <1>3, Zenon DEF HooksTypeOK
  <2> QED BY <2>1, <1>3, <1>4, <1>6, <1>7, <1>8 DEF HooksTypeOK
<1>10. runtime'.waiting \in {<<>>, runtime.waiting}
  BY <1>3, <1>4
<1>11. Stamped'
  <2>1. sweeping'.at = "none"
    BY <1>3 DEF NoSweep
  <2> QED BY <2>1, <1>1, <1>3, <1>4, <1>10, Zenon DEF Stamped
<1>12. ReadIsCurrent'
  BY <1>1, <1>2, <1>3, <1>7, Zenon DEF ReadIsCurrent
<1>13. StopFollows'
  <2>1. runtime.open = FALSE => runtime'.open = FALSE
    BY <1>3, <1>4
  <2> QED BY <2>1, <1>1, <1>3, Zenon DEF StopFollows
<1>14. ClaudeIsWhole'
  BY <1>1, <1>3, Zenon DEF ClaudeIsWhole, StatusOf, Asking
<1>15. ASSUME disturbed' = FALSE PROVE PromptEnds' /\ PromptsAreTold' /\ IsShown' /\ TurnIsTold' /\ SweepHasSeen'
  <2>0. PromptEnds /\ PromptsAreTold /\ IsShown /\ TurnIsTold /\ SweepHasSeen
    BY <1>3, <1>15 DEF HooksInv
  <2>1. PromptEnds'
    BY <2>0, <1>3, <1>10, Zenon DEF PromptEnds, NoPrompt, Asking
  <2>2. PromptsAreTold'
    <3> SUFFICES ASSUME found = FALSE, NEW t \in Threads, threads[t] = "asks" PROVE PromptIsComing(t)' \/ PromptIsUp(t)'
      BY <1>3 DEF PromptsAreTold
    <3>1. Asking(threads)
      BY DEF Asking, Threads
    <3>2. runtime'.waiting = runtime.waiting
      BY <3>1, <1>3, <1>4, Zenon DEF IsOver, PromptIsOver
    <3>3. PromptIsComing(t) \/ PromptIsUp(t)
      BY <2>0 DEF PromptsAreTold
    <3> QED BY <3>2, <3>3, <1>3, Zenon DEF PromptIsComing, PromptIsUp, EndsFor, ByHook
  <2>3. TurnIsTold'
    <3>1. sweeping \in Judges /\ m = Judged(sweeping.status) /\ runtime' = m
      BY <1>2, <1>3 DEF m, s
    <3> QED BY <3>1, <2>0, <1>1, <1>3, JudgedTurn
  <2>4. SweepHasSeen'
    <3> SUFFICES ASSUME calm' = TRUE
                 PROVE  /\ found = TRUE => (agentWaiting' = TRUE <=> Asking(threads))
                        /\ ~Asking(threads) => agentWaiting' = FALSE /\ runtime'.waiting = <<>>
                        /\ found = TRUE /\ threads.main = "rest" /\ ~Asking(threads) /\ Told => runtime'.open = FALSE
      BY <1>3, Zenon DEF SweepHasSeen, Asking, Told
    <3>1. calm = TRUE \/ sweeping.quiet = TRUE
      BY <1>7
    <3>2. sweeping \in Judges /\ m = Judged(sweeping.status) /\ s = sweeping.status
      BY <1>2 DEF m, s
    <3>3. /\ found = TRUE => (Sees(s) = TRUE <=> Asking(threads))
          /\ ~Asking(threads) => ~Sees(s) /\ m.waiting = <<>>
          /\ found = TRUE /\ threads.main = "rest" /\ ~Asking(threads) /\ Told => m.open = FALSE
      BY <3>1, <3>2, <2>0, <1>1, JudgedSeen
    <3> QED BY <3>3, <1>3, <1>6, Zenon DEF Truths
  <2>5. IsShown'
    <3>1. saves' = <<>> => Shows(runtime, agentWaiting)'
      BY <2>0, <1>3, <1>8, Zenon DEF IsShown, Shows, AgentIsActive
    <3>2. saves' # <<>> => saves'[Len(saves')] = runtime'
      BY <2>0, <1>8, Zenon DEF IsShown
    <3> QED BY <3>1, <3>2 DEF IsShown
  <2> QED BY <2>1, <2>2, <2>3, <2>4, <2>5
<1> QED BY <1>9, <1>11, <1>12, <1>13, <1>14, <1>15 DEF HooksInv

LEMMA HooksKeeps == ASSUME HooksInv, [HooksNext]_hookVars PROVE HooksInv'
<1>1. CASE Claude
  <2>1. CASE \E t \in {"main", "sub"} : UsesTool(t) \/ AsksLeave(t) \/ Approves(t)
    BY <2>1, UsesToolKeeps, AsksLeaveKeeps, ApprovesKeeps DEF Threads
  <2> QED BY <1>1, <2>1, SubmitsKeeps, CompactsKeeps, DelegatesKeeps, SubEndsKeeps, NotifiesKeeps, ConcludesKeeps, IsCutKeeps, SubDeniedKeeps, Zenon DEF Claude
<1>2. CASE \E i \in DOMAIN saves : Announces(i)
  BY <1>2, AnnouncesKeeps
<1>3. CASE UNCHANGED hookVars
  <2>1. /\ now' = now /\ found' = found /\ threads' = threads /\ statusFile' = statusFile /\ turnEnded' = turnEnded /\ escAt' = escAt
        /\ hooks' = hooks /\ acts' = acts /\ runtime' = runtime /\ agentWaiting' = agentWaiting /\ saves' = saves /\ announced' = announced
        /\ sweeping' = sweeping /\ quietSince' = quietSince /\ calm' = calm /\ disturbed' = disturbed
    BY <1>3 DEF hookVars, claudeVars, paneVars
  <2>2. HooksTypeOK /\ Stamped /\ ReadIsCurrent /\ ClaudeIsWhole /\ StopFollows
    BY DEF HooksInv
  <2>3. HooksTypeOK' /\ Stamped' /\ ReadIsCurrent' /\ ClaudeIsWhole' /\ StopFollows'
    BY <2>1, <2>2, Zenon DEF HooksTypeOK, Stamped, ReadIsCurrent, ClaudeIsWhole, StopFollows, StatusOf, Asking
  <2>4. ASSUME disturbed' = FALSE PROVE PromptEnds' /\ PromptsAreTold' /\ IsShown' /\ TurnIsTold' /\ SweepHasSeen'
    <3>0. PromptEnds /\ PromptsAreTold /\ IsShown /\ TurnIsTold /\ SweepHasSeen
      BY <2>1, <2>4 DEF HooksInv
    <3>1. PromptEnds' /\ PromptsAreTold'
      BY <3>0, <2>1, PromptsRest
    <3>2. TurnIsTold'
      BY <3>0, <2>1, Zenon DEF TurnIsTold, TurnIsComing, TurnIsNoted, Told, RestIsSeen
    <3>3. SweepHasSeen' /\ IsShown'
      BY <3>0, <2>1, Zenon DEF SweepHasSeen, Asking, Told, IsShown, Shows, AgentIsActive
    <3> QED BY <3>1, <3>2, <3>3
  <2> QED BY <2>3, <2>4 DEF HooksInv
<1> QED BY <1>1, <1>2, <1>3, HandlesKeeps, ReadsMetaKeeps, ReadsStatusKeeps, JudgesPaneKeeps, LaterKeeps, Zenon DEF HooksNext

(* What people are shown of an agent, once all is handled, written and swept, is what it does: for every number of        *)
(* acts, hooks and seconds (StateIsShown; agent-hooks.ts, server.ts:658-722 and 1834-1910).             *)
THEOREM AgentStateIsShown == HooksSpec => []StateIsShown
<1>1. HooksInit => HooksInv
  BY HooksStart
<1>2. HooksInv /\ [HooksNext]_hookVars => HooksInv'
  BY HooksKeeps
<1>3. HooksInv => StateIsShown
  BY HooksShown
<1> QED BY <1>1, <1>2, <1>3, PTL DEF HooksSpec
=============================================================================
