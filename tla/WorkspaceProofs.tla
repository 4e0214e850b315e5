---------------------------- MODULE WorkspaceProofs ----------------------------
(***************************************************************************)
(* What is proved about the workspaces, for any number of sessions, members, pages,   *)
(* panels and requests: lemmas about sequences and about the operations on the store   *)
(* (what each keeps, adds and takes away, and that it announces what it changed);      *)
(* from them the reach of panels and their limit (EmbedPanels), that no session is      *)
(* forgotten (WorkspacePages), and that what is saved is whole (SavedStore).         *)
(***************************************************************************)
EXTENDS EmbedPanels, WorkspacePages, SavedStore, TLAPS, FiniteSetTheorems, NaturalsInduction, WellFoundedInduction

(* What holds of 0 and passes from one number to the next holds up to n.          *)
LEMMA CountingUp ==
  ASSUME NEW n \in Nat, NEW S, 0 \in S, \A i \in 0 .. n : i + 1 \in 0 .. n /\ i \in S => i + 1 \in S
  PROVE  \A i \in 0 .. n : i \in S
<1> DEFINE Less == {ss \in Nat \X Nat : ss[1] < ss[2]}
           T == {i \in 0 .. n : i \notin S}
<1>1. IsWellFoundedOn(Less, Nat)
  BY NatLessThanWellFounded, Zenon DEF OpToRel
<1>2. SUFFICES ASSUME T # {} PROVE FALSE
  OBVIOUS
<1>3. PICK x \in T : \A y \in T : ~(<<y, x>> \in Less)
  <2>1. T \subseteq Nat
    OBVIOUS
  <2> HIDE DEF Less, T
  <2>2. QED
    BY <1>1, <1>2, <2>1, WFMin, Zenon
<1>4. x \in 0 .. n /\ x \notin S /\ x # 0
  BY <1>3
<1>5. x - 1 \in 0 .. n /\ x - 1 + 1 = x /\ x - 1 < x /\ x - 1 \in Nat /\ x \in Nat
  BY <1>4
<1>6. x - 1 \in S
  BY <1>3, <1>5
<1>7. QED
  BY <1>4, <1>5, <1>6

-----------------------------------------------------------------------------
(* Sequences, of whatever there is in them.                                   *)
Listed(s) == Len(s) \in Nat /\ s = [i \in 1 .. Len(s) |-> s[i]]

LEMMA ListedSeq ==
  ASSUME NEW s, Listed(s), NEW T, \A i \in 1 .. Len(s) : s[i] \in T
  PROVE  s \in Seq(T)
<1> DEFINE f == [i \in 1 .. Len(s) |-> s[i]]
<1>1. Len(s) \in Nat /\ s = f
  BY DEF Listed
<1>2. f \in [1 .. Len(s) -> T]
  OBVIOUS
<1> HIDE DEF f
<1>3. QED
  BY <1>1, <1>2

LEMMA SeqListed ==
  ASSUME NEW T, NEW s \in Seq(T)
  PROVE  Listed(s) /\ DOMAIN s = 1 .. Len(s)
BY DEF Listed

LEMMA ListedIs ==
  ASSUME NEW s, Listed(s)
  PROVE  /\ DOMAIN s = 1 .. Len(s) /\ Len(s) \in Nat /\ s \in Seq(ToSet(s))
         /\ ToSet(s) = {s[i] : i \in 1 .. Len(s)}
<1>1. DOMAIN s = 1 .. Len(s)
  BY DEF Listed
<1>2. \A i \in 1 .. Len(s) : s[i] \in ToSet(s)
  BY <1>1 DEF ToSet
<1>3. QED
  BY <1>1, <1>2, ListedSeq DEF ToSet, Listed

LEMMA EmptyListed == Listed(<<>>) /\ ToSet(<<>>) = {} /\ Len(<<>>) = 0
<1>1. <<>> \in Seq({})
  OBVIOUS
<1>2. Listed(<<>>)
  BY <1>1, SeqListed
<1>3. QED
  BY <1>2, ListedIs

LEMMA AppendListed ==
  ASSUME NEW s, Listed(s), NEW x
  PROVE  /\ Listed(Append(s, x)) /\ Len(Append(s, x)) = Len(s) + 1
         /\ \A i \in 1 .. Len(s) : Append(s, x)[i] = s[i]
         /\ Append(s, x)[Len(s) + 1] = x
         /\ ToSet(Append(s, x)) = ToSet(s) \cup {x}
<1> DEFINE T == ToSet(s) \cup {x}
           a == Append(s, x)
<1>1. s \in Seq(T) /\ Len(s) \in Nat /\ DOMAIN s = 1 .. Len(s)
  <2>1. s \in Seq(ToSet(s)) /\ Len(s) \in Nat /\ DOMAIN s = 1 .. Len(s)
    BY ListedIs
  <2>2. QED
    BY <2>1
<1>2. /\ a \in Seq(T) /\ Len(a) = Len(s) + 1 /\ \A i \in 1 .. Len(s) : a[i] = s[i]
      /\ a[Len(s) + 1] = x
  <2> HIDE DEF T
  <2>1. x \in T
    BY DEF T
  <2>2. QED
    BY <1>1, <2>1
<1>3. Listed(a) /\ DOMAIN a = 1 .. Len(a)
  BY <1>2, SeqListed
<1> HIDE DEF a
<1>4. ToSet(a) = ToSet(s) \cup {x}
  <2>1. ASSUME NEW y \in ToSet(a) PROVE y \in ToSet(s) \cup {x}
    BY <1>2, <1>3, <2>1 DEF T, ToSet
  <2>2. ASSUME NEW y \in ToSet(s) PROVE y \in ToSet(a)
    <3>1. PICK i \in 1 .. Len(s) : y = s[i]
      BY <1>1, <2>2 DEF ToSet
    <3>2. i \in DOMAIN a /\ a[i] = y
      BY <1>1, <1>2, <1>3, <3>1
    <3>3. QED
      BY <3>2 DEF ToSet
  <2>3. x \in ToSet(a)
    <3>1. Len(s) + 1 \in DOMAIN a
      BY <1>1, <1>2, <1>3
    <3>2. QED
      BY <1>2, <3>1 DEF ToSet
  <2>4. QED
    BY <2>1, <2>2, <2>3
<1>5. QED
  BY <1>2, <1>3, <1>4 DEF a

LEMMA ConcatListed ==
  ASSUME NEW s, Listed(s), NEW t, Listed(t)
  PROVE  /\ Listed(s \o t) /\ Len(s \o t) = Len(s) + Len(t)
         /\ \A i \in 1 .. Len(s) : (s \o t)[i] = s[i]
         /\ \A i \in 1 .. Len(t) : (s \o t)[Len(s) + i] = t[i]
         /\ ToSet(s \o t) = ToSet(s) \cup ToSet(t)
<1> DEFINE T == ToSet(s) \cup ToSet(t)
           a == s \o t
<1>1. /\ s \in Seq(T) /\ Len(s) \in Nat /\ DOMAIN s = 1 .. Len(s)
      /\ t \in Seq(T) /\ Len(t) \in Nat /\ DOMAIN t = 1 .. Len(t)
  <2>1. /\ s \in Seq(ToSet(s)) /\ Len(s) \in Nat /\ DOMAIN s = 1 .. Len(s)
        /\ t \in Seq(ToSet(t)) /\ Len(t) \in Nat /\ DOMAIN t = 1 .. Len(t)
    BY ListedIs
  <2>2. QED
    BY <2>1
<1> HIDE DEF T
<1>2. /\ a \in Seq(T) /\ Len(a) = Len(s) + Len(t) /\ \A i \in 1 .. Len(s) : a[i] = s[i]
      /\ \A i \in 1 .. Len(t) : a[Len(s) + i] = t[i]
      /\ \A i \in 1 .. Len(a) : i > Len(s) => a[i] = t[i - Len(s)]
  BY <1>1
<1>3. Listed(a) /\ DOMAIN a = 1 .. Len(a)
  BY <1>2, SeqListed
<1> HIDE DEF a
<1>4. ToSet(a) = ToSet(s) \cup ToSet(t)
  <2>1. ASSUME NEW y \in ToSet(a) PROVE y \in ToSet(s) \cup ToSet(t)
    <3>1. PICK i \in 1 .. Len(a) : y = a[i]
      BY <1>3, <2>1 DEF ToSet
    <3>2. CASE i \in 1 .. Len(s)
      BY <1>1, <1>2, <3>1, <3>2 DEF ToSet
    <3>3. CASE i \notin 1 .. Len(s)
      <4>1. i > Len(s) /\ i - Len(s) \in 1 .. Len(t)
        BY <1>1, <1>2, <3>1, <3>3
      <4>2. QED
        BY <1>1, <1>2, <3>1, <4>1 DEF ToSet
    <3>4. QED
      BY <3>2, <3>3
  <2>2. ASSUME NEW y \in ToSet(s) PROVE y \in ToSet(a)
    <3>1. PICK i \in 1 .. Len(s) : y = s[i]
      BY <1>1, <2>2 DEF ToSet
    <3>2. i \in DOMAIN a /\ a[i] = y
      BY <1>1, <1>2, <1>3, <3>1
    <3>3. QED
      BY <3>2 DEF ToSet
  <2>3. ASSUME NEW y \in ToSet(t) PROVE y \in ToSet(a)
    <3>1. PICK i \in 1 .. Len(t) : y = t[i]
      BY <1>1, <2>3 DEF ToSet
    <3>2. Len(s) + i \in DOMAIN a /\ a[Len(s) + i] = y
      BY <1>1, <1>2, <1>3, <3>1
    <3>3. QED
      BY <3>2 DEF ToSet
  <2>4. QED
    BY <2>1, <2>2, <2>3
<1>5. QED
  BY <1>2, <1>3, <1>4 DEF a

LEMMA ContainsIs ==
  ASSUME NEW s, Listed(s), NEW x
  PROVE  Contains(s, x) <=> x \in ToSet(s)
BY ListedIs DEF Contains

-----------------------------------------------------------------------------
(* Kept.                                                                    *)
KeepsOn(kept, x, K) == IF x \in K THEN Append(kept, x) ELSE kept

(* There is such a function: of elements kept among the first i. *)
Keeps(h, s, K, n) ==
  h = [i \in 0 .. n |-> IF i = 0 THEN <<>> ELSE KeepsOn(h[i - 1], s[i], K)]

LEMMA KeepsExists ==
  ASSUME NEW s, NEW K, NEW n \in Nat
  PROVE  \E h : Keeps(h, s, K, n)
<1> DEFINE S == {k \in 0 .. n : \E h : Keeps(h, s, K, k)}
<1>1. 0 \in S
  <2>1. Keeps([i \in 0 .. 0 |-> <<>>], s, K, 0)
    BY DEF Keeps
  <2>2. QED
    BY <2>1
<1>2. ASSUME NEW k \in 0 .. n, k + 1 \in 0 .. n, k \in S
      PROVE  k + 1 \in S
  <2>1. PICK h : Keeps(h, s, K, k)
    BY <1>2
  <2> DEFINE g == [i \in 0 .. k + 1 |-> IF i = k + 1 THEN KeepsOn(h[k], s[k + 1], K) ELSE h[i]]
  <2>2. ASSUME NEW i \in 0 .. k + 1
        PROVE  g[i] = IF i = 0 THEN <<>> ELSE KeepsOn(g[i - 1], s[i], K)
    <3>1. CASE i = k + 1
      <4>1. g[i] = KeepsOn(h[k], s[k + 1], K) /\ g[i - 1] = h[k] /\ i # 0
        BY <3>1
      <4>2. k + 1 = i
        BY <3>1
      <4>3. QED
        BY <4>1, <4>2
    <3>2. CASE i # k + 1 /\ i # 0
      <4>1. g[i] = h[i] /\ g[i - 1] = h[i - 1] /\ i \in 0 .. k
        BY <3>2
      <4>2. h[i] = KeepsOn(h[i - 1], s[i], K)
        BY <2>1, <3>2, <4>1 DEF Keeps
      <4>3. QED
        BY <3>2, <4>1, <4>2
    <3>3. CASE i # k + 1 /\ i = 0
      <4>1. g[i] = h[i] /\ 0 \in 0 .. k
        BY <3>3
      <4>2. h[0] = <<>>
        BY <2>1, <4>1 DEF Keeps
      <4>3. QED
        BY <3>3, <4>1, <4>2
    <3>4. QED
      BY <3>1, <3>2, <3>3
  <2>3. g = [i \in 0 .. k + 1 |-> g[i]]
    OBVIOUS
  <2> HIDE DEF g
  <2>4. Keeps(g, s, K, k + 1)
    BY <2>2, <2>3 DEF Keeps
  <2>5. QED
    BY <1>2, <2>4
<1> HIDE DEF S
<1>3. n \in S
  BY <1>1, <1>2, CountingUp
<1>4. QED
  BY <1>3 DEF S

LEMMA KeptIs ==
  ASSUME NEW s, Listed(s), NEW K
  PROVE  Listed(Kept(s, K)) /\ ToSet(Kept(s, K)) = ToSet(s) \cap K
<1> DEFINE n == Len(s)
           F == CHOOSE h : Keeps(h, s, K, n)
           S == {i \in 0 .. n : Listed(F[i]) /\ ToSet(F[i]) = {s[j] : j \in 1 .. i} \cap K}
<1>1. n \in Nat
  BY DEF Listed
<1>2. Keeps(F, s, K, n)
  BY <1>1, KeepsExists
<1>3. Kept(s, K) = F[n]
  BY DEF Kept, Keeps, KeepsOn
<1> HIDE DEF F, n
<1>4. F[0] = <<>>
  BY <1>1, <1>2 DEF Keeps
<1>5. 0 \in S
  BY <1>1, <1>4, EmptyListed
<1>6. ASSUME NEW i \in 0 .. n, i + 1 \in 0 .. n, i \in S PROVE i + 1 \in S
  <2>1. F[i + 1] = KeepsOn(F[i], s[i + 1], K)
    <3>1. i + 1 # 0 /\ i + 1 - 1 = i
      BY <1>6
    <3>2. F[i + 1] = KeepsOn(F[i + 1 - 1], s[i + 1], K)
      BY <1>2, <1>6, <3>1 DEF Keeps
    <3>3. QED
      BY <3>1, <3>2
  <2>2. {s[j] : j \in 1 .. i + 1} = {s[j] : j \in 1 .. i} \cup {s[i + 1]}
    <3>1. \A j : j \in 1 .. i + 1 <=> j \in 1 .. i \/ j = i + 1
      BY <1>1, <1>6
    <3>2. QED
      BY <3>1, Zenon
  <2>3. Listed(F[i]) /\ ToSet(F[i]) = {s[j] : j \in 1 .. i} \cap K
    BY <1>6
  <2>4. CASE s[i + 1] \in K
    <3>1. Listed(F[i + 1]) /\ ToSet(F[i + 1]) = ToSet(F[i]) \cup {s[i + 1]}
      BY <2>1, <2>3, <2>4, AppendListed DEF KeepsOn
    <3>2. QED
      BY <1>6, <2>2, <2>3, <2>4, <3>1
  <2>5. CASE s[i + 1] \notin K
    BY <1>6, <2>1, <2>2, <2>3, <2>5 DEF KeepsOn
  <2>6. QED
    BY <2>4, <2>5
<1> HIDE DEF S
<1>7. n \in S
  BY <1>1, <1>5, <1>6, CountingUp
<1>8. ToSet(s) = {s[j] : j \in 1 .. n}
  BY ListedIs DEF n
<1>9. QED
  BY <1>3, <1>7, <1>8 DEF S
-----------------------------------------------------------------------------
(* Members and their names.                                                   *)
LEMMA SessionsAre ==
  ASSUME NEW members, Listed(members)
  PROVE  SessionsOf(members) = {m.session : m \in ToSet(members)}
BY ListedIs, ZenonT(60) DEF SessionsOf, ToSet

LEMMA MembersOfIs ==
  ASSUME NEW members, Listed(members), NEW S
  PROVE  /\ Listed(MembersOf(members, S))
         /\ ToSet(MembersOf(members, S)) = {m \in ToSet(members) : m.session \in S}
         /\ SessionsOf(MembersOf(members, S)) = SessionsOf(members) \cap S
<1> DEFINE K == {m \in ToSet(members) : m.session \in S}
<1>1. Listed(MembersOf(members, S)) /\ ToSet(MembersOf(members, S)) = ToSet(members) \cap K
  BY KeptIs DEF MembersOf
<1>2. ToSet(MembersOf(members, S)) = K
  BY <1>1
<1>3. SessionsOf(MembersOf(members, S)) = {m.session : m \in K}
  BY <1>1, <1>2, SessionsAre
<1>4. SessionsOf(members) = {m.session : m \in ToSet(members)}
  BY SessionsAre
<1>5. QED
  BY <1>1, <1>2, <1>3, <1>4

(* There is such a function: of the members named among the first i. *)
Claims(h, s, n) ==
  h = [i \in 0 .. n |-> IF i = 0 THEN <<>> ELSE Claim(h[i - 1], s[i])]

LEMMA ClaimsExists ==
  ASSUME NEW s, NEW n \in Nat
  PROVE  \E h : Claims(h, s, n)
<1> DEFINE S == {k \in 0 .. n : \E h : Claims(h, s, k)}
<1>1. 0 \in S
  <2>1. Claims([i \in 0 .. 0 |-> <<>>], s, 0)
    BY DEF Claims
  <2>2. QED
    BY <2>1
<1>2. ASSUME NEW k \in 0 .. n, k + 1 \in 0 .. n, k \in S
      PROVE  k + 1 \in S
  <2>1. PICK h : Claims(h, s, k)
    BY <1>2
  <2> DEFINE g == [i \in 0 .. k + 1 |-> IF i = k + 1 THEN Claim(h[k], s[k + 1]) ELSE h[i]]
  <2>2. ASSUME NEW i \in 0 .. k + 1
        PROVE  g[i] = IF i = 0 THEN <<>> ELSE Claim(g[i - 1], s[i])
    <3>1. CASE i = k + 1
      <4>1. g[i] = Claim(h[k], s[k + 1]) /\ g[i - 1] = h[k] /\ i # 0
        BY <3>1
      <4>2. k + 1 = i
        BY <3>1
      <4>3. QED
        BY <4>1, <4>2
    <3>2. CASE i # k + 1 /\ i # 0
      <4>1. g[i] = h[i] /\ g[i - 1] = h[i - 1] /\ i \in 0 .. k
        BY <3>2
      <4>2. h[i] = Claim(h[i - 1], s[i])
        BY <2>1, <3>2, <4>1 DEF Claims
      <4>3. QED
        BY <3>2, <4>1, <4>2
    <3>3. CASE i # k + 1 /\ i = 0
      <4>1. g[i] = h[i] /\ 0 \in 0 .. k
        BY <3>3
      <4>2. h[0] = <<>>
        BY <2>1, <4>1 DEF Claims
      <4>3. QED
        BY <3>3, <4>1, <4>2
    <3>4. QED
      BY <3>1, <3>2, <3>3
  <2>3. g = [i \in 0 .. k + 1 |-> g[i]]
    OBVIOUS
  <2> HIDE DEF g
  <2>4. Claims(g, s, k + 1)
    BY <2>2, <2>3 DEF Claims
  <2>5. QED
    BY <1>2, <2>4
<1> HIDE DEF S
<1>3. n \in S
  BY <1>1, <1>2, CountingUp
<1>4. QED
  BY <1>3 DEF S

LEMMA ClaimedInTurn ==
  ASSUME NEW ms, Listed(ms)
  PROVE  \E F : /\ F[0] = <<>> /\ NamesClaimed(ms) = F[Len(ms)]
                /\ \A i \in 0 .. Len(ms) : i + 1 \in 0 .. Len(ms) => F[i + 1] = Claim(F[i], ms[i + 1])
<1> DEFINE n == Len(ms)
           F == CHOOSE h : Claims(h, ms, n)
<1>1. n \in Nat
  BY DEF Listed
<1>2. Claims(F, ms, n)
  BY <1>1, ClaimsExists
<1>3. NamesClaimed(ms) = F[n]
  BY DEF NamesClaimed, Claims
<1> HIDE DEF F, n
<1>4. F[0] = <<>>
  BY <1>1, <1>2 DEF Claims
<1>5. ASSUME NEW i \in 0 .. n, i + 1 \in 0 .. n PROVE F[i + 1] = Claim(F[i], ms[i + 1])
  <2>1. i + 1 # 0 /\ i + 1 - 1 = i
    BY <1>5
  <2>2. F[i + 1] = Claim(F[i + 1 - 1], ms[i + 1])
    BY <1>2, <1>5, <2>1 DEF Claims
  <2>3. QED
    BY <2>1, <2>2
<1>6. QED
  BY <1>3, <1>4, <1>5 DEF n

(* Whoever is a member stays one, in its place.                                *)
LEMMA ClaimedMembers ==
  ASSUME NEW ms, Listed(ms)
  PROVE  LET named == NamesClaimed(ms)
         IN  /\ Listed(named) /\ Len(named) = Len(ms)
             /\ \A i \in 1 .. Len(ms) : named[i].session = ms[i].session
             /\ SessionsOf(named) = SessionsOf(ms)
<1> DEFINE n == Len(ms)
<1>1. PICK F : /\ F[0] = <<>> /\ NamesClaimed(ms) = F[n]
               /\ \A i \in 0 .. n : i + 1 \in 0 .. n => F[i + 1] = Claim(F[i], ms[i + 1])
  BY ClaimedInTurn
<1>2. n \in Nat
  BY DEF Listed
<1> HIDE DEF n
<1> DEFINE S == {i \in 0 .. n : Listed(F[i]) /\ Len(F[i]) = i /\ \A j \in 1 .. i : F[i][j].session = ms[j].session}
<1>3. 0 \in S
  BY <1>1, <1>2, EmptyListed
<1>4. ASSUME NEW i \in 0 .. n, i + 1 \in 0 .. n, i \in S PROVE i + 1 \in S
  <2>1. PICK name : F[i + 1] = Append(F[i], [session |-> ms[i + 1].session, name |-> name])
    BY <1>1, <1>4 DEF Claim
  <2> DEFINE x == [session |-> ms[i + 1].session, name |-> name]
  <2>2. x.session = ms[i + 1].session
    OBVIOUS
  <2> HIDE DEF x
  <2>3. Listed(F[i]) /\ Len(F[i]) = i /\ \A j \in 1 .. i : F[i][j].session = ms[j].session
    BY <1>4
  <2>4. F[i + 1] = Append(F[i], x)
    BY <2>1 DEF x
  <2>5. /\ Listed(F[i + 1]) /\ Len(F[i + 1]) = i + 1 /\ F[i + 1][i + 1] = x
        /\ \A j \in 1 .. i : F[i + 1][j] = F[i][j]
    BY <2>3, <2>4, AppendListed
  <2>6. ASSUME NEW j \in 1 .. i + 1 PROVE F[i + 1][j].session = ms[j].session
    <3>1. CASE j = i + 1
      BY <2>2, <2>5, <3>1
    <3>2. CASE j # i + 1
      <4>1. j \in 1 .. i
        BY <1>4, <3>2
      <4>2. QED
        BY <2>3, <2>5, <4>1
    <3>3. QED
      BY <3>1, <3>2
  <2>7. QED
    BY <1>4, <2>5, <2>6
<1> HIDE DEF S
<1>5. n \in S
  BY <1>2, <1>3, <1>4, CountingUp
<1>6. Listed(F[n]) /\ Len(F[n]) = n /\ \A j \in 1 .. n : F[n][j].session = ms[j].session
  BY <1>5 DEF S
<1>7. DOMAIN F[n] = 1 .. n /\ DOMAIN ms = 1 .. n
  BY <1>6, ListedIs DEF n
<1>8. SessionsOf(F[n]) = SessionsOf(ms)
  BY <1>6, <1>7, Zenon DEF SessionsOf
<1>9. QED
  BY <1>1, <1>6, <1>8 DEF n

-----------------------------------------------------------------------------
(* Workspaces.                                                               *)
Fields == {"name", "layout", "members", "stream"}

Sound(w) == DOMAIN w = Fields /\ Listed(w.layout) /\ Listed(w.members)

LEMMA ReconcileFields ==
  ASSUME NEW w, Sound(w)
  PROVE  LET r == Reconcile(w)
         IN  /\ Sound(r) /\ r.layout = w.layout /\ r.name = w.name /\ r.stream = w.stream
             /\ SessionsOf(r.members) = ToSet(w.layout) \cup SessionsOf(w.members)
<1> DEFINE placed == [i \in DOMAIN w.layout |-> [session |-> w.layout[i], name |-> NameIn(w.members, w.layout[i])]]
           orphans == MembersOf(w.members, SessionsOf(w.members) \ ToSet(w.layout))
           named == NamesClaimed(placed \o orphans)
           r == [w EXCEPT !.members = named]
<1>1. Listed(w.layout) /\ Listed(w.members) /\ DOMAIN w.layout = 1 .. Len(w.layout) /\ Len(w.layout) \in Nat
  BY ListedIs DEF Sound
<1>2. Listed(placed) /\ Len(placed) = Len(w.layout)
  <2> DEFINE T == {[session |-> w.layout[i], name |-> NameIn(w.members, w.layout[i])] : i \in 1 .. Len(w.layout)}
  <2>1. placed \in [1 .. Len(w.layout) -> T]
    BY <1>1, Zenon
  <2> HIDE DEF placed, T
  <2>2. placed \in Seq(T) /\ Len(placed) = Len(w.layout)
    BY <1>1, <2>1
  <2>3. QED
    BY <2>2, SeqListed
<1>3. SessionsOf(placed) = ToSet(w.layout)
  <2>1. DOMAIN placed = DOMAIN w.layout /\ \A i \in DOMAIN w.layout : placed[i].session = w.layout[i]
    OBVIOUS
  <2> HIDE DEF placed
  <2>2. QED
    BY <2>1, Zenon DEF SessionsOf, ToSet
<1>4. Listed(orphans) /\ SessionsOf(orphans) = SessionsOf(w.members) \ ToSet(w.layout)
  <2>1. Listed(orphans) /\ SessionsOf(orphans) = SessionsOf(w.members) \cap (SessionsOf(w.members) \ ToSet(w.layout))
    BY <1>1, MembersOfIs
  <2> HIDE DEF orphans
  <2>2. QED
    BY <2>1
<1>5. Reconcile(w) = r
  BY DEF Reconcile
<1> HIDE DEF placed, orphans
<1>6. Listed(placed \o orphans) /\ ToSet(placed \o orphans) = ToSet(placed) \cup ToSet(orphans)
  BY <1>2, <1>4, ConcatListed
<1>7. SessionsOf(placed \o orphans) = SessionsOf(placed) \cup SessionsOf(orphans)
  <2>1. /\ SessionsOf(placed \o orphans) = {m.session : m \in ToSet(placed \o orphans)}
        /\ SessionsOf(placed) = {m.session : m \in ToSet(placed)}
        /\ SessionsOf(orphans) = {m.session : m \in ToSet(orphans)}
    BY <1>2, <1>4, <1>6, SessionsAre
  <2>2. QED
    BY <1>6, <2>1
<1>8. Listed(named) /\ SessionsOf(named) = SessionsOf(placed \o orphans)
  BY <1>6, ClaimedMembers
<1> HIDE DEF named
<1>9. /\ DOMAIN r = Fields /\ r.layout = w.layout /\ r.name = w.name /\ r.stream = w.stream /\ r.members = named
  BY DEF Sound, Fields
<1>10. SessionsOf(named) = ToSet(w.layout) \cup SessionsOf(w.members)
  BY <1>3, <1>4, <1>7, <1>8
<1> HIDE DEF r
<1>11. QED
  BY <1>1, <1>5, <1>8, <1>9, <1>10 DEF Sound
-----------------------------------------------------------------------------
(* Orders.                                                                   *)
LEMMA InsertedIs ==
  ASSUME NEW s, Listed(s), NEW x
  PROVE  Listed(Inserted(s, x)) /\ ToSet(Inserted(s, x)) = ToSet(s) \cup {x}
<1>1. Contains(s, x) <=> x \in ToSet(s)
  BY ContainsIs
<1>2. Listed(Append(s, x)) /\ ToSet(Append(s, x)) = ToSet(s) \cup {x}
  BY AppendListed
<1>3. QED
  BY <1>1, <1>2 DEF Inserted

LEMMA WithoutIs ==
  ASSUME NEW s, Listed(s), NEW x
  PROVE  Listed(Without(s, x)) /\ ToSet(Without(s, x)) = ToSet(s) \ {x}
<1>1. Listed(Without(s, x)) /\ ToSet(Without(s, x)) = ToSet(s) \cap (ToSet(s) \ {x})
  BY KeptIs DEF Without
<1>2. QED
  BY <1>1

(* There is such a function: of the first i names without repetitions. *)
Onces(h, s, n) ==
  h = [i \in 0 .. n |-> IF i = 0 THEN <<>> ELSE Inserted(h[i - 1], s[i])]

LEMMA OncesExists ==
  ASSUME NEW s, NEW n \in Nat
  PROVE  \E h : Onces(h, s, n)
<1> DEFINE S == {k \in 0 .. n : \E h : Onces(h, s, k)}
<1>1. 0 \in S
  <2>1. Onces([i \in 0 .. 0 |-> <<>>], s, 0)
    BY DEF Onces
  <2>2. QED
    BY <2>1
<1>2. ASSUME NEW k \in 0 .. n, k + 1 \in 0 .. n, k \in S
      PROVE  k + 1 \in S
  <2>1. PICK h : Onces(h, s, k)
    BY <1>2
  <2> DEFINE g == [i \in 0 .. k + 1 |-> IF i = k + 1 THEN Inserted(h[k], s[k + 1]) ELSE h[i]]
  <2>2. ASSUME NEW i \in 0 .. k + 1
        PROVE  g[i] = IF i = 0 THEN <<>> ELSE Inserted(g[i - 1], s[i])
    <3>1. CASE i = k + 1
      <4>1. g[i] = Inserted(h[k], s[k + 1]) /\ g[i - 1] = h[k] /\ i # 0
        BY <3>1
      <4>2. k + 1 = i
        BY <3>1
      <4>3. QED
        BY <4>1, <4>2
    <3>2. CASE i # k + 1 /\ i # 0
      <4>1. g[i] = h[i] /\ g[i - 1] = h[i - 1] /\ i \in 0 .. k
        BY <3>2
      <4>2. h[i] = Inserted(h[i - 1], s[i])
        BY <2>1, <3>2, <4>1 DEF Onces
      <4>3. QED
        BY <3>2, <4>1, <4>2
    <3>3. CASE i # k + 1 /\ i = 0
      <4>1. g[i] = h[i] /\ 0 \in 0 .. k
        BY <3>3
      <4>2. h[0] = <<>>
        BY <2>1, <4>1 DEF Onces
      <4>3. QED
        BY <3>3, <4>1, <4>2
    <3>4. QED
      BY <3>1, <3>2, <3>3
  <2>3. g = [i \in 0 .. k + 1 |-> g[i]]
    OBVIOUS
  <2> HIDE DEF g
  <2>4. Onces(g, s, k + 1)
    BY <2>2, <2>3 DEF Onces
  <2>5. QED
    BY <1>2, <2>4
<1> HIDE DEF S
<1>3. n \in S
  BY <1>1, <1>2, CountingUp
<1>4. QED
  BY <1>3 DEF S

LEMMA OnceIs ==
  ASSUME NEW s, Listed(s)
  PROVE  Listed(Once(s)) /\ ToSet(Once(s)) = ToSet(s)
<1> DEFINE n == Len(s)
           F == CHOOSE h : Onces(h, s, n)
           S == {i \in 0 .. n : Listed(F[i]) /\ ToSet(F[i]) = {s[j] : j \in 1 .. i}}
<1>1. n \in Nat
  BY DEF Listed
<1>2. Onces(F, s, n)
  BY <1>1, OncesExists
<1>3. Once(s) = F[n]
  BY DEF Once, Onces
<1> HIDE DEF F, n
<1>4. F[0] = <<>>
  BY <1>1, <1>2 DEF Onces
<1>5. 0 \in S
  BY <1>1, <1>4, EmptyListed
<1>6. ASSUME NEW i \in 0 .. n, i + 1 \in 0 .. n, i \in S PROVE i + 1 \in S
  <2>1. F[i + 1] = Inserted(F[i], s[i + 1])
    <3>1. i + 1 # 0 /\ i + 1 - 1 = i
      BY <1>6
    <3>2. F[i + 1] = Inserted(F[i + 1 - 1], s[i + 1])
      BY <1>2, <1>6, <3>1 DEF Onces
    <3>3. QED
      BY <3>1, <3>2
  <2>2. {s[j] : j \in 1 .. i + 1} = {s[j] : j \in 1 .. i} \cup {s[i + 1]}
    <3>1. \A j : j \in 1 .. i + 1 <=> j \in 1 .. i \/ j = i + 1
      BY <1>1, <1>6
    <3>2. QED
      BY <3>1, Zenon
  <2>3. Listed(F[i]) /\ ToSet(F[i]) = {s[j] : j \in 1 .. i}
    BY <1>6
  <2>4. Listed(F[i + 1]) /\ ToSet(F[i + 1]) = ToSet(F[i]) \cup {s[i + 1]}
    BY <2>1, <2>3, InsertedIs
  <2>5. QED
    BY <1>6, <2>2, <2>3, <2>4
<1> HIDE DEF S
<1>7. n \in S
  BY <1>1, <1>5, <1>6, CountingUp
<1>8. ToSet(s) = {s[j] : j \in 1 .. n}
  BY ListedIs DEF n
<1>9. QED
  BY <1>3, <1>7, <1>8 DEF S

(* A split puts the session in, and nothing else out.                           *)
LEMMA SplitAtIs ==
  ASSUME NEW panes, Listed(panes), NEW t, NEW s, NEW before \in BOOLEAN
  PROVE  Listed(SplitAt(panes, t, s, before)) /\ ToSet(SplitAt(panes, t, s, before)) = ToSet(panes) \cup {s}
<1>1. CASE Contains(panes, s) \/ ~Contains(panes, t)
  BY <1>1, InsertedIs DEF SplitAt
<1>2. CASE ~Contains(panes, s) /\ Contains(panes, t)
  <2> DEFINE i == PlaceOf(panes, t) + (IF before THEN 0 ELSE 1)
             T == ToSet(panes)
             front == SubSeq(panes, 1, i - 1)
             back == SubSeq(panes, i, Len(panes))
  <2>1. PlaceOf(panes, t) \in 1 .. Len(panes)
    BY <1>2 DEF Contains, PlaceOf
  <2>2. Len(panes) \in Nat /\ panes \in Seq(T) /\ T = {panes[j] : j \in 1 .. Len(panes)}
    BY ListedIs
  <2>3. i \in 1 .. Len(panes) + 1
    BY <2>1, <2>2
  <2>4. SplitAt(panes, t, s, before) = front \o <<s>> \o back
    BY <1>2 DEF SplitAt, InsertAt
  <2> HIDE DEF i
  <2>5. /\ front \in Seq(T) /\ Len(front) = i - 1 /\ \A j \in 1 .. i - 1 : front[j] = panes[j]
        /\ back \in Seq(T) /\ Len(back) = Len(panes) - i + 1
        /\ \A j \in 1 .. Len(panes) - i + 1 : back[j] = panes[i + j - 1]
    <3> HIDE DEF T
    <3>1. front \in Seq(T) /\ Len(front) = i - 1 /\ \A j \in 1 .. i - 1 : front[j] = panes[j]
      BY <2>2, <2>3
    <3>2. back \in Seq(T) /\ Len(back) = Len(panes) - i + 1
      BY <2>2, <2>3, SMTT(30)
    <3>3. \A j \in 1 .. Len(panes) - i + 1 : back[j] = panes[i + j - 1]
      BY <2>2, <2>3
    <3>4. QED
      BY <3>1, <3>2, <3>3
  <2>6. <<s>> \in Seq({s}) /\ Len(<<s>>) = 1 /\ <<s>>[1] = s
    OBVIOUS
  <2> HIDE DEF front, back
  <2>7. Listed(front) /\ Listed(back) /\ Listed(<<s>>)
    BY <2>5, <2>6, SeqListed
  <2>8. ToSet(<<s>>) = {s}
    <3>1. ToSet(<<s>>) = {<<s>>[j] : j \in 1 .. 1}
      BY <2>6, <2>7, ListedIs
    <3>2. QED
      BY <2>6, <3>1
  <2>9. ToSet(front) \cup ToSet(back) = T
    <3>1. /\ ToSet(front) = {front[j] : j \in 1 .. i - 1}
          /\ ToSet(back) = {back[j] : j \in 1 .. Len(panes) - i + 1}
      BY <2>5, <2>7, ListedIs
    <3>2. ASSUME NEW j \in 1 .. Len(panes) PROVE panes[j] \in ToSet(front) \cup ToSet(back)
      <4>1. CASE j < i
        <5>1. j \in 1 .. i - 1
          BY <2>2, <2>3, <4>1
        <5>2. QED
          BY <2>5, <3>1, <5>1
      <4>2. CASE ~(j < i)
        <5>1. j - i + 1 \in 1 .. Len(panes) - i + 1 /\ i + (j - i + 1) - 1 = j
          BY <2>2, <2>3, <4>2
        <5>2. back[j - i + 1] = panes[j]
          BY <2>5, <5>1
        <5>3. QED
          BY <3>1, <5>1, <5>2
      <4>3. QED
        BY <4>1, <4>2
    <3>3. ToSet(front) \subseteq T /\ ToSet(back) \subseteq T
      <4>1. \A j \in 1 .. i - 1 : front[j] \in T
        BY <2>5
      <4>2. \A j \in 1 .. Len(panes) - i + 1 : back[j] \in T
        BY <2>5
      <4>3. QED
        BY <3>1, <4>1, <4>2
    <3>4. QED
      BY <2>2, <3>2, <3>3
  <2>10. /\ Listed(front \o <<s>>) /\ ToSet(front \o <<s>>) = ToSet(front) \cup {s}
    BY <2>7, <2>8, ConcatListed
  <2>11. /\ Listed(front \o <<s>> \o back)
         /\ ToSet(front \o <<s>> \o back) = ToSet(front \o <<s>>) \cup ToSet(back)
    BY <2>7, <2>10, ConcatListed
  <2>12. QED
    BY <2>4, <2>9, <2>10, <2>11
<1>3. QED
  BY <1>1, <1>2

-----------------------------------------------------------------------------
(* Stores.                                                                  *)
StoreFields == {"order", "ws", "streams"}

StoreSound(st) ==
  /\ DOMAIN st = StoreFields /\ Listed(st.order) /\ ToSet(st.order) = DOMAIN st.ws
  /\ \A id \in DOMAIN st.ws : Sound(st.ws[id])

EventSound(e) ==
  /\ e.kind \in {"workspace", "deleted", "order", "streams"}
  /\ (e.kind = "workspace" => Sound(e.workspace)) /\ (e.kind = "order" => Listed(e.ids))

EventsSound(events) == Listed(events) /\ \A e \in ToSet(events) : EventSound(e)

(* What is common to the operations: the store stays sound, and changes only if      *)
(* there is something to tell.                                               *)
Proper(r, st) ==
  /\ DOMAIN r = {"store", "events", "ok"}
  /\ StoreSound(r.store) /\ EventsSound(r.events)
  /\ r.events = <<>> => r.store = st

LEMMA RefusedIs ==
  ASSUME NEW st, StoreSound(st)
  PROVE  Proper(Refused(st), st) /\ Refused(st).store = st /\ ~Refused(st).ok
BY EmptyListed DEF Refused, Proper, EventsSound

LEMMA AdoptIs ==
  ASSUME NEW st, DOMAIN st = StoreFields, NEW s
  PROVE  /\ DOMAIN Adopt(st, s) = StoreFields
         /\ Adopt(st, s).ws = st.ws /\ Adopt(st, s).order = st.order
BY DEF Adopt, StoreFields

LEMMA SawIs ==
  ASSUME NEW st, NEW id
  PROVE  /\ Sound(st.ws[id]) => EventSound(Saw(st, id))
         /\ EventSound(SawStreams(st))
BY DEF Saw, SawStreams, EventSound

LEMMA OneListed ==
  ASSUME NEW x
  PROVE  Listed(<<x>>) /\ ToSet(<<x>>) = {x} /\ Len(<<x>>) = 1 /\ <<x>> # <<>>
<1> DEFINE a == <<x>>
<1>1. a \in Seq({x}) /\ Len(a) = 1 /\ a[1] = x
  OBVIOUS
<1> HIDE DEF a
<1>2. Listed(a) /\ DOMAIN a = 1 .. 1
  BY <1>1, SeqListed
<1>3. ToSet(a) = {x}
  BY <1>1, <1>2 DEF ToSet
<1>4. a # <<>>
  BY <1>1, EmptyListed
<1>5. QED
  BY <1>1, <1>2, <1>3, <1>4 DEF a

LEMMA EventsJoined ==
  ASSUME NEW s, EventsSound(s), NEW t, EventsSound(t)
  PROVE  EventsSound(s \o t) /\ (s # <<>> \/ t # <<>> => s \o t # <<>>)
<1>1. Listed(s) /\ Listed(t) /\ Len(s) \in Nat /\ Len(t) \in Nat
  BY DEF EventsSound, Listed
<1>2. Listed(s \o t) /\ Len(s \o t) = Len(s) + Len(t) /\ ToSet(s \o t) = ToSet(s) \cup ToSet(t)
  BY <1>1, ConcatListed
<1>3. EventsSound(s \o t)
  BY <1>2 DEF EventsSound
<1>4. ASSUME NEW q, Listed(q), Len(q) = 0 PROVE q = <<>>
  <2>1. q \in Seq(ToSet(q))
    BY <1>4, ListedIs
  <2>2. QED
    BY <1>4, <2>1
<1>5. ASSUME s \o t = <<>> PROVE s = <<>> /\ t = <<>>
  <2>1. Len(s \o t) = 0
    BY <1>5, EmptyListed
  <2>2. Len(s) = 0 /\ Len(t) = 0
    BY <1>1, <1>2, <2>1
  <2>3. QED
    BY <1>1, <1>4, <2>2
<1>6. QED
  BY <1>3, <1>5

LEMMA AnnouncedIs ==
  ASSUME NEW st, DOMAIN st = StoreFields, NEW id, Sound(st.ws[id])
  PROVE  LET r == Announced(st, id)
         IN  /\ DOMAIN r = {"store", "events", "ok"}
             /\ r.ok /\ EventsSound(r.events) /\ r.events # <<>>
             /\ DOMAIN r.store = StoreFields /\ r.store.ws = st.ws /\ r.store.order = st.order
<1> DEFINE a == Adopt(st, st.ws[id].stream)
           more == IF a = st THEN <<>> ELSE <<SawStreams(a)>>
           saw == <<Saw(st, id)>>
<1>1. DOMAIN a = StoreFields /\ a.ws = st.ws /\ a.order = st.order
  BY AdoptIs
<1>2. Announced(st, id) = Told(a, saw \o more)
  BY DEF Announced
<1> HIDE DEF a
<1>3. EventsSound(more) /\ EventsSound(saw) /\ saw # <<>>
  <2> DEFINE x == SawStreams(a)
             y == Saw(st, id)
  <2>1. EventSound(x) /\ EventSound(y)
    BY SawIs
  <2> HIDE DEF x, y
  <2>2. EventsSound(<<x>>) /\ EventsSound(<<y>>) /\ <<y>> # <<>>
    BY <2>1, OneListed DEF EventsSound
  <2>3. EventsSound(<<>>)
    BY EmptyListed DEF EventsSound
  <2>4. QED
    BY <2>2, <2>3 DEF x, y
<1> HIDE DEF more, saw
<1>4. EventsSound(saw \o more) /\ saw \o more # <<>>
  BY <1>3, EventsJoined
<1>5. QED
  BY <1>1, <1>2, <1>4 DEF Told

(* Another content for a workspace.                                           *)
LEMMA ChangedIs ==
  ASSUME NEW st, StoreSound(st), NEW id \in DOMAIN st.ws, NEW w, Sound(w)
  PROVE  LET r == Announced(Changed(st, id, w), id)
         IN  /\ r.ok /\ r.events # <<>> /\ Proper(r, st) /\ r.store.order = st.order
             /\ DOMAIN r.store.ws = DOMAIN st.ws /\ r.store.ws[id] = Reconcile(w)
             /\ \A o \in DOMAIN st.ws : o # id => r.store.ws[o] = st.ws[o]
<1> DEFINE c == Changed(st, id, w)
           r == Announced(c, id)
<1>1. DOMAIN c = StoreFields /\ c.ws = [st.ws EXCEPT ![id] = Reconcile(w)] /\ c.order = st.order
  <2>1. c = [st EXCEPT !.ws = [st.ws EXCEPT ![id] = Reconcile(w)]]
    BY DEF Changed
  <2> HIDE DEF c
  <2>2. QED
    BY <2>1 DEF StoreSound, StoreFields
<1> HIDE DEF c
<1>2. DOMAIN c.ws = DOMAIN st.ws /\ c.ws[id] = Reconcile(w) /\ \A o \in DOMAIN st.ws : o # id => c.ws[o] = st.ws[o]
  BY <1>1
<1>3. Sound(Reconcile(w))
  BY ReconcileFields
<1>4. /\ DOMAIN r = {"store", "events", "ok"} /\ r.ok /\ EventsSound(r.events) /\ r.events # <<>>
      /\ DOMAIN r.store = StoreFields /\ r.store.ws = c.ws /\ r.store.order = c.order
  <2>1. Sound(c.ws[id])
    BY <1>2, <1>3
  <2>2. QED
    BY <1>1, <2>1, AnnouncedIs
<1> HIDE DEF r
<1>5. StoreSound(r.store)
  BY <1>1, <1>2, <1>3, <1>4 DEF StoreSound
<1>6. QED
  BY <1>1, <1>2, <1>4, <1>5 DEF Proper, r, c
-----------------------------------------------------------------------------
(* The operations.                                                           *)
MembersIn(st, id) == SessionsOf(st.ws[id].members)

(* No workspace is lost, and no member but those in X leaves one.                *)
Retains(st, to, X) ==
  /\ DOMAIN to.ws = DOMAIN st.ws
  /\ \A id \in DOMAIN st.ws : MembersIn(st, id) \ X \subseteq MembersIn(to, id)

LEMMA RetainsAll == ASSUME NEW st, NEW X PROVE Retains(st, st, X)
BY DEF Retains

(* r is what comes of the content w for workspace id: nobody but X leaves, and w's       *)
(* sessions are its members.                                                  *)
Gives(r, st, id, w, X) ==
  /\ r.ok /\ r.events # <<>> /\ Proper(r, st) /\ Retains(st, r.store, X)
  /\ MembersIn(r.store, id) = ToSet(w.layout) \cup SessionsOf(w.members)
  /\ r.store.order = st.order
  /\ \A o \in DOMAIN st.ws : o # id => r.store.ws[o] = st.ws[o]

LEMMA ChangeRetains ==
  ASSUME NEW st, StoreSound(st), NEW id \in DOMAIN st.ws, NEW w, Sound(w), NEW X,
         MembersIn(st, id) \ X \subseteq ToSet(w.layout) \cup SessionsOf(w.members)
  PROVE  Gives(Announced(Changed(st, id, w), id), st, id, w, X)
<1> DEFINE r == Announced(Changed(st, id, w), id)
<1>1. /\ r.ok /\ r.events # <<>> /\ Proper(r, st) /\ r.store.order = st.order
      /\ DOMAIN r.store.ws = DOMAIN st.ws /\ r.store.ws[id] = Reconcile(w)
      /\ \A o \in DOMAIN st.ws : o # id => r.store.ws[o] = st.ws[o]
  BY ChangedIs
<1>2. SessionsOf(Reconcile(w).members) = ToSet(w.layout) \cup SessionsOf(w.members)
  BY ReconcileFields
<1> HIDE DEF r
<1>3. Retains(st, r.store, X)
  BY <1>1, <1>2 DEF Retains, MembersIn
<1>4. QED
  BY <1>1, <1>2, <1>3 DEF MembersIn, r, Gives

(* Another name, stream or layout.                                            *)
LEMMA RenameIs ==
  ASSUME NEW st, StoreSound(st), NEW id, NEW name
  PROVE  Proper(Rename(st, id, name), st) /\ Retains(st, Rename(st, id, name).store, {})
<1>1. CASE id \notin DOMAIN st.ws \/ NameTaken(st, name, id)
  BY <1>1, RefusedIs, RetainsAll DEF Rename
<1>2. CASE id \in DOMAIN st.ws /\ ~NameTaken(st, name, id)
  <2> DEFINE w == [st.ws[id] EXCEPT !.name = name]
  <2>1. Sound(st.ws[id])
    BY <1>2 DEF StoreSound
  <2>2. Sound(w) /\ w.members = st.ws[id].members
    BY <2>1 DEF Sound, Fields
  <2>3. Rename(st, id, name) = Announced(Changed(st, id, w), id)
    BY <1>2 DEF Rename
  <2> HIDE DEF w
  <2>4. MembersIn(st, id) \ {} \subseteq ToSet(w.layout) \cup SessionsOf(w.members)
    BY <2>2 DEF MembersIn
  <2>5. Gives(Announced(Changed(st, id, w), id), st, id, w, {})
    BY <1>2, <2>2, <2>4, ChangeRetains
  <2>6. QED
    BY <2>3, <2>5 DEF Gives
<1>3. QED
  BY <1>1, <1>2

LEMMA RetagIs ==
  ASSUME NEW st, StoreSound(st), NEW id, NEW stream
  PROVE  Proper(Retag(st, id, stream), st) /\ Retains(st, Retag(st, id, stream).store, {})
<1>1. CASE id \notin DOMAIN st.ws
  BY <1>1, RefusedIs, RetainsAll DEF Retag
<1>2. CASE id \in DOMAIN st.ws
  <2> DEFINE w == [st.ws[id] EXCEPT !.stream = stream]
  <2>1. Sound(st.ws[id])
    BY <1>2 DEF StoreSound
  <2>2. Sound(w) /\ w.members = st.ws[id].members
    BY <2>1 DEF Sound, Fields
  <2>3. Retag(st, id, stream) = Announced(Changed(st, id, w), id)
    BY <1>2 DEF Retag
  <2> HIDE DEF w
  <2>4. MembersIn(st, id) \ {} \subseteq ToSet(w.layout) \cup SessionsOf(w.members)
    BY <2>2 DEF MembersIn
  <2>5. Gives(Announced(Changed(st, id, w), id), st, id, w, {})
    BY <1>2, <2>2, <2>4, ChangeRetains
  <2>6. QED
    BY <2>3, <2>5 DEF Gives
<1>3. QED
  BY <1>1, <1>2

LEMMA RelayoutIs ==
  ASSUME NEW st, StoreSound(st), NEW id, NEW layout, Listed(layout)
  PROVE  Proper(Relayout(st, id, layout), st) /\ Retains(st, Relayout(st, id, layout).store, {})
<1>1. CASE id \notin DOMAIN st.ws
  BY <1>1, RefusedIs, RetainsAll DEF Relayout
<1>2. CASE id \in DOMAIN st.ws
  <2> DEFINE w == [st.ws[id] EXCEPT !.layout = layout]
  <2>1. Sound(st.ws[id])
    BY <1>2 DEF StoreSound
  <2>2. Sound(w) /\ w.members = st.ws[id].members
    BY <2>1 DEF Sound, Fields
  <2>3. Relayout(st, id, layout) = Announced(Changed(st, id, w), id)
    BY <1>2 DEF Relayout
  <2> HIDE DEF w
  <2>4. MembersIn(st, id) \ {} \subseteq ToSet(w.layout) \cup SessionsOf(w.members)
    BY <2>2 DEF MembersIn
  <2>5. Gives(Announced(Changed(st, id, w), id), st, id, w, {})
    BY <1>2, <2>2, <2>4, ChangeRetains
  <2>6. QED
    BY <2>3, <2>5 DEF Gives
<1>3. QED
  BY <1>1, <1>2

LEMMA PresetIs ==
  ASSUME NEW st, StoreSound(st), NEW id
  PROVE  Proper(Preset(st, id), st) /\ Retains(st, Preset(st, id).store, {})
<1>1. CASE id \notin DOMAIN st.ws
  BY <1>1, RefusedIs, RetainsAll DEF Preset
<1>2. CASE id \in DOMAIN st.ws
  <2> DEFINE members == st.ws[id].members
             layout == [i \in DOMAIN members |-> members[i].session]
             T == {members[i].session : i \in DOMAIN members}
  <2>1. DOMAIN members = 1 .. Len(members) /\ Len(members) \in Nat
    BY <1>2, ListedIs DEF StoreSound, Sound
  <2>2. Preset(st, id) = Relayout(st, id, layout)
    BY <1>2 DEF Preset
  <2>3. layout \in [1 .. Len(members) -> T]
    BY <2>1, Zenon
  <2> HIDE DEF layout, T, members
  <2>4. layout \in Seq(T)
    BY <2>1, <2>3
  <2>5. Listed(layout)
    BY <2>4, SeqListed
  <2>6. QED
    BY <2>2, <2>5, RelayoutIs
<1>3. QED
  BY <1>1, <1>2

LEMMA SplitMemberIs ==
  ASSUME NEW st, StoreSound(st), NEW id, NEW t, NEW s, NEW name, NEW before \in BOOLEAN
  PROVE  LET r == SplitMember(st, id, t, s, name, before)
         IN  /\ Proper(r, st) /\ Retains(st, r.store, {})
             /\ r.ok => id \in DOMAIN r.store.ws /\ s \in MembersIn(r.store, id)
             /\ ~r.ok => r.store = st
<1>1. CASE id \notin DOMAIN st.ws \/ NameClash(st.ws[id], name, s)
  BY <1>1, RefusedIs, RetainsAll DEF SplitMember
<1>2. CASE id \in DOMAIN st.ws /\ ~NameClash(st.ws[id], name, s)
  <2> DEFINE old == st.ws[id]
             m == [session |-> s, name |-> name]
             members == Append(old.members, m)
             layout == SplitAt(old.layout, t, s, before)
             w == [old EXCEPT !.members = members, !.layout = layout]
  <2>1. DOMAIN old = Fields /\ Listed(old.layout) /\ Listed(old.members)
    BY <1>2 DEF StoreSound, Sound
  <2>2. SplitMember(st, id, t, s, name, before) = Announced(Changed(st, id, w), id)
    BY <1>2 DEF SplitMember
  <2> HIDE DEF old, m
  <2>3. Listed(members) /\ ToSet(members) = ToSet(old.members) \cup {m}
    BY <2>1, AppendListed
  <2>4. Listed(layout) /\ ToSet(layout) = ToSet(old.layout) \cup {s}
    BY <2>1, SplitAtIs
  <2> HIDE DEF members, layout
  <2>5. DOMAIN w = Fields /\ w.members = members /\ w.layout = layout
    BY <2>1 DEF Fields
  <2> HIDE DEF w
  <2>6. Sound(w)
    BY <2>3, <2>4, <2>5 DEF Sound
  <2>7. MembersIn(st, id) \subseteq SessionsOf(members)
    <3>1. /\ SessionsOf(old.members) = {x.session : x \in ToSet(old.members)}
          /\ SessionsOf(members) = {x.session : x \in ToSet(members)}
      BY <2>1, <2>3, SessionsAre
    <3>2. QED
      BY <2>3, <3>1 DEF MembersIn, old
  <2>8. MembersIn(st, id) \ {} \subseteq ToSet(w.layout) \cup SessionsOf(w.members)
    BY <2>5, <2>7
  <2>9. Gives(Announced(Changed(st, id, w), id), st, id, w, {})
    BY <1>2, <2>6, <2>8, ChangeRetains
  <2>10. s \in ToSet(w.layout)
    BY <2>4, <2>5
  <2>11. QED
    BY <1>2, <2>2, <2>9, <2>10 DEF Retains, Gives
<1>3. QED
  BY <1>1, <1>2

LEMMA AddMemberIs ==
  ASSUME NEW st, StoreSound(st), NEW id, NEW s, NEW name
  PROVE  LET r == AddMember(st, id, s, name)
         IN  /\ Proper(r, st) /\ Retains(st, r.store, {})
             /\ r.ok => id \in DOMAIN r.store.ws /\ s \in MembersIn(r.store, id)
             /\ ~r.ok => r.store = st
<1>1. CASE id \notin DOMAIN st.ws \/ HomesOf(st, s) \ {id} # {} \/ NameClash(st.ws[id], name, s)
  BY <1>1, RefusedIs, RetainsAll DEF AddMember
<1>2. CASE ~(id \notin DOMAIN st.ws \/ HomesOf(st, s) \ {id} # {} \/ NameClash(st.ws[id], name, s))
  <2> DEFINE old == st.ws[id]
             m == [session |-> s, name |-> name]
             renamed == [i \in DOMAIN old.members |-> IF old.members[i].session = s THEN m ELSE old.members[i]]
             members == IF s \in SessionsOf(old.members) THEN renamed ELSE Append(old.members, m)
             layout == Inserted(old.layout, s)
             w == [old EXCEPT !.members = members, !.layout = layout]
  <2>1. DOMAIN old = Fields /\ Listed(old.layout) /\ Listed(old.members)
    BY <1>2 DEF StoreSound, Sound
  <2>2. AddMember(st, id, s, name) = Announced(Changed(st, id, w), id)
    BY <1>2 DEF AddMember
  <2> HIDE DEF old
  <2>3. Listed(members) /\ SessionsOf(old.members) \subseteq SessionsOf(members)
    <3>1. CASE s \in SessionsOf(old.members)
      <4>1. DOMAIN old.members = 1 .. Len(old.members) /\ Len(old.members) \in Nat
        BY <2>1, ListedIs
      <4> DEFINE T == {old.members[i] : i \in DOMAIN old.members} \cup {m}
      <4>2. renamed \in [1 .. Len(old.members) -> T]
        BY <4>1, Zenon
      <4>3. \A i \in DOMAIN old.members : renamed[i].session = old.members[i].session
        <5>1. m.session = s
          OBVIOUS
        <5> HIDE DEF m
        <5>2. QED
          BY <5>1, Zenon
      <4> HIDE DEF renamed, T, m
      <4>4. renamed \in Seq(T) /\ DOMAIN renamed = DOMAIN old.members
        BY <4>1, <4>2
      <4>5. Listed(renamed)
        BY <4>4, SeqListed
      <4>6. SessionsOf(renamed) = SessionsOf(old.members)
        BY <4>3, <4>4, Zenon DEF SessionsOf
      <4>7. QED
        BY <3>1, <4>5, <4>6
    <3>2. CASE s \notin SessionsOf(old.members)
      <4> HIDE DEF m
      <4> DEFINE app == Append(old.members, m)
      <4>1. Listed(app) /\ ToSet(app) = ToSet(old.members) \cup {m}
        BY <2>1, AppendListed
      <4> HIDE DEF app
      <4>2. /\ SessionsOf(old.members) = {x.session : x \in ToSet(old.members)}
            /\ SessionsOf(app) = {x.session : x \in ToSet(app)}
        BY <2>1, <4>1, SessionsAre
      <4>3. SessionsOf(old.members) \subseteq SessionsOf(app)
        BY <4>1, <4>2
      <4>4. QED
        BY <3>2, <4>1, <4>3 DEF app
    <3>3. QED
      BY <3>1, <3>2
  <2>4. Listed(layout) /\ ToSet(layout) = ToSet(old.layout) \cup {s}
    BY <2>1, InsertedIs
  <2> HIDE DEF members, layout
  <2>5. DOMAIN w = Fields /\ w.members = members /\ w.layout = layout
    BY <2>1 DEF Fields
  <2> HIDE DEF w
  <2>6. Sound(w)
    BY <2>3, <2>4, <2>5 DEF Sound
  <2>7. MembersIn(st, id) \ {} \subseteq ToSet(w.layout) \cup SessionsOf(w.members)
    BY <2>3, <2>5 DEF MembersIn, old
  <2>8. Gives(Announced(Changed(st, id, w), id), st, id, w, {})
    BY <1>2, <2>6, <2>7, ChangeRetains
  <2>9. s \in ToSet(w.layout)
    BY <2>4, <2>5
  <2>10. QED
    BY <1>2, <2>2, <2>8, <2>9 DEF Retains, Gives
<1>3. QED
  BY <1>1, <1>2, SMTT(30)

(* r is what comes of taking s out of workspace id.                              *)
Takes(r, st, id, s) ==
  /\ Proper(r, st) /\ Retains(st, r.store, {s}) /\ r.store.order = st.order
  /\ \A o \in DOMAIN st.ws : o # id => r.store.ws[o] = st.ws[o]
  /\ id \in DOMAIN st.ws => r.events # <<>>

LEMMA RemoveMemberIs ==
  ASSUME NEW st, StoreSound(st), NEW id, NEW s
  PROVE  Takes(RemoveMember(st, id, s), st, id, s)
<1>1. CASE id \notin DOMAIN st.ws
  BY <1>1, RefusedIs, RetainsAll DEF RemoveMember, Takes
<1>2. CASE id \in DOMAIN st.ws
  <2> DEFINE old == st.ws[id]
             members == MembersOf(old.members, SessionsOf(old.members) \ {s})
             layout == Without(old.layout, s)
             w == [old EXCEPT !.members = members, !.layout = layout]
  <2>1. DOMAIN old = Fields /\ Listed(old.layout) /\ Listed(old.members)
    BY <1>2 DEF StoreSound, Sound
  <2>2. RemoveMember(st, id, s) = Announced(Changed(st, id, w), id)
    BY <1>2 DEF RemoveMember
  <2> HIDE DEF old
  <2>3. Listed(members) /\ SessionsOf(members) = SessionsOf(old.members) \cap (SessionsOf(old.members) \ {s})
    BY <2>1, MembersOfIs
  <2>4. Listed(layout)
    BY <2>1, WithoutIs
  <2> HIDE DEF members, layout
  <2>5. DOMAIN w = Fields /\ w.members = members /\ w.layout = layout
    BY <2>1 DEF Fields
  <2> HIDE DEF w
  <2>6. Sound(w)
    BY <2>3, <2>4, <2>5 DEF Sound
  <2>7. MembersIn(st, id) \ {s} \subseteq ToSet(w.layout) \cup SessionsOf(w.members)
    BY <2>3, <2>5 DEF MembersIn, old
  <2>8. Gives(Announced(Changed(st, id, w), id), st, id, w, {s})
    BY <1>2, <2>6, <2>7, ChangeRetains
  <2>9. QED
    BY <1>2, <2>2, <2>8 DEF Gives, Takes
<1>3. QED
  BY <1>1, <1>2

(* r is what comes of another name for a member.                                 *)
Relabels(r, st) == Proper(r, st) /\ Retains(st, r.store, {}) /\ (~r.ok => r.store = st)

LEMMA RenameMemberIs ==
  ASSUME NEW st, StoreSound(st), NEW id, NEW s, NEW name
  PROVE  Relabels(RenameMember(st, id, s, name), st)
<1>1. CASE id \notin DOMAIN st.ws \/ s \notin SessionsOf(st.ws[id].members) \/ NameClash(st.ws[id], name, s)
  BY <1>1, RefusedIs, RetainsAll DEF RenameMember, Relabels
<1>2. CASE ~(id \notin DOMAIN st.ws \/ s \notin SessionsOf(st.ws[id].members) \/ NameClash(st.ws[id], name, s))
  <2> DEFINE old == st.ws[id]
             m == [session |-> s, name |-> name]
             renamed == [i \in DOMAIN old.members |-> IF old.members[i].session = s THEN m ELSE old.members[i]]
             w == [old EXCEPT !.members = renamed]
  <2>1. DOMAIN old = Fields /\ Listed(old.layout) /\ Listed(old.members)
    BY <1>2 DEF StoreSound, Sound
  <2>2. RenameMember(st, id, s, name) = Announced(Changed(st, id, w), id)
    BY <1>2 DEF RenameMember
  <2> HIDE DEF old
  <2>3. Listed(renamed) /\ SessionsOf(renamed) = SessionsOf(old.members)
    <3>1. DOMAIN old.members = 1 .. Len(old.members) /\ Len(old.members) \in Nat
      BY <2>1, ListedIs
    <3> DEFINE T == {old.members[i] : i \in DOMAIN old.members} \cup {m}
    <3>2. renamed \in [1 .. Len(old.members) -> T]
      BY <3>1, Zenon
    <3>3. \A i \in DOMAIN old.members : renamed[i].session = old.members[i].session
      <4>1. m.session = s
        OBVIOUS
      <4> HIDE DEF m
      <4>2. QED
        BY <4>1, Zenon
    <3> HIDE DEF renamed, T, m
    <3>4. renamed \in Seq(T) /\ DOMAIN renamed = DOMAIN old.members
      BY <3>1, <3>2
    <3>5. Listed(renamed)
      BY <3>4, SeqListed
    <3>6. SessionsOf(renamed) = SessionsOf(old.members)
      BY <3>3, <3>4, Zenon DEF SessionsOf
    <3>7. QED
      BY <3>5, <3>6
  <2> HIDE DEF renamed
  <2>4. DOMAIN w = Fields /\ w.members = renamed /\ w.layout = old.layout
    BY <2>1 DEF Fields
  <2> HIDE DEF w
  <2>5. Sound(w)
    BY <2>1, <2>3, <2>4 DEF Sound
  <2>6. MembersIn(st, id) \ {} \subseteq ToSet(w.layout) \cup SessionsOf(w.members)
    BY <2>3, <2>4 DEF MembersIn, old
  <2>7. Gives(Announced(Changed(st, id, w), id), st, id, w, {})
    BY <1>2, <2>5, <2>6, ChangeRetains
  <2>8. QED
    BY <1>2, <2>2, <2>7 DEF Gives, Relabels
<1>3. QED
  BY <1>1, <1>2
(* A new workspace.                                                           *)
(* r is what comes of a new workspace, or of its refusal.                          *)
Makes(r, st, id, layout, members) ==
  /\ Proper(r, st) /\ (~r.ok => r.store = st)
  /\ DOMAIN st.ws \subseteq DOMAIN r.store.ws
  /\ r.ok => /\ DOMAIN r.store.ws = DOMAIN st.ws \cup {id}
            /\ MembersIn(r.store, id) = ToSet(layout) \cup SessionsOf(members)
  /\ \A o \in DOMAIN st.ws : o # id => r.store.ws[o] = st.ws[o]

LEMMA CreateIs ==
  ASSUME NEW st, StoreSound(st), NEW id, NEW name, NEW layout, Listed(layout),
         NEW members, Listed(members), NEW stream
  PROVE  Makes(Create(st, id, name, layout, members, stream), st, id, layout, members)
<1>1. CASE NameTaken(st, name, id)
  BY <1>1, RefusedIs DEF Create, Makes
<1>2. CASE ~NameTaken(st, name, id)
  <2> DEFINE w == [name |-> name, layout |-> layout, members |-> members, stream |-> stream]
             new == Reconcile(w)
             ws == Put(st.ws, id, new)
             order == Inserted(st.order, id)
             c == [st EXCEPT !.order = order, !.ws = ws]
             r == Announced(c, id)
  <2>1. Create(st, id, name, layout, members, stream) = r
    BY <1>2 DEF Create
  <2>2. Sound(w) /\ w.layout = layout /\ w.members = members
    BY DEF Sound, Fields
  <2> HIDE DEF w
  <2>3. Sound(new) /\ SessionsOf(new.members) = ToSet(layout) \cup SessionsOf(members)
    BY <2>2, ReconcileFields
  <2> HIDE DEF new
  <2>4. /\ DOMAIN ws = DOMAIN st.ws \cup {id} /\ ws[id] = new
        /\ \A o \in DOMAIN st.ws : o # id => ws[o] = st.ws[o]
    BY DEF Put
  <2>5. Listed(order) /\ ToSet(order) = ToSet(st.order) \cup {id}
    BY InsertedIs DEF StoreSound
  <2> HIDE DEF ws, order
  <2>6. DOMAIN c = StoreFields /\ c.ws = ws /\ c.order = order
    BY DEF StoreSound, StoreFields
  <2> HIDE DEF c
  <2>7. /\ DOMAIN r = {"store", "events", "ok"} /\ r.ok /\ EventsSound(r.events) /\ r.events # <<>>
        /\ DOMAIN r.store = StoreFields /\ r.store.ws = c.ws /\ r.store.order = c.order
    <3>1. Sound(c.ws[id])
      BY <2>3, <2>4, <2>6
    <3>2. QED
      BY <2>6, <3>1, AnnouncedIs
  <2> HIDE DEF r
  <2>8. StoreSound(r.store)
    <3>1. \A o \in DOMAIN r.store.ws : Sound(r.store.ws[o])
      BY <2>3, <2>4, <2>6, <2>7 DEF StoreSound
    <3>2. QED
      BY <2>4, <2>5, <2>6, <2>7, <3>1 DEF StoreSound
  <2>9. MembersIn(r.store, id) = ToSet(layout) \cup SessionsOf(members)
    BY <2>3, <2>4, <2>6, <2>7 DEF MembersIn
  <2>10. QED
    BY <2>1, <2>4, <2>6, <2>7, <2>8, <2>9 DEF Proper, Makes
<1>3. QED
  BY <1>1, <1>2

(* A move takes the session out of one workspace and puts it into another.           *)
LEMMA MoveMemberIs ==
  ASSUME NEW st, StoreSound(st), NEW from, NEW s, NEW to
  PROVE  Proper(MoveMember(st, from, s, to), st) /\ Retains(st, MoveMember(st, from, s, to).store, {s})
<1> DEFINE refused == \/ from \notin DOMAIN st.ws \/ s \notin SessionsOf(st.ws[from].members)
                      \/ to \notin DOMAIN st.ws \cup {Detached}
           out == RemoveMember(st, from, s)
           name == Suffixed(NameIn(st.ws[from].members, s), NamesOf(out.store.ws[to].members))
           into == AddMember(out.store, to, s, name)
           both == [into EXCEPT !.events = out.events \o @]
<1>1. CASE refused
  BY <1>1, RefusedIs, RetainsAll DEF MoveMember
<1>2. CASE ~refused /\ to = from
  <2>1. MoveMember(st, from, s, to) = Told(st, <<>>)
    BY <1>2 DEF MoveMember
  <2>2. Proper(Told(st, <<>>), st) /\ Told(st, <<>>).store = st
    BY EmptyListed DEF Told, Proper, EventsSound
  <2>3. QED
    BY <2>1, <2>2, RetainsAll
<1>3. /\ Proper(out, st) /\ Retains(st, out.store, {s})
      /\ from \in DOMAIN st.ws => out.events # <<>>
  <2>1. Takes(out, st, from, s)
    BY RemoveMemberIs
  <2> HIDE DEF out
  <2>2. QED
    BY <2>1 DEF Takes
<1>4. CASE ~refused /\ to # from /\ to = Detached
  <2>1. MoveMember(st, from, s, to) = out
    BY <1>4 DEF MoveMember
  <2>2. QED
    BY <1>3, <2>1
<1>5. CASE ~refused /\ to # from /\ to # Detached
  <2>1. MoveMember(st, from, s, to) = both
    BY <1>5 DEF MoveMember
  <2>2. out.events # <<>>
    BY <1>3, <1>5
  <2> HIDE DEF out, name
  <2>3. Proper(into, out.store) /\ Retains(out.store, into.store, {})
    <3>1. StoreSound(out.store)
      BY <1>3 DEF Proper
    <3>2. QED
      BY <3>1, AddMemberIs
  <2> HIDE DEF into
  <2>4. /\ DOMAIN both = {"store", "events", "ok"}
        /\ both.store = into.store /\ both.events = out.events \o into.events
    BY <2>3 DEF Proper
  <2> HIDE DEF both
  <2>5. EventsSound(both.events) /\ both.events # <<>>
    BY <1>3, <2>2, <2>3, <2>4, EventsJoined DEF Proper
  <2>6. Proper(both, st)
    BY <2>3, <2>4, <2>5 DEF Proper
  <2>7. Retains(st, both.store, {s})
    BY <1>3, <2>3, <2>4 DEF Retains
  <2>8. QED
    BY <2>1, <2>6, <2>7
<1>6. QED
  BY <1>1, <1>2, <1>4, <1>5, SMTT(30)

LEMMA DeleteIs ==
  ASSUME NEW st, StoreSound(st), NEW id
  PROVE  LET r == Delete(st, id)
         IN  /\ Proper(r, st) /\ DOMAIN r.store.ws = DOMAIN st.ws \ {id}
             /\ \A o \in DOMAIN st.ws : o # id => r.store.ws[o] = st.ws[o]
<1>1. CASE id \notin DOMAIN st.ws
  BY <1>1, RefusedIs DEF Delete
<1>2. CASE id \in DOMAIN st.ws
  <2> DEFINE order == Without(st.order, id)
             ws == [o \in DOMAIN st.ws \ {id} |-> st.ws[o]]
             e == [kind |-> "deleted", id |-> id]
             c == [st EXCEPT !.order = order, !.ws = ws]
  <2>1. Delete(st, id) = Told(c, <<e>>)
    BY <1>2 DEF Delete
  <2>2. EventSound(e)
    BY DEF EventSound
  <2> HIDE DEF e
  <2>3. EventsSound(<<e>>) /\ <<e>> # <<>>
    BY <2>2, OneListed DEF EventsSound
  <2>4. Listed(order) /\ ToSet(order) = ToSet(st.order) \ {id}
    BY WithoutIs DEF StoreSound
  <2>5. DOMAIN ws = DOMAIN st.ws \ {id} /\ \A o \in DOMAIN ws : ws[o] = st.ws[o]
    OBVIOUS
  <2> HIDE DEF ws, order
  <2>6. DOMAIN c = StoreFields /\ c.ws = ws /\ c.order = order
    BY DEF StoreSound, StoreFields
  <2> HIDE DEF c
  <2>7. StoreSound(c)
    BY <2>4, <2>5, <2>6 DEF StoreSound
  <2> DEFINE r == Told(c, <<e>>)
  <2>8. /\ DOMAIN r = {"store", "events", "ok"} /\ r.store = c /\ r.events = <<e>>
    BY DEF Told
  <2> HIDE DEF r
  <2>9. Proper(r, st)
    BY <2>3, <2>7, <2>8 DEF Proper
  <2>10. QED
    BY <2>1, <2>5, <2>6, <2>8, <2>9 DEF r
<1>3. QED
  BY <1>1, <1>2

LEMMA ReorderIs ==
  ASSUME NEW st, StoreSound(st), NEW ids, Listed(ids)
  PROVE  Proper(Reorder(st, ids), st)
<1> DEFINE refused == Len(ids) # Len(st.order) \/ ~(ToSet(ids) \subseteq ToSet(st.order))
<1>1. CASE refused
  BY <1>1, RefusedIs DEF Reorder
<1>2. CASE ~refused
  <2> DEFINE order == Once(ids)
             ws == Restrict(st.ws, ToSet(ids))
             e == [kind |-> "order", ids |-> ids]
             c == [st EXCEPT !.order = order, !.ws = ws]
  <2>1. Reorder(st, ids) = Told(c, <<e>>)
    BY <1>2 DEF Reorder
  <2>2. EventSound(e)
    BY DEF EventSound
  <2> HIDE DEF e
  <2>3. EventsSound(<<e>>) /\ <<e>> # <<>>
    BY <2>2, OneListed DEF EventsSound
  <2>4. Listed(order) /\ ToSet(order) = ToSet(ids)
    BY OnceIs
  <2>5. ToSet(ids) \subseteq DOMAIN st.ws
    BY <1>2 DEF StoreSound
  <2>6. DOMAIN ws = ToSet(ids) /\ \A o \in DOMAIN ws : ws[o] = st.ws[o]
    BY <2>5 DEF Restrict
  <2> HIDE DEF ws, order
  <2>7. DOMAIN c = StoreFields /\ c.ws = ws /\ c.order = order
    BY DEF StoreSound, StoreFields
  <2> HIDE DEF c
  <2>8. StoreSound(c)
    BY <2>4, <2>5, <2>6, <2>7 DEF StoreSound
  <2>9. QED
    BY <2>1, <2>3, <2>8 DEF Told, Proper
<1>3. QED
  BY <1>1, <1>2

(* Streams.                                                                   *)
LEMMA StreamsToldIs ==
  ASSUME NEW st, StoreSound(st), NEW events, EventsSound(events), NEW old
  PROVE  Proper(StreamsTold(st, events), old)
<1> DEFINE x == SawStreams(st)
           all == Append(events, x)
<1>1. EventSound(x)
  BY SawIs
<1> HIDE DEF x
<1>2. Listed(all) /\ Len(all) = Len(events) + 1 /\ ToSet(all) = ToSet(events) \cup {x} /\ Len(events) \in Nat
  BY AppendListed DEF EventsSound, Listed
<1> HIDE DEF all
<1>3. EventsSound(all) /\ all # <<>>
  BY <1>1, <1>2, EmptyListed DEF EventsSound
<1>4. StreamsTold(st, events) = Told(st, all)
  BY DEF StreamsTold, all, x
<1>5. QED
  BY <1>3, <1>4 DEF Told, Proper

LEMMA AddStreamIs ==
  ASSUME NEW st, StoreSound(st), NEW s
  PROVE  Proper(AddStream(st, s), st)
<1>1. CASE Contains(st.streams, s)
  BY <1>1, RefusedIs DEF AddStream
<1>2. CASE ~Contains(st.streams, s)
  <2> DEFINE a == Adopt(st, s)
  <2>1. AddStream(st, s) = StreamsTold(a, <<>>)
    BY <1>2 DEF AddStream
  <2>2. DOMAIN a = StoreFields /\ a.ws = st.ws /\ a.order = st.order
    BY AdoptIs DEF StoreSound
  <2> HIDE DEF a
  <2>3. StoreSound(a)
    BY <2>2 DEF StoreSound
  <2>4. EventsSound(<<>>)
    BY EmptyListed DEF EventsSound
  <2>5. QED
    BY <2>1, <2>3, <2>4, StreamsToldIs
<1>3. QED
  BY <1>1, <1>2

LEMMA RetagAllIs ==
  ASSUME NEW st, DOMAIN st = StoreFields, NEW from, NEW to
  PROVE  /\ DOMAIN RetagAll(st, from, to) = StoreFields /\ RetagAll(st, from, to).order = st.order
         /\ StoreSound(st) => StoreSound(RetagAll(st, from, to))
<1> DEFINE Tag(w) == IF w.stream = from THEN [w EXCEPT !.stream = to] ELSE w
           ws == [id \in DOMAIN st.ws |-> IF st.ws[id].stream = from THEN [st.ws[id] EXCEPT !.stream = to] ELSE st.ws[id]]
           c == [st EXCEPT !.ws = ws]
<1>1. RetagAll(st, from, to) = c
  BY DEF RetagAll
<1>2. DOMAIN ws = DOMAIN st.ws /\ \A id \in DOMAIN st.ws : ws[id] = Tag(st.ws[id])
  BY Zenon
<1>3. ASSUME NEW w, Sound(w) PROVE Sound(Tag(w))
  BY <1>3 DEF Sound, Fields
<1> HIDE DEF ws, Tag
<1>4. DOMAIN c = StoreFields /\ c.ws = ws /\ c.order = st.order
  BY DEF StoreFields
<1> HIDE DEF c
<1>5. StoreSound(st) => StoreSound(c)
  BY <1>2, <1>3, <1>4 DEF StoreSound
<1>6. QED
  BY <1>1, <1>4, <1>5

LEMMA RemoveStreamIs ==
  ASSUME NEW st, StoreSound(st), NEW s
  PROVE  Proper(RemoveStream(st, s), st)
<1>1. CASE ~Contains(st.streams, s)
  BY <1>1, RefusedIs DEF RemoveStream
<1>2. CASE Contains(st.streams, s)
  <2> DEFINE less == Without(st.streams, s)
             c == [st EXCEPT !.streams = less]
             done == RetagAll(c, s, Unsorted)
             tagged == Tagged(st, s)
             seen == EachSeen(done, tagged)
  <2>1. RemoveStream(st, s) = StreamsTold(done, seen)
    BY <1>2 DEF RemoveStream, Unstreamed
  <2> HIDE DEF less
  <2>2. DOMAIN c = StoreFields /\ c.ws = st.ws /\ c.order = st.order
    BY DEF StoreSound, StoreFields
  <2> HIDE DEF c
  <2>3. StoreSound(c)
    BY <2>2 DEF StoreSound
  <2>4. StoreSound(done) /\ DOMAIN done.ws = DOMAIN st.ws
    <3>1. StoreSound(done) /\ done.order = c.order
      BY <2>2, <2>3, RetagAllIs
    <3>2. QED
      BY <2>2, <3>1 DEF StoreSound
  <2> HIDE DEF done
  <2>5. Listed(tagged) /\ ToSet(tagged) \subseteq DOMAIN done.ws
    BY <2>4, KeptIs DEF Tagged, StoreSound
  <2> HIDE DEF tagged
  <2>6. EventsSound(seen)
    <3> DEFINE T == {Saw(done, tagged[i]) : i \in DOMAIN tagged}
    <3>1. DOMAIN tagged = 1 .. Len(tagged) /\ Len(tagged) \in Nat /\ \A i \in DOMAIN tagged : tagged[i] \in ToSet(tagged)
      BY <2>5, ListedIs DEF ToSet
    <3>2. seen \in [1 .. Len(tagged) -> T]
      BY <3>1, Zenon DEF EachSeen
    <3>3. \A e \in T : EventSound(e)
      <4>1. \A i \in DOMAIN tagged : Sound(done.ws[tagged[i]])
        BY <2>4, <2>5, <3>1 DEF StoreSound
      <4>2. \A i \in DOMAIN tagged : EventSound(Saw(done, tagged[i]))
        BY <4>1, SawIs
      <4>3. QED
        BY <4>2
    <3> HIDE DEF seen, T
    <3>4. seen \in Seq(T)
      BY <3>1, <3>2
    <3>5. Listed(seen) /\ DOMAIN seen = 1 .. Len(seen)
      BY <3>4, SeqListed
    <3>6. \A e \in ToSet(seen) : e \in T
      BY <3>4, <3>5 DEF ToSet
    <3>7. QED
      BY <3>3, <3>5, <3>6 DEF EventsSound
  <2> HIDE DEF seen
  <2>7. QED
    BY <2>1, <2>4, <2>6, StreamsToldIs
<1>3. QED
  BY <1>1, <1>2

(* Several removals, one after the other.                                       *)
RemovedToo(r, pair) ==
  LET one == RemoveMember(r.store, pair[1], pair[2])
  IN  Told(one.store, r.events \o one.events)

(* There is such a function: after the first i removals. *)
Removals(h, st, pairs, n) ==
  h = [i \in 0 .. n |-> IF i = 0 THEN Told(st, <<>>) ELSE RemovedToo(h[i - 1], pairs[i])]

LEMMA RemovalsExists ==
  ASSUME NEW st, NEW pairs, NEW n \in Nat
  PROVE  \E h : Removals(h, st, pairs, n)
<1> DEFINE S == {k \in 0 .. n : \E h : Removals(h, st, pairs, k)}
<1>1. 0 \in S
  <2>1. Removals([i \in 0 .. 0 |-> Told(st, <<>>)], st, pairs, 0)
    BY DEF Removals
  <2>2. QED
    BY <2>1
<1>2. ASSUME NEW k \in 0 .. n, k + 1 \in 0 .. n, k \in S
      PROVE  k + 1 \in S
  <2>1. PICK h : Removals(h, st, pairs, k)
    BY <1>2
  <2> DEFINE g == [i \in 0 .. k + 1 |-> IF i = k + 1 THEN RemovedToo(h[k], pairs[k + 1]) ELSE h[i]]
  <2>2. ASSUME NEW i \in 0 .. k + 1
        PROVE  g[i] = IF i = 0 THEN Told(st, <<>>) ELSE RemovedToo(g[i - 1], pairs[i])
    <3>1. CASE i = k + 1
      <4>1. g[i] = RemovedToo(h[k], pairs[k + 1]) /\ g[i - 1] = h[k] /\ i # 0
        BY <3>1
      <4>2. k + 1 = i
        BY <3>1
      <4>3. QED
        BY <4>1, <4>2
    <3>2. CASE i # k + 1 /\ i # 0
      <4>1. g[i] = h[i] /\ g[i - 1] = h[i - 1] /\ i \in 0 .. k
        BY <3>2
      <4>2. h[i] = RemovedToo(h[i - 1], pairs[i])
        BY <2>1, <3>2, <4>1 DEF Removals
      <4>3. QED
        BY <3>2, <4>1, <4>2
    <3>3. CASE i # k + 1 /\ i = 0
      <4>1. g[i] = h[i] /\ 0 \in 0 .. k
        BY <3>3
      <4>2. h[0] = Told(st, <<>>)
        BY <2>1, <4>1 DEF Removals
      <4>3. QED
        BY <3>3, <4>1, <4>2
    <3>4. QED
      BY <3>1, <3>2, <3>3
  <2>3. g = [i \in 0 .. k + 1 |-> g[i]]
    OBVIOUS
  <2> HIDE DEF g
  <2>4. Removals(g, st, pairs, k + 1)
    BY <2>2, <2>3 DEF Removals
  <2>5. QED
    BY <1>2, <2>4
<1> HIDE DEF S
<1>3. n \in S
  BY <1>1, <1>2, CountingUp
<1>4. QED
  BY <1>3 DEF S

(* What they have in common: what they do to the store since st is told.              *)
LEMMA RemovedTooIs ==
  ASSUME NEW st, NEW r, Proper(r, st), NEW pair, NEW X, Retains(st, r.store, X), pair[2] \in X
  PROVE  Proper(RemovedToo(r, pair), st) /\ Retains(st, RemovedToo(r, pair).store, X)
<1> DEFINE one == RemoveMember(r.store, pair[1], pair[2])
           all == r.events \o one.events
<1>1. StoreSound(r.store)
  BY DEF Proper
<1>2. Proper(one, r.store) /\ Retains(r.store, one.store, {pair[2]})
  BY <1>1, RemoveMemberIs DEF Takes
<1>3. RemovedToo(r, pair) = Told(one.store, all)
  BY DEF RemovedToo
<1> HIDE DEF one
<1>4. EventsSound(all) /\ (r.events # <<>> \/ one.events # <<>> => all # <<>>)
  BY <1>2, EventsJoined DEF Proper
<1> HIDE DEF all
<1>5. Proper(Told(one.store, all), st)
  BY <1>2, <1>4 DEF Told, Proper
<1>6. Retains(st, one.store, X)
  BY <1>2 DEF Retains
<1>7. QED
  BY <1>3, <1>5, <1>6 DEF Told

LEMMA RemoveEachIs ==
  ASSUME NEW st, StoreSound(st), NEW pairs, Listed(pairs), NEW X, \A i \in 1 .. Len(pairs) : pairs[i][2] \in X
  PROVE  Proper(RemoveEach(st, pairs), st) /\ Retains(st, RemoveEach(st, pairs).store, X)
<1> DEFINE n == Len(pairs)
           F == CHOOSE h : Removals(h, st, pairs, n)
           S == {i \in 0 .. n : Proper(F[i], st) /\ Retains(st, F[i].store, X)}
<1>1. n \in Nat
  BY DEF Listed
<1>2. Removals(F, st, pairs, n)
  BY <1>1, RemovalsExists
<1>3. RemoveEach(st, pairs) = F[n]
  BY DEF RemoveEach, Removals, RemovedToo
<1>4. \A i \in 1 .. n : pairs[i][2] \in X
  OBVIOUS
<1> HIDE DEF F, n
<1>5. F[0] = Told(st, <<>>)
  BY <1>1, <1>2 DEF Removals
<1>6. 0 \in S
  <2>1. Proper(Told(st, <<>>), st) /\ Told(st, <<>>).store = st
    BY EmptyListed DEF Told, Proper, EventsSound
  <2>2. QED
    BY <1>1, <1>5, <2>1, RetainsAll
<1>7. ASSUME NEW i \in 0 .. n, i + 1 \in 0 .. n, i \in S PROVE i + 1 \in S
  <2>1. F[i + 1] = RemovedToo(F[i], pairs[i + 1])
    <3>1. i + 1 # 0 /\ i + 1 - 1 = i
      BY <1>7
    <3>2. F[i + 1] = RemovedToo(F[i + 1 - 1], pairs[i + 1])
      BY <1>2, <1>7, <3>1 DEF Removals
    <3>3. QED
      BY <3>1, <3>2
  <2>2. Proper(F[i], st) /\ Retains(st, F[i].store, X)
    BY <1>7
  <2>3. pairs[i + 1][2] \in X
    <3>1. i + 1 \in 1 .. n
      BY <1>1, <1>7
    <3>2. QED
      BY <1>4, <3>1
  <2>4. Proper(F[i + 1], st) /\ Retains(st, F[i + 1].store, X)
    BY <2>1, <2>2, <2>3, RemovedTooIs
  <2>5. QED
    BY <1>7, <2>4
<1> HIDE DEF S
<1>8. n \in S
  <2>1. \A i \in 0 .. n : i + 1 \in 0 .. n /\ i \in S => i + 1 \in S
    BY <1>7
  <2>2. \A i \in 0 .. n : i \in S
    BY <1>1, <1>6, <2>1, CountingUp, Zenon
  <2>3. QED
    BY <1>1, <2>2
<1>9. QED
  BY <1>3, <1>8 DEF S

LEMMA RemoveEverywhereIs ==
  ASSUME NEW st, StoreSound(st), NEW s
  PROVE  Proper(RemoveEverywhere(st, s), st) /\ Retains(st, RemoveEverywhere(st, s).store, {s})
<1> DEFINE homes == Kept(st.order, HomesOf(st, s))
           pairs == [i \in DOMAIN homes |-> <<homes[i], s>>]
           T == {<<homes[i], s>> : i \in DOMAIN homes}
<1>1. RemoveEverywhere(st, s) = RemoveEach(st, pairs)
  BY DEF RemoveEverywhere
<1>2. Listed(homes)
  BY KeptIs DEF StoreSound
<1> HIDE DEF homes
<1>3. DOMAIN homes = 1 .. Len(homes) /\ Len(homes) \in Nat
  BY <1>2, ListedIs
<1>4. pairs \in [1 .. Len(homes) -> T]
  BY <1>3, Zenon
<1>5. \A x \in T : x[2] = s
  OBVIOUS
<1> HIDE DEF pairs, T
<1>6. pairs \in Seq(T)
  BY <1>3, <1>4
<1>7. Listed(pairs) /\ \A i \in 1 .. Len(pairs) : pairs[i][2] \in {s}
  <2>1. Listed(pairs)
    BY <1>6, SeqListed
  <2>2. \A i \in 1 .. Len(pairs) : pairs[i] \in T
    BY <1>6
  <2>3. QED
    BY <1>5, <2>1, <2>2
<1>8. QED
  BY <1>1, <1>7, RemoveEachIs
-----------------------------------------------------------------------------
(* Panels.  What a panel reaches are the members of the site.                     *)
LEMMA ReachIs ==
  ASSUME NEW st, StoreSound(st)
  PROVE  /\ Listed(TabsIn(st))
         /\ Site \in DOMAIN st.ws => Reach(st) = MembersIn(st, Site)
         /\ Site \notin DOMAIN st.ws => Reach(st) = {}
         /\ IsFiniteSet(Reach(st)) /\ Cardinality(Reach(st)) <= Len(TabsIn(st))
<1> DEFINE tabs == TabsIn(st)
           n == Len(tabs)
           f == [i \in 1 .. n |-> tabs[i].session]
<1>1. Listed(tabs)
  BY EmptyListed DEF TabsIn, StoreSound, Sound
<1>2. Site \in DOMAIN st.ws => Reach(st) = MembersIn(st, Site)
  BY DEF Reach, TabsIn, MembersIn
<1>3. Site \notin DOMAIN st.ws => Reach(st) = {}
  <2>1. SessionsOf(<<>>) = {}
    BY DEF SessionsOf
  <2>2. QED
    BY <2>1 DEF Reach, TabsIn
<1>4. Reach(st) = SessionsOf(tabs)
  BY DEF Reach
<1> HIDE DEF tabs
<1>5. DOMAIN tabs = 1 .. n /\ n \in Nat
  BY <1>1, ListedIs
<1>6. SessionsOf(tabs) = {tabs[i].session : i \in 1 .. n}
  BY <1>5 DEF SessionsOf
<1> HIDE DEF n
<1>7. f \in Surjection(1 .. n, SessionsOf(tabs))
  BY <1>6 DEF Surjection
<1> HIDE DEF f
<1>8. IsFiniteSet(1 .. n) /\ Cardinality(1 .. n) = n
  <2>1. 1 \in Int /\ n \in Int /\ (1 > n => n = 0) /\ n - 1 + 1 = n
    BY <1>5
  <2>2. QED
    BY <2>1, FS_Interval
<1>9. IsFiniteSet(SessionsOf(tabs)) /\ Cardinality(SessionsOf(tabs)) <= Cardinality(1 .. n)
  BY <1>7, <1>8, FS_Surjection
<1>10. QED
  BY <1>1, <1>2, <1>3, <1>4, <1>8, <1>9 DEF tabs, n

LEMMA ReachRetained ==
  ASSUME NEW st, StoreSound(st), NEW to, StoreSound(to), NEW X, Retains(st, to, X)
  PROVE  Reach(st) \ X \subseteq Reach(to)
<1>1. CASE Site \in DOMAIN st.ws
  <2>1. Site \in DOMAIN to.ws /\ MembersIn(st, Site) \ X \subseteq MembersIn(to, Site)
    BY <1>1 DEF Retains
  <2>2. QED
    BY <1>1, <2>1, ReachIs
<1>2. CASE Site \notin DOMAIN st.ws
  BY <1>2, ReachIs
<1>3. QED
  BY <1>1, <1>2

(* What the sockets are attached to is in reach.  It takes that the store is sound and     *)
(* that no operation changes it without an event.                               *)
DeskSound ==
  /\ StoreSound(desk) /\ watches = [p \in Panels |-> watches[p]] /\ ReachIsCurrent

LEMMA ChangesKeep ==
  ASSUME DeskSound, NEW result, Proper(result, desk), Changes(result)
  PROVE  DeskSound'
<1>1. StoreSound(result.store) /\ (result.events = <<>> => result.store = desk) /\ desk' = result.store
  BY DEF Proper, Changes
<1>2. CASE result.events = <<>>
  <2>1. watches' = watches /\ desk' = desk
    BY <1>1, <1>2 DEF Changes, Revalidated
  <2>2. Reach(desk)' = Reach(desk)
    BY <2>1
  <2>3. StoreSound(desk')
    BY <1>1
  <2>4. QED
    BY <2>1, <2>2, <2>3 DEF DeskSound, ReachIsCurrent
<1>3. CASE result.events # <<>>
  <2>1. watches' = [p \in Panels |-> watches[p] \cap Reach(desk')]
    BY <1>1, <1>3 DEF Changes, Revalidated
  <2>2. \A p \in Panels : watches'[p] \subseteq Reach(desk')
    BY <2>1
  <2>3. watches' = [p \in Panels |-> watches'[p]]
    BY <2>1
  <2>4. QED
    BY <1>1, <2>2, <2>3 DEF DeskSound, ReachIsCurrent
<1>4. QED
  BY <1>2, <1>3

(* The running shells that panels have to answer for.                             *)
Running == {s \in mine : shell[s] = "running"}

RequestFields == {"op", "writes", "sid", "name", "had"}

(* A request that waits for its session: it is the first in the queue, so nobody else     *)
(* has put the site there, or filled it, meanwhile.                             *)
Waiting(r) ==
  /\ r.sid \in Shells /\ shell[r.sid] = "starting"
  /\ ~r.had => Site \notin DOMAIN desk.ws
  /\ r.sid \in mine => /\ r.had => Site \in DOMAIN desk.ws
                       /\ Cardinality(Running) < MaxTabs

QueueSound ==
  /\ Listed(inTurn)
  /\ \A i \in 1 .. Len(inTurn) :
       /\ DOMAIN inTurn[i] = RequestFields
       /\ inTurn[i].op = "starting" => i = 1 /\ Waiting(inTurn[i])

(* TabsWithinLimit is not inductive: that a shell runs says nothing of how many may, unless   *)
(* it is known to be a tab, and a shell that starts to have been counted.            *)
PanelsInv ==
  /\ DeskSound /\ QueueSound
  /\ shell = [s \in Shells |-> shell[s]] /\ mine \subseteq Shells
  /\ Running \subseteq Reach(desk)
  /\ TabsWithinLimit

LEMMA WithinReach ==
  ASSUME NEW st, StoreSound(st), NEW S, S \subseteq Reach(st)
  PROVE  /\ IsFiniteSet(S) /\ Cardinality(S) \in Nat
         /\ Cardinality(S) <= Len(TabsIn(st)) /\ Len(TabsIn(st)) \in Nat
<1>1. IsFiniteSet(Reach(st)) /\ Cardinality(Reach(st)) <= Len(TabsIn(st)) /\ Listed(TabsIn(st))
  BY ReachIs
<1>2. IsFiniteSet(S) /\ Cardinality(S) <= Cardinality(Reach(st))
  BY <1>1, FS_Subset
<1>3. Cardinality(S) \in Nat /\ Cardinality(Reach(st)) \in Nat
  BY <1>1, <1>2, FS_CardinalityType
<1>4. Len(TabsIn(st)) \in Nat
  BY <1>1, ListedIs
<1>5. QED
  BY <1>1, <1>2, <1>3, <1>4

(* The jobs.                                                                  *)
JobGood(job) ==
  /\ DOMAIN job = {"result", "ended"} /\ Proper(job.result, desk)
  /\ \A s \in Running : s \notin job.ended => s \in Reach(job.result.store)

LEMMA ThenIs ==
  ASSUME NEW st, NEW a, Proper(a, st), NEW b, Proper(b, a.store)
  PROVE  Proper(Then(a, b), st) /\ Then(a, b).store = b.store
<1> DEFINE t == [b EXCEPT !.events = a.events \o b.events]
<1>1. Then(a, b) = t
  BY DEF Then
<1>2. DOMAIN t = {"store", "events", "ok"} /\ t.store = b.store /\ t.events = a.events \o b.events
  BY DEF Proper
<1> HIDE DEF t
<1>3. EventsSound(t.events) /\ (t.events = <<>> => a.events = <<>> /\ b.events = <<>>)
  BY <1>2, EventsJoined DEF Proper
<1>4. Proper(t, st)
  BY <1>2, <1>3 DEF Proper
<1>5. QED
  BY <1>1, <1>2, <1>4

LEMMA JobIs ==
  ASSUME PanelsInv
  PROVE  JobGood(Job) /\ Job.ended = {} /\ Job.result.store = desk
<1>1. Proper(Told(desk, <<>>), desk) /\ Told(desk, <<>>).store = desk
  BY EmptyListed DEF Told, Proper, EventsSound, PanelsInv, DeskSound
<1>2. DOMAIN Job = {"result", "ended"} /\ Job.result = Told(desk, <<>>) /\ Job.ended = {}
  BY DEF Job
<1>3. QED
  BY <1>1, <1>2 DEF JobGood, PanelsInv

LEMMA PrunedGood ==
  ASSUME PanelsInv, NEW job, JobGood(job)
  PROVE  JobGood(Pruned(job))
<1> DEFINE st == job.result.store
           X == {s \in Reach(st) : shell[s] # "running" \/ s \in job.ended}
           gone == MembersOf(TabsIn(st), X)
           pairs == [i \in DOMAIN gone |-> <<Site, gone[i].session>>]
           T == {<<Site, gone[i].session>> : i \in DOMAIN gone}
           each == RemoveEach(st, pairs)
           p == [job EXCEPT !.result = Then(job.result, each)]
<1>1. Pruned(job) = p
  BY DEF Pruned
<1>2. StoreSound(st) /\ Proper(job.result, desk) /\ DOMAIN job = {"result", "ended"}
  BY DEF JobGood, Proper
<1> HIDE DEF st, X
<1>3. Listed(gone) /\ SessionsOf(gone) = Reach(st) \cap X
  <2>1. Listed(TabsIn(st)) /\ Reach(st) = SessionsOf(TabsIn(st))
    BY <1>2, ReachIs DEF Reach
  <2>2. QED
    BY <2>1, MembersOfIs
<1> HIDE DEF gone
<1>4. DOMAIN gone = 1 .. Len(gone) /\ Len(gone) \in Nat
  BY <1>3, ListedIs
<1>5. pairs \in [1 .. Len(gone) -> T]
  BY <1>4, Zenon
<1>6. \A x \in T : x[2] \in X
  <2>1. \A i \in DOMAIN gone : gone[i].session \in X
    BY <1>3 DEF SessionsOf
  <2>2. QED
    BY <2>1
<1> HIDE DEF pairs, T
<1>7. pairs \in Seq(T)
  BY <1>4, <1>5
<1>8. Listed(pairs) /\ \A i \in 1 .. Len(pairs) : pairs[i][2] \in X
  <2>1. Listed(pairs)
    BY <1>7, SeqListed
  <2>2. \A i \in 1 .. Len(pairs) : pairs[i] \in T
    BY <1>7
  <2>3. QED
    BY <1>6, <2>1, <2>2
<1>9. Proper(each, st) /\ Retains(st, each.store, X)
  BY <1>2, <1>8, RemoveEachIs
<1> HIDE DEF each
<1>10. Proper(Then(job.result, each), desk) /\ Then(job.result, each).store = each.store
  BY <1>2, <1>9, ThenIs DEF st
<1>11. DOMAIN p = {"result", "ended"} /\ p.result = Then(job.result, each) /\ p.ended = job.ended
  BY <1>2
<1> HIDE DEF p
<1>12. Reach(st) \ X \subseteq Reach(each.store)
  BY <1>2, <1>9, ReachRetained DEF Proper
<1>13. ASSUME NEW s \in Running, s \notin job.ended PROVE s \in Reach(p.result.store)
  <2>1. s \in Reach(st) /\ s \notin X
    BY <1>13, SMTT(30) DEF JobGood, st, X, Running
  <2>2. QED
    BY <1>10, <1>11, <1>12, <2>1
<1>14. QED
  BY <1>1, <1>10, <1>11, <1>13 DEF JobGood

(* The request at the head has been answered.                                   *)
LEMMA TailSound ==
  ASSUME Listed(inTurn), 1 \in DOMAIN inTurn
  PROVE  /\ Listed(RemoveAt(inTurn, 1)) /\ Len(inTurn) \in Nat /\ 1 <= Len(inTurn)
         /\ Len(RemoveAt(inTurn, 1)) = Len(inTurn) - 1
         /\ \A i \in 1 .. Len(inTurn) - 1 : RemoveAt(inTurn, 1)[i] = inTurn[i + 1]
<1> DEFINE T == ToSet(inTurn)
           n == Len(inTurn)
           front == SubSeq(inTurn, 1, 1 - 1)
           back == SubSeq(inTurn, 1 + 1, n)
<1>1. n \in Nat /\ inTurn \in Seq(T) /\ DOMAIN inTurn = 1 .. n
  BY ListedIs
<1>2. 1 <= n
  BY <1>1
<1>3. front = <<>>
  BY <1>1
<1>4. back \in Seq(T) /\ Len(back) = n - 1
  BY <1>1, <1>2
<1>5. \A i \in 1 .. n - 1 : back[i] = inTurn[i + 1]
  BY <1>1, <1>2
<1>6. RemoveAt(inTurn, 1) = front \o back
  BY DEF RemoveAt
<1> HIDE DEF back, front
<1>7. Listed(back)
  BY <1>4, SeqListed
<1>8. front \o back = back
  BY <1>3, <1>4
<1>9. QED
  BY <1>1, <1>2, <1>4, <1>5, <1>6, <1>7, <1>8

LEMMA QueueShorter ==
  ASSUME QueueSound, 1 \in DOMAIN inTurn, inTurn' = RemoveAt(inTurn, 1)
  PROVE  QueueSound' /\ \A i \in 1 .. Len(inTurn') : inTurn'[i].op # "starting"
<1>1. Listed(inTurn)
  BY DEF QueueSound
<1>2. /\ Listed(inTurn') /\ Len(inTurn) \in Nat /\ 1 <= Len(inTurn)
      /\ Len(inTurn') = Len(inTurn) - 1
      /\ \A i \in 1 .. Len(inTurn) - 1 : inTurn'[i] = inTurn[i + 1]
  BY <1>1, TailSound
<1>3. ASSUME NEW i \in 1 .. Len(inTurn')
      PROVE  DOMAIN inTurn'[i] = RequestFields /\ inTurn'[i].op # "starting"
  <2>1. i + 1 \in 1 .. Len(inTurn) /\ i + 1 # 1 /\ inTurn'[i] = inTurn[i + 1]
    BY <1>2
  <2>2. QED
    BY <2>1 DEF QueueSound
<1>4. QED
  BY <1>2, <1>3 DEF QueueSound

(* What an answer, or the start of a session, keeps of the running shells.             *)
LEMMA RunningLeft ==
  ASSUME PanelsInv, NEW job, JobGood(job), Changes(job.result),
         \A s \in Running' : s \in Running /\ s \notin job.ended
  PROVE  /\ DeskSound' /\ Running' \subseteq Running /\ Running' \subseteq Reach(desk')
         /\ TabsWithinLimit' /\ Cardinality(Running') <= Len(TabsIn(desk')) /\ Len(TabsIn(desk')) \in Nat
         /\ Cardinality(Running') \in Nat
<1>1. DeskSound' /\ desk' = job.result.store
  BY ChangesKeep DEF PanelsInv, JobGood, Changes
<1>2. Running' \subseteq Reach(desk')
  BY <1>1 DEF JobGood
<1>3. /\ IsFiniteSet(Running') /\ Cardinality(Running') \in Nat
      /\ Cardinality(Running') <= Len(TabsIn(desk')) /\ Len(TabsIn(desk')) \in Nat
  <2>1. StoreSound(desk')
    BY <1>1 DEF DeskSound
  <2>2. QED
    BY <1>2, <2>1, WithinReach
<1>4. Cardinality(Running') <= MaxTabs
  <2>1. IsFiniteSet(Running) /\ Cardinality(Running) \in Nat /\ Cardinality(Running) <= MaxTabs
    BY WithinReach DEF PanelsInv, DeskSound, TabsWithinLimit, Running
  <2>2. Cardinality(Running') <= Cardinality(Running)
    BY <2>1, FS_Subset
  <2>3. QED
    BY <1>3, <2>1, <2>2, PanelAssumption
<1>5. QED
  BY <1>1, <1>2, <1>3, <1>4 DEF TabsWithinLimit, Running

LEMMA AnswerKeeps ==
  ASSUME PanelsInv, 1 \in DOMAIN inTurn, NEW job, JobGood(job), Replies(1, job)
  PROVE  PanelsInv'
<1>1. /\ Changes(job.result) /\ inTurn' = RemoveAt(inTurn, 1) /\ mine' = mine \ job.ended
      /\ shell' = [s \in Shells |-> IF s \in job.ended THEN "ended" ELSE shell[s]]
  BY DEF Replies
<1>2. QueueSound'
  BY <1>1, QueueShorter DEF PanelsInv
<1>3. ASSUME NEW s \in Running' PROVE s \in Running /\ s \notin job.ended
  <2>1. s \in mine /\ s \notin job.ended /\ s \in Shells /\ shell'[s] = "running"
    BY <1>1, <1>3 DEF Running, PanelsInv
  <2>2. shell[s] = "running"
    BY <1>1, <2>1
  <2>3. QED
    BY <2>1, <2>2 DEF Running
<1>4. DeskSound' /\ Running' \subseteq Reach(desk') /\ TabsWithinLimit'
  BY <1>1, <1>3, RunningLeft
<1>5. (shell = [s \in Shells |-> shell[s]])' /\ mine' \subseteq Shells
  BY <1>1 DEF PanelsInv
<1>6. QED
  BY <1>2, <1>4, <1>5 DEF PanelsInv

LEMMA StartKeeps ==
  ASSUME PanelsInv, 1 \in DOMAIN inTurn, NEW job, JobGood(job), ~Full(job), NEW name, Begins(1, job, name)
  PROVE  PanelsInv'
<1> DEFINE had == Site \in DOMAIN job.result.store.ws
<1>1. PICK s \in Shells :
         /\ shell[s] = "new" /\ Changes(job.result)
         /\ inTurn' = [inTurn EXCEPT ![1] = [@ EXCEPT !.op = "starting", !.sid = s, !.name = name, !.had = had]]
         /\ shell' = [[t \in Shells |-> IF t \in job.ended THEN "ended" ELSE shell[t]] EXCEPT ![s] = "starting"]
         /\ mine' = (mine \ job.ended) \cup {s}
  BY DEF Begins
<1> DEFINE r == [inTurn[1] EXCEPT !.op = "starting", !.sid = s, !.name = name, !.had = had]
<1>2. shell'[s] = "starting" /\ \A t \in Shells : t # s => shell'[t] = IF t \in job.ended THEN "ended" ELSE shell[t]
  BY <1>1
<1>3. ASSUME NEW t \in Running' PROVE t \in Running /\ t \notin job.ended
  <2>1. t \in mine' /\ shell'[t] = "running" /\ t # s
    BY <1>2, <1>3 DEF Running
  <2>2. t \in mine /\ t \notin job.ended /\ t \in Shells
    BY <1>1, <2>1 DEF PanelsInv
  <2>3. shell[t] = "running"
    BY <1>2, <2>1, <2>2
  <2>4. QED
    BY <2>2, <2>3 DEF Running
<1>4. /\ DeskSound' /\ Running' \subseteq Reach(desk') /\ TabsWithinLimit'
      /\ Cardinality(Running') <= Len(TabsIn(desk')) /\ Len(TabsIn(desk')) \in Nat
      /\ Cardinality(Running') \in Nat
  BY <1>1, <1>3, RunningLeft
<1>5. desk' = job.result.store
  BY <1>1 DEF Changes
<1>6. Cardinality(Running') < MaxTabs
  <2>1. ~(Len(TabsIn(desk')) >= MaxTabs)
    BY <1>5 DEF Full
  <2>2. QED
    BY <1>4, <2>1, PanelAssumption
<1>7. Listed(inTurn) /\ DOMAIN inTurn = 1 .. Len(inTurn) /\ Len(inTurn) \in Nat /\ DOMAIN inTurn[1] = RequestFields
  BY ListedIs DEF PanelsInv, QueueSound
<1>8. DOMAIN r = RequestFields /\ r.sid = s /\ r.had = had /\ r.op = "starting"
  BY <1>7 DEF RequestFields
<1>9. inTurn' = [inTurn EXCEPT ![1] = r]
  BY <1>1
<1> HIDE DEF r
<1>10. Listed(inTurn') /\ Len(inTurn') = Len(inTurn) /\ inTurn'[1] = r /\ \A i \in 1 .. Len(inTurn) : i # 1 => inTurn'[i] = inTurn[i]
  <2> DEFINE q == [inTurn EXCEPT ![1] = r]
             T == ToSet(inTurn) \cup {r}
  <2>1. inTurn \in Seq(T)
    <3>1. \A i \in 1 .. Len(inTurn) : inTurn[i] \in T
      BY <1>7 DEF ToSet
    <3>2. QED
      BY <1>7, <3>1, ListedSeq
  <2>2. r \in T
    OBVIOUS
  <2> HIDE DEF T
  <2>3. q \in Seq(T) /\ Len(q) = Len(inTurn) /\ q[1] = r /\ \A i \in 1 .. Len(inTurn) : i # 1 => q[i] = inTurn[i]
    BY <1>7, <2>1, <2>2
  <2> HIDE DEF q
  <2>4. Listed(q)
    BY <2>3, SeqListed
  <2>5. QED
    BY <1>9, <2>3, <2>4 DEF q
<1>11. Waiting(inTurn[1])'
  <2>1. inTurn'[1].sid = s /\ inTurn'[1].had = (Site \in DOMAIN desk'.ws)
    BY <1>5, <1>8, <1>10
  <2>2. shell'[inTurn'[1].sid] = "starting" /\ inTurn'[1].sid \in Shells
    BY <1>2, <2>1
  <2>3. QED
    BY <1>6, <2>1, <2>2 DEF Waiting, Running
<1>12. QueueSound'
  <2>1. ASSUME NEW i \in 1 .. Len(inTurn'), i # 1
        PROVE  DOMAIN inTurn'[i] = RequestFields /\ inTurn'[i].op # "starting"
    BY <1>10, <2>1 DEF PanelsInv, QueueSound
  <2>2. QED
    BY <1>8, <1>10, <1>11, <2>1 DEF QueueSound
<1>13. (shell = [t \in Shells |-> shell[t]])' /\ mine' \subseteq Shells
  BY <1>1 DEF PanelsInv
<1>14. QED
  BY <1>4, <1>12, <1>13 DEF PanelsInv

LEMMA CreatesTabKeeps ==
  ASSUME PanelsInv, 1 \in DOMAIN inTurn, NEW job, JobGood(job), NEW name, CreatesTab(1, job, name)
  PROVE  PanelsInv'
<1>1. CASE Full(job) \/ name \in NamesOf(TabsIn(job.result.store))
  <2>1. Replies(1, job)
    BY <1>1 DEF CreatesTab
  <2>2. QED
    BY <2>1, AnswerKeeps
<1>2. CASE ~(Full(job) \/ name \in NamesOf(TabsIn(job.result.store)))
  <2>1. Begins(1, job, name) /\ ~Full(job)
    BY <1>2 DEF CreatesTab
  <2>2. QED
    BY <2>1, StartKeeps
<1>3. QED
  BY <1>1, <1>2

LEMMA ListsTabsKeeps ==
  ASSUME PanelsInv, 1 \in DOMAIN inTurn, NEW job, JobGood(job), ListsTabs(1, job)
  PROVE  PanelsInv'
<1> DEFINE left == Pruned(job)
<1>1. JobGood(left)
  BY PrunedGood
<1>2. \/ CreatesTab(1, left, FreeName(left))
      \/ Replies(1, left)
  BY DEF ListsTabs
<1> HIDE DEF left
<1>3. QED
  BY <1>1, <1>2, CreatesTabKeeps, AnswerKeeps
(* The session that was asked for is placed, or ends.                             *)
LEMMA TabStartKeeps ==
  ASSUME PanelsInv, 1 \in DOMAIN inTurn, TabStarts(1)
  PROVE  PanelsInv'
<1> DEFINE r == inTurn[1]
           s == r.sid
           placed == Placed(1)
           over == EndsUnplaced(1)
<1>1. /\ r.op = "starting" /\ Changes(placed) /\ inTurn' = RemoveAt(inTurn, 1)
      /\ shell' = [shell EXCEPT ![s] = IF over = {} THEN "running" ELSE "ended"]
      /\ mine' = mine \ over
  BY DEF TabStarts
<1>2. QueueSound'
  BY <1>1, QueueShorter DEF PanelsInv
<1>3. Waiting(r)
  <2>1. 1 \in 1 .. Len(inTurn)
    BY ListedIs DEF PanelsInv, QueueSound
  <2>2. QED
    BY <1>1, <2>1 DEF PanelsInv, QueueSound
<1>4. over = IF placed.ok \/ (r.had /\ Site \notin DOMAIN desk.ws) THEN {} ELSE {s}
  BY DEF EndsUnplaced
<1>5. StoreSound(desk)
  BY DEF PanelsInv, DeskSound
<1>6. Proper(placed, desk) /\ Running \subseteq Reach(placed.store) /\ (placed.ok => s \in Reach(placed.store))
  <2>1. CASE r.had
    <3> DEFINE add == AddMember(desk, Site, s, r.name)
    <3>1. placed = add
      BY <2>1 DEF Placed
    <3>2. /\ Proper(add, desk) /\ Retains(desk, add.store, {})
          /\ add.ok => Site \in DOMAIN add.store.ws /\ s \in MembersIn(add.store, Site)
      BY <1>5, AddMemberIs
    <3> HIDE DEF add
    <3>3. StoreSound(add.store)
      BY <3>2 DEF Proper
    <3>4. Reach(desk) \ {} \subseteq Reach(add.store)
      BY <1>5, <3>2, <3>3, ReachRetained
    <3>5. add.ok => s \in Reach(add.store)
      BY <3>2, <3>3, ReachIs
    <3> HIDE DEF placed, r, s
    <3>6. QED
      BY <3>1, <3>2, <3>4, <3>5 DEF PanelsInv
  <2>2. CASE ~r.had
    <3> DEFINE m == [session |-> s, name |-> r.name]
               new == Create(desk, Site, <<Site>>, <<s>>, <<m>>, Unsorted)
    <3>1. placed = new
      BY <2>2 DEF Placed
    <3>2. Running = {}
      BY <1>3, <1>5, <2>2, ReachIs DEF Waiting, PanelsInv
    <3> HIDE DEF m, s, r, placed
    <3>3. Listed(<<s>>) /\ ToSet(<<s>>) = {s} /\ Listed(<<m>>)
      BY OneListed
    <3>4. /\ Proper(new, desk)
          /\ new.ok => DOMAIN new.store.ws = DOMAIN desk.ws \cup {Site} /\ s \in MembersIn(new.store, Site)
      <4> DEFINE A == <<s>>
                 B == <<m>>
                 c == Create(desk, Site, <<Site>>, A, B, Unsorted)
      <4> HIDE DEF A, B
      <4>1. Listed(A) /\ Listed(B) /\ ToSet(A) = {s}
        BY <3>3 DEF A, B
      <4>2. /\ Proper(c, desk)
            /\ c.ok => /\ DOMAIN c.store.ws = DOMAIN desk.ws \cup {Site}
                       /\ MembersIn(c.store, Site) = ToSet(A) \cup SessionsOf(B)
        <5>1. Makes(c, desk, Site, A, B)
          BY <1>5, <4>1, CreateIs
        <5> HIDE DEF c
        <5>2. QED
          BY <5>1 DEF Makes
      <4> HIDE DEF c
      <4>3. new = c
        BY DEF c, A, B
      <4>4. QED
        BY <4>1, <4>2, <4>3
    <3> HIDE DEF new
    <3>5. StoreSound(new.store)
      BY <3>4 DEF Proper
    <3>6. new.ok => s \in Reach(new.store)
      BY <3>4, <3>5, ReachIs
    <3>7. QED
      BY <3>1, <3>2, <3>4, <3>6
  <2>3. QED
    BY <2>1, <2>2
<1> HIDE DEF placed, over, r
<1>7. DeskSound' /\ desk' = placed.store
  BY <1>1, <1>6, ChangesKeep DEF PanelsInv, Changes
<1>8. s \in Shells /\ shell = [t \in Shells |-> shell[t]] /\ mine \subseteq Shells
  BY <1>3 DEF Waiting, PanelsInv
<1>9. /\ DOMAIN shell' = Shells /\ shell' = [t \in Shells |-> shell'[t]]
      /\ shell'[s] = IF over = {} THEN "running" ELSE "ended"
      /\ \A t \in Shells : t # s => shell'[t] = shell[t]
  <2> DEFINE f == [shell EXCEPT ![s] = IF over = {} THEN "running" ELSE "ended"]
  <2>1. DOMAIN f = Shells /\ f = [t \in Shells |-> f[t]] /\ f[s] = (IF over = {} THEN "running" ELSE "ended")
        /\ \A t \in Shells : t # s => f[t] = shell[t]
    BY <1>8
  <2> HIDE DEF f
  <2>2. shell' = f
    BY <1>1 DEF f
  <2>3. QED
    BY <2>1, <2>2
<1>10. ASSUME NEW t \in Running', t # s PROVE t \in Running
  <2>1. t \in mine /\ t \in Shells /\ shell'[t] = "running"
    BY <1>1, <1>8, <1>10 DEF Running
  <2>2. QED
    BY <1>9, <1>10, <2>1 DEF Running
<1>11. ASSUME s \in Running' PROVE s \in mine /\ placed.ok
  <2>1. s \in mine /\ shell'[s] = "running"
    BY <1>1, <1>11 DEF Running
  <2>2. over = {}
    BY <1>9, <2>1
  <2>3. ~(r.had /\ Site \notin DOMAIN desk.ws)
    BY <1>3, <2>1 DEF Waiting
  <2>4. QED
    BY <1>4, <2>1, <2>2, <2>3
<1>12. Running' \subseteq Reach(desk')
  BY <1>6, <1>7, <1>10, <1>11
<1>13. Cardinality(Running') <= MaxTabs
  <2>1. IsFiniteSet(Running) /\ Cardinality(Running) \in Nat /\ Cardinality(Running) <= MaxTabs
    BY <1>5, WithinReach DEF PanelsInv, TabsWithinLimit, Running
  <2>2. CASE s \in Running'
    <3>1. Cardinality(Running) < MaxTabs
      BY <1>3, <1>11, <2>2 DEF Waiting
    <3>2. Running' \subseteq Running \cup {s}
      BY <1>10
    <3>3. IsFiniteSet(Running \cup {s}) /\ Cardinality(Running \cup {s}) <= Cardinality(Running) + 1
      BY <2>1, FS_AddElement
    <3>4. Cardinality(Running') <= Cardinality(Running \cup {s}) /\ IsFiniteSet(Running')
      BY <3>2, <3>3, FS_Subset
    <3>5. Cardinality(Running') \in Nat /\ Cardinality(Running \cup {s}) \in Nat
      BY <3>3, <3>4, FS_CardinalityType
    <3>6. QED
      BY <2>1, <3>1, <3>3, <3>4, <3>5, PanelAssumption
  <2>3. CASE s \notin Running'
    <3>1. Running' \subseteq Running
      BY <1>10, <2>3
    <3>2. Cardinality(Running') <= Cardinality(Running) /\ IsFiniteSet(Running')
      BY <2>1, <3>1, FS_Subset
    <3>3. Cardinality(Running') \in Nat
      BY <3>2, FS_CardinalityType
    <3>4. QED
      BY <2>1, <3>2, <3>3, PanelAssumption
  <2>4. QED
    BY <2>2, <2>3
<1>14. mine' \subseteq Shells
  BY <1>1, <1>8
<1>15. TabsWithinLimit'
  BY <1>13 DEF TabsWithinLimit, Running
<1>16. QED
  BY <1>2, <1>7, <1>9, <1>12, <1>14, <1>15 DEF PanelsInv

LEMMA ServesKeeps ==
  ASSUME PanelsInv, Serves
  PROVE  PanelsInv'
<1>1. /\ 1 \in DOMAIN inTurn
      /\ List(1) \/ CreateTab(1) \/ RenameTab(1) \/ CloseTab(1) \/ TabStarts(1) \/ StartFails(1)
  BY DEF Serves, Turn
<1>2. JobGood(Job) /\ Job.ended = {} /\ Job.result.store = desk /\ DOMAIN Job = {"result", "ended"}
  BY JobIs DEF JobGood
<1>3. StoreSound(desk) /\ Running \subseteq Reach(desk)
  BY DEF PanelsInv, DeskSound
<1>4. CASE List(1)
  BY <1>1, <1>2, <1>4, ListsTabsKeeps DEF List
<1>5. CASE CreateTab(1)
  <2>1. JobGood(Pruned(Job))
    BY <1>2, PrunedGood
  <2>2. CreatesTab(1, Pruned(Job), IF inTurn[1].name = NoName THEN FreeName(Pruned(Job)) ELSE inTurn[1].name)
    BY <1>5 DEF CreateTab
  <2>3. QED
    BY <1>1, <2>1, <2>2, CreatesTabKeeps
<1>6. CASE RenameTab(1)
  <2> DEFINE renamed == RenameMember(desk, Site, inTurn[1].sid, inTurn[1].name)
             job == [Job EXCEPT !.result = renamed]
  <2>1. ListsTabs(1, job) \/ Replies(1, Job)
    BY <1>6 DEF RenameTab
  <2>2. Proper(renamed, desk) /\ Retains(desk, renamed.store, {})
    <3>1. Relabels(RenameMember(desk, Site, inTurn[1].sid, inTurn[1].name), desk)
      BY <1>3, RenameMemberIs
    <3>2. QED
      BY <3>1 DEF Relabels
  <2> HIDE DEF renamed
  <2>3. DOMAIN job = {"result", "ended"} /\ job.result = renamed /\ job.ended = {}
    BY <1>2
  <2> HIDE DEF job
  <2>4. Reach(desk) \ {} \subseteq Reach(renamed.store)
    BY <1>3, <2>2, ReachRetained DEF Proper
  <2>5. JobGood(job)
    BY <1>3, <2>2, <2>3, <2>4 DEF JobGood
  <2>6. QED
    BY <1>1, <1>2, <2>1, <2>5, ListsTabsKeeps, AnswerKeeps
<1>7. CASE CloseTab(1)
  <2> DEFINE s == inTurn[1].sid
             less == RemoveMember(desk, Site, s)
             job == [result |-> less, ended |-> {s}]
  <2>1. ListsTabs(1, job) \/ Replies(1, Job)
    BY <1>7 DEF CloseTab
  <2>2. Takes(less, desk, Site, s)
    BY <1>3, RemoveMemberIs
  <2> HIDE DEF less, s
  <2>3. Reach(desk) \ {s} \subseteq Reach(less.store)
    BY <1>3, <2>2, ReachRetained DEF Proper, Takes
  <2>4. JobGood(job)
    BY <1>3, <2>2, <2>3 DEF JobGood, Takes
  <2> HIDE DEF job
  <2>5. QED
    BY <1>1, <1>2, <2>1, <2>4, ListsTabsKeeps, AnswerKeeps
<1>8. CASE TabStarts(1)
  BY <1>1, <1>8, TabStartKeeps
<1>9. CASE StartFails(1)
  <2> DEFINE job == [Job EXCEPT !.ended = {inTurn[1].sid}]
  <2>1. Replies(1, job)
    BY <1>9 DEF StartFails
  <2>2. DOMAIN job = {"result", "ended"} /\ job.result = Job.result
    BY <1>2
  <2> HIDE DEF job
  <2>3. JobGood(job)
    BY <1>2, <1>3, <2>2 DEF JobGood
  <2>4. QED
    BY <1>1, <2>1, <2>3, AnswerKeeps
<1>10. QED
  BY <1>1, <1>4, <1>5, <1>6, <1>7, <1>8, <1>9
(* What others do: no shell comes to run, and the requests wait as they did.            *)
LEMMA OthersKeep ==
  ASSUME PanelsInv, NEW result, Proper(result, desk), Changes(result), NEW taken, mine' = mine \ taken,
         shell' = [t \in Shells |-> shell'[t]],
         \A t \in Shells : shell'[t] = shell[t] \/ (shell[t] = "running" /\ shell'[t] = "ended"),
         Running' \subseteq Reach(result.store), UNCHANGED inTurn,
         \/ Site \in DOMAIN desk.ws <=> Site \in DOMAIN result.store.ws
         \/ \A i \in 1 .. Len(inTurn) : inTurn[i].op = "starting" => inTurn[i].had /\ inTurn[i].sid \in taken
  PROVE  PanelsInv'
<1>1. DeskSound' /\ desk' = result.store
  BY ChangesKeep DEF PanelsInv, Changes
<1>2. Running' \subseteq Running
  BY DEF PanelsInv, Running
<1>3. Cardinality(Running') <= Cardinality(Running) /\ Cardinality(Running') \in Nat /\ Cardinality(Running) \in Nat
  <2>1. IsFiniteSet(Running) /\ Cardinality(Running) \in Nat
    BY WithinReach DEF PanelsInv, DeskSound
  <2>2. QED
    BY <1>2, <2>1, FS_Subset, FS_CardinalityType
<1>4. TabsWithinLimit'
  <2>1. Cardinality(Running) <= MaxTabs
    BY DEF PanelsInv, TabsWithinLimit, Running
  <2>2. Cardinality(Running') <= MaxTabs
    BY <1>3, <2>1, PanelAssumption
  <2>3. QED
    BY <2>2 DEF TabsWithinLimit, Running
<1>5. ASSUME NEW i \in 1 .. Len(inTurn), inTurn[i].op = "starting"
      PROVE  Waiting(inTurn[i])'
  <2>1. Waiting(inTurn[i]) /\ inTurn'[i] = inTurn[i]
    BY <1>5 DEF PanelsInv, QueueSound
  <2>2. shell'[inTurn[i].sid] = "starting" /\ inTurn[i].sid \in Shells
    BY <2>1 DEF Waiting
  <2>3. ~inTurn[i].had => Site \notin DOMAIN desk'.ws
    BY <1>1, <1>5, <2>1 DEF Waiting
  <2>4. ASSUME inTurn[i].sid \in mine' PROVE inTurn[i].had => Site \in DOMAIN desk'.ws
    BY <1>1, <1>5, <2>1, <2>4 DEF Waiting
  <2>5. ASSUME inTurn[i].sid \in mine' PROVE Cardinality(Running') < MaxTabs
    <3>1. Cardinality(Running) < MaxTabs
      BY <2>1, <2>5 DEF Waiting
    <3>2. QED
      BY <1>3, <3>1, PanelAssumption
  <2>6. QED
    BY <2>1, <2>2, <2>3, <2>4, <2>5 DEF Waiting, Running
<1>6. QueueSound'
  BY <1>5 DEF PanelsInv, QueueSound
<1>7. mine' \subseteq Shells
  BY DEF PanelsInv
<1>8. QED
  BY <1>1, <1>4, <1>6, <1>7 DEF PanelsInv

LEMMA NothingTold ==
  ASSUME PanelsInv
  PROVE  Proper(Told(desk, <<>>), desk) /\ Told(desk, <<>>).store = desk /\ Told(desk, <<>>).events = <<>>
BY EmptyListed DEF Told, Proper, EventsSound, PanelsInv, DeskSound

(* The owner's actions on members, whoever they concern.                             *)
LEMMA OwnerKeeps ==
  ASSUME PanelsInv, NEW s, NEW result, Proper(result, desk), Retains(desk, result.store, {s}),
         OwnerDoes(result, {s}),
         shell' = shell \/ (shell[s] = "running" /\ shell' = [shell EXCEPT ![s] = "ended"])
  PROVE  PanelsInv'
<1>1. Changes(result) /\ mine' = mine \ {s} /\ UNCHANGED inTurn
  BY DEF OwnerDoes
<1>2. /\ shell' = [t \in Shells |-> shell'[t]]
      /\ \A t \in Shells : shell'[t] = shell[t] \/ (shell[t] = "running" /\ shell'[t] = "ended")
  BY DEF PanelsInv
<1>3. Running' \subseteq Running \ {s}
  BY <1>1, <1>2 DEF PanelsInv, Running
<1>4. Reach(desk) \ {s} \subseteq Reach(result.store)
  BY ReachRetained DEF PanelsInv, DeskSound, Proper
<1>5. Running' \subseteq Reach(result.store)
  BY <1>3, <1>4 DEF PanelsInv
<1>6. Site \in DOMAIN desk.ws <=> Site \in DOMAIN result.store.ws
  BY DEF Retains
<1>7. QED
  BY <1>1, <1>2, <1>5, <1>6, OthersKeep

LEMMA DeletesSiteKeeps ==
  ASSUME PanelsInv, DeletesSite
  PROVE  PanelsInv'
<1> DEFINE gone == Delete(desk, Site)
           taken == Reach(desk) \cup
                    {inTurn[i].sid : i \in {j \in DOMAIN inTurn : inTurn[j].op = "starting" /\ inTurn[j].had}}
<1>1. Changes(gone) /\ mine' = mine \ taken /\ UNCHANGED inTurn /\ UNCHANGED shell
  BY DEF DeletesSite, OwnerDoes
<1>2. Proper(gone, desk) /\ DOMAIN gone.store.ws = DOMAIN desk.ws \ {Site}
  BY DeleteIs DEF PanelsInv, DeskSound
<1> HIDE DEF gone
<1>3. Running' = {}
  BY <1>1 DEF Running, PanelsInv
<1>4. \/ Site \in DOMAIN desk.ws <=> Site \in DOMAIN gone.store.ws
      \/ \A i \in 1 .. Len(inTurn) : inTurn[i].op = "starting" => inTurn[i].had /\ inTurn[i].sid \in taken
  <2>1. ASSUME Site \in DOMAIN desk.ws, NEW i \in 1 .. Len(inTurn), inTurn[i].op = "starting"
        PROVE  inTurn[i].had /\ inTurn[i].sid \in taken
    <3>1. inTurn[i].had
      BY <2>1 DEF PanelsInv, QueueSound, Waiting
    <3>2. i \in DOMAIN inTurn
      BY ListedIs DEF PanelsInv, QueueSound
    <3>3. QED
      BY <2>1, <3>1, <3>2
  <2>2. QED
    BY <1>2, <2>1
<1> HIDE DEF taken
<1>5. /\ shell' = [t \in Shells |-> shell'[t]]
      /\ \A t \in Shells : shell'[t] = shell[t] \/ (shell[t] = "running" /\ shell'[t] = "ended")
  BY <1>1 DEF PanelsInv
<1>6. Running' \subseteq Reach(gone.store)
  BY <1>3
<1>7. QED
  BY <1>1, <1>2, <1>4, <1>5, <1>6, OthersKeep

(* A panel's own socket and grant.                                              *)
LEMMA SocketKeeps ==
  ASSUME PanelsInv, UNCHANGED <<desk, shell, inTurn, mine>>,
         watches' = [p \in Panels |-> watches'[p]], \A p \in Panels : watches'[p] \subseteq Reach(desk)
  PROVE  PanelsInv'
<1>1. DeskSound'
  <2>1. Reach(desk)' = Reach(desk)
    OBVIOUS
  <2>2. QED
    BY <2>1 DEF PanelsInv, DeskSound, ReachIsCurrent
<1>2. Running' = Running
  BY DEF Running
<1>3. QueueSound'
  <2>1. ASSUME NEW i \in 1 .. Len(inTurn), Waiting(inTurn[i]) PROVE Waiting(inTurn[i])'
    BY <1>2, <2>1 DEF Waiting
  <2>2. QED
    BY <2>1 DEF PanelsInv, QueueSound
<1>4. TabsWithinLimit'
  BY DEF PanelsInv, TabsWithinLimit
<1>5. QED
  BY <1>1, <1>2, <1>3, <1>4 DEF PanelsInv

LEMMA RequestKeeps ==
  ASSUME PanelsInv, NEW op, NEW writes, NEW sid, NEW name, op # "starting", Asking(op, writes, sid, name),
         UNCHANGED <<desk, shell, watches, mine>>
  PROVE  PanelsInv'
<1> DEFINE r == [op |-> op, writes |-> writes, sid |-> sid, name |-> name, had |-> FALSE]
<1>1. inTurn' = Append(inTurn, r)
  BY DEF Asking
<1>2. DOMAIN r = RequestFields /\ r.op # "starting"
  BY DEF RequestFields
<1> HIDE DEF r
<1>3. /\ Listed(inTurn') /\ Len(inTurn') = Len(inTurn) + 1 /\ Len(inTurn) \in Nat
      /\ \A i \in 1 .. Len(inTurn) : inTurn'[i] = inTurn[i]
      /\ inTurn'[Len(inTurn) + 1] = r
  BY <1>1, AppendListed DEF PanelsInv, QueueSound, Listed
<1>4. Running' = Running
  BY DEF Running
<1>5. QueueSound'
  <2>1. ASSUME NEW i \in 1 .. Len(inTurn')
        PROVE  DOMAIN inTurn'[i] = RequestFields /\ (inTurn'[i].op = "starting" => i = 1 /\ Waiting(inTurn[i])')
    <3>1. CASE i \in 1 .. Len(inTurn)
      <4>1. inTurn'[i] = inTurn[i]
        BY <1>3, <3>1
      <4>2. Waiting(inTurn[i]) => Waiting(inTurn[i])'
        BY <1>4, <4>1 DEF Waiting
      <4>3. QED
        BY <3>1, <4>1, <4>2 DEF PanelsInv, QueueSound
    <3>2. CASE i = Len(inTurn) + 1
      BY <1>2, <1>3, <3>2
    <3>3. QED
      BY <1>3, <3>1, <3>2
  <2>2. QED
    BY <1>3, <2>1 DEF QueueSound
<1>6. DeskSound' /\ TabsWithinLimit'
  <2>1. Reach(desk)' = Reach(desk)
    OBVIOUS
  <2>2. QED
    BY <2>1 DEF PanelsInv, DeskSound, ReachIsCurrent, TabsWithinLimit
<1>7. QED
  BY <1>4, <1>5, <1>6 DEF PanelsInv

LEMMA PanelsInitially ==
  ASSUME PanelsInit
  PROVE  PanelsInv
<1>1. StoreSound(Empty)
  <2>1. DOMAIN Empty = StoreFields /\ Empty.order = <<>> /\ Empty.ws = <<>>
    BY DEF Empty, StoreFields
  <2>2. DOMAIN <<>> = {}
    OBVIOUS
  <2>3. QED
    BY <2>1, <2>2, EmptyListed DEF StoreSound
<1>2. StoreSound(desk)
  <2>1. PICK name \in {<<"own">>, <<"site">>} :
          desk = Create(Empty, Own, name, <<1>>, << [session |-> 1, name |-> DefaultName] >>, Unsorted).store
    BY DEF PanelsInit
  <2> DEFINE A == <<1>>
             m == [session |-> 1, name |-> DefaultName]
             B == <<m>>
             c == Create(Empty, Own, name, A, B, Unsorted)
  <2> HIDE DEF m
  <2>2. Listed(A) /\ Listed(B)
    BY OneListed
  <2> HIDE DEF A, B
  <2>3. Makes(c, Empty, Own, A, B)
    BY <1>1, <2>2, CreateIs
  <2> HIDE DEF c
  <2>4. desk = c.store
    BY <2>1 DEF c, A, B, m
  <2>5. QED
    BY <2>3, <2>4 DEF Makes, Proper
<1>3. DeskSound
  BY <1>2 DEF PanelsInit, DeskSound, ReachIsCurrent
<1>4. QueueSound
  BY EmptyListed DEF PanelsInit, QueueSound
<1>5. Running = {} /\ Cardinality({}) = 0
  BY FS_EmptySet DEF PanelsInit, Running
<1>6. TabsWithinLimit
  BY <1>5, PanelAssumption DEF TabsWithinLimit, Running
<1>7. shell = [s \in Shells |-> shell[s]] /\ mine \subseteq Shells
  BY DEF PanelsInit
<1>8. QED
  BY <1>3, <1>4, <1>5, <1>6, <1>7 DEF PanelsInv

LEMMA PanelsStep ==
  ASSUME PanelsInv, [PanelsNext]_panelVars
  PROVE  PanelsInv'
<1>1. CASE Serves
  BY <1>1, ServesKeeps
<1>2. ASSUME NEW p \in Panels,
             Mints(p) \/ GrantEnds(p) \/ OpensSocket(p) \/ AttachesTab(p) \/ DetachesTab(p) \/ SocketCloses(p)
      PROVE  PanelsInv'
  <2>1. watches = [q \in Panels |-> watches[q]] /\ \A q \in Panels : watches[q] \subseteq Reach(desk)
    BY DEF PanelsInv, DeskSound, ReachIsCurrent
  <2>2. UNCHANGED <<desk, shell, inTurn, mine>>
    BY <1>2 DEF Mints, GrantEnds, GrantOver, OpensSocket, AttachesTab, DetachesTab, SocketCloses
  <2>3. watches' = [q \in Panels |-> watches'[q]] /\ \A q \in Panels : watches'[q] \subseteq Reach(desk)
    <3>1. CASE Mints(p) \/ GrantEnds(p) \/ OpensSocket(p)
      BY <2>1, <3>1 DEF Mints, GrantEnds, GrantOver, OpensSocket
    <3>2. CASE AttachesTab(p)
      <4>1. PICK s \in Reach(desk) : watches' = [watches EXCEPT ![p] = watches[p] \cup {s}]
        BY <3>2 DEF AttachesTab
      <4>2. QED
        BY <2>1, <4>1
    <3>3. CASE DetachesTab(p)
      <4>1. PICK s \in watches[p] : watches' = [watches EXCEPT ![p] = watches[p] \ {s}]
        BY <3>3 DEF DetachesTab
      <4>2. QED
        BY <2>1, <4>1
    <3>4. CASE SocketCloses(p)
      <4>1. watches' = [watches EXCEPT ![p] = {}]
        BY <3>4 DEF SocketCloses
      <4>2. QED
        BY <2>1, <4>1
    <3>5. QED
      BY <1>2, <3>1, <3>2, <3>3, <3>4
  <2>4. QED
    BY <2>2, <2>3, SocketKeeps
<1>3. ASSUME NEW p \in Panels, Requests(p) PROVE PanelsInv'
  <2>1. UNCHANGED <<desk, shell, watches, mine>>
    BY <1>3 DEF Requests
  <2>2. CASE \E writes \in BOOLEAN : Asking("list", writes, 0, NoName)
    <3>1. PICK writes \in BOOLEAN : Asking("list", writes, 0, NoName)
      BY <2>2
    <3>2. QED
      BY <2>1, <3>1, RequestKeeps
  <2>3. CASE \E name \in {NoName, DefaultName} : Asking("create", TRUE, 0, name)
    BY <2>1, <2>3, RequestKeeps
  <2>4. CASE \E s \in Shells : Asking("rename", TRUE, s, DefaultName) \/ Asking("close", TRUE, s, NoName)
    BY <2>1, <2>4, RequestKeeps
  <2>5. QED
    BY <1>3, <2>2, <2>3, <2>4 DEF Requests
<1>4. CASE Rekeyed
  <2>1. watches' = [q \in Panels |-> watches'[q]] /\ \A q \in Panels : watches'[q] \subseteq Reach(desk)
    BY <1>4 DEF Rekeyed, PanelsInv, DeskSound, ReachIsCurrent
  <2>2. QED
    BY <1>4, <2>1, SocketKeeps DEF Rekeyed
<1>5. ASSUME NEW s \in Shells, Moves(s) PROVE PanelsInv'
  <2>1. PICK from \in {Site, Own}, to \in {Site, Own, Detached} : OwnerDoes(MoveMember(desk, from, s, to), {s})
    BY <1>5 DEF Moves
  <2> DEFINE r == MoveMember(desk, from, s, to)
  <2>2. Proper(r, desk) /\ Retains(desk, r.store, {s})
    BY MoveMemberIs DEF PanelsInv, DeskSound
  <2>3. OwnerDoes(r, {s}) /\ shell' = shell
    BY <1>5, <2>1 DEF Moves
  <2> HIDE DEF r
  <2>4. QED
    BY <2>2, <2>3, OwnerKeeps
<1>6. ASSUME NEW s \in Shells, Adds(s) PROVE PanelsInv'
  <2> DEFINE r == AddMember(desk, Site, s, DefaultName)
  <2>1. OwnerDoes(r, {s}) /\ shell' = shell
    BY <1>6 DEF Adds
  <2>2. Proper(r, desk) /\ Retains(desk, r.store, {})
    BY AddMemberIs DEF PanelsInv, DeskSound
  <2> HIDE DEF r
  <2>3. Retains(desk, r.store, {s})
    BY <2>2 DEF Retains
  <2>4. QED
    BY <2>1, <2>2, <2>3, OwnerKeeps
<1>7. ASSUME NEW s \in Shells, Kills(s) PROVE PanelsInv'
  <2> DEFINE r == RemoveEverywhere(desk, s)
  <2>1. OwnerDoes(r, {s}) /\ shell[s] = "running" /\ shell' = [shell EXCEPT ![s] = "ended"]
    BY <1>7 DEF Kills
  <2>2. Proper(r, desk) /\ Retains(desk, r.store, {s})
    BY RemoveEverywhereIs DEF PanelsInv, DeskSound
  <2> HIDE DEF r
  <2>3. QED
    BY <2>1, <2>2, OwnerKeeps
<1>8. ASSUME NEW s \in Shells, ShellEnds(s) PROVE PanelsInv'
  <2> DEFINE r == Told(desk, <<>>)
  <2>1. Proper(r, desk) /\ r.store = desk /\ r.events = <<>>
    BY NothingTold
  <2> HIDE DEF r
  <2>2. Changes(r) /\ mine' = mine \ {} /\ UNCHANGED inTurn
    BY <1>8, <2>1 DEF ShellEnds, Changes, Revalidated
  <2>3. /\ shell' = [t \in Shells |-> shell'[t]]
        /\ \A t \in Shells : shell'[t] = shell[t] \/ (shell[t] = "running" /\ shell'[t] = "ended")
    BY <1>8 DEF ShellEnds, PanelsInv
  <2>4. Running' \subseteq Reach(r.store)
    BY <2>1, <2>2, <2>3 DEF PanelsInv, Running
  <2>5. QED
    BY <2>1, <2>2, <2>3, <2>4, OthersKeep
<1>9. CASE DeletesSite
  BY <1>9, DeletesSiteKeeps
<1>10. CASE UNCHANGED panelVars
  <2>1. watches' = [q \in Panels |-> watches'[q]] /\ \A q \in Panels : watches'[q] \subseteq Reach(desk)
    BY <1>10 DEF panelVars, PanelsInv, DeskSound, ReachIsCurrent
  <2>2. QED
    BY <1>10, <2>1, SocketKeeps DEF panelVars
<1>11. QED
  BY <1>1, <1>2, <1>3, <1>4, <1>5, <1>6, <1>7, <1>8, <1>9, <1>10 DEF PanelsNext

(* A panel watches what is a tab of the site now, and nothing that a change of a          *)
(* workspace has taken from it, whatever the owner and the other panels do.             *)
THEOREM PanelsReachIsCurrent == PanelsSpec => []ReachIsCurrent
<1>1. PanelsInv => ReachIsCurrent
  BY DEF PanelsInv, DeskSound
<1>2. QED
  BY PanelsInitially, PanelsStep, <1>1, PTL DEF PanelsSpec

(* What panels start runs within the limit of the profile: a request that starts a shell   *)
(* has counted the tabs, and it alone starts one.                                *)
THEOREM PanelsKeepTheLimit == PanelsSpec => []TabsWithinLimit
<1>1. PanelsInv => TabsWithinLimit
  BY DEF PanelsInv
<1>2. QED
  BY PanelsInitially, PanelsStep, <1>1, PTL DEF PanelsSpec
-----------------------------------------------------------------------------
(* Pages.  What a page, a request and an event on its way are known to hold.            *)
ListSound(list) == DOMAIN list = StoreFields /\ Listed(list.order)

PageFields == {"does", "open", "pending", "settling", "loading", "copy", "list", "live", "astray"}

PageSound(pg) ==
  /\ DOMAIN pg = PageFields
  /\ Sound(pg.copy)
  /\ pg.does = "tabs" => ListSound(pg.list)

PushSound(e, does) ==
  EventSound(e) /\ (does = "panes" => e.kind \in {"workspace", "deleted"})

PushesSound(events, does) == Listed(events) /\ \A e \in ToSet(events) : PushSound(e, does)

EditKinds == {"relayout", "preset", "add", "remove", "kill", "move", "retag", "rename", "delete",
              "create", "reorder", "addStream", "removeStream"}
AskKinds == EditKinds \cup {"get", "list", "sessions", "destroy", "split", "start"}
AskFields == {"kind", "id", "session", "arg"}
CallFields == {"page", "n", "ask", "then", "session", "state", "got"}

AskSound(ask) ==
  /\ ask.kind \in AskKinds
  /\ ask.kind \in {"relayout", "reorder"} => Listed(ask.arg)

(* What is asked for fits what the page does with the answer.                        *)
ThenFits(ask, then) ==
  /\ then = "apply" => ask.kind \in {"split", "preset", "add"}
  /\ then = "show" => ask.kind = "get"
  /\ then = "list" => ask.kind = "list"
  /\ then = "retry" => ask.kind = "create" /\ DOMAIN ask = AskFields

GotSound(got, then) ==
  got # <<>> => /\ then \in {"apply", "show"} => Sound(Head(got))
                /\ then = "list" => ListSound(Head(got))

CallSound(c) ==
  /\ DOMAIN c = CallFields /\ c.page \in Pages
  /\ AskSound(c.ask) /\ ThenFits(c.ask, c.then) /\ GotSound(c.got, c.then)
  /\ c.session # 0 => c.ask.kind = "split"

(* Only a dashboard asks as one.                                                *)
BoardsAsk == \A c \in calls : c.then = "board" => page[c.page].does = "dashboard"

PagesHold == page = [p \in Pages |-> page[p]] /\ \A p \in Pages : PageSound(page[p])

PushesHold == pushes = [p \in Pages |-> pushes[p]] /\ \A p \in Pages : PushesSound(pushes[p], page[p].does)

CallsHold == (\A c \in calls : CallSound(c)) /\ BoardsAsk

PagesSound == StoreSound(store) /\ PagesHold /\ PushesHold /\ CallsHold

(* The sessions of splits that are not placed yet.                                  *)
Unplaced == {c.session : c \in {x \in calls : x.state = "asked"}}

(* NoneIsForgotten is not inductive: it counts a session as placed while any request     *)
(* bears its number, also one that has been answered and is about to go.              *)
Accounted == 0 \notin alive /\ alive \subseteq Homes(store) \cup letGo \cup Unplaced

PagesInv == PagesSound /\ Accounted

LEMMA HomesRetained ==
  ASSUME NEW st, NEW to, Retains(st, to, {})
  PROVE  Homes(st) \subseteq Homes(to)
BY DEF Homes, Retains, MembersIn

(* Requests.                                                                   *)
LEMMA CallIs ==
  ASSUME NEW p \in Pages, NEW n, NEW ask, AskSound(ask), NEW then, ThenFits(ask, then)
  PROVE  /\ CallSound(Call(p, n, ask, then)) /\ Call(p, n, ask, then).then = then
         /\ Call(p, n, ask, then).page = p
<1> DEFINE c == Call(p, n, ask, then)
<1>1. /\ DOMAIN c = CallFields /\ c.page = p /\ c.ask = ask /\ c.then = then /\ c.got = <<>> /\ c.session = 0
  BY DEF Call, CallFields
<1> HIDE DEF c
<1>2. GotSound(c.got, c.then)
  BY <1>1 DEF GotSound
<1>3. QED
  BY <1>1, <1>2 DEF CallSound, c

LEMMA AsksIs ==
  ASSUME NEW k \in AskKinds \ {"relayout", "reorder"}, NEW id, NEW s, NEW arg
  PROVE  /\ AskSound(Asks(k, id, s, arg)) /\ DOMAIN Asks(k, id, s, arg) = AskFields
         /\ Asks(k, id, s, arg).kind = k
<1> DEFINE ask == Asks(k, id, s, arg)
<1>1. DOMAIN ask = AskFields /\ ask.kind = k
  BY DEF Asks, AskFields
<1> HIDE DEF ask
<1>2. QED
  BY <1>1 DEF AskSound, ask

LEMMA AsksWhole ==
  ASSUME NEW k \in {"relayout", "reorder"}, NEW id, NEW s, NEW arg, Listed(arg)
  PROVE  AskSound(Asks(k, id, s, arg)) /\ Asks(k, id, s, arg).kind = k
BY DEF Asks, AskSound, AskKinds, EditKinds

(* The answer to a request.                                                     *)
LEMMA AnsweredIs ==
  ASSUME NEW c, CallSound(c), NEW ok, NEW value,
         ok => (c.then \in {"apply", "show"} => Sound(value)) /\ (c.then = "list" => ListSound(value))
  PROVE  LET d == [c EXCEPT !.state = "answered", !.got = IF ok THEN <<value>> ELSE <<>>]
         IN  CallSound(d) /\ d.then = c.then /\ d.page = c.page
<1> DEFINE got == IF ok THEN <<value>> ELSE <<>>
           d == [c EXCEPT !.state = "answered", !.got = got]
<1>1. got # <<>> => ok /\ Head(got) = value
  <2>1. <<value>> # <<>> /\ Head(<<value>>) = value
    BY OneListed
  <2>2. QED
    BY <2>1
<1> HIDE DEF got
<1>2. GotSound(got, c.then)
  BY <1>1 DEF GotSound
<1>3. /\ DOMAIN d = CallFields /\ d.page = c.page /\ d.ask = c.ask /\ d.then = c.then /\ d.got = got
      /\ d.session = c.session
  BY DEF CallSound, CallFields
<1> HIDE DEF d
<1>4. CallSound(d)
  BY <1>2, <1>3 DEF CallSound
<1>5. QED
  BY <1>3, <1>4 DEF d, got
(* The routes: whatever is asked, the store stays sound.                             *)
LEMMA HandledIs ==
  ASSUME StoreSound(store), NEW ask, AskSound(ask), ask.kind \in EditKinds
  PROVE  /\ Proper(Handled(ask), store)
         /\ ask.kind \in {"preset", "add"} /\ Handled(ask).ok => ask.id \in DOMAIN Handled(ask).store.ws
<1>1. CASE ask.kind = "relayout"
  <2> DEFINE r == Relayout(store, ask.id, ask.arg)
  <2>1. Handled(ask) = r
    BY <1>1 DEF Handled
  <2>2. Proper(r, store)
    <3>1. Listed(ask.arg)
      BY <1>1 DEF AskSound
    <3>2. QED
      BY <3>1, RelayoutIs
  <2> HIDE DEF r
  <2>3. QED
    BY <1>1, <2>1, <2>2
<1>2. CASE ask.kind = "preset"
  <2> DEFINE r == Preset(store, ask.id)
  <2>1. Handled(ask) = r
    BY <1>2 DEF Handled
  <2>2. Proper(r, store)
    BY PresetIs
  <2>3. r.ok => ask.id \in DOMAIN r.store.ws
    <3>1. Retains(store, r.store, {})
      BY PresetIs
    <3>2. ask.id \notin DOMAIN store.ws => ~r.ok
      BY DEF Preset, Refused
    <3> HIDE DEF r
    <3>3. QED
      BY <3>1, <3>2 DEF Retains
  <2> HIDE DEF r
  <2>4. QED
    BY <1>2, <2>1, <2>2, <2>3
<1>3. CASE ask.kind = "add"
  <2> DEFINE r == AddMember(store, ask.id, ask.session, ask.arg)
  <2>1. Handled(ask) = r
    BY <1>3 DEF Handled
  <2>2. Proper(r, store)
    BY AddMemberIs
  <2>3. r.ok => ask.id \in DOMAIN r.store.ws
    BY AddMemberIs
  <2> HIDE DEF r
  <2>4. QED
    BY <1>3, <2>1, <2>2, <2>3
<1>4. CASE ask.kind = "remove"
  <2> DEFINE r == RemoveMember(store, ask.id, ask.session)
  <2>1. Handled(ask) = r
    BY <1>4 DEF Handled
  <2>2. Proper(r, store)
    <3>1. Takes(r, store, ask.id, ask.session)
      BY RemoveMemberIs
    <3> HIDE DEF r
    <3>2. QED
      BY <3>1 DEF Takes
  <2> HIDE DEF r
  <2>3. QED
    BY <1>4, <2>1, <2>2
<1>5. CASE ask.kind = "kill"
  <2> DEFINE r == RemoveEverywhere(store, ask.session)
  <2>1. Handled(ask) = r
    BY <1>5 DEF Handled
  <2>2. Proper(r, store)
    BY RemoveEverywhereIs
  <2> HIDE DEF r
  <2>3. QED
    BY <1>5, <2>1, <2>2
<1>6. CASE ask.kind = "move"
  <2> DEFINE r == MoveMember(store, ask.id, ask.session, ask.arg)
  <2>1. Handled(ask) = r
    BY <1>6 DEF Handled
  <2>2. Proper(r, store)
    BY MoveMemberIs
  <2> HIDE DEF r
  <2>3. QED
    BY <1>6, <2>1, <2>2
<1>7. CASE ask.kind = "retag"
  <2> DEFINE r == Retag(store, ask.id, ask.arg)
  <2>1. Handled(ask) = r
    BY <1>7 DEF Handled
  <2>2. Proper(r, store)
    BY RetagIs
  <2> HIDE DEF r
  <2>3. QED
    BY <1>7, <2>1, <2>2
<1>8. CASE ask.kind = "rename"
  <2> DEFINE r == Rename(store, ask.id, ask.arg)
  <2>1. Handled(ask) = r
    BY <1>8 DEF Handled
  <2>2. Proper(r, store)
    BY RenameIs
  <2> HIDE DEF r
  <2>3. QED
    BY <1>8, <2>1, <2>2
<1>9. CASE ask.kind = "delete"
  <2> DEFINE r == Delete(store, ask.id)
  <2>1. Handled(ask) = r
    BY <1>9 DEF Handled
  <2>2. Proper(r, store)
    BY DeleteIs
  <2> HIDE DEF r
  <2>3. QED
    BY <1>9, <2>1, <2>2
<1>10. CASE ask.kind = "create"
  <2> DEFINE r == Create(store, ask.id, ask.arg, <<>>, <<>>, Unsorted)
  <2>1. Handled(ask) = r
    BY <1>10 DEF Handled
  <2>2. Proper(r, store)
    <3>1. Makes(r, store, ask.id, <<>>, <<>>)
      BY EmptyListed, CreateIs
    <3> HIDE DEF r
    <3>2. QED
      BY <3>1 DEF Makes
  <2> HIDE DEF r
  <2>3. QED
    BY <1>10, <2>1, <2>2
<1>11. CASE ask.kind = "reorder"
  <2> DEFINE r == Reorder(store, ask.arg)
  <2>1. Handled(ask) = r
    BY <1>11 DEF Handled
  <2>2. Proper(r, store)
    <3>1. Listed(ask.arg)
      BY <1>11 DEF AskSound
    <3>2. QED
      BY <3>1, ReorderIs
  <2> HIDE DEF r
  <2>3. QED
    BY <1>11, <2>1, <2>2
<1>12. CASE ask.kind = "addStream"
  <2> DEFINE r == AddStream(store, ask.arg)
  <2>1. Handled(ask) = r
    BY <1>12 DEF Handled
  <2>2. Proper(r, store)
    BY AddStreamIs
  <2> HIDE DEF r
  <2>3. QED
    BY <1>12, <2>1, <2>2
<1>13. CASE ask.kind = "removeStream"
  <2> DEFINE r == RemoveStream(store, ask.arg)
  <2>1. Handled(ask) = r
    BY <1>13 DEF Handled
  <2>2. Proper(r, store)
    BY RemoveStreamIs
  <2> HIDE DEF r
  <2>3. QED
    BY <1>13, <2>1, <2>2
<1>14. QED
  BY <1>1, <1>2, <1>3, <1>4, <1>5, <1>6, <1>7, <1>8, <1>9, <1>10, <1>11, <1>12, <1>13 DEF EditKinds
-----------------------------------------------------------------------------
(* The server's steps.                                                        *)
LEMMA PushesAllKeeps ==
  ASSUME PagesSound, NEW events, EventsSound(events), PushesAll(events), page' = page
  PROVE  PushesHold'
<1> DEFINE heeded(p) == Kept(events, {e \in ToSet(events) : Heeds(page[p].does, e)})
<1>1. pushes' = [p \in Pages |-> pushes[p] \o heeded(p)]
  BY DEF PushesAll
<1>2. ASSUME NEW p \in Pages
      PROVE  PushesSound(pushes[p] \o heeded(p), page[p].does)
  <2>1. Listed(heeded(p)) /\ ToSet(heeded(p)) = ToSet(events) \cap {e \in ToSet(events) : Heeds(page[p].does, e)}
    BY KeptIs DEF EventsSound
  <2>2. ASSUME NEW e \in ToSet(heeded(p)) PROVE PushSound(e, page[p].does)
    <3>1. EventSound(e) /\ Heeds(page[p].does, e)
      BY <2>1, <2>2 DEF EventsSound
    <3>2. page[p].does = "panes" => e.kind \in {"workspace", "deleted"}
      BY <3>1 DEF Heeds
    <3>3. QED
      BY <3>1, <3>2 DEF PushSound
  <2> HIDE DEF heeded
  <2>3. Listed(pushes[p]) /\ \A e \in ToSet(pushes[p]) : PushSound(e, page[p].does)
    BY DEF PagesSound, PushesHold, PushesSound
  <2>4. Listed(pushes[p] \o heeded(p)) /\ ToSet(pushes[p] \o heeded(p)) = ToSet(pushes[p]) \cup ToSet(heeded(p))
    BY <2>1, <2>3, ConcatListed
  <2>5. QED
    BY <2>2, <2>3, <2>4 DEF PushesSound
<1> HIDE DEF heeded
<1>3. QED
  BY <1>1, <1>2 DEF PushesHold

LEMMA AnswerHolds ==
  ASSUME PagesSound, NEW c \in calls, NEW ok, NEW value, page' = page, Answers(c, ok, value),
         ok => (c.then \in {"apply", "show"} => Sound(value)) /\ (c.then = "list" => ListSound(value))
  PROVE  CallsHold'
<1> DEFINE d == [c EXCEPT !.state = "answered", !.got = IF ok THEN <<value>> ELSE <<>>]
<1>1. calls' = (calls \ {c}) \cup {d}
  BY DEF Answers
<1>2. CallSound(d) /\ d.then = c.then /\ d.page = c.page
  BY AnsweredIs, ZenonT(60) DEF PagesSound, CallsHold
<1> HIDE DEF d
<1>3. \A x \in calls' : CallSound(x)
  BY <1>1, <1>2 DEF PagesSound, CallsHold
<1>4. BoardsAsk'
  BY <1>1, <1>2 DEF PagesSound, CallsHold, BoardsAsk
<1>5. QED
  BY <1>3, <1>4 DEF CallsHold

LEMMA UnplacedLeft ==
  ASSUME NEW c, calls \ {c} \subseteq calls'
  PROVE  Unplaced \ {c.session} \subseteq Unplaced'
BY DEF Unplaced

LEMMA AnswerLeaves ==
  ASSUME NEW c, NEW ok, NEW value, Answers(c, ok, value)
  PROVE  calls \ {c} \subseteq calls'
BY DEF Answers

LEMMA UnchangedHolds ==
  ASSUME PagesSound, page' = page, pushes' = pushes
  PROVE  PagesHold' /\ PushesHold'
BY DEF PagesSound, PagesHold, PushesHold

LEMMA ServesEditKeeps ==
  ASSUME PagesInv, NEW c \in calls, ServesEdit(c)
  PROVE  PagesInv'
<1>1. CallSound(c) /\ PagesSound /\ StoreSound(store)
  BY DEF PagesInv, PagesSound, CallsHold
<1>2. c.ask.kind \in EditKinds /\ AskSound(c.ask)
  BY <1>1 DEF ServesEdit, Edits, CallSound, AskSound, AskKinds
<1> DEFINE done == Handled(c.ask)
           value == IF c.then = "apply" THEN store'.ws[c.ask.id] ELSE NoWorkspace
<1>3. /\ store' = done.store /\ PushesAll(done.events)
      /\ letGo' = letGo \cup (Homes(store) \ Homes(store'))
      /\ alive' = IF c.ask.kind = "kill" THEN alive \ {c.ask.session} ELSE alive
      /\ Answers(c, done.ok, value) /\ page' = page
  BY DEF ServesEdit
<1>4. Proper(done, store) /\ (c.ask.kind \in {"preset", "add"} /\ done.ok => c.ask.id \in DOMAIN done.store.ws)
  BY <1>1, <1>2, HandledIs
<1> HIDE DEF done
<1>5. StoreSound(store')
  BY <1>3, <1>4 DEF Proper
<1>6. PushesHold' /\ PagesHold'
  BY <1>1, <1>3, <1>4, PushesAllKeeps DEF Proper, PagesSound, PagesHold
<1>7. CallsHold'
  <2>1. c.then # "show" /\ c.then # "list" /\ (c.then = "apply" => c.ask.kind \in {"preset", "add"})
    BY <1>1, <1>2 DEF CallSound, ThenFits, EditKinds
  <2>2. ASSUME done.ok, c.then = "apply" PROVE Sound(value)
    <3>1. c.ask.id \in DOMAIN store'.ws
      BY <1>3, <1>4, <2>1, <2>2
    <3>2. QED
      BY <1>5, <2>2, <3>1 DEF StoreSound
  <2> HIDE DEF value
  <2>3. QED
    BY <1>1, <1>3, <2>1, <2>2, AnswerHolds
<1>8. c.session = 0
  BY <1>1, <1>2 DEF CallSound, EditKinds
<1>9. Unplaced \ {0} \subseteq Unplaced'
  <2>1. calls \ {c} \subseteq calls'
    BY <1>3, AnswerLeaves
  <2>2. QED
    BY <1>8, <2>1, UnplacedLeft
<1>10. Accounted'
  <2>1. alive' \subseteq alive /\ letGo \subseteq letGo' /\ Homes(store) \subseteq Homes(store') \cup letGo'
    BY <1>3
  <2>2. Homes(store)' = Homes(store')
    BY DEF Homes
  <2>3. QED
    BY <1>9, <2>1, <2>2 DEF PagesInv, Accounted
<1>11. QED
  BY <1>5, <1>6, <1>7, <1>10 DEF PagesInv, PagesSound

LEMMA ServesReadKeeps ==
  ASSUME PagesInv, NEW c \in calls, ServesRead(c)
  PROVE  PagesInv'
<1>1. CallSound(c) /\ PagesSound /\ StoreSound(store)
  BY DEF PagesInv, PagesSound, CallsHold
<1>2. UNCHANGED <<store, alive, ended, letGo, page, pushes, edits>>
  BY DEF ServesRead
<1>3. CallsHold' /\ calls \ {c} \subseteq calls' /\ c.session = 0
  <2>1. CASE c.ask.kind = "get" /\ Answers(c, Shown \in DOMAIN store.ws, store.ws[Shown])
    <3>1. Shown \in DOMAIN store.ws => Sound(store.ws[Shown])
      BY <1>1 DEF StoreSound
    <3>2. c.then # "list" /\ c.session = 0
      BY <1>1, <2>1 DEF CallSound, ThenFits
    <3>3. QED
      BY <1>1, <1>2, <2>1, <3>1, <3>2, AnswerHolds, AnswerLeaves
  <2>2. CASE c.ask.kind = "list" /\ Answers(c, TRUE, store)
    <3>1. ListSound(store)
      BY <1>1 DEF StoreSound, ListSound
    <3>2. c.then \notin {"apply", "show"} /\ c.session = 0
      BY <1>1, <2>2 DEF CallSound, ThenFits
    <3>3. QED
      BY <1>1, <1>2, <2>2, <3>1, <3>2, AnswerHolds, AnswerLeaves
  <2>3. CASE c.ask.kind = "sessions" /\ Answers(c, TRUE, alive)
    <3>1. c.then \notin {"apply", "show", "list"} /\ c.session = 0
      BY <1>1, <2>3 DEF CallSound, ThenFits
    <3>2. QED
      BY <1>1, <1>2, <2>3, <3>1, AnswerHolds, AnswerLeaves
  <2>4. QED
    BY <2>1, <2>2, <2>3 DEF ServesRead
<1>4. Unplaced \ {0} \subseteq Unplaced'
  BY <1>3, UnplacedLeft
<1>5. Accounted'
  BY <1>2, <1>4 DEF PagesInv, Accounted
<1>6. PagesHold' /\ PushesHold'
  BY <1>1, <1>2, UnchangedHolds
<1>7. QED
  BY <1>1, <1>2, <1>3, <1>5, <1>6 DEF PagesInv, PagesSound
LEMMA StartsKeeps ==
  ASSUME PagesInv, NEW c \in calls, Starts(c)
  PROVE  PagesInv'
<1>1. CallSound(c) /\ PagesSound /\ StoreSound(store)
  BY DEF PagesInv, PagesSound, CallsHold
<1>2. PICK s \in Sessions : Creates(s) /\ letGo' = letGo \cup {s} /\ Answers(c, TRUE, s)
  BY DEF Starts
<1>3. UNCHANGED <<store, page, pushes, edits>> /\ c.ask.kind = "start"
  BY DEF Starts
<1>4. c.then \notin {"apply", "show", "list"} /\ c.session = 0
  BY <1>1, <1>3 DEF CallSound, ThenFits
<1>5. CallsHold'
  BY <1>1, <1>2, <1>3, <1>4, AnswerHolds
<1>6. Unplaced \ {0} \subseteq Unplaced'
  BY <1>2, <1>4, AnswerLeaves, UnplacedLeft
<1>7. Accounted'
  <2>1. alive' = alive \cup {s} /\ letGo' = letGo \cup {s} /\ s # 0 /\ store' = store
    BY <1>2, <1>3, PagesAssumption DEF Creates
  <2>2. QED
    BY <1>6, <2>1 DEF PagesInv, Accounted
<1>8. PagesHold' /\ PushesHold'
  BY <1>1, <1>3, UnchangedHolds
<1>9. QED
  BY <1>1, <1>3, <1>5, <1>7, <1>8 DEF PagesInv, PagesSound

LEMMA ServesDestroyKeeps ==
  ASSUME PagesInv, NEW c \in calls, ServesDestroy(c)
  PROVE  PagesInv'
<1>1. CallSound(c) /\ PagesSound /\ StoreSound(store)
  BY DEF PagesInv, PagesSound, CallsHold
<1>2. /\ UNCHANGED <<store, ended, letGo, page, pushes, edits>> /\ c.ask.kind = "destroy"
      /\ alive' = alive \ c.ask.arg /\ calls' = calls \ {c}
  BY DEF ServesDestroy
<1>3. c.session = 0
  BY <1>1, <1>2 DEF CallSound
<1>4. CallsHold'
  BY <1>1, <1>2 DEF PagesSound, CallsHold, BoardsAsk
<1>5. Unplaced \ {0} \subseteq Unplaced'
  BY <1>2, <1>3, UnplacedLeft
<1>6. Accounted'
  BY <1>2, <1>5 DEF PagesInv, Accounted
<1>7. PagesHold' /\ PushesHold'
  BY <1>1, <1>2, UnchangedHolds
<1>8. QED
  BY <1>1, <1>2, <1>4, <1>6, <1>7 DEF PagesInv, PagesSound

(* The session of a split is accounted for from its start, by the request.            *)
LEMMA StartsSplitKeeps ==
  ASSUME PagesInv, NEW c \in calls, StartsSplit(c)
  PROVE  PagesInv'
<1>1. CallSound(c) /\ PagesSound /\ StoreSound(store)
  BY DEF PagesInv, PagesSound, CallsHold
<1>2. UNCHANGED <<store, letGo, page, pushes, edits>> /\ c.ask.kind = "split" /\ c.session = 0 /\ c.state = "asked"
  BY DEF StartsSplit, Waits
<1>3. CallsHold' /\ Accounted'
  <2>1. CASE Answers(c, FALSE, NoWorkspace) /\ UNCHANGED <<alive, ended>>
    <3>1. CallsHold'
      BY <1>1, <1>2, <2>1, AnswerHolds
    <3>2. Unplaced \ {0} \subseteq Unplaced'
      BY <1>2, <2>1, AnswerLeaves, UnplacedLeft
    <3>3. Accounted'
      BY <1>2, <2>1, <3>2 DEF PagesInv, Accounted
    <3>4. QED
      BY <3>1, <3>3
  <2>2. ASSUME NEW s \in Sessions, Creates(s), calls' = (calls \ {c}) \cup {[c EXCEPT !.session = s]}
        PROVE  CallsHold' /\ Accounted'
    <3> DEFINE d == [c EXCEPT !.session = s]
    <3>1. calls' = (calls \ {c}) \cup {d}
      BY <2>2
    <3>2. /\ DOMAIN d = CallFields /\ d.page = c.page /\ d.ask = c.ask /\ d.then = c.then /\ d.got = c.got
          /\ d.session = s /\ d.state = "asked"
      BY <1>1, <1>2 DEF CallSound, CallFields
    <3> HIDE DEF d
    <3>3. CallSound(d)
      BY <1>1, <1>2, <3>2 DEF CallSound
    <3>4. CallsHold'
      BY <1>1, <1>2, <3>1, <3>2, <3>3 DEF PagesSound, CallsHold, BoardsAsk
    <3>5. Unplaced \ {0} \subseteq Unplaced'
      BY <1>2, <3>1, UnplacedLeft
    <3>6. s \in Unplaced'
      <4>1. d \in {x \in calls' : x.state = "asked"}
        BY <3>1, <3>2
      <4>2. QED
        BY <3>2, <4>1 DEF Unplaced
    <3>7. alive' = alive \cup {s} /\ s # 0
      BY <2>2, PagesAssumption DEF Creates
    <3>8. Accounted'
      BY <1>2, <3>5, <3>6, <3>7 DEF PagesInv, Accounted
    <3>9. QED
      BY <3>4, <3>8
  <2>3. QED
    BY <2>1, <2>2 DEF StartsSplit
<1>4. PagesHold' /\ PushesHold'
  BY <1>1, <1>2, UnchangedHolds, SMTT(30)
<1>5. QED
  BY <1>1, <1>2, <1>3, <1>4 DEF PagesInv, PagesSound

(* It is a member once it is placed; and when it cannot be, it ends.                  *)
LEMMA PlacesSplitKeeps ==
  ASSUME PagesInv, NEW c \in calls, PlacesSplit(c)
  PROVE  PagesInv'
<1>1. CallSound(c) /\ PagesSound /\ StoreSound(store)
  BY DEF PagesInv, PagesSound, CallsHold
<1> DEFINE done == SplitMember(store, c.ask.id, c.ask.session, c.session, Term(c.session), FALSE)
           value == store'.ws[c.ask.id]
<1>2. /\ store' = done.store /\ PushesAll(done.events)
      /\ alive' = IF done.ok THEN alive ELSE alive \ {c.session}
      /\ Answers(c, done.ok, value) /\ UNCHANGED <<ended, letGo, page, edits>>
  BY DEF PlacesSplit
<1>3. /\ Proper(done, store) /\ Retains(store, done.store, {})
      /\ done.ok => c.ask.id \in DOMAIN done.store.ws /\ c.session \in MembersIn(done.store, c.ask.id)
  BY <1>1, SplitMemberIs
<1> HIDE DEF done
<1>4. StoreSound(store')
  BY <1>2, <1>3 DEF Proper
<1>5. PushesHold' /\ PagesHold'
  BY <1>1, <1>2, <1>3, PushesAllKeeps DEF Proper, PagesSound, PagesHold
<1>6. c.ask.kind = "split" /\ c.then # "list"
  BY <1>1 DEF CallSound, ThenFits, PlacesSplit
<1>7. CallsHold'
  <2>1. ASSUME done.ok PROVE Sound(value)
    BY <1>2, <1>3, <1>4, <2>1 DEF StoreSound
  <2> HIDE DEF value
  <2>2. QED
    BY <1>1, <1>2, <1>6, <2>1, AnswerHolds
<1>8. Unplaced \ {c.session} \subseteq Unplaced'
  BY <1>2, AnswerLeaves, UnplacedLeft
<1>9. Accounted'
  <2>1. Homes(store) \subseteq Homes(store') /\ Homes(store)' = Homes(store')
    BY <1>2, <1>3, HomesRetained DEF Homes
  <2>2. done.ok => c.session \in Homes(store')
    BY <1>2, <1>3 DEF Homes, MembersIn
  <2>3. QED
    BY <1>2, <1>8, <2>1, <2>2 DEF PagesInv, Accounted
<1>10. QED
  BY <1>4, <1>5, <1>7, <1>9 DEF PagesInv, PagesSound

LEMMA LosesKeeps ==
  ASSUME PagesInv, NEW c \in calls, Loses(c)
  PROVE  PagesInv'
<1>1. CallSound(c) /\ PagesSound /\ StoreSound(store)
  BY DEF PagesInv, PagesSound, CallsHold
<1>2. UNCHANGED <<store, alive, ended, letGo, page, pushes>> /\ c.session = 0 /\ Answers(c, FALSE, NoWorkspace)
  BY DEF Loses
<1>3. CallsHold'
  BY <1>1, <1>2, AnswerHolds
<1>4. Unplaced \ {0} \subseteq Unplaced'
  BY <1>2, AnswerLeaves, UnplacedLeft
<1>5. Accounted'
  BY <1>2, <1>4 DEF PagesInv, Accounted
<1>6. PagesHold' /\ PushesHold'
  BY <1>1, <1>2, UnchangedHolds
<1>7. QED
  BY <1>1, <1>2, <1>3, <1>5, <1>6 DEF PagesInv, PagesSound

LEMMA ServerKeeps ==
  ASSUME PagesInv, NEW c \in calls, Server(c)
  PROVE  PagesInv'
BY ServesEditKeeps, ServesReadKeeps, StartsKeeps, ServesDestroyKeeps, StartsSplitKeeps, PlacesSplitKeeps DEF Server
-----------------------------------------------------------------------------
(* The pages' steps.                                                           *)

(* Every page stays sound, and what it was.                                         *)
PagesStay ==
  /\ page' = [p \in Pages |-> page'[p]]
  /\ \A p \in Pages : PageSound(page'[p]) /\ page'[p].does = page[p].does

(* A request a page may make.                                                     *)
Allowed(c) == CallSound(c) /\ (c.then = "board" => page[c.page].does = "dashboard")

LEMMA PageStep ==
  ASSUME PagesInv, UNCHANGED <<store, alive, letGo>>, PagesStay, PushesHold',
         NEW gone, \A c \in gone : c.session = 0 \/ c.state = "answered",
         NEW more, \A c \in more : Allowed(c), calls' = (calls \ gone) \cup more
  PROVE  PagesInv'
<1>1. PagesHold'
  BY DEF PagesStay, PagesHold
<1>2. ASSUME NEW c \in calls' PROVE CallSound(c) /\ (c.then = "board" => page'[c.page].does = "dashboard")
  <2>1. CallSound(c) /\ (c.then = "board" => page[c.page].does = "dashboard")
    BY <1>2 DEF PagesInv, PagesSound, CallsHold, BoardsAsk, Allowed
  <2>2. c.page \in Pages
    BY <2>1 DEF CallSound
  <2>3. QED
    BY <2>1, <2>2 DEF PagesStay
<1>3. CallsHold'
  BY <1>2 DEF CallsHold, BoardsAsk
<1>4. Unplaced \ {0} \subseteq Unplaced'
  BY DEF Unplaced
<1>5. Accounted'
  BY <1>4 DEF PagesInv, Accounted, Homes
<1>6. StoreSound(store')
  BY DEF PagesInv, PagesSound
<1>7. QED
  BY <1>1, <1>3, <1>5, <1>6 DEF PagesInv, PagesSound

LEMMA PushesStay ==
  ASSUME PagesInv, pushes' = pushes, PagesStay
  PROVE  PushesHold'
BY DEF PagesInv, PagesSound, PushesHold, PagesStay

LEMMA PageSet ==
  ASSUME PagesInv, NEW p \in Pages, NEW pg, PageSound(pg), pg.does = page[p].does,
         page' = [page EXCEPT ![p] = pg]
  PROVE  PagesStay
<1>1. page = [q \in Pages |-> page[q]] /\ \A q \in Pages : PageSound(page[q])
  BY DEF PagesInv, PagesSound, PagesHold
<1>2. page' = [q \in Pages |-> IF q = p THEN pg ELSE page[q]]
  BY <1>1
<1>3. QED
  BY <1>1, <1>2 DEF PagesStay

LEMMA PagesUnchanged ==
  ASSUME PagesInv, page' = page
  PROVE  PagesStay
BY DEF PagesInv, PagesSound, PagesHold, PagesStay

(* What a step may set of a page.                                                 *)
LEMMA PageCopy ==
  ASSUME NEW pg, PageSound(pg), NEW copy, Sound(copy)
  PROVE  PageSound([pg EXCEPT !.copy = copy]) /\ [pg EXCEPT !.copy = copy].does = pg.does
<1> DEFINE new == [pg EXCEPT !.copy = copy]
<1>1. DOMAIN new = PageFields /\ new.does = pg.does /\ new.copy = copy /\ new.list = pg.list
  BY DEF PageSound, PageFields
<1> HIDE DEF new
<1>2. PageSound(new)
  BY <1>1 DEF PageSound
<1>3. QED
  BY <1>1, <1>2 DEF new

LEMMA PageList ==
  ASSUME NEW pg, PageSound(pg), NEW list, pg.does = "tabs" => ListSound(list)
  PROVE  PageSound([pg EXCEPT !.list = list]) /\ [pg EXCEPT !.list = list].does = pg.does
<1> DEFINE new == [pg EXCEPT !.list = list]
<1>1. DOMAIN new = PageFields /\ new.does = pg.does /\ new.copy = pg.copy /\ new.list = list
  BY DEF PageSound, PageFields
<1> HIDE DEF new
<1>2. PageSound(new)
  BY <1>1 DEF PageSound
<1>3. QED
  BY <1>1, <1>2 DEF new

(* The other fields hold nothing the others rest on.                                 *)
LEMMA PagePending ==
  ASSUME NEW pg, PageSound(pg), NEW x
  PROVE  PageSound([pg EXCEPT !.pending = x]) /\ [pg EXCEPT !.pending = x].does = pg.does
<1> DEFINE new == [pg EXCEPT !.pending = x]
<1>1. DOMAIN new = PageFields /\ new.does = pg.does /\ new.copy = pg.copy /\ new.list = pg.list
  BY DEF PageSound, PageFields
<1> HIDE DEF new
<1>2. PageSound(new)
  BY <1>1 DEF PageSound
<1>3. QED
  BY <1>1, <1>2 DEF new

LEMMA PageSettling ==
  ASSUME NEW pg, PageSound(pg), NEW x
  PROVE  PageSound([pg EXCEPT !.settling = x]) /\ [pg EXCEPT !.settling = x].does = pg.does
<1> DEFINE new == [pg EXCEPT !.settling = x]
<1>1. DOMAIN new = PageFields /\ new.does = pg.does /\ new.copy = pg.copy /\ new.list = pg.list
  BY DEF PageSound, PageFields
<1> HIDE DEF new
<1>2. PageSound(new)
  BY <1>1 DEF PageSound
<1>3. QED
  BY <1>1, <1>2 DEF new

LEMMA PageLoading ==
  ASSUME NEW pg, PageSound(pg), NEW x
  PROVE  PageSound([pg EXCEPT !.loading = x]) /\ [pg EXCEPT !.loading = x].does = pg.does
<1> DEFINE new == [pg EXCEPT !.loading = x]
<1>1. DOMAIN new = PageFields /\ new.does = pg.does /\ new.copy = pg.copy /\ new.list = pg.list
  BY DEF PageSound, PageFields
<1> HIDE DEF new
<1>2. PageSound(new)
  BY <1>1 DEF PageSound
<1>3. QED
  BY <1>1, <1>2 DEF new

LEMMA PageAstray ==
  ASSUME NEW pg, PageSound(pg), NEW x
  PROVE  PageSound([pg EXCEPT !.astray = x]) /\ [pg EXCEPT !.astray = x].does = pg.does
<1> DEFINE new == [pg EXCEPT !.astray = x]
<1>1. DOMAIN new = PageFields /\ new.does = pg.does /\ new.copy = pg.copy /\ new.list = pg.list
  BY DEF PageSound, PageFields
<1> HIDE DEF new
<1>2. PageSound(new)
  BY <1>1 DEF PageSound
<1>3. QED
  BY <1>1, <1>2 DEF new

LEMMA PageOpen ==
  ASSUME NEW pg, PageSound(pg), NEW x
  PROVE  PageSound([pg EXCEPT !.open = x]) /\ [pg EXCEPT !.open = x].does = pg.does
<1> DEFINE new == [pg EXCEPT !.open = x]
<1>1. DOMAIN new = PageFields /\ new.does = pg.does /\ new.copy = pg.copy /\ new.list = pg.list
  BY DEF PageSound, PageFields
<1> HIDE DEF new
<1>2. PageSound(new)
  BY <1>1 DEF PageSound
<1>3. QED
  BY <1>1, <1>2 DEF new

LEMMA EmptySound == ListSound(Empty)
BY EmptyListed DEF ListSound, Empty, StoreFields
(* An answer: the request goes, the page takes it, or asks on.                         *)
LEMMA AnsweredStep ==
  ASSUME PagesInv, NEW c \in calls, c.state = "answered", UNCHANGED <<store, alive, letGo, pushes>>, PagesStay,
         NEW more, \A x \in more : Allowed(x), calls' = (calls \ {c}) \cup more
  PROVE  PagesInv'
<1>1. PushesHold'
  BY PushesStay
<1>2. QED
  BY <1>1, PageStep

(* What the page asks for next is a request a page may make.                            *)
LEMMA NextAsked ==
  ASSUME NEW p \in Pages, NEW n, NEW ask, AskSound(ask), NEW then, ThenFits(ask, then), then # "board"
  PROVE  Allowed(Call(p, n, ask, then))
BY CallIs DEF Allowed

LEMMA KillsNextAllowed ==
  ASSUME NEW p \in Pages, NEW n, NEW id, NEW sessions
  PROVE  Allowed(KillsNext(p, n, id, sessions))
<1>1. Allowed(Call(p, n, Asks("delete", id, 0, NoName), "nothing"))
  <2>1. AskSound(Asks("delete", id, 0, NoName))
    BY AsksIs DEF AskKinds, EditKinds
  <2>2. QED
    BY <2>1, NextAsked DEF ThenFits
<1>2. Allowed(Call(p, n, Asks("kill", id, Head(sessions), Tail(sessions)), "killAll"))
  <2>1. AskSound(Asks("kill", id, Head(sessions), Tail(sessions)))
    BY AsksIs DEF AskKinds, EditKinds
  <2>2. QED
    BY <2>1, NextAsked DEF ThenFits
<1>3. QED
  BY <1>1, <1>2 DEF KillsNext

LEMMA ArrivesKeeps ==
  ASSUME PagesInv, NEW c \in calls, Arrives(c)
  PROVE  PagesInv'
<1> DEFINE p == c.page
           pg == page[p]
<1>1. CallSound(c) /\ p \in Pages /\ PageSound(pg)
  BY DEF PagesInv, PagesSound, CallsHold, CallSound, PagesHold
<1>2. c.state = "answered" /\ UNCHANGED <<store, alive, letGo, pushes, edits>>
  BY DEF Arrives
<1>3. c.got # <<>> => (c.then \in {"apply", "show"} => Sound(Head(c.got))) /\ (c.then = "list" => ListSound(Head(c.got)))
  BY <1>1 DEF CallSound, GotSound
<1>4. ASSUME PagesStay, calls' = (calls \ {c}) \cup {} PROVE PagesInv'
  <2> DEFINE more == {}
  <2>1. \A x \in more : Allowed(x)
    OBVIOUS
  <2>2. calls' = (calls \ {c}) \cup more
    BY <1>4
  <2> HIDE DEF more
  <2>3. QED
    BY <1>2, <1>4, <2>1, <2>2, AnsweredStep
<1>5. ASSUME PagesStay, NEW x, Allowed(x), calls' = (calls \ {c}) \cup {x} PROVE PagesInv'
  <2> DEFINE more == {x}
  <2>1. \A y \in more : Allowed(y)
    BY <1>5
  <2>2. calls' = (calls \ {c}) \cup more
    BY <1>5
  <2> HIDE DEF more
  <2>3. QED
    BY <1>2, <1>5, <2>1, <2>2, AnsweredStep
<1>6. page' = page => PagesStay
  BY PagesUnchanged
<1>7. CASE c.then = "apply" /\ page' = [page EXCEPT ![p] = Ends(pg, c.got)] /\ calls' = (calls \ {c}) \cup {}
  <2> DEFINE copy == IF c.got = <<>> THEN pg.copy ELSE Head(c.got)
             fewer == [pg EXCEPT !.pending = pg.pending - 1]
             settling == [fewer EXCEPT !.settling = TRUE]
             new == [settling EXCEPT !.copy = copy]
  <2>1. Sound(copy)
    BY <1>1, <1>3, <1>7 DEF PageSound
  <2>2. Ends(pg, c.got) = new
    BY <1>1 DEF Ends, PageSound, PageFields
  <2> HIDE DEF copy
  <2>3. PageSound(fewer) /\ fewer.does = pg.does
    BY <1>1, PagePending
  <2> HIDE DEF fewer
  <2>4. PageSound(settling) /\ settling.does = fewer.does
    BY <2>3, PageSettling
  <2> HIDE DEF settling
  <2>5. PageSound(new) /\ new.does = settling.does
    BY <2>1, <2>4, PageCopy
  <2> HIDE DEF new
  <2>6. PageSound(new) /\ new.does = pg.does
    BY <2>3, <2>4, <2>5
  <2>7. page' = [page EXCEPT ![p] = new]
    BY <1>7, <2>2
  <2>8. PagesStay
    BY <1>1, <2>6, <2>7, PageSet
  <2>9. QED
    BY <1>4, <1>7, <2>8
<1>8. CASE /\ c.then = "show" /\ calls' = (calls \ {c}) \cup {}
           /\ page' = IF Failed(c) \/ ~pg.open THEN page ELSE [page EXCEPT ![p].copy = Head(c.got)]
  <2>1. CASE Failed(c) \/ ~pg.open
    BY <1>4, <1>6, <1>8, <2>1
  <2>2. CASE ~(Failed(c) \/ ~pg.open)
    <3> DEFINE new == [pg EXCEPT !.copy = Head(c.got)]
    <3>1. Sound(Head(c.got))
      BY <1>3, <1>8, <2>2 DEF Failed
    <3>2. PageSound(new) /\ new.does = pg.does
      BY <1>1, <3>1, PageCopy
    <3>3. page' = [page EXCEPT ![p] = new]
      BY <1>8, <2>2
    <3> HIDE DEF new
    <3>4. PagesStay
      BY <1>1, <3>2, <3>3, PageSet
    <3>5. QED
      BY <1>4, <1>8, <3>4
  <2>3. QED
    BY <2>1, <2>2
<1>9. CASE /\ c.then = "list" /\ calls' = (calls \ {c}) \cup {}
           /\ page' = [page EXCEPT ![p].list = GotOr(c.got, Empty),
                                   ![p].astray = c.got # <<store>> \/ pushes[p] # <<>>]
  <2> DEFINE list == GotOr(c.got, Empty)
             astray == c.got # <<store>> \/ pushes[p] # <<>>
             taken == [pg EXCEPT !.list = list]
             new == [taken EXCEPT !.astray = astray]
  <2>1. ListSound(list)
    BY <1>3, <1>9, EmptySound DEF GotOr
  <2>2. page' = [page EXCEPT ![p].list = list, ![p].astray = astray]
    BY <1>9
  <2> HIDE DEF list, astray
  <2>3. PageSound(taken) /\ taken.does = pg.does
    BY <1>1, <2>1, PageList
  <2>4. page' = [page EXCEPT ![p] = new]
    BY <1>1, <2>2 DEF PagesInv, PagesSound, PagesHold
  <2> HIDE DEF taken
  <2>5. PageSound(new) /\ new.does = pg.does
    BY <2>3, PageAstray
  <2> HIDE DEF new
  <2>6. PagesStay
    BY <1>1, <2>4, <2>5, PageSet
  <2>7. QED
    BY <1>4, <1>9, <2>6
<1>10. CASE c.then = "fetch" /\ calls' = (calls \ {c}) \cup {Call(p, edits, ListAll, "list")} /\ page' = page
  <2>1. AskSound(ListAll) /\ ThenFits(ListAll, "list")
    BY DEF ListAll, AskSound, AskKinds, ThenFits
  <2>2. Allowed(Call(p, edits, ListAll, "list"))
    BY <1>1, <2>1, NextAsked
  <2>3. QED
    BY <1>6, <1>10, <1>5, <2>2
<1>11. CASE /\ c.then = "restart"
            /\ calls' = (calls \ {c}) \cup {Call(p, edits, Asks("split", Shown, 0, NoName), "apply")}
            /\ page' = [page EXCEPT ![p].pending = @ + 1]
  <2> DEFINE new == [pg EXCEPT !.pending = pg.pending + 1]
             ask == Asks("split", Shown, 0, NoName)
  <2>1. AskSound(ask) /\ ask.kind = "split"
    BY AsksIs DEF AskKinds
  <2>2. page' = [page EXCEPT ![p] = new]
    BY <1>11
  <2>3. PageSound(new) /\ new.does = pg.does
    BY <1>1, PagePending
  <2> HIDE DEF new, ask
  <2>4. PagesStay
    BY <1>1, <2>2, <2>3, PageSet
  <2>5. Allowed(Call(p, edits, ask, "apply"))
    BY <1>1, <2>1, NextAsked DEF ThenFits
  <2>6. QED
    BY <1>11, <1>5, <2>4, <2>5 DEF ask
<1>12. CASE /\ c.then = "join" /\ UNCHANGED page
            /\ calls' = (calls \ {c}) \cup
                 (IF Failed(c) THEN {}
                  ELSE {Call(p, c.n, Asks("add", c.ask.id, Head(c.got), c.ask.arg), "nothing")})
  <2> DEFINE ask == Asks("add", c.ask.id, Head(c.got), c.ask.arg)
  <2>1. AskSound(ask)
    BY AsksIs DEF AskKinds, EditKinds
  <2> HIDE DEF ask
  <2>2. Allowed(Call(p, c.n, ask, "nothing"))
    BY <1>1, <2>1, NextAsked DEF ThenFits
  <2>3. QED
    BY <1>4, <1>6, <1>12, <1>5, <2>2 DEF ask
<1>13. CASE /\ c.then = "kill" /\ UNCHANGED page
            /\ calls' = (calls \ {c}) \cup
                 (IF Failed(c) THEN {} ELSE {Call(p, c.n, Asks("kill", c.ask.id, c.ask.session, NoName), "nothing")})
  <2> DEFINE ask == Asks("kill", c.ask.id, c.ask.session, NoName)
  <2>1. AskSound(ask)
    BY AsksIs DEF AskKinds, EditKinds
  <2> HIDE DEF ask
  <2>2. Allowed(Call(p, c.n, ask, "nothing"))
    BY <1>1, <2>1, NextAsked DEF ThenFits
  <2>3. QED
    BY <1>4, <1>6, <1>13, <1>5, <2>2 DEF ask
<1>14. CASE /\ c.then = "killAll" /\ UNCHANGED page
            /\ calls' = (calls \ {c}) \cup (IF Failed(c) THEN {} ELSE {KillsNext(p, c.n, c.ask.id, c.ask.arg)})
  <2>1. Allowed(KillsNext(p, c.n, c.ask.id, c.ask.arg))
    BY <1>1, KillsNextAllowed
  <2>2. QED
    BY <1>4, <1>6, <1>14, <1>5, <2>1
<1>15. CASE /\ c.then = "retry" /\ UNCHANGED page
            /\ calls' = (calls \ {c}) \cup
                 (IF Failed(c) /\ c.ask.arg # <<"a", 3>>
                  THEN {Call(p, c.n, [c.ask EXCEPT !.arg = <<"a", 3>>], "retry")} ELSE {})
  <2> DEFINE name == <<"a", 3>>
             ask == [c.ask EXCEPT !.arg = name]
  <2>1. c.ask.kind = "create" /\ DOMAIN c.ask = AskFields
    BY <1>1, <1>15 DEF CallSound, ThenFits
  <2> HIDE DEF name
  <2>2. ask.kind = "create" /\ DOMAIN ask = AskFields
    BY <2>1 DEF AskFields
  <2> HIDE DEF ask
  <2>3. AskSound(ask) /\ ThenFits(ask, "retry")
    BY <2>2 DEF AskSound, AskKinds, EditKinds, ThenFits
  <2>4. Allowed(Call(p, c.n, ask, "retry"))
    BY <1>1, <2>3, NextAsked
  <2>5. QED
    BY <1>4, <1>6, <1>15, <1>5, <2>4 DEF ask, name
<1>16. CASE /\ c.then = "nothing" /\ calls' = (calls \ {c}) \cup {}
            /\ page' = IF Failed(c) THEN [page EXCEPT ![p].astray = TRUE] ELSE page
  <2>1. CASE ~Failed(c)
    BY <1>4, <1>6, <1>16, <2>1
  <2>2. CASE Failed(c)
    <3> DEFINE new == [pg EXCEPT !.astray = TRUE]
    <3>1. PageSound(new) /\ new.does = pg.does
      BY <1>1, PageAstray
    <3>2. page' = [page EXCEPT ![p] = new]
      BY <1>16, <2>2
    <3> HIDE DEF new
    <3>3. PagesStay
      BY <1>1, <3>1, <3>2, PageSet
    <3>4. QED
      BY <1>4, <1>16, <3>3
  <2>3. QED
    BY <2>1, <2>2
<1>17. QED
  BY <1>7, <1>8, <1>9, <1>10, <1>11, <1>12, <1>13, <1>14, <1>15, <1>16 DEF Arrives
LEMMA HeadTail ==
  ASSUME NEW s, Listed(s), s # <<>>
  PROVE  Head(s) \in ToSet(s) /\ Listed(Tail(s)) /\ ToSet(Tail(s)) \subseteq ToSet(s)
<1> DEFINE T == ToSet(s)
           t == Tail(s)
<1>1. s \in Seq(T)
  BY ListedIs
<1> HIDE DEF T
<1>2. t \in Seq(T) /\ Head(s) \in T
  BY <1>1
<1> HIDE DEF t
<1>3. Listed(t) /\ \A i \in 1 .. Len(t) : t[i] \in T
  BY <1>2, SeqListed
<1>4. ToSet(t) = {t[i] : i \in 1 .. Len(t)}
  BY <1>3, ListedIs
<1>5. ToSet(t) \subseteq T
  BY <1>3, <1>4
<1>6. QED
  BY <1>2, <1>3, <1>5 DEF T, t

(* What the tabs make of a push.                                                  *)
LEMMA HeardIs ==
  ASSUME NEW list, ListSound(list), NEW e, EventSound(e)
  PROVE  ListSound(Heard(list, e))
<1>1. DOMAIN list = StoreFields /\ Listed(list.order)
  BY DEF ListSound
<1>2. CASE e.kind = "streams"
  BY <1>1, <1>2 DEF Heard, ListSound, StoreFields
<1>3. CASE e.kind = "order"
  <2> DEFINE order == Kept(e.ids, ToSet(list.order)) \o Kept(list.order, ToSet(list.order) \ ToSet(e.ids))
  <2>1. Heard(list, e) = [list EXCEPT !.order = order]
    BY <1>3 DEF Heard
  <2>2. Listed(e.ids)
    BY <1>3 DEF EventSound
  <2>3. Listed(order)
    BY <1>1, <2>2, KeptIs, ConcatListed
  <2> HIDE DEF order
  <2>4. QED
    BY <1>1, <2>1, <2>3 DEF ListSound, StoreFields
<1>4. CASE e.kind = "deleted"
  <2> DEFINE order == Without(list.order, e.id)
             ws == [o \in DOMAIN list.ws \ {e.id} |-> list.ws[o]]
  <2>1. Heard(list, e) = [list EXCEPT !.order = order, !.ws = ws]
    BY <1>1, <1>4 DEF Heard, StoreFields
  <2>2. Listed(order)
    BY <1>1, WithoutIs
  <2> HIDE DEF order, ws
  <2>3. QED
    BY <1>1, <2>1, <2>2 DEF ListSound, StoreFields
<1>5. CASE e.kind = "workspace"
  <2> DEFINE order == Inserted(list.order, e.id)
             ws == Put(list.ws, e.id, e.workspace)
  <2>1. Heard(list, e) = [list EXCEPT !.order = order, !.ws = ws]
    BY <1>1, <1>5 DEF Heard, StoreFields
  <2>2. Listed(order)
    BY <1>1, InsertedIs
  <2> HIDE DEF order, ws
  <2>3. QED
    BY <1>1, <2>1, <2>2 DEF ListSound, StoreFields
<1>6. QED
  BY <1>2, <1>3, <1>4, <1>5 DEF EventSound

LEMMA HearsIs ==
  ASSUME NEW pg, PageSound(pg), NEW e, PushSound(e, pg.does)
  PROVE  PageSound(Hears(pg, e)) /\ Hears(pg, e).does = pg.does
<1>1. CASE pg.does = "panes"
  <2>1. CASE pg.pending > 0 \/ pg.settling \/ ~pg.open
    BY <1>1, <2>1 DEF Hears
  <2>2. CASE ~(pg.pending > 0 \/ pg.settling \/ ~pg.open) /\ e.kind = "deleted"
    <3>1. Hears(pg, e) = [pg EXCEPT !.open = FALSE]
      BY <1>1, <2>2 DEF Hears
    <3>2. QED
      BY <3>1, PageOpen
  <2>3. CASE ~(pg.pending > 0 \/ pg.settling \/ ~pg.open) /\ e.kind # "deleted"
    <3>1. Hears(pg, e) = [pg EXCEPT !.copy = e.workspace]
      BY <1>1, <2>3 DEF Hears
    <3>2. Sound(e.workspace)
      BY <1>1, <2>3 DEF PushSound, EventSound
    <3>3. QED
      BY <3>1, <3>2, PageCopy
  <2>4. QED
    BY <2>1, <2>2, <2>3
<1>2. CASE pg.does # "panes"
  <2> DEFINE list == Heard(pg.list, e)
  <2>1. Hears(pg, e) = [pg EXCEPT !.list = list]
    BY <1>2 DEF Hears
  <2>2. pg.does = "tabs" => ListSound(list)
    BY HeardIs DEF PageSound, PushSound
  <2> HIDE DEF list
  <2>3. QED
    BY <2>1, <2>2, PageList
<1>3. QED
  BY <1>1, <1>2

LEMMA PushedKeeps ==
  ASSUME PagesInv, NEW p \in Pages, Pushed(p)
  PROVE  PagesInv'
<1> DEFINE e == Head(pushes[p])
           rest == Tail(pushes[p])
           new == Hears(page[p], e)
<1>1. /\ pushes[p] # <<>> /\ UNCHANGED <<store, alive, ended, letGo, calls, edits>>
      /\ pushes' = [pushes EXCEPT ![p] = rest] /\ page' = [page EXCEPT ![p] = new]
  BY DEF Pushed
<1>2. PageSound(page[p]) /\ PushesSound(pushes[p], page[p].does)
  BY DEF PagesInv, PagesSound, PagesHold, PushesHold
<1>3. PushSound(e, page[p].does) /\ PushesSound(rest, page[p].does)
  BY <1>1, <1>2, HeadTail DEF PushesSound
<1> HIDE DEF e, rest
<1>4. PageSound(new) /\ new.does = page[p].does
  BY <1>2, <1>3, HearsIs
<1> HIDE DEF new
<1>5. PagesStay
  BY <1>1, <1>4, PageSet
<1>6. PushesHold'
  <2>1. /\ pushes = [q \in Pages |-> pushes[q]]
        /\ \A q \in Pages : PushesSound(pushes[q], page[q].does) /\ page'[q].does = page[q].does
    BY <1>5 DEF PagesInv, PagesSound, PushesHold, PagesStay
  <2>2. pushes' = [q \in Pages |-> IF q = p THEN rest ELSE pushes[q]]
    BY <1>1, <2>1
  <2>3. QED
    BY <1>3, <2>1, <2>2 DEF PushesHold
<1> DEFINE gone == {}
<1>7. /\ calls' = (calls \ gone) \cup gone /\ \A c \in gone : c.session = 0 \/ c.state = "answered"
      /\ \A c \in gone : Allowed(c)
  BY <1>1
<1> HIDE DEF gone
<1>8. QED
  BY <1>1, <1>5, <1>6, <1>7, PageStep

(* A step of a page that changes nothing but pages and requests.                         *)
LEMMA OwnStep ==
  ASSUME PagesInv, UNCHANGED <<store, alive, letGo, pushes>>, PagesStay,
         NEW more, \A c \in more : Allowed(c), calls' = calls \cup more
  PROVE  PagesInv'
<1> DEFINE gone == {}
<1>1. calls' = (calls \ gone) \cup more /\ \A c \in gone : c.session = 0 \/ c.state = "answered"
  OBVIOUS
<1> HIDE DEF gone
<1>2. PushesHold'
  BY PushesStay
<1>3. QED
  BY <1>1, <1>2, PageStep

LEMMA SettlesKeeps ==
  ASSUME PagesInv, NEW p \in Pages, Settles(p)
  PROVE  PagesInv'
<1> DEFINE new == [page[p] EXCEPT !.settling = FALSE]
           more == {}
<1>1. PageSound(page[p])
  BY DEF PagesInv, PagesSound, PagesHold
<1>2. PageSound(new) /\ new.does = page[p].does
  BY <1>1, PageSettling
<1>3. page' = [page EXCEPT ![p] = new] /\ calls' = calls \cup more /\ UNCHANGED <<store, alive, letGo, pushes>>
  BY DEF Settles
<1>4. \A c \in more : Allowed(c)
  OBVIOUS
<1> HIDE DEF new, more
<1>5. PagesStay
  BY <1>2, <1>3, PageSet
<1>6. QED
  BY <1>3, <1>4, <1>5, OwnStep

LEMMA PollsKeeps ==
  ASSUME PagesInv, NEW p \in Pages, Polls(p)
  PROVE  PagesInv'
<1> DEFINE more == {Call(p, 0, Get, "show")}
<1>1. AskSound(Get) /\ ThenFits(Get, "show")
  BY DEF Get, AskSound, AskKinds, ThenFits
<1>2. \A c \in more : Allowed(c)
  BY <1>1, NextAsked
<1>3. calls' = calls \cup more /\ UNCHANGED <<store, alive, letGo, pushes, page>>
  BY DEF Polls
<1> HIDE DEF more
<1>4. PagesStay
  BY <1>3, PagesUnchanged
<1>5. QED
  BY <1>2, <1>3, <1>4, OwnStep

LEMMA LoadsKeeps ==
  ASSUME PagesInv, NEW p \in Pages, Loads(p)
  PROVE  PagesInv'
<1> DEFINE new == [page[p] EXCEPT !.loading = FALSE]
           more == Sweep(p, page[p])
<1>1. PageSound(page[p])
  BY DEF PagesInv, PagesSound, PagesHold
<1>2. PageSound(new) /\ new.does = page[p].does
  BY <1>1, PageLoading
<1>3. page' = [page EXCEPT ![p] = new] /\ calls' = calls \cup more /\ UNCHANGED <<store, alive, letGo, pushes>>
  BY DEF Loads
<1>4. \A c \in more : Allowed(c)
  <2>1. ASSUME NEW c \in more PROVE Allowed(c)
    <3>1. PICK x \in Swept(page[p]) : c = Call(p, edits, Asks("remove", x[1], x[2], NoName), "nothing")
      BY DEF Sweep
    <3> DEFINE ask == Asks("remove", x[1], x[2], NoName)
    <3>2. AskSound(ask)
      BY AsksIs DEF AskKinds, EditKinds
    <3> HIDE DEF ask
    <3>3. Allowed(Call(p, edits, ask, "nothing"))
      BY <3>2, NextAsked DEF ThenFits
    <3>4. QED
      BY <3>1, <3>3 DEF ask
  <2>2. QED
    BY <2>1
<1> HIDE DEF new, more
<1>5. PagesStay
  BY <1>2, <1>3, PageSet
<1>6. QED
  BY <1>3, <1>4, <1>5, OwnStep

LEMMA ShowsBoardKeeps ==
  ASSUME PagesInv, NEW p \in Pages, ShowsBoard(p)
  PROVE  PagesInv'
<1> DEFINE gone == BoardCalls(p)
           pg == page[p]
           live == Head(BoardAnswer(p, "sessions"))
           list == GotOr(BoardAnswer(p, "list"), Empty)
           more == {}
<1>1. PageSound(pg) /\ pg.does = "dashboard"
  BY DEF PagesInv, PagesSound, PagesHold, CallsHold, BoardsAsk, ShowsBoard, BoardCalls
<1>2. /\ \A c \in gone : c.session = 0 \/ c.state = "answered"
      /\ calls' = (calls \ gone) \cup more /\ UNCHANGED <<store, alive, letGo, pushes>>
      /\ page' = page \/ page' = [page EXCEPT ![p].live = live, ![p].list = list]
  BY DEF ShowsBoard
<1>3. \A c \in more : Allowed(c)
  OBVIOUS
<1> HIDE DEF gone, live, list, more
<1>4. PagesStay
  <2>1. CASE page' = page
    BY <2>1, PagesUnchanged
  <2>2. CASE page' = [page EXCEPT ![p].live = live, ![p].list = list]
    <3> DEFINE new == [pg EXCEPT !.live = live, !.list = list]
    <3>1. page' = [page EXCEPT ![p] = new]
      BY <2>2 DEF PagesInv, PagesSound, PagesHold
    <3>2. DOMAIN new = PageFields /\ new.does = pg.does /\ new.copy = pg.copy
      BY <1>1 DEF PageSound, PageFields
    <3> HIDE DEF new
    <3>3. PageSound(new)
      BY <1>1, <3>2 DEF PageSound
    <3>4. QED
      BY <3>1, <3>2, <3>3, PageSet
  <2>3. QED
    BY <1>2, <2>1, <2>2
<1>5. PushesHold'
  BY <1>2, <1>4, PushesStay
<1>6. QED
  BY <1>2, <1>3, <1>4, <1>5, PageStep
-----------------------------------------------------------------------------
(* What a user does.                                                           *)
LEMMA EditKeeps ==
  ASSUME PagesInv, NEW p \in Pages, NEW asked, \A c \in asked : Allowed(c),
         NEW pg, PageSound(pg), pg.does = page[p].does, EditOf(p, asked, pg)
  PROVE  PagesInv'
<1>1. calls' = calls \cup asked /\ page' = [page EXCEPT ![p] = pg] /\ UNCHANGED <<store, alive, letGo, pushes>>
  BY DEF EditOf
<1>2. PagesStay
  BY <1>1, PageSet
<1>3. QED
  BY <1>1, <1>2, OwnStep

LEMMA EditsOne ==
  ASSUME PagesInv, NEW p \in Pages, NEW c, Allowed(c),
         NEW pg, PageSound(pg), pg.does = page[p].does, EditOf(p, {c}, pg)
  PROVE  PagesInv'
<1> DEFINE asked == {c}
<1>1. \A x \in asked : Allowed(x)
  OBVIOUS
<1>2. EditOf(p, asked, pg)
  OBVIOUS
<1> HIDE DEF asked
<1>3. QED
  BY <1>1, <1>2, EditKeeps

LEMMA AskedIs ==
  ASSUME NEW p \in Pages, NEW k \in AskKinds \ {"relayout", "reorder"}, NEW id, NEW s, NEW arg,
         NEW then \in {"nothing", "apply", "restart", "fetch", "retry", "join", "kill"},
         then = "apply" => k \in {"split", "preset", "add"}, then = "retry" => k = "create"
  PROVE  Allowed(Asked(p, k, id, s, arg, then))
<1> DEFINE ask == Asks(k, id, s, arg)
<1>1. AskSound(ask) /\ DOMAIN ask = AskFields /\ ask.kind = k
  BY AsksIs
<1>2. Asked(p, k, id, s, arg, then) = Call(p, edits + 1, ask, then)
  BY DEF Asked
<1> HIDE DEF ask
<1>3. ThenFits(ask, then) /\ then # "board"
  BY <1>1 DEF ThenFits
<1>4. Allowed(Call(p, edits + 1, ask, then))
  BY <1>1, <1>3, NextAsked
<1>5. QED
  BY <1>2, <1>4

LEMMA AskedWhole ==
  ASSUME NEW p \in Pages, NEW k \in {"relayout", "reorder"}, NEW id, NEW s, NEW arg, Listed(arg)
  PROVE  Allowed(Asked(p, k, id, s, arg, "nothing"))
<1> DEFINE ask == Asks(k, id, s, arg)
<1>1. AskSound(ask)
  BY AsksWhole
<1>2. Asked(p, k, id, s, arg, "nothing") = Call(p, edits + 1, ask, "nothing")
  BY DEF Asked
<1> HIDE DEF ask
<1>3. Allowed(Call(p, edits + 1, ask, "nothing"))
  BY <1>1, NextAsked DEF ThenFits
<1>4. QED
  BY <1>2, <1>3

LEMMA BlockedIs ==
  ASSUME NEW pg, PageSound(pg), NEW copy, Sound(copy)
  PROVE  PageSound(Blocked(pg, copy)) /\ Blocked(pg, copy).does = pg.does
<1> DEFINE settling == [pg EXCEPT !.settling = TRUE]
           new == [settling EXCEPT !.copy = copy]
<1>1. PageSound(settling) /\ settling.does = pg.does
  BY PageSettling
<1>2. Blocked(pg, copy) = new
  BY DEF Blocked
<1> HIDE DEF settling
<1>3. PageSound(new) /\ new.does = settling.does
  BY <1>1, PageCopy
<1>4. QED
  BY <1>1, <1>2, <1>3

LEMMA BegunIs ==
  ASSUME NEW pg, PageSound(pg)
  PROVE  PageSound(Begun(pg)) /\ Begun(pg).does = pg.does
<1> DEFINE more == pg.pending + 1
<1>1. Begun(pg) = [pg EXCEPT !.pending = more]
  BY DEF Begun
<1> HIDE DEF more
<1>2. QED
  BY <1>1, PagePending, SMTT(30)

LEMMA DroppedIs ==
  ASSUME NEW w, Sound(w), NEW s
  PROVE  Sound(Dropped(w, s))
<1> DEFINE layout == Without(w.layout, s)
           members == MembersOf(w.members, SessionsOf(w.members) \ {s})
<1>1. Listed(layout) /\ Listed(members)
  BY WithoutIs, MembersOfIs DEF Sound
<1>2. Dropped(w, s) = [w EXCEPT !.layout = layout, !.members = members]
  BY DEF Dropped, Sound, Fields
<1> HIDE DEF layout, members
<1>3. QED
  BY <1>1, <1>2 DEF Sound, Fields

LEMMA SwappedIs ==
  ASSUME NEW s, Listed(s), NEW x, NEW y
  PROVE  Listed(Swapped(s, x, y))
<1> DEFINE to(i) == CASE s[i] = x -> y [] s[i] = y -> x [] OTHER -> s[i]
           f == [i \in 1 .. Len(s) |-> to(i)]
<1>1. Swapped(s, x, y) = s \/ Swapped(s, x, y) = f
  BY DEF Swapped
<1> HIDE DEF to
<1>2. Listed(f)
  <2> DEFINE T == {to(i) : i \in 1 .. Len(s)}
  <2>1. Len(s) \in Nat
    BY DEF Listed
  <2>2. f \in [1 .. Len(s) -> T]
    OBVIOUS
  <2> HIDE DEF T, f
  <2>3. f \in Seq(T)
    BY <2>1, <2>2
  <2>4. QED
    BY <2>3, SeqListed
<1>3. QED
  BY <1>1, <1>2

(* A page of panes.                                                            *)
LEMMA PanesEditKeeps ==
  ASSUME PagesInv, NEW p \in Pages,
         DoSplit(p) \/ DetachMember(p) \/ TerminateMember(p) \/ CommitLayout(p) \/ ApplyPreset(p) \/ AttachSession(p)
  PROVE  PagesInv'
<1> DEFINE pg == page[p]
<1>1. PageSound(pg) /\ Sound(pg.copy)
  BY DEF PagesInv, PagesSound, PagesHold, PageSound
<1>2. PageSound(Begun(pg)) /\ Begun(pg).does = pg.does
  BY <1>1, BegunIs
<1>3. CASE DoSplit(p)
  <2>1. PICK t \in ToSet(pg.copy.layout) : EditOf(p, {Asked(p, "split", Shown, t, NoName, "apply")}, Begun(pg))
    BY <1>3 DEF DoSplit
  <2> DEFINE c == Asked(p, "split", Shown, t, NoName, "apply")
  <2>2. Allowed(c)
    BY AskedIs DEF AskKinds
  <2> HIDE DEF c
  <2>3. QED
    BY <1>2, <2>1, <2>2, EditsOne DEF c
<1>4. CASE DetachMember(p)
  <2>1. PICK s \in ToSet(pg.copy.layout), then \in {"nothing", "restart"} :
          EditOf(p, {Asked(p, "remove", Shown, s, NoName, then)}, Blocked(pg, Dropped(pg.copy, s)))
    BY <1>4 DEF DetachMember
  <2> DEFINE c == Asked(p, "remove", Shown, s, NoName, then)
             copy == Dropped(pg.copy, s)
  <2>2. Allowed(c)
    BY AskedIs DEF AskKinds, EditKinds
  <2>3. Sound(copy)
    BY <1>1, DroppedIs
  <2> HIDE DEF c, copy
  <2>4. PageSound(Blocked(pg, copy)) /\ Blocked(pg, copy).does = pg.does
    BY <1>1, <2>3, BlockedIs
  <2>5. QED
    BY <2>1, <2>2, <2>4, EditsOne DEF c, copy
<1>5. CASE TerminateMember(p)
  <2>1. PICK s \in ToSet(pg.copy.layout) :
          EditOf(p, {Asked(p, "destroy", Shown, 0, {s}, "nothing"), Asked(p, "remove", Shown, s, NoName, "nothing")},
                 Blocked(pg, Dropped(pg.copy, s)))
    BY <1>5 DEF TerminateMember
  <2> DEFINE asked == {Asked(p, "destroy", Shown, 0, {s}, "nothing"), Asked(p, "remove", Shown, s, NoName, "nothing")}
             copy == Dropped(pg.copy, s)
  <2>2. \A c \in asked : Allowed(c)
    BY AskedIs DEF AskKinds, EditKinds
  <2>3. Sound(copy)
    BY <1>1, DroppedIs
  <2> HIDE DEF asked, copy
  <2>4. PageSound(Blocked(pg, copy)) /\ Blocked(pg, copy).does = pg.does
    BY <1>1, <2>3, BlockedIs
  <2>5. EditOf(p, asked, Blocked(pg, copy))
    BY <2>1 DEF asked, copy
  <2>6. QED
    BY <2>2, <2>4, <2>5, EditKeeps
<1>6. CASE CommitLayout(p)
  <2>1. PICK x, y \in ToSet(pg.copy.layout) :
          EditOf(p, {Asked(p, "relayout", Shown, 0, Swapped(pg.copy.layout, x, y), "nothing")},
                 Blocked(pg, [pg.copy EXCEPT !.layout = Swapped(pg.copy.layout, x, y)]))
    BY <1>6 DEF CommitLayout
  <2> DEFINE layout == Swapped(pg.copy.layout, x, y)
             c == Asked(p, "relayout", Shown, 0, layout, "nothing")
             copy == [pg.copy EXCEPT !.layout = layout]
  <2>2. Listed(layout)
    BY <1>1, SwappedIs DEF Sound
  <2>3. EditOf(p, {c}, Blocked(pg, copy))
    BY <2>1
  <2> HIDE DEF layout
  <2>4. Allowed(c)
    BY <2>2, AskedWhole
  <2>5. Sound(copy)
    BY <1>1, <2>2 DEF Sound, Fields
  <2> HIDE DEF c, copy
  <2>6. PageSound(Blocked(pg, copy)) /\ Blocked(pg, copy).does = pg.does
    BY <1>1, <2>5, BlockedIs
  <2>7. QED
    BY <2>3, <2>4, <2>6, EditsOne
<1>7. CASE ApplyPreset(p)
  <2> DEFINE c == Asked(p, "preset", Shown, 0, NoName, "apply")
  <2>1. EditOf(p, {c}, Begun(pg))
    BY <1>7 DEF ApplyPreset
  <2>2. Allowed(c)
    BY AskedIs DEF AskKinds, EditKinds
  <2> HIDE DEF c
  <2>3. QED
    BY <1>2, <2>1, <2>2, EditsOne
<1>8. CASE AttachSession(p)
  <2>1. PICK s \in alive \ Homes(store) :
          EditOf(p, {Asked(p, "add", Shown, s, FreshName(NamesOf(pg.copy.members), 1), "apply")}, Begun(pg))
    BY <1>8 DEF AttachSession
  <2> DEFINE name == FreshName(NamesOf(pg.copy.members), 1)
             c == Asked(p, "add", Shown, s, name, "apply")
  <2>2. EditOf(p, {c}, Begun(pg))
    BY <2>1
  <2> HIDE DEF name
  <2>3. Allowed(c)
    BY AskedIs DEF AskKinds, EditKinds
  <2> HIDE DEF c
  <2>4. QED
    BY <1>2, <2>2, <2>3, EditsOne
<1>9. QED
  BY <1>3, <1>4, <1>5, <1>6, <1>7, <1>8
(* A page of tabs.                                                               *)
LEMMA ListEdited ==
  ASSUME PagesInv, NEW p \in Pages, Tabs(p), NEW c, Allowed(c), NEW list, ListSound(list),
         EditOf(p, {c}, [page[p] EXCEPT !.list = list])
  PROVE  PagesInv'
<1> DEFINE pg == page[p]
           new == [pg EXCEPT !.list = list]
<1>1. PageSound(pg)
  BY DEF PagesInv, PagesSound, PagesHold
<1>2. PageSound(new) /\ new.does = pg.does
  BY <1>1, PageList
<1> HIDE DEF new
<1>3. QED
  BY <1>2, EditsOne DEF new

LEMMA SameEdited ==
  ASSUME PagesInv, NEW p \in Pages, NEW c, Allowed(c), EditOf(p, {c}, page[p])
  PROVE  PagesInv'
<1>1. PageSound(page[p])
  BY DEF PagesInv, PagesSound, PagesHold
<1>2. QED
  BY <1>1, EditsOne

LEMMA ReorderTabsKeeps ==
  ASSUME PagesInv, NEW p \in Pages, ReorderTabs(p)
  PROVE  PagesInv'
<1> DEFINE list == page[p].list
           order == Swapped(list.order, Shown, Other)
           c == Asked(p, "reorder", Shown, 0, order, "nothing")
           new == [list EXCEPT !.order = order]
<1>1. Tabs(p) /\ ListSound(list)
  BY DEF PagesInv, PagesSound, PagesHold, PageSound, ReorderTabs, Tabs
<1>2. Listed(order)
  BY <1>1, SwappedIs DEF ListSound
<1>3. EditOf(p, {c}, [page[p] EXCEPT !.list.order = order])
  BY DEF ReorderTabs
<1> HIDE DEF order
<1>4. Allowed(c)
  BY <1>2, AskedWhole
<1>5. ListSound(new)
  BY <1>1, <1>2 DEF ListSound, StoreFields
<1>6. EditOf(p, {c}, [page[p] EXCEPT !.list = new])
  BY <1>3
<1> HIDE DEF c, new
<1>7. QED
  BY <1>1, <1>4, <1>5, <1>6, ListEdited

LEMMA MoveToStreamKeeps ==
  ASSUME PagesInv, NEW p \in Pages, MoveWorkspaceToStream(p)
  PROVE  PagesInv'
<1> DEFINE list == page[p].list
<1>1. Tabs(p) /\ ListSound(list)
  BY DEF PagesInv, PagesSound, PagesHold, PageSound, MoveWorkspaceToStream, Tabs
<1>2. PICK id \in DOMAIN list.ws, s \in {"s", Unsorted} :
        EditOf(p, {Asked(p, "retag", id, 0, s, "nothing")},
               [page[p] EXCEPT !.list = Adopt([@ EXCEPT !.ws[id].stream = s], s)])
  BY DEF MoveWorkspaceToStream
<1> DEFINE ws == [list.ws EXCEPT ![id].stream = s]
           moved == [list EXCEPT !.ws = ws]
           new == Adopt(moved, s)
           c == Asked(p, "retag", id, 0, s, "nothing")
<1>3. Allowed(c)
  BY AskedIs DEF AskKinds, EditKinds
<1>4. EditOf(p, {c}, [page[p] EXCEPT !.list = new])
  BY <1>2
<1> HIDE DEF c, ws
<1>5. ListSound(moved)
  BY <1>1 DEF ListSound, StoreFields
<1> HIDE DEF moved
<1>6. ListSound(new)
  BY <1>5, AdoptIs DEF ListSound
<1> HIDE DEF new
<1>7. QED
  BY <1>1, <1>3, <1>4, <1>6, ListEdited

LEMMA EditStreamsKeeps ==
  ASSUME PagesInv, NEW p \in Pages, EditStreams(p)
  PROVE  PagesInv'
<1> DEFINE list == page[p].list
<1>1. Tabs(p) /\ ListSound(list)
  BY DEF PagesInv, PagesSound, PagesHold, PageSound, EditStreams, Tabs
<1>2. CASE EditOf(p, {Asked(p, "addStream", Shown, 0, "s", "nothing")}, [page[p] EXCEPT !.list = Adopt(@, "s")])
  <2> DEFINE c == Asked(p, "addStream", Shown, 0, "s", "nothing")
             new == Adopt(list, "s")
  <2>1. Allowed(c)
    BY AskedIs DEF AskKinds, EditKinds
  <2>2. ListSound(new)
    BY <1>1, AdoptIs DEF ListSound
  <2>3. EditOf(p, {c}, [page[p] EXCEPT !.list = new])
    BY <1>2
  <2> HIDE DEF c, new
  <2>4. QED
    BY <1>1, <2>1, <2>2, <2>3, ListEdited
<1>3. CASE EditOf(p, {Asked(p, "removeStream", Shown, 0, "s", "nothing")}, [page[p] EXCEPT !.list = Unstreamed(@, "s")])
  <2> DEFINE c == Asked(p, "removeStream", Shown, 0, "s", "nothing")
             fewer == [list EXCEPT !.streams = Without(list.streams, "s")]
             new == Unstreamed(list, "s")
  <2>1. Allowed(c)
    BY AskedIs DEF AskKinds, EditKinds
  <2>2. ListSound(fewer)
    BY <1>1 DEF ListSound, StoreFields
  <2>3. EditOf(p, {c}, [page[p] EXCEPT !.list = new])
    BY <1>3
  <2>4. new = RetagAll(fewer, "s", Unsorted)
    BY DEF Unstreamed
  <2> HIDE DEF c, fewer, new
  <2>5. ListSound(new)
    BY <2>2, <2>4, RetagAllIs DEF ListSound
  <2>6. QED
    BY <1>1, <2>1, <2>3, <2>5, ListEdited
<1>4. QED
  BY <1>2, <1>3 DEF EditStreams

LEMMA DeleteWorkspaceKeeps ==
  ASSUME PagesInv, NEW p \in Pages, DeleteWorkspace(p)
  PROVE  PagesInv'
<1>1. PICK id \in DOMAIN page[p].list.ws :
        EditOf(p, {Asked(p, "destroy", id, 0, ToSet(page[p].list.ws[id].layout), "nothing"),
                   Asked(p, "delete", id, 0, NoName, "fetch")}, page[p])
  BY DEF DeleteWorkspace
<1> DEFINE sessions == ToSet(page[p].list.ws[id].layout)
           asked == {Asked(p, "destroy", id, 0, sessions, "nothing"), Asked(p, "delete", id, 0, NoName, "fetch")}
<1>2. EditOf(p, asked, page[p])
  BY <1>1
<1> HIDE DEF sessions
<1>3. \A c \in asked : Allowed(c)
  <2>1. Allowed(Asked(p, "destroy", id, 0, sessions, "nothing"))
    BY AskedIs DEF AskKinds, EditKinds
  <2>2. Allowed(Asked(p, "delete", id, 0, NoName, "fetch"))
    BY AskedIs DEF AskKinds, EditKinds
  <2>3. QED
    BY <2>1, <2>2
<1> HIDE DEF asked
<1>4. PageSound(page[p])
  BY DEF PagesInv, PagesSound, PagesHold
<1>5. QED
  BY <1>2, <1>3, <1>4, EditKeeps

LEMMA TabsEditKeeps ==
  ASSUME PagesInv, NEW p \in Pages, RenameWorkspace(p) \/ CreateWorkspaceTab(p) \/ MoveSession(p)
  PROVE  PagesInv'
<1>1. CASE RenameWorkspace(p)
  <2>1. PICK id : EditOf(p, {Asked(p, "rename", id, 0, <<"a">>, "nothing")}, page[p])
    BY <1>1 DEF RenameWorkspace
  <2> DEFINE name == <<"a">>
             c == Asked(p, "rename", id, 0, name, "nothing")
  <2>2. EditOf(p, {c}, page[p])
    BY <2>1
  <2> HIDE DEF name
  <2>3. Allowed(c)
    BY AskedIs DEF AskKinds, EditKinds
  <2> HIDE DEF c
  <2>4. QED
    BY <2>2, <2>3, SameEdited
<1>2. CASE CreateWorkspaceTab(p)
  <2> DEFINE name == <<"a">>
             c == Asked(p, "create", Other, 0, name, "retry")
  <2>1. EditOf(p, {c}, page[p])
    BY <1>2 DEF CreateWorkspaceTab
  <2> HIDE DEF name
  <2>2. Allowed(c)
    BY AskedIs DEF AskKinds, EditKinds
  <2> HIDE DEF c
  <2>3. QED
    BY <2>1, <2>2, SameEdited
<1>3. CASE MoveSession(p)
  <2>1. PICK id, to, s : EditOf(p, {Asked(p, "move", id, s, to, "nothing")}, page[p])
    BY <1>3 DEF MoveSession
  <2> DEFINE c == Asked(p, "move", id, s, to, "nothing")
  <2>2. Allowed(c)
    BY AskedIs DEF AskKinds, EditKinds
  <2>3. EditOf(p, {c}, page[p])
    BY <2>1
  <2> HIDE DEF c
  <2>4. QED
    BY <2>2, <2>3, SameEdited
<1>4. QED
  BY <1>1, <1>2, <1>3

(* The dashboard, and the commands.                                                  *)
LEMMA RefreshDashboardKeeps ==
  ASSUME PagesInv, NEW p \in Pages, RefreshDashboard(p)
  PROVE  PagesInv'
<1> DEFINE pg == page[p]
           new == [pg EXCEPT !.loading = TRUE]
           asked == Fetches(p, edits + 1)
<1>1. PageSound(pg) /\ pg.does = "dashboard" /\ EditOf(p, asked, new)
  BY DEF PagesInv, PagesSound, PagesHold, RefreshDashboard
<1>2. ASSUME NEW c \in asked PROVE Allowed(c)
  <2>1. PICK ask \in {[kind |-> "sessions"], ListAll} : c = Call(p, edits + 1, ask, "board")
    BY <1>2 DEF Fetches
  <2>2. AskSound(ask) /\ ThenFits(ask, "board")
    BY <2>1 DEF AskSound, AskKinds, ThenFits, ListAll
  <2>3. CallSound(c) /\ c.page = p
    BY <2>1, <2>2, CallIs
  <2>4. QED
    BY <1>1, <2>3 DEF Allowed
<1>3. PageSound(new) /\ new.does = pg.does
  BY <1>1, PageLoading
<1> HIDE DEF asked, new
<1>4. QED
  BY <1>1, <1>2, <1>3, EditKeeps

LEMMA CommandKeeps ==
  ASSUME PagesInv, NEW p \in Pages, CliSplit(p) \/ CliAdd(p) \/ CliRemove(p) \/ CliKill(p) \/ CliDelete(p)
  PROVE  PagesInv'
<1>1. CASE CliSplit(p)
  <2> DEFINE c == Asked(p, "split", Shown, 1, NoName, "nothing")
  <2>1. Allowed(c) /\ EditOf(p, {c}, page[p])
    BY <1>1, AskedIs DEF CliSplit, AskKinds
  <2> HIDE DEF c
  <2>2. QED
    BY <2>1, SameEdited
<1>2. CASE CliAdd(p)
  <2>1. PICK id \in DOMAIN store.ws :
          EditOf(p, {Asked(p, "start", id, 0, FreshName(NamesOf(store.ws[id].members), 1), "join")}, page[p])
    BY <1>2 DEF CliAdd
  <2> DEFINE name == FreshName(NamesOf(store.ws[id].members), 1)
             c == Asked(p, "start", id, 0, name, "join")
  <2>2. EditOf(p, {c}, page[p])
    BY <2>1
  <2> HIDE DEF name
  <2>3. Allowed(c)
    BY AskedIs DEF AskKinds
  <2> HIDE DEF c
  <2>4. QED
    BY <2>2, <2>3, SameEdited
<1>3. CASE CliRemove(p)
  <2>1. PICK id \in DOMAIN store.ws, then \in {"kill", "nothing"} :
          \E s \in SessionsOf(store.ws[id].members) : EditOf(p, {Asked(p, "remove", id, s, NoName, then)}, page[p])
    BY <1>3 DEF CliRemove
  <2>2. PICK s \in SessionsOf(store.ws[id].members) : EditOf(p, {Asked(p, "remove", id, s, NoName, then)}, page[p])
    BY <2>1
  <2> DEFINE c == Asked(p, "remove", id, s, NoName, then)
  <2>3. Allowed(c) /\ EditOf(p, {c}, page[p])
    BY <2>2, AskedIs DEF AskKinds, EditKinds
  <2> HIDE DEF c
  <2>4. QED
    BY <2>3, SameEdited
<1>4. CASE CliKill(p)
  <2>1. PICK s : EditOf(p, {Asked(p, "kill", Shown, s, <<>>, "nothing")}, page[p])
    BY <1>4 DEF CliKill
  <2> DEFINE arg == <<>>
             c == Asked(p, "kill", Shown, s, arg, "nothing")
  <2>2. EditOf(p, {c}, page[p])
    BY <2>1
  <2> HIDE DEF arg
  <2>3. Allowed(c)
    BY AskedIs DEF AskKinds, EditKinds
  <2> HIDE DEF c
  <2>4. QED
    BY <2>2, <2>3, SameEdited
<1>5. CASE CliDelete(p)
  <2>1. PICK id, sessions : EditOf(p, {KillsNext(p, edits + 1, id, sessions)}, page[p])
    BY <1>5 DEF CliDelete
  <2> DEFINE c == KillsNext(p, edits + 1, id, sessions)
  <2>2. Allowed(c) /\ EditOf(p, {c}, page[p])
    BY <2>1, KillsNextAllowed
  <2> HIDE DEF c
  <2>3. QED
    BY <2>2, SameEdited
<1>6. QED
  BY <1>1, <1>2, <1>3, <1>4, <1>5

LEMMA UserEditsKeep ==
  ASSUME PagesInv, NEW p \in Pages, UserEdits(p)
  PROVE  PagesInv'
BY PanesEditKeeps, ReorderTabsKeeps, MoveToStreamKeeps, EditStreamsKeeps, DeleteWorkspaceKeeps, TabsEditKeeps,
   RefreshDashboardKeeps, CommandKeeps DEF UserEdits
-----------------------------------------------------------------------------
(* The first state, and every step.                                                *)
FirstMembers(sessions) == [i \in DOMAIN sessions |-> [session |-> sessions[i], name |-> Term(sessions[i])]]

FirstWorkspace(name, sessions) ==
  [name |-> name, layout |-> sessions, stream |-> Unsorted, members |-> FirstMembers(sessions)]

LEMMA FirstMembersAre ==
  ASSUME NEW T, NEW sessions \in Seq(T)
  PROVE  Listed(FirstMembers(sessions)) /\ T \cap SessionsOf(FirstMembers(sessions)) = ToSet(sessions)
<1> DEFINE member(s) == [session |-> s, name |-> Term(s)]
           M == {member(s) : s \in T}
           f == FirstMembers(sessions)
<1>1. DOMAIN sessions = 1 .. Len(sessions) /\ Len(sessions) \in Nat /\ \A i \in 1 .. Len(sessions) : sessions[i] \in T
  OBVIOUS
<1>2. f = [i \in 1 .. Len(sessions) |-> member(sessions[i])]
  BY <1>1 DEF FirstMembers
<1>3. \A s : member(s).session = s
  OBVIOUS
<1> HIDE DEF f, member
<1>4. f \in [1 .. Len(sessions) -> M]
  BY <1>1, <1>2
<1> HIDE DEF M
<1>5. f \in Seq(M)
  BY <1>1, <1>4
<1>6. Listed(f)
  BY <1>5, SeqListed
<1>7. SessionsOf(f) = {sessions[i] : i \in 1 .. Len(sessions)}
  BY <1>1, <1>2, <1>3 DEF SessionsOf
<1>8. ToSet(sessions) = {sessions[i] : i \in 1 .. Len(sessions)}
  BY SeqListed, ListedIs
<1>9. QED
  BY <1>1, <1>6, <1>7, <1>8 DEF f

LEMMA FirstWorkspaceIs ==
  ASSUME NEW T, NEW sessions \in Seq(T), NEW name
  PROVE  /\ Sound(FirstWorkspace(name, sessions))
         /\ T \cap SessionsOf(FirstWorkspace(name, sessions).members) = ToSet(sessions)
<1>1. Listed(sessions) /\ Listed(FirstMembers(sessions))
  BY SeqListed, FirstMembersAre
<1>2. /\ DOMAIN FirstWorkspace(name, sessions) = Fields /\ FirstWorkspace(name, sessions).layout = sessions
      /\ FirstWorkspace(name, sessions).members = FirstMembers(sessions)
  BY DEF FirstWorkspace, Fields
<1>3. QED
  BY <1>1, <1>2, FirstMembersAre DEF Sound

LEMMA FirstStoreIs == StoreSound(FirstStore) /\ {1, 2} \subseteq Homes(FirstStore) /\ Shown \in DOMAIN FirstStore.ws
<1> DEFINE two == <<1, 2>>
           none == <<>>
           shown == FirstWorkspace(<<"a">>, two)
           other == FirstWorkspace(<<"b">>, none)
           order == <<Shown, Other>>
           ws == [id \in {Shown, Other} |-> IF id = Shown THEN shown ELSE other]
<1>1. FirstStore = [order |-> order, streams |-> <<>>, ws |-> ws]
  BY DEF FirstStore, FirstWorkspace, FirstMembers
<1>2. two \in Seq(Nat) /\ none \in Seq(Nat)
  OBVIOUS
<1>3. ToSet(two) = {1, 2}
  BY DEF ToSet
<1>4. Listed(order) /\ ToSet(order) = {Shown, Other}
  <2>1. order \in Seq({Shown, Other})
    OBVIOUS
  <2>2. ToSet(order) = {Shown, Other}
    BY DEF ToSet
  <2>3. QED
    BY <2>1, <2>2, SeqListed
<1> HIDE DEF two, none, order
<1>5. Sound(shown) /\ Sound(other) /\ Nat \cap SessionsOf(shown.members) = {1, 2}
  BY <1>2, <1>3, FirstWorkspaceIs
<1> HIDE DEF shown, other
<1>6. ws[Shown] = shown /\ DOMAIN ws = {Shown, Other} /\ \A id \in DOMAIN ws : Sound(ws[id])
  BY <1>5
<1> HIDE DEF ws
<1>7. DOMAIN FirstStore = StoreFields /\ FirstStore.order = order /\ FirstStore.ws = ws
  BY <1>1 DEF StoreFields
<1>8. StoreSound(FirstStore)
  BY <1>4, <1>6, <1>7 DEF StoreSound
<1>9. {1, 2} \subseteq SessionsOf(FirstStore.ws[Shown].members) /\ Shown \in DOMAIN FirstStore.ws
  BY <1>5, <1>6, <1>7
<1>10. {1, 2} \subseteq Homes(FirstStore)
  BY <1>9 DEF Homes
<1>11. QED
  BY <1>8, <1>9, <1>10

LEMMA NewPageIs ==
  ASSUME NEW does
  PROVE  PageSound(NewPage(does))
<1> DEFINE pg == NewPage(does)
<1>1. /\ DOMAIN pg = PageFields /\ pg.does = does
      /\ pg.copy = (IF does = "panes" THEN FirstStore.ws[Shown] ELSE NoWorkspace)
      /\ pg.list = (IF does = "panes" THEN Empty ELSE FirstStore)
  BY DEF NewPage, PageFields
<1> HIDE DEF pg
<1>2. Sound(NoWorkspace)
  BY EmptyListed DEF Sound, NoWorkspace, Fields
<1>3. Sound(FirstStore.ws[Shown])
  BY FirstStoreIs DEF StoreSound
<1>4. ListSound(FirstStore)
  BY FirstStoreIs DEF StoreSound, ListSound
<1>5. QED
  BY <1>1, <1>2, <1>3, <1>4 DEF PageSound, pg

LEMMA PagesInitially ==
  ASSUME PagesInit
  PROVE  PagesInv
<1>1. store = FirstStore /\ alive = {1, 2} /\ calls = {} /\ letGo = {} /\ pushes = [p \in Pages |-> <<>>]
  BY DEF PagesInit
<1>2. PICK does : page = [p \in Pages |-> NewPage(IF p = PanesPage THEN "panes" ELSE does)]
  BY DEF PagesInit
<1>3. PagesHold
  BY <1>2, NewPageIs DEF PagesHold
<1>4. PushesHold
  <2> DEFINE none == <<>>
  <2>1. Listed(none) /\ ToSet(none) = {}
    BY EmptyListed
  <2>2. pushes = [p \in Pages |-> none]
    BY <1>1
  <2> HIDE DEF none
  <2>3. QED
    BY <2>1, <2>2 DEF PushesHold, PushesSound
<1>5. CallsHold
  BY <1>1 DEF CallsHold, BoardsAsk
<1>6. Accounted
  BY <1>1, FirstStoreIs DEF Accounted
<1>7. QED
  BY <1>1, <1>3, <1>4, <1>5, <1>6, FirstStoreIs DEF PagesInv, PagesSound

LEMMA PagesStep ==
  ASSUME PagesInv, [PagesNext]_pageVars
  PROVE  PagesInv'
<1>1. ASSUME NEW p \in Pages, Settles(p) \/ ShowsBoard(p) \/ Loads(p) \/ Polls(p) \/ Pushed(p) \/ UserEdits(p)
      PROVE  PagesInv'
  BY <1>1, SettlesKeeps, ShowsBoardKeeps, LoadsKeeps, PollsKeeps, PushedKeeps, UserEditsKeep
<1>2. ASSUME NEW c \in calls, Server(c) \/ Arrives(c) \/ Loses(c)
      PROVE  PagesInv'
  BY <1>2, ServerKeeps, ArrivesKeeps, LosesKeeps
<1>3. CASE UNCHANGED pageVars
  <2> DEFINE more == {}
  <2>1. /\ UNCHANGED <<store, alive, letGo, pushes, page>> /\ calls' = calls \cup more
        /\ \A c \in more : Allowed(c)
    BY <1>3 DEF pageVars
  <2> HIDE DEF more
  <2>2. PagesStay
    BY <2>1, PagesUnchanged
  <2>3. QED
    BY <2>1, <2>2, OwnStep
<1>4. QED
  BY <1>1, <1>2, <1>3 DEF PagesNext

(* No session that runs is forgotten, whatever pages and commands do and the network       *)
(* loses: it is a member of a workspace, it belongs to a split that is not finished, or     *)
(* somebody took it out.                                                        *)
THEOREM PagesForgetNone == PagesSpec => []NoneIsForgotten
<1>1. PagesInv => NoneIsForgotten
  <2>1. Unplaced \subseteq {c.session : c \in calls}
    BY DEF Unplaced
  <2>2. QED
    BY <2>1 DEF PagesInv, Accounted, NoneIsForgotten
<1>2. QED
  BY PagesInitially, PagesStep, <1>1, PTL DEF PagesSpec
-----------------------------------------------------------------------------
(* The saving of the stores, for any number of changes.                             *)

(* The running save carries the content, unless a change came after its copy.  *)
CopyIsCurrent == writing # Nothing /\ ~overtaken => writing = content

(* The file is behind the copy being written, and the copy behind the store.   *)
CopiesInOrder ==
  /\ file <= content
  /\ writing # Nothing => file <= writing /\ writing <= content

(* CleanMeansSaved is not inductive: what a save leaves on the disk is what it   *)
(* had copied, and that is the content only if no change overtook it.          *)
SavedInv ==
  SavedTypeOK /\ CopyIsCurrent /\ CopiesInOrder /\ DirtyIsUnderWay /\ CleanMeansSaved

(* The flags of a store.                                                     *)
SavedFlags ==
  /\ dirty \in BOOLEAN /\ scheduled \in BOOLEAN /\ saveQueued \in BOOLEAN
  /\ overtaken \in BOOLEAN /\ failed \in BOOLEAN

(* The copies of a store, and its stages.                                    *)
SavedCopies ==
  /\ kind \in {"workspaces", "viewer"}
  /\ content \in 0 .. MaxChanges /\ file \in 0 .. MaxChanges
  /\ writing \in {Nothing} \cup 0 .. MaxChanges
  /\ flushing \in {"no", "waiting", "last", "done"}

(* The types are the flags' and the copies'.                                  *)
LEMMA SavedTypes == SavedTypeOK <=> SavedFlags /\ SavedCopies
BY DEF SavedTypeOK, SavedFlags, SavedCopies

(* Every step sets flags to truth values.                                     *)
LEMMA SavedFlagsStay == SavedFlags /\ SavedNext => SavedFlags'
<1> SUFFICES ASSUME SavedFlags, SavedNext PROVE SavedFlags'
    OBVIOUS
<1> USE DEF SavedFlags
<1>1. CASE Change
      BY <1>1, Zenon DEF Change
<1>2. CASE Promote
      BY <1>2, Zenon DEF Promote
<1>3. CASE Microtask
      BY <1>3, Zenon DEF Microtask, StartsWriting
<1>4. CASE Written
      BY <1>4, Zenon DEF Written, StartsWriting
<1>5. CASE WriteFails
      BY <1>5, Zenon DEF WriteFails
<1>6. CASE FlushAsked \/ FlushEnds \/ Reboot
      BY <1>6, Zenon DEF FlushAsked, FlushEnds, Reboot
<1>7. CASE FlushWaited
      BY <1>7, Zenon DEF FlushWaited, StartsWriting
<1>8. QED
      BY <1>1, <1>2, <1>3, <1>4, <1>5, <1>6, <1>7 DEF SavedNext

(* The stores boot with the file's content.                                  *)
LEMMA SavedInitially == SavedInit => SavedInv
<1> SUFFICES ASSUME SavedInit PROVE SavedInv
    OBVIOUS
<1> USE DEF SavedInit
<1>1. SavedFlags
      BY Zenon DEF SavedFlags
<1>2. SavedCopies
      BY SavedAssumption DEF SavedCopies, Nothing
<1>3. CopyIsCurrent /\ CopiesInOrder /\ DirtyIsUnderWay /\ CleanMeansSaved
      BY DEF CopyIsCurrent, CopiesInOrder, DirtyIsUnderWay, CleanMeansSaved, Nothing
<1>4. QED
      BY <1>1, <1>2, <1>3, SavedTypes DEF SavedInv

(* A change only ever adds to the content, and is under way afterwards.       *)
LEMMA SavedChangeKeeps == SavedInv /\ Change => SavedInv'
<1> SUFFICES ASSUME SavedInv, Change PROVE SavedInv'
    OBVIOUS
<1> USE SavedAssumption DEF SavedInv, SavedTypeOK, Change, Nothing
<1>1. SavedCopies'
      BY DEF SavedCopies
<1>a. overtaken' <=> overtaken \/ writing # Nothing
      BY Zenon
<1>2. CopyIsCurrent' /\ CopiesInOrder'
      BY <1>a DEF CopyIsCurrent, CopiesInOrder
<1>3. DirtyIsUnderWay' /\ CleanMeansSaved'
      BY <1>a DEF DirtyIsUnderWay, CleanMeansSaved
<1>4. SavedFlags'
      BY SavedFlagsStay, SavedTypes DEF SavedNext
<1> HIDE DEF Change
<1>5. QED
      BY <1>1, <1>2, <1>3, <1>4 DEF SavedFlags, SavedCopies

(* Steps that start a save, or none: what they write is the content.           *)
LEMMA RoundStartKeeps == SavedInv /\ (Promote \/ Microtask \/ FlushWaited) => SavedInv'
<1> SUFFICES ASSUME SavedInv, Promote \/ Microtask \/ FlushWaited PROVE SavedInv'
    OBVIOUS
<1> USE SavedAssumption DEF SavedInv, SavedTypeOK, Promote, Microtask, FlushWaited, StartsWriting, Nothing
<1>1. SavedCopies'
      BY DEF SavedCopies
<1>2. CopyIsCurrent' /\ CopiesInOrder'
      BY DEF CopyIsCurrent, CopiesInOrder
<1>3. DirtyIsUnderWay' /\ CleanMeansSaved'
      BY DEF DirtyIsUnderWay, CleanMeansSaved, CopyIsCurrent
<1>4. SavedFlags'
      BY SavedFlagsStay, SavedTypes DEF SavedNext
<1> HIDE DEF Promote, Microtask, FlushWaited, StartsWriting
<1>5. QED
      BY <1>1, <1>2, <1>3, <1>4 DEF SavedFlags, SavedCopies

(* The end of a round: the file has its copy, and another round copies anew.    *)
LEMMA RoundEndKeeps == SavedInv /\ (Written \/ WriteFails) => SavedInv'
<1> SUFFICES ASSUME SavedInv, Written \/ WriteFails PROVE SavedInv'
    OBVIOUS
<1> USE SavedAssumption DEF SavedInv, SavedTypeOK, Written, WriteFails, StartsWriting, Nothing
<1>1. SavedCopies'
      BY DEF SavedCopies
<1>2. CopyIsCurrent' /\ CopiesInOrder'
      BY DEF CopyIsCurrent, CopiesInOrder
<1>3. DirtyIsUnderWay' /\ CleanMeansSaved'
      BY DEF DirtyIsUnderWay, CleanMeansSaved, CopyIsCurrent, CopiesInOrder
<1>4. SavedFlags'
      BY SavedFlagsStay, SavedTypes DEF SavedNext
<1> HIDE DEF Written, WriteFails, StartsWriting
<1>5. QED
      BY <1>1, <1>2, <1>3, <1>4 DEF SavedFlags, SavedCopies

(* Asking for a flush, its end, and a reboot from the file.                   *)
LEMMA SavedRestKeeps == SavedInv /\ (FlushAsked \/ FlushEnds \/ Reboot) => SavedInv'
<1> SUFFICES ASSUME SavedInv, FlushAsked \/ FlushEnds \/ Reboot PROVE SavedInv'
    OBVIOUS
<1> USE SavedAssumption DEF SavedInv, SavedTypeOK, FlushAsked, FlushEnds, Reboot, Nothing
<1>1. SavedCopies'
      BY DEF SavedCopies
<1>2. CopyIsCurrent' /\ CopiesInOrder' /\ DirtyIsUnderWay' /\ CleanMeansSaved'
      BY DEF CopyIsCurrent, CopiesInOrder, DirtyIsUnderWay, CleanMeansSaved
<1>3. SavedFlags'
      BY SavedFlagsStay, SavedTypes DEF SavedNext
<1> HIDE DEF FlushAsked, FlushEnds, Reboot
<1>4. QED
      BY <1>1, <1>2, <1>3 DEF SavedFlags, SavedCopies

(* Nothing changes in a step of something else.                              *)
LEMMA SavedStutters == SavedInv /\ UNCHANGED savedVars => SavedInv'
BY DEF SavedInv, SavedTypeOK, savedVars, CopyIsCurrent, CopiesInOrder, DirtyIsUnderWay,
   CleanMeansSaved, Nothing

(* The inductive invariant holds (the whole of the saving scheme).             *)
THEOREM SavedInvariant == SavedSpec => []SavedInv
<1>1. SavedInv /\ [SavedNext]_savedVars => SavedInv'
      BY SavedChangeKeeps, RoundStartKeeps, RoundEndKeeps, SavedRestKeeps, SavedStutters DEF SavedNext
<1>2. QED
      BY <1>1, SavedInitially, PTL DEF SavedSpec

(* The types of the stores' bookkeeping (workspace-store.ts save, flush).       *)
THEOREM SavedTypeCorrect == SavedSpec => []SavedTypeOK
<1>1. SavedInv => SavedTypeOK
      BY DEF SavedInv
<1>2. QED
      BY <1>1, SavedInvariant, PTL

(* However many changes come, at whatever point of a save: what a clean store   *)
(* has not saved is a change that overtook its last save (save, scheduleSave).  *)
THEOREM SavedCleanMeansSaved == SavedSpec => []CleanMeansSaved
<1>1. SavedInv => CleanMeansSaved
      BY DEF SavedInv
<1>2. QED
      BY <1>1, SavedInvariant, PTL

(* A dirty store has a save scheduled or running, unless the disk refused one   *)
(* (scheduleSave, load).                                                     *)
THEOREM SavedDirtyIsUnderWay == SavedSpec => []DirtyIsUnderWay
<1>1. SavedInv => DirtyIsUnderWay
      BY DEF SavedInv
<1>2. QED
      BY <1>1, SavedInvariant, PTL

(* The file never goes back to an older state (the loop of save).              *)
THEOREM SavedFileNeverGoesBack == SavedSpec => FileNeverGoesBack
<1>1. SavedInv /\ [SavedNext]_savedVars => [file' >= file]_savedVars
  <2> SUFFICES ASSUME SavedInv, SavedNext PROVE file' >= file
      OBVIOUS
  <2>1. CASE Written
        BY <2>1 DEF SavedInv, SavedTypeOK, CopiesInOrder, Written, Nothing
  <2>2. CASE ~Written
        BY <2>2, SavedAssumption DEF SavedInv, SavedTypeOK, SavedNext, Change, Promote,
           Microtask, WriteFails, FlushAsked, FlushWaited, FlushEnds, Reboot
  <2>3. QED
        BY <2>1, <2>2
<1>2. QED
      BY <1>1, SavedInvariant, PTL DEF SavedSpec, FileNeverGoesBack
=============================================================================
