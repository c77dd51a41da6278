----------------------------- MODULE Move_proofs -----------------------------
(***************************************************************************)
(* mv loses no file that nobody else touches, but for files of the same    *)
(* name in the directory things are moved into, and moves each argument or *)
(* warns of it, for every share, whatever requests fail and whatever       *)
(* others make and remove.  What a path names is defined name after name,  *)
(* so the proof begins with facts about paths that are shown by induction  *)
(* on their length.                                                        *)
(***************************************************************************)
EXTENDS Move, WellFoundedInduction, SequenceTheorems, TLAPS

Named(pl, path) == Walk(pl, path)[Len(path)]

\* What is known of where things are; others may have taken the directory
\* away that something is in.
Shares == [Things -> Places \cup {None}]
Single(pl) ==
    \A t, u \in Things : pl[t] = pl[u] => t = u \/ pl[t] = None
Housed(pl, gone) ==
    \A t \in Things : pl[t] # None /\ pl[t][1] \in Dirs \ gone => pl[pl[t][1]] # None

\* Which states belong to which numbers of arguments.
LoopInv ==
    /\ pc \in {"count", "last", "first", "second"} => i = 1
    /\ pc = "last" => Len(args) > 2
    /\ pc \in {"first", "second"} => Len(args) = 2
    /\ pc = "rename" => Len(args) > 1 /\ (below \/ Len(args) = 2)

\* Before the first rename nothing has moved, and later nothing has been
\* given another name, if it goes into a directory.
KeptInv ==
    /\ i = 1 => \A t \in Things \ meddled : place[t] = Initial[t]
    /\ below => \A t \in Things \ meddled :
                   place[t] # None => place[t][2] = Initial[t][2]

\* What is in the way of a rename was put there by others after the stat.
FreeInv ==
    pc = "rename" /\ i = 1 /\ ~below /\ ~blind => At(LastArg) \in meddled \cup {None}

IInv ==
    /\ TypeOK /\ Single(place) /\ Housed(place, meddled)
    /\ LoopInv /\ KeptInv /\ FreeInv /\ NothingLost

-----------------------------------------------------------------------------
LEMMA Induction ==
    ASSUME NEW S, 0 \in S, \A n \in Nat : n \in S => n + 1 \in S
    PROVE  Nat \subseteq S
<1> DEFINE T == Nat \ S
           R == OpToRel(<, Nat)
<1> SUFFICES ASSUME T # {} PROVE FALSE
  OBVIOUS
<1>1. PICK x \in T : \A y \in T : ~(<<y, x>> \in R)
  BY NatLessThanWellFounded, WFMin
<1>2. x \in Nat /\ x # 0 /\ x - 1 \in Nat /\ x - 1 < x /\ (x - 1) + 1 = x
  <2> HIDE DEF R
  <2>1. x \in Nat /\ x # 0
    OBVIOUS
  <2> QED  BY <2>1
<1>3. <<x - 1, x>> \in R
  BY <1>2 DEF OpToRel
<1>4. x - 1 \in S
  BY <1>1, <1>2, <1>3
<1> QED  BY <1>1, <1>2, <1>4

\* What Walk chooses, for a path of n names.
IsWalk(f, pl, path, n) ==
    f = [k \in 0 .. n |-> IF k = 0 THEN Root ELSE In(pl, f[k - 1], path[k])]

LEMMA WalkExists ==
    ASSUME NEW pl, NEW path, NEW n \in Nat
    PROVE  \E f : IsWalk(f, pl, path, n)
<1> DEFINE S == {m \in Nat : \E f : IsWalk(f, pl, path, m)}
<1>1. 0 \in S
  <2> DEFINE f == [k \in 0 .. 0 |-> Root]
  <2>1. IsWalk(f, pl, path, 0)
    BY DEF IsWalk
  <2> QED  BY <2>1
<1>2. ASSUME NEW m \in Nat, m \in S PROVE m + 1 \in S
  <2>1. PICK f : IsWalk(f, pl, path, m)
    BY <1>2
  <2> DEFINE g == [k \in 0 .. m + 1 |->
                      IF k <= m THEN f[k] ELSE In(pl, f[m], path[m + 1])]
             h == [k \in 0 .. m + 1 |-> IF k = 0 THEN Root ELSE In(pl, g[k - 1], path[k])]
  <2>2. ASSUME NEW k \in 0 .. m + 1 PROVE g[k] = h[k]
    <3>1. CASE k = 0
      BY <2>1, <3>1 DEF IsWalk
    <3>2. CASE k # 0 /\ k <= m
      <4>1. k \in 0 .. m /\ k - 1 \in 0 .. m + 1 /\ k - 1 <= m
        BY <3>2
      <4>2. g[k] = f[k] /\ g[k - 1] = f[k - 1] /\ h[k] = In(pl, g[k - 1], path[k])
        BY <3>2, <4>1
      <4>3. f[k] = In(pl, f[k - 1], path[k])
        BY <2>1, <3>2, <4>1 DEF IsWalk
      <4> QED  BY <4>2, <4>3
    <3>3. CASE k = m + 1
      <4>1. k - 1 = m /\ k # 0 /\ ~(k <= m) /\ m \in 0 .. m + 1 /\ m <= m
        BY <3>3
      <4> QED  BY <3>3, <4>1
    <3> QED  BY <3>1, <3>2, <3>3
  <2>3. IsWalk(g, pl, path, m + 1)
    BY <2>2 DEF IsWalk
  <2> HIDE DEF g, h
  <2> QED  BY <2>3
<1>3. Nat \subseteq S
  <2> HIDE DEF S
  <2> QED  BY <1>1, <1>2, Induction
<1> QED  BY <1>3

LEMMA WalkIs ==
    ASSUME NEW pl, NEW path, Len(path) \in Nat
    PROVE  /\ Walk(pl, path)[0] = Root
           /\ \A k \in 1 .. Len(path) :
                 Walk(pl, path)[k] = In(pl, Walk(pl, path)[k - 1], path[k])
<1> DEFINE f == Walk(pl, path)
<1>1. \E g : IsWalk(g, pl, path, Len(path))
  BY WalkExists
<1>2. IsWalk(f, pl, path, Len(path))
  BY <1>1, Zenon DEF Walk, IsWalk
<1> HIDE DEF f
<1> QED  BY <1>2 DEF f, IsWalk

LEMMA InIs ==
    ASSUME NEW pl, NEW d, NEW n
    PROVE  \/ In(pl, d, n) = None /\ \A t \in Things : pl[t] # <<d, n>>
           \/ In(pl, d, n) \in Things /\ pl[In(pl, d, n)] = <<d, n>>
<1>1. CASE \E t \in Things : pl[t] = <<d, n>>
  BY <1>1 DEF In
<1>2. CASE ~ \E t \in Things : pl[t] = <<d, n>>
  BY <1>2 DEF In
<1> QED  BY <1>1, <1>2

\* The parts of a path, the operators of the community modules spelled out.
LEMMA FrontIs ==
    ASSUME NEW path \in Paths
    PROVE  /\ Front(path) \in Seq(Names) /\ Len(Front(path)) = Len(path) - 1
           /\ \A k \in 1 .. Len(path) - 1 : Front(path)[k] = path[k]
           /\ Len(path) \in Nat \ {0} /\ Last(path) = path[Len(path)]
           /\ Last(path) \in Names
<1>1. path \in Seq(Names) /\ Len(path) \in Nat \ {0}
  BY DEF Paths
<1>2. 1 \in Int /\ Len(path) - 1 \in Int
      /\ \A k \in 1 .. Len(path) - 1 : path[k] \in Names
  BY <1>1
<1>3. /\ Front(path) \in Seq(Names)
      /\ Len(Front(path)) = IF 1 <= Len(path) - 1 THEN Len(path) - 1 - 1 + 1 ELSE 0
      /\ \A k \in 1 .. Len(path) - 1 - 1 + 1 : Front(path)[k] = path[1 + k - 1]
  BY <1>1, <1>2, SubSeqProperties DEF Front
<1>4. Last(path) = path[Len(path)]
  BY DEF Last
<1>5. path[Len(path)] \in Names
  BY <1>1
<1>6. ASSUME NEW k \in 1 .. Len(path) - 1 PROVE Front(path)[k] = path[k]
  <2>1. k \in 1 .. Len(path) - 1 - 1 + 1 /\ 1 + k - 1 = k
    BY <1>1
  <2>2. Front(path)[k] = path[1 + k - 1]
    BY <1>3, <2>1
  <2> QED  BY <2>1, <2>2
<1>7. Len(Front(path)) = Len(path) - 1
  <2>1. ASSUME NEW n \in Nat \ {0}
        PROVE  (IF 1 <= n - 1 THEN n - 1 - 1 + 1 ELSE 0) = n - 1
    OBVIOUS
  <2> QED  BY <1>1, <1>3, <2>1
<1> QED  BY <1>1, <1>3, <1>4, <1>5, <1>6, <1>7

\* The directory of a path is what its other names lead to.
LEMMA NamedIs ==
    ASSUME NEW pl, NEW path \in Paths
    PROVE  Named(pl, path) = In(pl, Named(pl, Front(path)), Last(path))
<1> DEFINE n == Len(path)
           w == Walk(pl, path)
           v == Walk(pl, Front(path))
           S == {k \in Nat : k < n => v[k] = w[k]}
<1>1. /\ n \in Nat \ {0} /\ Len(Front(path)) = n - 1 /\ Last(path) = path[n]
      /\ \A k \in 1 .. n - 1 : Front(path)[k] = path[k]
  BY FrontIs
<1>2. /\ w[0] = Root /\ v[0] = Root
      /\ \A k \in 1 .. n : w[k] = In(pl, w[k - 1], path[k])
      /\ \A k \in 1 .. n - 1 : v[k] = In(pl, v[k - 1], Front(path)[k])
  BY <1>1, WalkIs
<1> HIDE DEF n, w, v
<1>3. 0 \in S
  BY <1>2
<1>4. ASSUME NEW k \in Nat, k \in S PROVE k + 1 \in S
  <2> SUFFICES ASSUME k + 1 < n PROVE v[k + 1] = w[k + 1]
    OBVIOUS
  <2>1. k + 1 \in 1 .. n - 1 /\ k + 1 \in 1 .. n /\ (k + 1) - 1 = k /\ v[k] = w[k]
    BY <1>1, <1>4
  <2> QED  BY <1>1, <1>2, <2>1
<1>5. Nat \subseteq S
  <2> HIDE DEF S
  <2> QED  BY <1>3, <1>4, Induction
<1>6. v[n - 1] = w[n - 1] /\ n \in 1 .. n
  BY <1>1, <1>5
<1> QED  BY <1>1, <1>2, <1>6 DEF Named, n, w, v

Spots == Things \cup {Root, None}

\* What a path names is there, and so is all it passes through.
LEMMA WalkThere ==
    ASSUME NEW pl, NEW path \in Seq(Names), NEW k \in 0 .. Len(path)
    PROVE  /\ Walk(pl, path)[k] \in Spots
           /\ Walk(pl, path)[k] \in Things => pl[Walk(pl, path)[k]] # None
<1> DEFINE w == Walk(pl, path)
<1>1. /\ Len(path) \in Nat /\ w[0] = Root
      /\ \A m \in 1 .. Len(path) : /\ w[m] = In(pl, w[m - 1], path[m])
                                   /\ path[m] \in Names
  BY WalkIs
<1> HIDE DEF w
<1>2. ASSUME NEW m \in 0 .. Len(path) PROVE w[m] \in Spots
  <2>1. m = 0 \/ m \in 1 .. Len(path)
    OBVIOUS
  <2> QED  BY <1>1, <2>1, InIs DEF Spots
<1>3. CASE k = 0
  BY <1>1, <1>3, MoveAssumption DEF Spots, w
<1>4. CASE k # 0
  <2>1. k \in 1 .. Len(path) /\ k - 1 \in 0 .. Len(path)
    BY <1>1, <1>4
  <2>2. w[k] = In(pl, w[k - 1], path[k]) /\ w[k - 1] \in Spots /\ path[k] \in Names
    BY <1>1, <1>2, <2>1
  <2>3. <<w[k - 1], path[k]>> # None
    BY <2>2, MoveAssumption DEF Spots
  <2>4. w[k] = None \/ (w[k] \in Things /\ pl[w[k]] = <<w[k - 1], path[k]>>)
    BY <2>2, InIs
  <2> QED  BY <2>3, <2>4, MoveAssumption DEF Spots, w
<1> QED  BY <1>3, <1>4

LEMMA NamedThere ==
    ASSUME NEW pl, NEW path \in Seq(Names)
    PROVE  /\ Named(pl, path) \in Spots
           /\ Named(pl, path) \in Things => pl[Named(pl, path)] # None
<1>1. Len(path) \in 0 .. Len(path)
  OBVIOUS
<1> QED  BY <1>1, WalkThere DEF Named

\* The target below the last argument has the name of what is moved.
LEMMA JoinedIs ==
    ASSUME NEW p \in Paths, NEW q \in Paths
    PROVE  p \o q \in Paths /\ Last(p \o q) = Last(q)
<1>1. /\ p \in Seq(Names) /\ q \in Seq(Names)
      /\ Len(p) \in Nat \ {0} /\ Len(q) \in Nat \ {0}
  BY DEF Paths
<1>2. p \o q \in Seq(Names) /\ Len(p \o q) = Len(p) + Len(q)
  BY <1>1, ConcatProperties
<1>3. p \o q # <<>>
  BY <1>1, <1>2
<1>4. (p \o q)[Len(p) + Len(q)] = q[Len(q)]
  <2>1. /\ Len(p) + Len(q) \in 1 .. Len(p) + Len(q) /\ ~(Len(p) + Len(q) <= Len(p))
        /\ Len(p) + Len(q) - Len(p) = Len(q)
    BY <1>1
  <2> QED  BY <1>1, <2>1, ConcatProperties
<1> QED  BY <1>2, <1>3, <1>4 DEF Paths, Last

\* Nothing is in nothing.
LEMMA InNothing ==
    ASSUME NEW pl \in Shares, NEW n \in Names
    PROVE  In(pl, None, n) = None
<1>1. ASSUME NEW t \in Things PROVE pl[t] # <<None, n>>
  <2>1. pl[t] \in Places \cup {None} /\ None \notin Dirs \cup {Root}
    BY MoveAssumption DEF Shares, Things
  <2>2. CASE pl[t] \in Places
    BY <2>1, <2>2 DEF Places
  <2>3. CASE pl[t] = None
    <3>1. <<None, n>> \in (Things \cup {Root, None}) \X Names
      OBVIOUS
    <3> QED  BY <2>3, <3>1, MoveAssumption
  <2> QED  BY <2>1, <2>2, <2>3
<1> QED  BY <1>1 DEF In

\* Where something has gone a path leads to what it led to before, or to
\* nothing.
LEMMA WalkRemoved ==
    ASSUME NEW pl \in Shares, Single(pl), NEW t \in Things, NEW path \in Seq(Names)
    PROVE  Named([pl EXCEPT ![t] = None], path) \in {Named(pl, path), None}
<1> DEFINE new == [pl EXCEPT ![t] = None]
           w == Walk(pl, path)
           v == Walk(new, path)
           S == {k \in Nat : k <= Len(path) => v[k] \in {w[k], None}}
<1>1. /\ Len(path) \in Nat /\ w[0] = Root /\ v[0] = Root
      /\ \A k \in 1 .. Len(path) : /\ w[k] = In(pl, w[k - 1], path[k])
                                   /\ v[k] = In(new, v[k - 1], path[k])
                                   /\ path[k] \in Names
  BY WalkIs
<1>2. /\ new \in Shares /\ new[t] = None
      /\ \A u \in Things : new[u] = pl[u] \/ new[u] = None
      /\ \A u \in Things \ {t} : new[u] = pl[u]
  BY DEF Shares
<1>3. \A k \in 0 .. Len(path) : w[k] \in Spots
  BY WalkThere
<1> HIDE DEF w, v, new
<1>4. ASSUME NEW d \in Spots, NEW n \in Names
      PROVE  In(new, d, n) \in {In(pl, d, n), None}
  <2>1. <<d, n>> # None
    BY MoveAssumption DEF Spots
  <2>2. CASE In(pl, d, n) = None
    <3>1. \A u \in Things : pl[u] # <<d, n>>
      BY <2>2, InIs, MoveAssumption
    <3>2. \A u \in Things : new[u] # <<d, n>>
      BY <1>2, <2>1, <3>1
    <3> QED  BY <3>2, InIs
  <2>3. CASE In(pl, d, n) \in Things /\ pl[In(pl, d, n)] = <<d, n>>
    <3>1. ASSUME NEW u \in Things, new[u] = <<d, n>> PROVE u = In(pl, d, n)
      <4>1. pl[u] = <<d, n>>
        BY <1>2, <2>1, <3>1
      <4> QED  BY <2>1, <2>3, <4>1 DEF Single
    <3> QED  BY <3>1, InIs
  <2> QED  BY <2>2, <2>3, InIs
<1>5. 0 \in S
  BY <1>1
<1>6. ASSUME NEW k \in Nat, k \in S PROVE k + 1 \in S
  <2> SUFFICES ASSUME k + 1 <= Len(path) PROVE v[k + 1] \in {w[k + 1], None}
    OBVIOUS
  <2>1. /\ k + 1 \in 1 .. Len(path) /\ (k + 1) - 1 = k /\ k \in 0 .. Len(path)
        /\ v[k] \in {w[k], None}
    BY <1>1, <1>6
  <2>2. v[k + 1] = In(new, v[k], path[k + 1]) /\ w[k + 1] = In(pl, w[k], path[k + 1])
    BY <1>1, <2>1
  <2>3. CASE v[k] = None
    BY <1>1, <1>2, <2>1, <2>2, <2>3, InNothing
  <2>4. CASE v[k] = w[k]
    BY <1>1, <1>3, <1>4, <2>1, <2>2, <2>4
  <2> QED  BY <2>1, <2>3, <2>4
<1>7. Nat \subseteq S
  <2> HIDE DEF S
  <2> QED  BY <1>5, <1>6, Induction
<1>8. v[Len(path)] \in {w[Len(path)], None}
  BY <1>1, <1>7
<1> QED  BY <1>8 DEF Named, w, v, new

\* What is made where nothing was, and with nothing in it, is itself on the
\* way of a path or changes nothing of it.
LEMMA WalkMade ==
    ASSUME NEW pl \in Shares, NEW t \in Things, pl[t] = None,
           \A u \in Things : pl[u] # None => pl[u][1] # t,
           NEW d \in Dirs \cup {Root}, d # t, NEW n \in Names, In(pl, d, n) = None,
           NEW path \in Seq(Names)
    PROVE  Named([pl EXCEPT ![t] = <<d, n>>], path) \in {Named(pl, path), t, None}
<1> DEFINE new == [pl EXCEPT ![t] = <<d, n>>]
           w == Walk(pl, path)
           v == Walk(new, path)
           S == {k \in Nat : k <= Len(path) => v[k] \in {w[k], t, None}}
<1>1. /\ Len(path) \in Nat /\ w[0] = Root /\ v[0] = Root
      /\ \A k \in 1 .. Len(path) : /\ w[k] = In(pl, w[k - 1], path[k])
                                   /\ v[k] = In(new, v[k - 1], path[k])
                                   /\ path[k] \in Names
  BY WalkIs
<1>2. /\ new \in Shares /\ new[t] = <<d, n>>
      /\ \A u \in Things \ {t} : new[u] = pl[u]
  BY DEF Shares, Places
<1>3. \A k \in 0 .. Len(path) : w[k] \in Spots
  BY WalkThere
<1> HIDE DEF w, v, new
<1>4. ASSUME NEW b \in Spots, NEW m \in Names
      PROVE  In(new, b, m) \in {In(pl, b, m), t}
  <2>1. <<b, m>> # None
    BY MoveAssumption DEF Spots
  <2>2. CASE \E u \in Things : new[u] = <<b, m>> /\ u = t
    <3>1. b = d /\ m = n
      BY <1>2, <2>2
    <3>2. \A u \in Things : pl[u] # <<b, m>>
      BY <3>1, InIs, MoveAssumption
    <3>3. \A u \in Things : new[u] = <<b, m>> => u = t
      BY <1>2, <3>2
    <3>4. In(new, b, m) = t
      BY <2>2, <3>3, InIs
    <3> QED  BY <3>4
  <2>3. CASE ~ \E u \in Things : new[u] = <<b, m>> /\ u = t
    <3>1. \A u \in Things : new[u] = <<b, m>> <=> pl[u] = <<b, m>>
      BY <1>2, <2>1, <2>3
    <3>2. In(new, b, m) = In(pl, b, m)
      BY <3>1 DEF In
    <3> QED  BY <3>2
  <2> QED  BY <2>2, <2>3
<1>5. ASSUME NEW m \in Names PROVE In(new, t, m) = None
  <2>1. ASSUME NEW u \in Things PROVE new[u] # <<t, m>>
    <3>1. CASE u = t
      BY <1>2, <3>1
    <3>2. CASE u # t
      <4>1. new[u] = pl[u]
        BY <1>2, <3>2
      <4>2. <<t, m>> # None
        BY MoveAssumption DEF Spots
      <4>3. pl[u] = <<t, m>> => pl[u][1] = t
        OBVIOUS
      <4> QED  BY <4>1, <4>2, <4>3
    <3> QED  BY <3>1, <3>2
  <2> QED  BY <2>1 DEF In
<1>6. 0 \in S
  BY <1>1
<1>7. ASSUME NEW k \in Nat, k \in S PROVE k + 1 \in S
  <2> SUFFICES ASSUME k + 1 <= Len(path) PROVE v[k + 1] \in {w[k + 1], t, None}
    OBVIOUS
  <2>1. /\ k + 1 \in 1 .. Len(path) /\ (k + 1) - 1 = k /\ k \in 0 .. Len(path)
        /\ v[k] \in {w[k], t, None}
    BY <1>1, <1>7
  <2>2. v[k + 1] = In(new, v[k], path[k + 1]) /\ w[k + 1] = In(pl, w[k], path[k + 1])
    BY <1>1, <2>1
  <2>3. CASE v[k] = None
    BY <1>1, <1>2, <2>1, <2>2, <2>3, InNothing
  <2>4. CASE v[k] = w[k]
    BY <1>1, <1>3, <1>4, <2>1, <2>2, <2>4
  <2>5. CASE v[k] = t
    BY <1>1, <1>5, <2>1, <2>2, <2>5
  <2> QED  BY <2>1, <2>3, <2>4, <2>5
<1>8. Nat \subseteq S
  <2> HIDE DEF S
  <2> QED  BY <1>6, <1>7, Induction
<1>9. v[Len(path)] \in {w[Len(path)], t, None}
  BY <1>1, <1>8
<1> QED  BY <1>9 DEF Named, w, v, new

-----------------------------------------------------------------------------
LEMMA AtIs ==
    ASSUME NEW path \in Paths
    PROVE  /\ At(path) = Named(place, path) /\ At(Front(path)) = Named(place, Front(path))
           /\ At(path) = In(place, At(Front(path)), Last(path)) /\ Last(path) \in Names
           /\ At(path) \in Spots /\ At(Front(path)) \in Spots
           /\ At(path) \in Things => place[At(path)] = <<At(Front(path)), Last(path)>>
           /\ At(Front(path)) \in Things => place[At(Front(path))] # None
<1>1. At(path) = Named(place, path) /\ At(Front(path)) = Named(place, Front(path))
  BY DEF At, Named
<1>2. path \in Seq(Names) /\ Front(path) \in Seq(Names) /\ Last(path) \in Names
  BY FrontIs DEF Paths
<1>3. At(path) = In(place, At(Front(path)), Last(path))
  BY <1>1, NamedIs
<1>4. At(path) \in Things => place[At(path)] = <<At(Front(path)), Last(path)>>
  BY <1>3, InIs, MoveAssumption
<1> QED  BY <1>1, <1>2, <1>3, <1>4, NamedThere

\* A file in the way of a rename has the name of the target, and nothing else
\* goes; what is renamed had the name it was called by.
LEMMA ReplacedIs ==
    ASSUME place \in Shares, Single(place), NEW gone, Housed(place, gone),
           NEW to \in Paths, At(to) \in Files \cup {None}, NEW new, new = Replaced(At(to))
    PROVE  /\ new \in Shares /\ Single(new) /\ Housed(new, gone)
           /\ \A t \in Things :
                 \/ new[t] = place[t]
                 \/ t = At(to) /\ t \in Files /\ place[t][2] = Last(to) /\ new[t] = None
           /\ \A t \in Things : new[t] # <<At(Front(to)), Last(to)>>
<1> DEFINE there == At(to)
           there_ == <<At(Front(to)), Last(to)>>
<1>1. /\ At(to) = In(place, At(Front(to)), Last(to))
      /\ At(to) \in Things => place[At(to)] = there_
      /\ there_ # None
  BY AtIs, MoveAssumption DEF Spots
<1>2. CASE there = None
  <2>1. new = place
    BY <1>2 DEF Replaced
  <2>2. \A t \in Things : place[t] # there_
    BY <1>1, <1>2, InIs, MoveAssumption
  <2> QED  BY <2>1, <2>2
<1>3. CASE there \in Files
  <2>1. there # None /\ there \in Things /\ there \notin Dirs /\ place[there] = there_
    BY <1>1, <1>3, MoveAssumption DEF Things
  <2>2. new = [place EXCEPT ![there] = None]
    BY <2>1 DEF Replaced
  <2> HIDE DEF there, there_
  <2>3. /\ new \in Shares /\ new[there] = None
        /\ \A t \in Things \ {there} : new[t] = place[t]
    BY <2>1, <2>2 DEF Shares
  <2>4. Single(new)
    BY <2>1, <2>3 DEF Single
  <2>5. Housed(new, gone)
    <3> SUFFICES ASSUME NEW t \in Things, new[t] # None, new[t][1] \in Dirs \ gone
                 PROVE  new[new[t][1]] # None
      BY DEF Housed
    <3>1. new[t] = place[t] /\ place[t][1] # there /\ place[t][1] \in Things
      BY <2>1, <2>3 DEF Things
    <3> QED  BY <2>3, <3>1 DEF Housed
  <2>6. \A t \in Things : new[t] # there_
    BY <1>1, <2>1, <2>3 DEF Single
  <2>7. place[there][2] = Last(to)
    BY <2>1 DEF there_
  <2> QED  BY <1>3, <2>3, <2>4, <2>5, <2>6, <2>7 DEF there, there_
<1> QED  BY <1>2, <1>3

LEMMA RenamedIs ==
    ASSUME place \in Shares, Single(place), NEW gone, Housed(place, gone),
           NEW from \in Paths, NEW to \in Paths, Renamed(from, to)
    PROVE  /\ place' \in Shares /\ Single(place') /\ Housed(place', gone)
           /\ At(from) \in Things /\ place[At(from)] # None
           /\ place[At(from)][2] = Last(from)
           /\ place'[At(from)] # None /\ place'[At(from)][2] = Last(to)
           /\ \A t \in Things \ {At(from)} :
                 \/ place'[t] = place[t]
                 \/ t = At(to) /\ t \in Files /\ place[t][2] = Last(to) /\ place'[t] = None
<1> DEFINE what == At(from)
           spot == <<At(Front(to)), Last(to)>>
           pl == Replaced(At(to))
<1>1. /\ what \in Things /\ IsDir(At(Front(to))) /\ At(to) # what
      /\ At(to) \in Files \cup {None} /\ place' = [pl EXCEPT ![what] = spot]
  BY DEF Renamed
<1>2. /\ place[what] = <<At(Front(from)), Last(from)>> /\ place[what] # None
      /\ spot # None /\ spot \in Places
  BY <1>1, AtIs, MoveAssumption DEF Spots, IsDir, Places
<1>3. /\ pl \in Shares /\ Single(pl) /\ Housed(pl, gone)
      /\ \A t \in Things :
            \/ pl[t] = place[t]
            \/ t = At(to) /\ t \in Files /\ place[t][2] = Last(to) /\ pl[t] = None
      /\ \A t \in Things : pl[t] # spot
  BY <1>1, ReplacedIs
<1> HIDE DEF what, spot, pl
<1>4. /\ place' \in Shares /\ place'[what] = spot
      /\ \A t \in Things \ {what} : place'[t] = pl[t]
  BY <1>1, <1>2, <1>3 DEF Shares
<1>5. Single(place')
  BY <1>2, <1>3, <1>4 DEF Single
<1>6. Housed(place', gone)
  <2> SUFFICES ASSUME NEW t \in Things, place'[t] # None, place'[t][1] \in Dirs \ gone
               PROVE  place'[place'[t][1]] # None
    BY DEF Housed
  <2> DEFINE d == place'[t][1]
  <2>1. d \in Things /\ d \in Dirs \ gone
    BY DEF Things
  <2>2. d = what \/ pl[d] # None
    <3>1. CASE t = what
      <4>1. d = At(Front(to))
        BY <1>4, <3>1 DEF spot
      <4>2. place[d] # None
        BY <2>1, <4>1, AtIs
      <4>3. d \notin Files
        BY <2>1, MoveAssumption
      <4> QED  BY <1>3, <2>1, <4>2, <4>3
    <3>2. CASE t # what
      <4>1. place'[t] = pl[t]
        BY <1>4, <3>2
      <4> QED  BY <1>3, <2>1, <4>1 DEF Housed
    <3> QED  BY <3>1, <3>2
  <2>3. place'[d] # None
    BY <1>2, <1>4, <2>1, <2>2
  <2> QED  BY <2>3
<1>7. ASSUME NEW t \in Things \ {what}
      PROVE  \/ place'[t] = place[t]
             \/ t = At(to) /\ t \in Files /\ place[t][2] = Last(to) /\ place'[t] = None
  BY <1>3, <1>4
<1>8. place[what][2] = Last(from)
  BY <1>2
<1>9. place'[what] # None /\ place'[what][2] = Last(to)
  BY <1>2, <1>4 DEF spot
<1> QED  BY <1>1, <1>2, <1>4, <1>5, <1>6, <1>7, <1>8, <1>9 DEF what

-----------------------------------------------------------------------------
LEMMA ArgumentsAre ==
    ASSUME TypeOK
    PROVE  /\ Len(args) \in Nat /\ DOMAIN args = 1 .. Len(args)
           /\ \A k \in 1 .. Len(args) : args[k] \in Paths
           /\ Len(args) > 0 => LastArg \in Paths
<1>1. args \in Seq(Paths)
  BY MoveAssumption DEF TypeOK
<1>2. Len(args) \in Nat /\ DOMAIN args = 1 .. Len(args)
      /\ \A k \in 1 .. Len(args) : args[k] \in Paths
  BY <1>1
<1>3. Len(args) > 0 => Len(args) \in 1 .. Len(args)
  BY <1>2
<1> QED  BY <1>2, <1>3 DEF LastArg

LEMMA TargetIs ==
    ASSUME TypeOK, Len(args) > 0, NEW k \in 1 .. Len(args)
    PROVE  /\ Target(k) \in Paths
           /\ below => Last(Target(k)) = Last(args[k])
           /\ ~below => Target(k) = LastArg
BY ArgumentsAre, JoinedIs DEF Target

LEMMA InitIInv == Init => IInv
<1> SUFFICES ASSUME Init PROVE IInv
  OBVIOUS
<1>1. TypeOK
  <2>1. place \in [Things -> Places \cup {None}]
    BY ShareAssumption DEF Init
  <2>2. moved \in [DOMAIN args -> Things \cup {None}]
    BY DEF Init
  <2>3. /\ intr = FALSE /\ below = FALSE /\ blind = FALSE
        /\ i = 1 /\ args \in ArgLists /\ pc = "count"
        /\ warned = {} /\ meddled = {}
    BY DEF Init
  <2>4. intr \in BOOLEAN /\ below \in BOOLEAN /\ blind \in BOOLEAN
    BY <2>3
  <2> QED  BY <2>1, <2>2, <2>3, <2>4 DEF TypeOK
<1>2. Single(place) /\ Housed(place, meddled)
  <2>1. place = Initial /\ meddled = {}
    BY DEF Init
  <2> QED  BY <2>1, ShareAssumption DEF Single, Housed, Things
<1>3. LoopInv /\ KeptInv /\ FreeInv
  BY DEF Init, LoopInv, KeptInv, FreeInv
<1>4. NothingLost
  BY DEF Init, NothingLost
<1> QED  BY <1>1, <1>2, <1>3, <1>4 DEF IInv

\* Nothing is renamed before the stats are over.
LEMMA StatsIInv ==
    ASSUME IInv, Count \/ StatLast \/ StatFirst \/ StatSecond
    PROVE  IInv'
<1> USE DEF IInv
<1>1. i = 1 /\ UNCHANGED <<intr, args, i, place, meddled, moved>>
  BY DEF Count, StatLast, StatFirst, StatSecond, LoopInv, command, history
<1>a. \/ pc' = "done"
      \/ pc' = "first" /\ Len(args) = 2
      \/ pc' = "last" /\ Len(args) > 2
      \/ pc' = "second" /\ Len(args) = 2
      \/ pc' = "rename" /\ Len(args) = 2
      \/ pc' = "rename" /\ Len(args) > 2 /\ below'
  <2>1. CASE Count
    BY <2>1 DEF Count, Refuse
  <2>2. CASE StatLast
    BY <2>2 DEF StatLast, Refuse, LoopInv
  <2>3. CASE StatFirst
    BY <2>3 DEF StatFirst, Refuse, LoopInv
  <2>4. CASE StatSecond
    BY <2>4 DEF StatSecond, AfterStat, LoopInv
  <2> QED  BY <2>1, <2>2, <2>3, <2>4
<1>2. TypeOK'
  <2>1. warned' \subseteq DOMAIN args /\ Len(args) \in Nat
    BY ArgumentsAre DEF TypeOK, Count, StatLast, StatFirst, StatSecond, Refuse, history
  <2>2. below' \in BOOLEAN /\ blind' \in BOOLEAN
    <3>1. CASE Count \/ StatLast \/ StatFirst
      BY <3>1 DEF TypeOK, Count, StatLast, StatFirst, command, history
    <3>2. CASE StatSecond
      <4>1. PICK seen : below' = IsDir(seen) /\ blind' = (seen # At(LastArg))
        BY <3>2 DEF StatSecond
      <4>2. IsDir(seen) \in BOOLEAN /\ (seen # At(LastArg)) \in BOOLEAN
        BY DEF IsDir
      <4> QED  BY <4>1, <4>2
    <3> QED  BY <3>1, <3>2
  <2>3. /\ pc' \in {"count", "last", "first", "second", "rename", "done"}
        /\ pc' = "rename" => i <= Len(args)
    BY <1>1, <1>a, <2>1
  <2> QED  BY <1>1, <2>1, <2>2, <2>3 DEF TypeOK
<1>3. Single(place') /\ Housed(place', meddled')
  BY <1>1
<1>4. LoopInv'
  <2>1. Len(args) \in Nat
    BY ArgumentsAre
  <2>2. \/ pc' = "done"
        \/ pc' = "first" /\ Len(args') = 2
        \/ pc' = "last" /\ Len(args') > 2
        \/ pc' = "second" /\ Len(args') = 2
        \/ pc' = "rename" /\ Len(args') > 1 /\ (below' \/ Len(args') = 2)
    BY <1>1, <1>a, <2>1
  <2> QED  BY <1>1, <2>2 DEF LoopInv
<1>5. \A t \in Things \ meddled : place[t] = Initial[t]
  BY <1>1 DEF KeptInv
<1>6. KeptInv'
  BY <1>1, <1>5 DEF KeptInv
<1>7. NothingLost'
  BY <1>1, <1>5 DEF NothingLost, Things
<1>8. FreeInv'
  <2> SUFFICES ASSUME pc' = "rename", ~below', ~blind' PROVE At(LastArg)' = None
    BY DEF FreeInv
  <2>1. StatSecond
    BY DEF Count, StatLast, StatFirst, Refuse
  <2>2. PICK seen \in {At(LastArg), None} :
           /\ below' = IsDir(seen) /\ blind' = (seen # At(LastArg)) /\ pc' = AfterStat(seen)
    BY <2>1 DEF StatSecond
  <2>3. At(LastArg) = seen /\ ~IsDir(seen) /\ AfterStat(seen) = "rename"
    BY <2>2
  <2>4. At(LastArg) = None
    BY <2>3 DEF AfterStat
  <2>5. At(LastArg)' = At(LastArg)
    BY <1>1 DEF At, LastArg
  <2> QED  BY <2>4, <2>5
<1> QED  BY <1>2, <1>3, <1>4, <1>6, <1>7, <1>8


LEMMA RenameIInv ==
    ASSUME IInv, Rename
    PROVE  IInv'
<1> USE DEF IInv
<1> DEFINE to   == Target(i)
           from == args[i]
           Gone(t) == t = At(to) /\ t \in Files /\ place[t][2] = Last(to) /\ place'[t] = None
<1>1. /\ pc = "rename" /\ i # Len(args) /\ i' = i + 1
      /\ UNCHANGED <<pc, intr, args, below, blind, meddled>>
  BY DEF Rename, LoopEnds
<1>2. /\ Len(args) \in Nat /\ i \in 1 .. Len(args) /\ i' \in 1 .. Len(args) /\ i' # 1
      /\ from \in Paths /\ to \in Paths /\ LastArg \in Paths
      /\ below => Last(to) = Last(from)
      /\ ~below => to = LastArg
  <2>1. Len(args) \in Nat /\ i \in Nat \ {0} /\ i <= Len(args) /\ i # Len(args)
    BY <1>1, ArgumentsAre DEF TypeOK
  <2>2. i \in 1 .. Len(args) /\ i' \in 1 .. Len(args) /\ i' # 1 /\ Len(args) > 0
    BY <1>1, <2>1
  <2> QED  BY <2>1, <2>2, ArgumentsAre, TargetIs
<1>3. /\ place' \in Shares /\ Single(place') /\ Housed(place', meddled)
      /\ \A t \in Things :
            \/ place'[t] = place[t] \/ Gone(t)
            \/ /\ place[t] # None /\ place'[t] # None
               /\ place[t][2] = Last(from) /\ place'[t][2] = Last(to)
      /\ moved' \in [DOMAIN args -> Things \cup {None}]
  <2>0. place \in Shares /\ Single(place) /\ Housed(place, meddled)
        /\ moved \in [DOMAIN args -> Things \cup {None}]
    BY DEF TypeOK, Shares
  <2>1. CASE Renamed(from, to) /\ moved' = [moved EXCEPT ![i] = At(from)]
    <3>1. /\ place' \in Shares /\ Single(place') /\ Housed(place', meddled)
          /\ At(from) \in Things /\ place[At(from)] # None
          /\ place[At(from)][2] = Last(from)
          /\ place'[At(from)] # None /\ place'[At(from)][2] = Last(to)
          /\ \A t \in Things \ {At(from)} : place'[t] = place[t] \/ Gone(t)
      BY <1>2, <2>0, <2>1, RenamedIs
    <3> QED  BY <2>0, <2>1, <3>1
  <2>2. CASE NotRenamed(to) /\ UNCHANGED moved
    <3>1. CASE place' = place
      BY <2>0, <2>2, <3>1
    <3>2. CASE At(to) \in Files /\ place' = Replaced(At(to))
      <4>1. /\ place' \in Shares /\ Single(place') /\ Housed(place', meddled)
            /\ \A t \in Things : place'[t] = place[t] \/ Gone(t)
        BY <1>2, <2>0, <3>2, ReplacedIs
      <4> QED  BY <2>0, <2>2, <4>1
    <3> QED  BY <2>2, <3>1, <3>2 DEF NotRenamed
  <2> QED  BY <2>1, <2>2 DEF Rename
<1>4. TypeOK'
  <2>1. warned' \subseteq DOMAIN args
    BY <1>2, ArgumentsAre DEF TypeOK, Rename, AfterFailure, Warn
  <2> QED  BY <1>1, <1>2, <1>3, <2>1 DEF TypeOK, Shares
<1>5. LoopInv' /\ FreeInv'
  BY <1>1, <1>2 DEF LoopInv, FreeInv
<1>6. KeptInv'
  <2> SUFFICES ASSUME below, NEW t \in Things \ meddled, place'[t] # None
               PROVE  place'[t][2] = Initial[t][2]
    BY <1>1, <1>2 DEF KeptInv
  <2>1. place'[t] = place[t] \/ (place[t] # None /\ place[t][2] = Last(from)
                                 /\ place'[t][2] = Last(to))
    BY <1>3
  <2>2. Last(to) = Last(from)
    BY <1>2
  <2> QED  BY <2>1, <2>2 DEF KeptInv
<1>7. NothingLost'
  <2> SUFFICES ASSUME NEW f \in Files \ meddled, Initial[f] # None, place'[f] = None
               PROVE  blind \/ (below /\ \E k \in 1 .. i' : Last(args[k]) = Initial[f][2])
    BY <1>1 DEF NothingLost
  <2>1. f \in Things \ meddled
    BY DEF Things
  <2>2. CASE place[f] = None
    <3>1. \A k \in 1 .. i : k \in 1 .. i'
      BY <1>1, <1>2
    <3> QED  BY <2>2, <3>1 DEF NothingLost
  <2>3. CASE place[f] # None
    <3>1. Gone(f)
      BY <1>3, <2>1, <2>3
    <3>2. CASE below
      <4>1. place[f][2] = Initial[f][2]
        BY <2>1, <2>3, <3>2 DEF KeptInv
      <4>2. Last(args[i]) = Initial[f][2]
        BY <1>2, <3>1, <3>2, <4>1
      <4>3. i \in 1 .. i'
        BY <1>1, <1>2
      <4> QED  BY <3>2, <4>2, <4>3
    <3>3. CASE ~below
      <4>0. i = 1
        <5>1. Len(args) = 2
          BY <1>1, <3>3 DEF LoopInv
        <5>2. i \in 1 .. Len(args) /\ i # Len(args)
          BY <1>1, <1>2
        <5> QED  BY <5>1, <5>2
      <4>1. i = 1 /\ f = At(LastArg)
        BY <1>2, <3>1, <3>3, <4>0
      <4>2. f # None
        BY <2>1, MoveAssumption
      <4>3. blind
        BY <1>1, <3>3, <4>1, <4>2 DEF FreeInv
      <4> QED  BY <4>3
    <3> QED  BY <3>2, <3>3
  <2> QED  BY <2>2, <2>3
<1> QED  BY <1>1, <1>3, <1>4, <1>5, <1>6, <1>7

\* Others change what has not been changed by them.
LEMMA OtherClientIs ==
    ASSUME TypeOK, Single(place), Housed(place, meddled), OtherClient
    PROVE  /\ place' \in Shares /\ Single(place') /\ Housed(place', meddled')
           /\ meddled' \subseteq Things /\ meddled \subseteq meddled'
           /\ \A t \in Things \ meddled' : place'[t] = place[t]
           /\ \A path \in Paths : At(path)' \in {At(path), None} \cup meddled'
<1>1. PICK t \in Things :
         /\ \/ place[t] # None /\ place' = [place EXCEPT ![t] = None]
            \/ /\ place[t] = None
               /\ \E p \in ToSet(args) :
                     /\ At(p) = None /\ IsDir(At(Front(p)))
                     /\ place' = [place EXCEPT ![t] = <<At(Front(p)), Last(p)>>]
         /\ t \notin meddled /\ meddled' = meddled \cup {t}
  BY DEF OtherClient
<1>2. place \in Shares /\ meddled \subseteq Things
  BY DEF TypeOK, Shares
<1>3. \A u \in Things \ {t} : place'[u] = place[u]
  BY <1>1, <1>2 DEF Shares
<1>4. CASE place' = [place EXCEPT ![t] = None]
  <2>1. place' \in Shares /\ place'[t] = None
    BY <1>2, <1>4 DEF Shares
  <2>2. Single(place')
    BY <1>3, <2>1 DEF Single
  <2>3. Housed(place', meddled')
    BY <1>1, <1>3, <2>1 DEF Housed, Things
  <2>4. ASSUME NEW path \in Paths PROVE At(path)' \in {At(path), None}
    <3>1. path \in Seq(Names)
      BY DEF Paths
    <3>2. Named(place', path) \in {Named(place, path), None}
      BY <1>2, <1>4, <3>1, WalkRemoved
    <3> QED  BY <3>2 DEF Named, At
  <2> QED  BY <1>1, <1>2, <1>3, <2>1, <2>2, <2>3, <2>4
<1>5. ASSUME NEW p \in ToSet(args), place[t] = None, At(p) = None, IsDir(At(Front(p))),
             place' = [place EXCEPT ![t] = <<At(Front(p)), Last(p)>>]
      PROVE  /\ place' \in Shares /\ Single(place') /\ Housed(place', meddled')
             /\ \A path \in Paths : At(path)' \in {At(path), None} \cup meddled'
  <2> DEFINE d == At(Front(p))
             n == Last(p)
  <2>1. p \in Paths
    BY ArgumentsAre DEF ToSet
  <2>2. /\ d \in Dirs \cup {Root} /\ n \in Names /\ In(place, d, n) = None
        /\ d \in Things => place[d] # None
    BY <1>5, <2>1, AtIs DEF IsDir
  <2> HIDE DEF d, n
  <2>3. <<d, n>> \in Places /\ <<d, n>> # None /\ d # t
    BY <1>5, <2>2, MoveAssumption DEF Places, Things
  <2>4. place' \in Shares /\ place'[t] = <<d, n>>
    BY <1>2, <1>5, <2>3 DEF Shares, d, n
  <2>5. \A u \in Things : place[u] # <<d, n>>
    BY <2>2, InIs, MoveAssumption
  <2>6. Single(place')
    BY <1>3, <2>3, <2>4, <2>5 DEF Single
  <2>7. Housed(place', meddled')
    <3> SUFFICES ASSUME NEW u \in Things, place'[u] # None, place'[u][1] \in Dirs \ meddled'
                 PROVE  place'[place'[u][1]] # None
      BY DEF Housed
    <3>1. place'[u][1] \in Things /\ place'[u][1] # t
      BY <1>1 DEF Things
    <3>2. CASE u = t
      BY <1>3, <2>2, <2>4, <3>1, <3>2
    <3>3. CASE u # t
      BY <1>1, <1>3, <3>1, <3>3 DEF Housed
    <3> QED  BY <3>2, <3>3
  <2>8. \A u \in Things : place[u] # None => place[u][1] # t
    <3> SUFFICES ASSUME NEW u \in Things, place[u] # None, place[u][1] = t PROVE FALSE
      OBVIOUS
    <3>1. place[u] \in Places
      BY <1>2 DEF Shares
    <3>2. t \in Dirs
      BY <3>1, MoveAssumption DEF Places
    <3> QED  BY <1>1, <1>5, <3>2 DEF Housed
  <2>9. ASSUME NEW path \in Paths PROVE At(path)' \in {At(path), t, None}
    <3>1. path \in Seq(Names) /\ place' = [place EXCEPT ![t] = <<d, n>>]
      BY <1>5 DEF Paths, d, n
    <3>2. Named(place', path) \in {Named(place, path), t, None}
      BY <1>2, <1>5, <2>2, <2>3, <2>8, <3>1, WalkMade
    <3> QED  BY <3>2 DEF Named, At
  <2> QED  BY <1>1, <2>4, <2>6, <2>7, <2>9
<1> QED  BY <1>1, <1>2, <1>3, <1>4, <1>5

LEMMA OthersIInv ==
    ASSUME IInv, OtherClient
    PROVE  IInv'
<1> USE DEF IInv
<1>1. /\ place' \in Shares /\ Single(place') /\ Housed(place', meddled')
      /\ meddled' \subseteq Things /\ meddled \subseteq meddled'
      /\ \A t \in Things \ meddled' : place'[t] = place[t]
      /\ \A path \in Paths : At(path)' \in {At(path), None} \cup meddled'
  BY OtherClientIs
<1>2. pc # "done" /\ UNCHANGED <<pc, intr, args, i, below, warned, moved, blind>>
  BY DEF OtherClient, command, history
<1>3. TypeOK' /\ LoopInv'
  BY <1>1, <1>2 DEF TypeOK, LoopInv, Shares
<1>4. KeptInv'
  BY <1>1, <1>2 DEF KeptInv
<1>5. NothingLost'
  BY <1>1, <1>2 DEF NothingLost, Things
<1>6. FreeInv'
  <2> SUFFICES ASSUME pc = "rename", i = 1, ~below, ~blind
               PROVE  At(LastArg)' \in meddled' \cup {None}
    BY <1>2 DEF FreeInv
  <2>1. LastArg \in Paths /\ LastArg' = LastArg
    BY <1>2, ArgumentsAre DEF LoopInv, LastArg
  <2>2. At(LastArg) \in meddled \cup {None}
    BY DEF FreeInv
  <2>3. At(LastArg)' \in {At(LastArg), None} \cup meddled'
    BY <1>1, <2>1
  <2> QED  BY <1>1, <2>2, <2>3
<1> QED  BY <1>1, <1>3, <1>4, <1>5, <1>6

LEMMA Invariance == IInv /\ [Next]_vars => IInv'
<1> SUFFICES ASSUME IInv, [Next]_vars PROVE IInv'
  OBVIOUS
<1>1. CASE Count \/ StatLast \/ StatFirst \/ StatSecond
  BY <1>1, StatsIInv
<1>2. CASE Rename
  BY <1>2, RenameIInv
<1>3. CASE OtherClient
  BY <1>3, OthersIInv
<1>4. CASE \/ CommandEnds \/ Interrupt \/ UNCHANGED vars
  <2>1. /\ UNCHANGED <<args, i, below, place, warned, moved, blind, meddled>>
        /\ pc' \in {pc, "done"} /\ intr' \in {intr, TRUE}
    BY <1>4 DEF CommandEnds, Interrupt, vars, command, history
  <2>2. intr' \in BOOLEAN
    BY <2>1 DEF IInv, TypeOK
  <2>3. TypeOK' /\ LoopInv' /\ KeptInv' /\ NothingLost'
    BY <2>1, <2>2 DEF IInv, TypeOK, LoopInv, KeptInv, NothingLost
  <2>4. FreeInv'
    BY <2>1 DEF IInv, FreeInv, At, LastArg
  <2>5. Single(place') /\ Housed(place', meddled')
    BY <2>1 DEF IInv
  <2> QED  BY <2>3, <2>4, <2>5 DEF IInv
<1> QED  BY <1>1, <1>2, <1>3, <1>4 DEF Next

(***************************************************************************)
(* The variables of mv keep to their ranges, and each thing is in a place. *)
(***************************************************************************)
THEOREM TypeCorrect == Spec => []TypeOK
<1>1. IInv => TypeOK
  BY DEF IInv
<1> QED  BY InitIInv, Invariance, <1>1, PTL DEF Spec

(***************************************************************************)
(* mv loses no file that others leave alone, for every share and all       *)
(* arguments, unless something of its name is moved into a directory or    *)
(* the stat of the second argument failed: whatever requests fail,         *)
(* whenever SIGINT comes, and whatever others make and remove between the  *)
(* stats and the renames (smbhlp.c:120-197).                               *)
(***************************************************************************)
THEOREM LosesNothing == Spec => []NothingLost
<1>1. IInv => NothingLost
  BY DEF IInv
<1> QED  BY InitIInv, Invariance, <1>1, PTL DEF Spec
-----------------------------------------------------------------------------
(* What mv moved stays where it was moved to. *)

\* What is in something is in a directory, the one the path came through.
LEMMA Behind ==
    ASSUME NEW pl \in Shares, NEW path \in Seq(Names), NEW k \in 1 .. Len(path),
           Walk(pl, path)[k] \in Things
    PROVE  /\ pl[Walk(pl, path)[k]] = <<Walk(pl, path)[k - 1], path[k]>>
           /\ Walk(pl, path)[k - 1] \in Dirs \cup {Root} /\ k - 1 \in 0 .. Len(path)
<1> DEFINE w == Walk(pl, path)
           c == w[k - 1]
<1>1. Len(path) \in Nat /\ k - 1 \in 0 .. Len(path) /\ path[k] \in Names
  OBVIOUS
<1>2. w[k] = In(pl, c, path[k]) /\ c \in Spots
  BY <1>1, WalkIs, WalkThere
<1> HIDE DEF w, c
<1>3. w[k] \in Things /\ w[k] # None
  BY MoveAssumption DEF w
<1>4. pl[w[k]] = <<c, path[k]>>
  BY <1>2, <1>3, InIs
<1>5. pl[w[k]] \in Places \cup {None} /\ <<c, path[k]>> # None
  BY <1>1, <1>2, <1>3, MoveAssumption DEF Shares, Spots
<1>6. c \in Dirs \cup {Root}
  BY <1>4, <1>5 DEF Places
<1> QED  BY <1>1, <1>4, <1>6 DEF w, c

\* Only the empty path names the directory paths begin in.
LEMMA NotRoot ==
    ASSUME NEW pl, NEW path \in Seq(Names), NEW k \in 1 .. Len(path)
    PROVE  Walk(pl, path)[k] # Root
<1>1. Len(path) \in Nat
  OBVIOUS
<1>2. Walk(pl, path)[k] = In(pl, Walk(pl, path)[k - 1], path[k])
  BY <1>1, WalkIs
<1> QED  BY <1>2, InIs, MoveAssumption

\* All that the path to something passes through is there, and a directory
\* but for its end.
LEMMA OnTheWay ==
    ASSUME NEW pl \in Shares, NEW path \in Seq(Names), NEW e \in 1 .. Len(path),
           Walk(pl, path)[e] \in Things, NEW k \in 1 .. e
    PROVE  /\ Walk(pl, path)[k] \in Things
           /\ k < e => Walk(pl, path)[k] \in Dirs
<1> DEFINE w == Walk(pl, path)
           S == {r \in Nat : r < e => w[e - r] \in Things /\ (r > 0 => w[e - r] \in Dirs)}
<1>1. Len(path) \in Nat /\ e \in Nat
  OBVIOUS
<1>2. \A m \in 1 .. Len(path) :
         w[m] \in Things => w[m - 1] \in Dirs \cup {Root}
  BY Behind
<1>3. \A m \in 1 .. Len(path) : w[m] # Root
  BY NotRoot
<1>4. w[e] \in Things
  OBVIOUS
<1> HIDE DEF w
<1>5. 0 \in S
  BY <1>1, <1>4
<1>6. ASSUME NEW r \in Nat, r \in S PROVE r + 1 \in S
  <2> SUFFICES ASSUME r + 1 < e PROVE w[e - (r + 1)] \in Dirs
    BY DEF Things
  <2>1. /\ e - r \in 1 .. Len(path) /\ (e - r) - 1 = e - (r + 1)
        /\ e - (r + 1) \in 1 .. Len(path) /\ w[e - r] \in Things
    BY <1>1, <1>6
  <2> QED  BY <1>2, <1>3, <2>1
<1>7. Nat \subseteq S
  <2> HIDE DEF S
  <2> QED  BY <1>5, <1>6, Induction
<1>8. e - k \in S /\ e - k < e /\ e - (e - k) = k /\ (k < e => e - k > 0)
  <2>1. e - k \in Nat /\ e - k < e /\ e - (e - k) = k /\ (k < e => e - k > 0)
    BY <1>1
  <2> HIDE DEF S
  <2> QED  BY <1>7, <2>1
<1>9. w[k] \in Things /\ (k < e => w[k] \in Dirs)
  BY <1>8
<1> QED  BY <1>9 DEF w

\* Where all on the way stayed, a path leads to what it led to before.
LEMMA WalkKept ==
    ASSUME NEW pl \in Shares, NEW new \in Shares, Single(new),
           NEW path \in Seq(Names), NEW e \in 0 .. Len(path),
           \A k \in 1 .. e : /\ Walk(pl, path)[k] \in Things
                             /\ new[Walk(pl, path)[k]] = pl[Walk(pl, path)[k]]
    PROVE  Walk(new, path)[e] = Walk(pl, path)[e]
<1> DEFINE w == Walk(pl, path)
           v == Walk(new, path)
           S == {k \in Nat : k <= e => v[k] = w[k]}
<1>1. /\ Len(path) \in Nat /\ e \in Nat /\ w[0] = Root /\ v[0] = Root
      /\ \A k \in 1 .. Len(path) : v[k] = In(new, v[k - 1], path[k])
  BY WalkIs
<1>2. \A k \in 1 .. e : /\ w[k] \in Things /\ w[k] # None
                        /\ new[w[k]] = <<w[k - 1], path[k]>> /\ new[w[k]] # None
  <2> SUFFICES ASSUME NEW k \in 1 .. e
               PROVE  /\ w[k] \in Things /\ w[k] # None
                      /\ new[w[k]] = <<w[k - 1], path[k]>> /\ new[w[k]] # None
    OBVIOUS
  <2>1. w[k] \in Things /\ new[w[k]] = pl[w[k]] /\ k \in 1 .. Len(path)
    OBVIOUS
  <2>2. pl[w[k]] = <<w[k - 1], path[k]>> /\ w[k - 1] \in Dirs \cup {Root}
    BY <2>1, Behind
  <2>3. path[k] \in Names
    BY <2>1
  <2> HIDE DEF w
  <2>4. <<w[k - 1], path[k]>> # None
    BY <2>2, <2>3, MoveAssumption DEF Things
  <2> QED  BY <2>1, <2>2, <2>4, MoveAssumption
<1> HIDE DEF w, v
<1>3. 0 \in S
  BY <1>1
<1>4. ASSUME NEW k \in Nat, k \in S PROVE k + 1 \in S
  <2> SUFFICES ASSUME k + 1 <= e PROVE v[k + 1] = w[k + 1]
    OBVIOUS
  <2>1. k + 1 \in 1 .. e /\ k + 1 \in 1 .. Len(path) /\ (k + 1) - 1 = k /\ v[k] = w[k]
    BY <1>1, <1>4
  <2> DEFINE x == In(new, v[k], path[k + 1])
  <2>2. v[k + 1] = x
    BY <1>1, <2>1
  <2>3. /\ w[k + 1] \in Things /\ new[w[k + 1]] = <<v[k], path[k + 1]>>
        /\ new[w[k + 1]] # None
    BY <1>2, <2>1
  <2>4. x \in Things /\ new[x] = <<v[k], path[k + 1]>>
    BY <2>3, InIs
  <2> HIDE DEF x
  <2>5. x = w[k + 1]
    BY <2>3, <2>4 DEF Single
  <2> QED  BY <2>2, <2>5
<1>5. Nat \subseteq S
  <2> HIDE DEF S
  <2> QED  BY <1>3, <1>4, Induction
<1>6. v[e] = w[e]
  BY <1>1, <1>5
<1> QED  BY <1>6 DEF w, v

\* Two paths that begin with the same names lead to the same things.
LEMMA WalkSame ==
    ASSUME NEW pl, NEW p \in Seq(Names), NEW q \in Seq(Names),
           NEW e \in 0 .. Len(p), e <= Len(q), \A k \in 1 .. e : p[k] = q[k]
    PROVE  Walk(pl, p)[e] = Walk(pl, q)[e]
<1> DEFINE w == Walk(pl, p)
           v == Walk(pl, q)
           S == {k \in Nat : k <= e => v[k] = w[k]}
<1>1. /\ Len(p) \in Nat /\ Len(q) \in Nat /\ e \in Nat /\ w[0] = Root /\ v[0] = Root
      /\ \A k \in 1 .. Len(p) : w[k] = In(pl, w[k - 1], p[k])
      /\ \A k \in 1 .. Len(q) : v[k] = In(pl, v[k - 1], q[k])
  BY WalkIs
<1> HIDE DEF w, v
<1>2. 0 \in S
  BY <1>1
<1>3. ASSUME NEW k \in Nat, k \in S PROVE k + 1 \in S
  <2> SUFFICES ASSUME k + 1 <= e PROVE v[k + 1] = w[k + 1]
    OBVIOUS
  <2>1. /\ k + 1 \in 1 .. e /\ k + 1 \in 1 .. Len(p) /\ k + 1 \in 1 .. Len(q)
        /\ (k + 1) - 1 = k /\ v[k] = w[k]
    BY <1>1, <1>3
  <2> QED  BY <1>1, <2>1
<1>4. Nat \subseteq S
  <2> HIDE DEF S
  <2> QED  BY <1>2, <1>3, Induction
<1>5. v[e] = w[e]
  BY <1>1, <1>4
<1> QED  BY <1>5 DEF w, v

\* There is one path to each thing.
LEMMA OnePath ==
    ASSUME NEW pl \in Shares, NEW p \in Seq(Names), NEW q \in Seq(Names),
           NEW a \in 0 .. Len(p), NEW b \in 0 .. Len(q),
           Walk(pl, p)[a] = Walk(pl, q)[b], Walk(pl, p)[a] \in Things
    PROVE  a = b /\ \A k \in 1 .. a : p[k] = q[k]
<1> DEFINE w == Walk(pl, p)
           v == Walk(pl, q)
           S == {r \in Nat : r <= a => /\ r <= b /\ w[a - r] = v[b - r]
                                       /\ w[a - r] \in Things \cup {Root}}
<1>1. Len(p) \in Nat /\ Len(q) \in Nat /\ a \in Nat /\ b \in Nat
  OBVIOUS
<1>2. /\ v[0] = Root /\ w[0] = Root
      /\ \A m \in 1 .. Len(p) : w[m] # Root
      /\ \A m \in 1 .. Len(q) : v[m] # Root
  BY <1>1, WalkIs, NotRoot
<1>3. /\ \A m \in 1 .. Len(p) :
            w[m] \in Things => pl[w[m]] = <<w[m - 1], p[m]>> /\ w[m - 1] \in Things \cup {Root}
      /\ \A m \in 1 .. Len(q) : v[m] \in Things => pl[v[m]] = <<v[m - 1], q[m]>>
  BY Behind DEF Things
<1>4. w[a] = v[b] /\ w[a] \in Things
  OBVIOUS
<1> HIDE DEF w, v
<1>5. 0 \in S
  BY <1>1, <1>4
<1>6. ASSUME NEW r \in Nat, r \in S PROVE r + 1 \in S
  <2> SUFFICES ASSUME r + 1 <= a
               PROVE  /\ r + 1 <= b /\ w[a - (r + 1)] = v[b - (r + 1)]
                      /\ w[a - (r + 1)] \in Things \cup {Root}
    OBVIOUS
  <2>1. /\ r <= b /\ w[a - r] = v[b - r] /\ w[a - r] \in Things \cup {Root}
        /\ a - r \in 1 .. Len(p) /\ (a - r) - 1 = a - (r + 1)
    BY <1>1, <1>6
  <2>2. w[a - r] \in Things /\ v[b - r] # Root
    BY <1>2, <2>1
  <2>3. b - r # 0
    <3>1. CASE b - r = 0
      <4>1. v[b - r] = v[0]
        BY <3>1
      <4> QED  BY <1>2, <2>2, <4>1
    <3> QED  BY <3>1
  <2>4. b - r \in 1 .. Len(q) /\ (b - r) - 1 = b - (r + 1) /\ r + 1 <= b
    BY <1>1, <2>1, <2>3
  <2>5. /\ pl[w[a - r]] = <<w[a - (r + 1)], p[a - r]>>
        /\ w[a - (r + 1)] \in Things \cup {Root}
        /\ pl[v[b - r]] = <<v[b - (r + 1)], q[b - r]>>
    BY <1>3, <2>1, <2>2, <2>4
  <2> QED  BY <2>1, <2>4, <2>5
<1>7. Nat \subseteq S
  <2> HIDE DEF S
  <2> QED  BY <1>5, <1>6, Induction
<1>8. a <= b /\ w[0] = v[b - a]
  <2>1. a \in S /\ a - a = 0
    <3> HIDE DEF S
    <3> QED  BY <1>1, <1>7
  <2> QED  BY <1>1, <2>1
<1>9. a = b
  <2>1. CASE b - a # 0
    <3>1. b - a \in 1 .. Len(q)
      BY <1>1, <1>8, <2>1
    <3> QED  BY <1>2, <1>8, <3>1
  <2> QED  BY <1>1, <2>1
<1>10. ASSUME NEW k \in 1 .. a PROVE p[k] = q[k]
  <2>1. /\ a - k \in S /\ a - k <= a /\ a - (a - k) = k /\ b - (a - k) = k
        /\ k \in 1 .. Len(p) /\ k \in 1 .. Len(q)
    <3>1. /\ a - k \in Nat /\ a - k <= a /\ a - (a - k) = k /\ b - (a - k) = k
          /\ k \in 1 .. Len(p) /\ k \in 1 .. Len(q)
      BY <1>1, <1>9
    <3> HIDE DEF S
    <3> QED  BY <1>7, <3>1
  <2>2. w[k] = v[k] /\ w[k] \in Things \cup {Root}
    <3>1. \A r \in S : r <= a => w[a - r] = v[b - r] /\ w[a - r] \in Things \cup {Root}
      OBVIOUS
    <3> HIDE DEF S
    <3> QED  BY <2>1, <3>1
  <2>3. w[k] \in Things
    BY <1>2, <2>1, <2>2
  <2>4. pl[w[k]] = <<w[k - 1], p[k]>>
    BY <1>3, <2>1, <2>3
  <2>5. pl[v[k]] = <<v[k - 1], q[k]>>
    BY <1>3, <2>1, <2>2, <2>3
  <2> QED  BY <2>2, <2>4, <2>5
<1> QED  BY <1>9, <1>10

LEMMA InThere ==
    ASSUME NEW pl, Single(pl), NEW t \in Things, pl[t] # None,
           NEW d, NEW n, pl[t] = <<d, n>>
    PROVE  In(pl, d, n) = t
<1>1. In(pl, d, n) \in Things /\ pl[In(pl, d, n)] = pl[t]
  BY InIs
<1> QED  BY <1>1 DEF Single

\* What is renamed is what the target names then.
LEMMA RenamedTo ==
    ASSUME place \in Shares, Single(place), NEW gone, Housed(place, gone),
           NEW from \in Paths, NEW to \in Paths, Renamed(from, to)
    PROVE  Named(place', to) = At(from)
<1> DEFINE w == Walk(place, to)
           n == Len(to)
           what == At(from)
<1>1. /\ what \in Things /\ IsDir(At(Front(to))) /\ what \notin Through(to)
      /\ At(to) # what /\ place' = [Replaced(At(to)) EXCEPT ![what] = <<At(Front(to)), Last(to)>>]
      /\ At(to) \in Files \cup {None}
  BY DEF Renamed
<1>2. /\ place' \in Shares /\ Single(place')
      /\ \A t \in Things \ {what} : place'[t] = place[t] \/ t \in Files
  BY RenamedIs
<1>3. /\ to \in Seq(Names) /\ n \in Nat \ {0} /\ Last(to) = to[n] /\ n - 1 \in 0 .. n
      /\ Front(to) \in Seq(Names) /\ Len(Front(to)) = n - 1
      /\ \A k \in 1 .. n - 1 : Front(to)[k] = to[k]
  BY FrontIs DEF Paths
<1>4. w[n - 1] = At(Front(to))
  <2>1. n - 1 \in 0 .. Len(Front(to)) /\ n - 1 <= Len(to)
    BY <1>3
  <2>2. Walk(place, Front(to))[n - 1] = Walk(place, to)[n - 1]
    BY <1>3, <2>1, WalkSame
  <2> QED  BY <1>3, <2>2 DEF At
<1>5. ASSUME NEW k \in 1 .. n - 1
      PROVE  w[k] \in Things /\ place'[w[k]] = place[w[k]]
  <2>1. n - 1 \in 1 .. Len(to) /\ k \in 0 .. Len(to) - 1
    BY <1>3
  <2>2. w[n - 1] \in Dirs
    BY <1>1, <1>3, <1>4, <2>1, NotRoot DEF IsDir
  <2>3. w[k] \in Dirs
    <3>1. w[n - 1] \in Things /\ n - 1 \in 1 .. Len(to)
      BY <2>1, <2>2 DEF Things
    <3>2. k < n - 1 => w[k] \in Dirs
      BY <1>3, <3>1, OnTheWay
    <3>3. k < n - 1 \/ k = n - 1
      BY <1>3
    <3> QED  BY <2>2, <3>2, <3>3
  <2>4. w[k] # what
    BY <1>1, <2>1 DEF Through
  <2> HIDE DEF w
  <2>5. w[k] \in Things \ {what} /\ w[k] \notin Files
    BY <2>3, <2>4, MoveAssumption DEF Things
  <2> QED  BY <1>2, <2>5
<1>6. Walk(place', to)[n - 1] = w[n - 1]
  BY <1>2, <1>3, <1>5, WalkKept
<1>7. Walk(place', to)[n] = In(place', At(Front(to)), Last(to))
  <2>1. n \in 1 .. Len(to)
    BY <1>3
  <2> QED  BY <1>3, <1>4, <1>6, <2>1, WalkIs
<1>8. place'[what] = <<At(Front(to)), Last(to)>> /\ place'[what] # None
  <2>1. Replaced(At(to)) \in Shares
    BY <1>1, ReplacedIs
  <2>2. <<At(Front(to)), Last(to)>> # None
    BY AtIs, MoveAssumption DEF Spots
  <2> QED  BY <1>1, <2>1, <2>2 DEF Shares
<1>9. In(place', At(Front(to)), Last(to)) = what
  BY <1>1, <1>2, <1>8, InThere
<1> QED  BY <1>7, <1>9 DEF Named

\* What a path names stays if it and the directories on the way stay.
LEMMA Undisturbed ==
    ASSUME NEW pl \in Shares, NEW new \in Shares, Single(new), NEW path \in Paths,
           Named(pl, path) \in Things,
           \A k \in 1 .. Len(path) :
              \/ new[Walk(pl, path)[k]] = pl[Walk(pl, path)[k]]
              \/ k < Len(path) /\ Walk(pl, path)[k] \notin Dirs
    PROVE  Named(new, path) = Named(pl, path)
<1> DEFINE w == Walk(pl, path)
           n == Len(path)
<1>1. path \in Seq(Names) /\ n \in Nat \ {0} /\ n \in 1 .. n /\ n \in 0 .. n
  BY DEF Paths
<1>2. w[n] \in Things
  BY DEF Named
<1>3. ASSUME NEW k \in 1 .. n PROVE w[k] \in Things /\ new[w[k]] = pl[w[k]]
  <2>1. w[k] \in Things /\ (k < n => w[k] \in Dirs)
    BY <1>1, <1>2, OnTheWay
  <2> QED  BY <2>1
<1>4. Walk(new, path)[n] = w[n]
  BY <1>1, <1>3, WalkKept
<1> QED  BY <1>4 DEF Named

LEMMA JoinedWith ==
    ASSUME NEW p \in Paths, NEW q \in Paths
    PROVE  /\ p \o q \in Seq(Names) /\ p \in Seq(Names) /\ q \in Seq(Names)
           /\ Len(p) \in Nat \ {0} /\ Len(q) \in Nat \ {0} /\ Len(p \o q) = Len(p) + Len(q)
           /\ \A k \in 1 .. Len(p) : (p \o q)[k] = p[k]
           /\ \A k \in 1 .. Len(q) : (p \o q)[Len(p) + k] = q[k]
<1>1. p \in Seq(Names) /\ q \in Seq(Names) /\ Len(p) \in Nat \ {0} /\ Len(q) \in Nat \ {0}
  BY DEF Paths
<1>2. /\ p \o q \in Seq(Names) /\ Len(p \o q) = Len(p) + Len(q)
      /\ \A k \in 1 .. Len(p) + Len(q) :
            (p \o q)[k] = IF k <= Len(p) THEN p[k] ELSE q[k - Len(p)]
  BY <1>1, ConcatProperties
<1>3. ASSUME NEW k \in 1 .. Len(p) PROVE (p \o q)[k] = p[k]
  <2>1. k \in 1 .. Len(p) + Len(q) /\ k <= Len(p)
    BY <1>1
  <2> QED  BY <1>2, <2>1
<1>4. ASSUME NEW k \in 1 .. Len(q) PROVE (p \o q)[Len(p) + k] = q[k]
  <2>1. /\ Len(p) + k \in 1 .. Len(p) + Len(q) /\ ~(Len(p) + k <= Len(p))
        /\ Len(p) + k - Len(p) = k
    BY <1>1
  <2> QED  BY <1>2, <2>1
<1> QED  BY <1>1, <1>2, <1>3, <1>4

\* Two arguments do not have one target.
LEMMA OneTarget ==
    ASSUME NEW pl \in Shares, NEW last \in Paths, NEW a \in Paths, NEW b \in Paths,
           Named(pl, last \o a) \in Things, Named(pl, last \o b) = Named(pl, last \o a)
    PROVE  a = b
<1> DEFINE p == last \o a
           q == last \o b
<1>1. /\ p \in Seq(Names) /\ a \in Seq(Names) /\ Len(p) = Len(last) + Len(a)
      /\ \A k \in 1 .. Len(a) : p[Len(last) + k] = a[k]
  BY JoinedWith
<1>2. /\ q \in Seq(Names) /\ b \in Seq(Names) /\ Len(q) = Len(last) + Len(b)
      /\ \A k \in 1 .. Len(b) : q[Len(last) + k] = b[k]
  BY JoinedWith
<1>3. Len(last) \in Nat /\ Len(a) \in Nat /\ Len(b) \in Nat /\ Len(p) \in Nat /\ Len(q) \in Nat
  BY <1>1, <1>2 DEF Paths
<1>4. Walk(pl, p)[Len(p)] = Walk(pl, q)[Len(q)] /\ Walk(pl, p)[Len(p)] \in Things
  BY DEF Named
<1> HIDE DEF p, q
<1>5. Len(p) = Len(q) /\ \A k \in 1 .. Len(p) : p[k] = q[k]
  <2>1. Len(p) \in 0 .. Len(p) /\ Len(q) \in 0 .. Len(q)
    BY <1>3
  <2>2. p \in Seq(Names) /\ q \in Seq(Names)
    BY <1>1, <1>2
  <2> QED  BY <1>4, <2>1, <2>2, OnePath
<1>6. Len(a) = Len(b)
  BY <1>1, <1>2, <1>3, <1>5
<1>7. ASSUME NEW k \in 1 .. Len(a) PROVE a[k] = b[k]
  <2>1. k \in 1 .. Len(b) /\ Len(last) + k \in 1 .. Len(p)
    BY <1>1, <1>3, <1>6
  <2> QED  BY <1>1, <1>2, <1>5, <2>1
<1> QED  BY <1>1, <1>2, <1>6, <1>7, SeqEqual

\* An argument that is not below the last one is not on the way to a target.
LEMMA NotOnTheWay ==
    ASSUME NEW pl \in Shares, NEW last \in Paths, NEW a \in Paths, NEW b \in Paths,
           ~IsStrictPrefix(last, b), Named(pl, b) \in Things,
           \A k \in 0 .. Len(last \o b) - 1 : Walk(pl, last \o b)[k] # Named(pl, b),
           NEW k \in 1 .. Len(last \o a)
    PROVE  Walk(pl, last \o a)[k] # Named(pl, b)
<1> DEFINE p == last \o a
           q == last \o b
<1> SUFFICES ASSUME Walk(pl, p)[k] = Walk(pl, b)[Len(b)] PROVE FALSE
  BY DEF Named
<1>1. /\ p \in Seq(Names) /\ last \in Seq(Names) /\ Len(last) \in Nat \ {0}
      /\ Len(p) \in Nat /\ Len(last) <= Len(p)
      /\ \A m \in 1 .. Len(last) : p[m] = last[m]
  BY JoinedWith
<1>2. /\ q \in Seq(Names) /\ b \in Seq(Names) /\ Len(b) \in Nat \ {0}
      /\ Len(q) = Len(last) + Len(b)
      /\ \A m \in 1 .. Len(last) : q[m] = last[m]
  BY JoinedWith
<1>3. \A m \in 0 .. Len(q) - 1 : Walk(pl, q)[m] # Walk(pl, b)[Len(b)]
  BY DEF Named
<1>4. k \in 1 .. Len(p)
  OBVIOUS
<1> HIDE DEF p, q
<1>5. k = Len(b) /\ \A m \in 1 .. k : p[m] = b[m]
  <2>1. k \in 0 .. Len(p) /\ Len(b) \in 0 .. Len(b) /\ Walk(pl, p)[k] \in Things
    BY <1>1, <1>2, <1>4 DEF Named
  <2> QED  BY <1>1, <1>2, <2>1, OnePath
<1>6. CASE k <= Len(last)
  <2>0. /\ k \in 0 .. Len(p) /\ k <= Len(q) /\ k \in 0 .. Len(q) - 1
        /\ \A m \in 1 .. k : m \in 1 .. Len(last)
    BY <1>1, <1>2, <1>4, <1>6
  <2>1. /\ k \in 0 .. Len(p) /\ k <= Len(q) /\ k \in 0 .. Len(q) - 1
        /\ \A m \in 1 .. k : p[m] = q[m]
    BY <1>1, <1>2, <2>0
  <2>2. Walk(pl, p)[k] = Walk(pl, q)[k]
    BY <1>1, <1>2, <2>1, WalkSame
  <2> QED  BY <1>3, <2>1, <2>2
<1>7. CASE Len(last) < k
  <2>1. /\ Len(last) < Len(b) /\ \A m \in 1 .. Len(last) : last[m] = b[m]
    BY <1>1, <1>4, <1>5, <1>7
  <2>2. SubSeq(last, 1, Len(last)) = SubSeq(b, 1, Len(last))
    <3> DEFINE s == SubSeq(last, 1, Len(last))
               t == SubSeq(b, 1, Len(last))
               n == Len(last)
    <3>1. n \in Nat \ {0} /\ (IF 1 <= n THEN n - 1 + 1 ELSE 0) = n /\ 1 .. n - 1 + 1 = 1 .. n
      BY <1>1
    <3>2. /\ 1 \in Int /\ n \in Int /\ \A m \in 1 .. n : last[m] \in Names /\ b[m] \in Names
      BY <1>1, <1>2, <2>1
    <3>3. s \in Seq(Names) /\ Len(s) = n /\ \A m \in 1 .. n : s[m] = last[1 + m - 1]
      BY <3>1, <3>2, SubSeqProperties
    <3>4. t \in Seq(Names) /\ Len(t) = n /\ \A m \in 1 .. n : t[m] = b[1 + m - 1]
      BY <3>1, <3>2, SubSeqProperties
    <3> HIDE DEF s, t, n
    <3>5. ASSUME NEW m \in 1 .. n PROVE s[m] = t[m]
      <4>1. 1 + m - 1 = m
        BY <3>1
      <4>2. s[m] = last[m] /\ t[m] = b[m]
        BY <3>3, <3>4, <4>1
      <4> QED  BY <2>1, <4>2 DEF n
    <3> QED  BY <3>3, <3>4, <3>5, SeqEqual DEF s, t
  <2>3. Len(last) <= Len(b) /\ last # b
    BY <1>1, <1>2, <2>1
  <2> QED  BY <2>2, <2>3 DEF IsStrictPrefix, IsPrefix
<1> QED  BY <1>1, <1>4, <1>6, <1>7

-----------------------------------------------------------------------------
(***************************************************************************)
(* No argument is given twice, or is below the last one, where an earlier  *)
(* argument may have been moved to.  Of one argument beside the last       *)
(* nothing is required.                                                    *)
(***************************************************************************)
Independent ==
    \A s \in ArgLists : \A k, j \in 1 .. Len(s) - 1 :
       k < j => s[k] # s[j] /\ ~IsStrictPrefix(s[Len(s)], s[j])

\* What others may make is not there before they do.
FreshInv == \A t \in Things \ meddled : Initial[t] = None => place[t] = None

EndInv == pc = "done" /\ ~intr => i = Len(args) \/ warned = DOMAIN args

Arrived(k) ==
    \/ k \in warned
    \/ Removed \cap Dirs # {}
    \/ moved[k] \in Things /\ (At(Target(k)) = moved[k] \/ moved[k] \in Removed)

MovedInv ==
    FreshInv /\ EndInv /\ \A k \in 1 .. Len(args) - 1 : k < i => Arrived(k)

LEMMA MovedMeans ==
    ASSUME IInv, MovedInv
    PROVE  MovedOrTold
<1> SUFFICES ASSUME NEW k \in 1 .. Len(args) - 1, k < i \/ (pc = "done" /\ ~intr)
             PROVE  \/ k \in warned
                    \/ /\ moved[k] # None
                       /\ moved[k] \in {At(LastArg), At(LastArg \o args[k])}
                    \/ Removed \cap (Dirs \cup {moved[k]}) # {}
  BY DEF MovedOrTold
<1>1. Len(args) \in Nat /\ k \in DOMAIN args /\ k < Len(args)
  BY ArgumentsAre DEF IInv
<1>2. k \in warned \/ k < i
  BY <1>1 DEF MovedInv, EndInv
<1>3. k < i => Arrived(k)
  BY DEF MovedInv
<1>4. At(Target(k)) = moved[k] => moved[k] \in {At(LastArg), At(LastArg \o args[k])}
  BY DEF Target
<1>5. None \notin Things
  BY MoveAssumption
<1> QED  BY <1>2, <1>3, <1>4, <1>5 DEF Arrived

LEMMA RenameMoved ==
    ASSUME Independent, IInv, MovedInv, Rename
    PROVE  MovedInv'
<1> DEFINE from == args[i]
           to   == Target(i)
<1>1. /\ pc = "rename" /\ i # Len(args) /\ i' = i + 1
      /\ UNCHANGED <<pc, intr, args, below, blind, meddled>>
      /\ warned \subseteq warned'
  BY DEF Rename, LoopEnds, AfterFailure, Warn
<1>2. /\ Len(args) \in Nat /\ i \in 1 .. Len(args) - 1 /\ args \in ArgLists
      /\ from \in Paths /\ to \in Paths /\ LastArg \in Paths
      /\ \A k \in 1 .. Len(args) : args[k] \in Paths /\ Target(k) \in Paths
  <2>1. /\ Len(args) \in Nat /\ i \in Nat \ {0} /\ i <= Len(args) /\ i # Len(args)
        /\ args \in ArgLists /\ \A k \in 1 .. Len(args) : args[k] \in Paths
        /\ Len(args) > 0 => LastArg \in Paths
    BY <1>1, ArgumentsAre DEF IInv, TypeOK
  <2>2. i \in 1 .. Len(args) - 1 /\ i \in 1 .. Len(args) /\ Len(args) > 0
    BY <2>1
  <2>3. \A k \in 1 .. Len(args) : Target(k) \in Paths
    BY <2>2, TargetIs DEF IInv
  <2> QED  BY <2>1, <2>2, <2>3
<1>3. /\ place \in Shares /\ Single(place) /\ Housed(place, meddled)
      /\ moved \in [DOMAIN args -> Things \cup {None}] /\ DOMAIN args = 1 .. Len(args)
  BY ArgumentsAre DEF IInv, TypeOK, Shares
<1>4. \/ /\ Renamed(from, to) /\ moved' = [moved EXCEPT ![i] = At(from)]
      \/ NotRenamed(to) /\ i \in warned' /\ moved' = moved
  BY DEF Rename, AfterFailure, Warn
\* whatever becomes of the request, what it changes
<1>5. PICK what \in Things \cup {None} :
         /\ place' \in Shares /\ Single(place')
         /\ what # None => what = At(from) /\ what \notin Through(to)
         /\ \A t \in Things : \/ place'[t] = place[t]
                              \/ t = what /\ place[t] # None
                              \/ t = At(to) /\ t \in Files /\ place'[t] = None
  <2>1. CASE Renamed(from, to)
    <3>1. /\ place' \in Shares /\ Single(place') /\ At(from) \in Things
          /\ place[At(from)] # None
          /\ \A t \in Things \ {At(from)} :
                place'[t] = place[t] \/ (t = At(to) /\ t \in Files /\ place'[t] = None)
      BY <1>2, <1>3, <2>1, RenamedIs
    <3>2. At(from) \notin Through(to)
      BY <2>1 DEF Renamed
    <3> QED  BY <3>1, <3>2
  <2>2. CASE NotRenamed(to) /\ place' = place
    BY <1>3, <2>2
  <2>3. CASE At(to) \in Files /\ place' = Replaced(At(to))
    <3>1. /\ place' \in Shares /\ Single(place')
          /\ \A t \in Things :
                place'[t] = place[t] \/ (t = At(to) /\ t \in Files /\ place'[t] = None)
      BY <1>2, <1>3, <2>3, ReplacedIs
    <3> QED  BY <3>1
  <2> QED  BY <1>4, <2>1, <2>2, <2>3 DEF NotRenamed
<1>6. FreshInv'
  BY <1>1, <1>5 DEF FreshInv, MovedInv
<1>7. EndInv'
  BY <1>1 DEF EndInv
<1>8. ASSUME NEW k \in 1 .. Len(args) - 1 PROVE At(Target(k))' = Named(place', Target(k))
  <2>1. Target(k)' = Target(k)
    BY <1>1 DEF Target, LastArg
  <2> QED  BY <2>1 DEF At, Named
<1>9. Removed' = Removed
  BY <1>1 DEF Removed
<1>10. ASSUME NEW k \in 1 .. Len(args) - 1, k = i PROVE Arrived(k)'
  <2>1. CASE i \in warned'
    BY <1>10, <2>1, Zenon DEF Arrived
  <2>2. CASE Renamed(from, to) /\ moved' = [moved EXCEPT ![i] = At(from)]
    <3>1. moved'[k] = At(from) /\ At(from) \in Things
      BY <1>2, <1>3, <1>10, <2>2, RenamedIs
    <3>2. Named(place', to) = At(from)
      BY <1>2, <1>3, <2>2, RenamedTo
    <3>3. At(Target(k))' = moved'[k]
      BY <1>8, <1>10, <3>1, <3>2
    <3> QED  BY <3>1, <3>3, Zenon DEF Arrived
  <2> QED  BY <1>4, <2>1, <2>2
<1>11. ASSUME NEW k \in 1 .. Len(args) - 1, k < i PROVE Arrived(k)'
  <2>0. k \in DOMAIN args /\ k # i
    BY <1>2, <1>3, <1>11
  <2>1. moved'[k] = moved[k]
    BY <1>3, <1>4, <2>0
  <2>2. CASE k \in warned \/ Removed \cap Dirs # {} \/ (moved[k] \in Things /\ moved[k] \in Removed)
    <3>1. k \in warned => k \in warned'
      BY <1>1
    <3> QED  BY <1>9, <2>1, <2>2, <3>1, Zenon DEF Arrived
  <2>3. CASE moved[k] \in Things /\ At(Target(k)) = moved[k]
    <3>1. /\ below /\ k \in 1 .. Len(args) /\ args[k] \in Paths
          /\ args[k] # from /\ ~IsStrictPrefix(LastArg, from)
      <4>1. Len(args) # 2 /\ k \in 1 .. Len(args) /\ i \in 1 .. Len(args) - 1
        BY <1>2, <1>11
      <4>2. below
        BY <1>1, <4>1 DEF IInv, LoopInv
      <4>3. args[k] # args[i] /\ ~IsStrictPrefix(args[Len(args)], args[i])
        BY <1>2, <1>11, <4>1 DEF Independent
      <4> QED  BY <1>2, <4>1, <4>2, <4>3 DEF LastArg
    <3>2. Target(k) = LastArg \o args[k] /\ to = LastArg \o from
      BY <3>1 DEF Target
    <3> DEFINE p == LastArg \o args[k]
    <3>3. p \in Paths /\ p \in Seq(Names) /\ Len(p) \in Nat \ {0} /\ Named(place, p) = moved[k]
      <4>1. p \in Paths
        BY <1>2, <3>1, JoinedIs
      <4>2. Named(place, p) = At(p)
        BY <4>1, AtIs
      <4> QED  BY <2>3, <3>2, <4>1, <4>2 DEF Paths
    <3>4. At(to) # Named(place, p)
      <4>1. At(to) = Named(place, LastArg \o from)
        BY <1>2, <3>2, AtIs
      <4> QED  BY <1>2, <1>3, <2>3, <3>1, <3>3, <4>1, OneTarget
    <3>5. ASSUME NEW m \in 1 .. Len(p) PROVE Walk(place, p)[m] # what
      <4>1. CASE what = None
        <5>1. Len(p) \in 1 .. Len(p) /\ Walk(place, p)[Len(p)] \in Things
          BY <2>3, <3>3 DEF Named
        <5>2. Walk(place, p)[m] \in Things
          BY <1>3, <3>3, <5>1, OnTheWay
        <5> QED  BY <4>1, <5>2, MoveAssumption
      <4>2. CASE what # None
        <5>1. what = Named(place, from) /\ what \in Things /\ what \notin Through(to)
          BY <1>2, <1>5, <4>2, AtIs
        <5>2. \A n \in 0 .. Len(LastArg \o from) - 1 :
                 Walk(place, LastArg \o from)[n] # Named(place, from)
          BY <3>2, <5>1 DEF Through
        <5> QED  BY <1>2, <1>3, <3>1, <5>1, <5>2, NotOnTheWay
      <4> QED  BY <4>1, <4>2
    <3>6. ASSUME NEW m \in 1 .. Len(p)
          PROVE  \/ place'[Walk(place, p)[m]] = place[Walk(place, p)[m]]
                 \/ m < Len(p) /\ Walk(place, p)[m] \notin Dirs
      <4> DEFINE t == Walk(place, p)[m]
      <4>1. Len(p) \in 1 .. Len(p) /\ Walk(place, p)[Len(p)] \in Things
        BY <2>3, <3>3 DEF Named
      <4>2. t \in Things
        BY <1>3, <3>3, <4>1, OnTheWay
      <4>3. t # what /\ (m = Len(p) => t # At(to))
        BY <3>4, <3>5 DEF Named
      <4>4. m = Len(p) \/ m < Len(p)
        BY <3>3
      <4> HIDE DEF t, to, p
      <4>5. \/ place'[t] = place[t]
            \/ t = At(to) /\ t \in Files
        BY <1>5, <4>2, <4>3
      <4>6. t \in Files => t \notin Dirs
        BY MoveAssumption
      <4>7. place'[t] = place[t] \/ (m < Len(p) /\ t \notin Dirs)
        BY <4>3, <4>4, <4>5, <4>6
      <4> QED  BY <4>7 DEF t
    <3>8. Named(place', p) = Named(place, p)
      <4>2. /\ place \in Shares /\ place' \in Shares /\ Single(place') /\ p \in Paths
            /\ Named(place, p) \in Things
        BY <1>3, <1>5, <2>3, <3>3
      <4> HIDE DEF p, to
      <4> QED  BY <3>6, <4>2, Undisturbed
    <3>7. At(Target(k))' = moved'[k]
      BY <1>8, <2>1, <3>2, <3>3, <3>8
    <3> QED  BY <2>1, <2>3, <3>7, Zenon DEF Arrived
  <2>4. Arrived(k)
    BY <1>11 DEF MovedInv
  <2>5. \/ k \in warned \/ Removed \cap Dirs # {} \/ (moved[k] \in Things /\ moved[k] \in Removed)
        \/ moved[k] \in Things /\ At(Target(k)) = moved[k]
    BY <2>4 DEF Arrived
  <2> QED  BY <2>2, <2>3, <2>5
<1>12. ASSUME NEW k \in 1 .. Len(args) - 1, k < i' PROVE Arrived(k)'
  <2>1. k < i \/ k = i
    BY <1>1, <1>2, <1>12
  <2> QED  BY <1>10, <1>11, <2>1
<1>13. Len(args') = Len(args)
  BY <1>1
<1> QED  BY <1>6, <1>7, <1>12, <1>13 DEF MovedInv

LEMMA OthersMoved ==
    ASSUME IInv, MovedInv, OtherClient
    PROVE  MovedInv'
<1>1. PICK t \in Things :
         /\ \/ place[t] # None /\ place' = [place EXCEPT ![t] = None]
            \/ /\ place[t] = None
               /\ \E p \in ToSet(args) :
                     place' = [place EXCEPT ![t] = <<At(Front(p)), Last(p)>>]
         /\ t \notin meddled /\ meddled' = meddled \cup {t}
  BY DEF OtherClient
<1>2. place \in Shares /\ place' \in Shares /\ Single(place')
  BY OtherClientIs DEF IInv, TypeOK, Shares
<1>3. /\ \A u \in Things \ {t} : place'[u] = place[u]
      /\ place[t] # None => place'[t] = None
  BY <1>1, <1>2 DEF Shares
<1>4. UNCHANGED <<pc, intr, args, i, below, warned, moved>>
  BY DEF OtherClient, command, history
<1>5. FreshInv'
  BY <1>1, <1>3 DEF FreshInv, MovedInv
<1>6. EndInv'
  BY <1>4 DEF EndInv, MovedInv
<1>7. Removed \subseteq Removed' /\ (place[t] # None => t \in Removed')
  BY <1>1 DEF Removed, FreshInv, MovedInv
<1>8. ASSUME NEW k \in 1 .. Len(args) - 1, k < i PROVE Arrived(k)'
  <2>1. CASE k \in warned \/ Removed \cap Dirs # {} \/ (moved[k] \in Things /\ moved[k] \in Removed)
    BY <1>4, <1>7, <2>1 DEF Arrived
  <2>2. CASE moved[k] \in Things /\ At(Target(k)) = moved[k]
    <3> DEFINE p == Target(k)
    <3>1. /\ p \in Paths /\ p \in Seq(Names) /\ Len(p) \in Nat \ {0}
          /\ Named(place, p) = moved[k]
      <4>1. Len(args) \in Nat /\ k \in 1 .. Len(args) /\ Len(args) > 0
        BY <1>8, ArgumentsAre DEF IInv
      <4>2. p \in Paths
        BY <4>1, TargetIs DEF IInv
      <4> QED  BY <2>2, <4>2, AtIs DEF Paths
    <3>2. At(Target(k))' = Named(place', p)
      <4>1. Target(k)' = Target(k)
        BY <1>4 DEF Target, LastArg
      <4> QED  BY <4>1 DEF At, Named
    <3> HIDE DEF p
    <3>3. \A m \in 1 .. Len(p) :
             /\ Walk(place, p)[m] \in Things
             /\ m < Len(p) => Walk(place, p)[m] \in Dirs
      <4>1. Len(p) \in 1 .. Len(p) /\ Walk(place, p)[Len(p)] \in Things
        BY <2>2, <3>1 DEF Named
      <4> QED  BY <1>2, <3>1, <4>1, OnTheWay
    <3>4. CASE t \in Dirs /\ place[t] # None
      BY <1>7, <3>4 DEF Arrived
    <3>5. CASE t = moved[k] /\ place[t] # None
      BY <1>4, <1>7, <2>2, <3>5 DEF Arrived
    <3>6. ASSUME \A m \in 1 .. Len(p) :
                    Walk(place, p)[m] # t \/ (m < Len(p) /\ t \notin Dirs)
          PROVE  Arrived(k)'
      <4>1. \A m \in 1 .. Len(p) :
               \/ place'[Walk(place, p)[m]] = place[Walk(place, p)[m]]
               \/ m < Len(p) /\ Walk(place, p)[m] \notin Dirs
        BY <1>3, <3>3, <3>6
      <4>2. Named(place', p) = Named(place, p)
        BY <1>2, <2>2, <3>1, <4>1, Undisturbed
      <4>3. At(Target(k))' = moved[k] /\ moved' = moved
        BY <1>4, <3>1, <3>2, <4>2
      <4> QED  BY <2>2, <4>3, Zenon DEF Arrived
    <3>7. CASE t \notin Dirs /\ t # moved[k]
      <4>1. \A m \in 1 .. Len(p) : m < Len(p) \/ Walk(place, p)[m] = moved[k]
        <5>1. \A m \in 1 .. Len(p) : m < Len(p) \/ m = Len(p)
          BY <3>1
        <5> QED  BY <3>1, <5>1 DEF Named
      <4> QED  BY <3>6, <3>7, <4>1
    <3>8. CASE place[t] = None
      <4>1. ASSUME NEW m \in 1 .. Len(p) PROVE Walk(place, p)[m] # t
        <5> DEFINE c == Walk(place, p)[m - 1]
                   u == Walk(place, p)[m]
        <5>1. u \in Things
          BY <3>3
        <5>2. place[u] = <<c, p[m]>> /\ c \in Dirs \cup {Root}
          BY <1>2, <3>1, <5>1, Behind
        <5>3. p[m] \in Names
          BY <3>1
        <5> HIDE DEF c, u
        <5>4. <<c, p[m]>> # None
          BY <5>2, <5>3, MoveAssumption DEF Things
        <5>5. u # t
          BY <3>8, <5>2, <5>4
        <5> QED  BY <5>5 DEF u
      <4> QED  BY <3>6, <4>1
    <3> QED  BY <3>4, <3>5, <3>7, <3>8
  <2>3. Arrived(k)
    BY <1>8 DEF MovedInv
  <2>4. \/ k \in warned \/ Removed \cap Dirs # {} \/ (moved[k] \in Things /\ moved[k] \in Removed)
        \/ moved[k] \in Things /\ At(Target(k)) = moved[k]
    BY <2>3 DEF Arrived
  <2> QED  BY <2>1, <2>2, <2>4
<1>9. Len(args') = Len(args) /\ i' = i
  BY <1>4
<1> QED  BY <1>5, <1>6, <1>8, <1>9 DEF MovedInv

LEMMA InitMoved == Init => MovedInv
<1> SUFFICES ASSUME Init PROVE MovedInv
  OBVIOUS
<1>1. FreshInv /\ EndInv
  BY DEF Init, FreshInv, EndInv
<1>2. ASSUME NEW k \in 1 .. Len(args) - 1 PROVE ~(k < i)
  <2>1. k \in Int /\ 1 <= k /\ i = 1
    BY InitIInv, ArgumentsAre DEF IInv, Init
  <2> QED  BY <2>1
<1> QED  BY <1>1, <1>2 DEF MovedInv

LEMMA StepMoved ==
    ASSUME Independent
    PROVE  IInv /\ MovedInv /\ [Next]_vars => MovedInv'
<1> SUFFICES ASSUME IInv, MovedInv, [Next]_vars PROVE MovedInv'
  OBVIOUS
<1>1. CASE Rename
  BY <1>1, RenameMoved
<1>2. CASE OtherClient
  BY <1>2, OthersMoved
<1>3. CASE Count \/ StatLast \/ StatFirst \/ StatSecond
  <2>1. i = 1 /\ UNCHANGED <<intr, args, i, place, meddled>>
    BY <1>3 DEF Count, StatLast, StatFirst, StatSecond, IInv, LoopInv, command, history
  <2>2. pc' = "done" => warned' = DOMAIN args
    BY <1>3 DEF Count, StatLast, StatFirst, StatSecond, Refuse
  <2>3. FreshInv' /\ EndInv'
    BY <2>1, <2>2 DEF FreshInv, EndInv, MovedInv
  <2>4. Len(args') \in Nat /\ i' = 1
    BY <2>1, ArgumentsAre DEF IInv
  <2>5. ASSUME NEW k \in 1 .. Len(args') - 1 PROVE ~(k < i')
    BY <2>4
  <2> QED  BY <2>3, <2>5 DEF MovedInv
<1>4. CASE CommandEnds \/ Interrupt \/ UNCHANGED vars
  <2>1. UNCHANGED <<args, i, below, place, warned, moved, meddled>>
    BY <1>4 DEF CommandEnds, Interrupt, vars, command, history
  <2>2. \/ pc' = pc /\ intr' \in {intr, TRUE}
        \/ pc' = "done" /\ LoopEnds /\ intr' = intr
    BY <1>4 DEF CommandEnds, Interrupt, vars
  <2>3. EndInv'
    BY <2>1, <2>2 DEF EndInv, LoopEnds, MovedInv
  <2>4. FreshInv'
    BY <2>1 DEF FreshInv, MovedInv
  <2>5. ASSUME NEW k \in 1 .. Len(args) - 1, k < i PROVE Arrived(k)'
    <3>1. /\ Removed' = Removed /\ Target(k)' = Target(k)
          /\ place' = place /\ warned' = warned /\ moved' = moved
      BY <2>1 DEF Removed, Target, LastArg
    <3>2. At(Target(k))' = At(Target(k))
      BY <3>1 DEF At
    <3>3. Arrived(k)
      BY <2>5 DEF MovedInv
    <3> QED  BY <3>1, <3>2, <3>3, Zenon DEF Arrived
  <2>6. args' = args /\ i' = i
    BY <2>1
  <2> QED  BY <2>3, <2>4, <2>5, <2>6 DEF MovedInv
<1> QED  BY <1>1, <1>2, <1>3, <1>4 DEF Next

(***************************************************************************)
(* Everything is moved or warned of: every argument mv came to, and every  *)
(* one unless SIGINT ended the command, is warned of or, under its whole   *)
(* path, where it was to go, for every share, whatever fails and whatever  *)
(* others make and remove meanwhile (smbhlp.c:120-197).                    *)
(***************************************************************************)
THEOREM MovesOrTells ==
    ASSUME Independent
    PROVE  Spec => []MovedOrTold
<1>1. IInv /\ MovedInv => MovedOrTold
  BY MovedMeans
<1>2. IInv /\ MovedInv /\ [Next]_vars => MovedInv'
  BY StepMoved
<1> QED  BY InitIInv, Invariance, InitMoved, <1>1, <1>2, PTL DEF Spec
=============================================================================
