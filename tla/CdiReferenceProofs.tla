------------------------- MODULE CdiReferenceProofs -------------------------
(***************************************************************************)
(* Proofs that resolveInRoot and cdiMountTarget follow a path as the       *)
(* reference does, in every container root and for every path.             *)
(***************************************************************************)
EXTENDS CdiReference, CdiProofs, WellFoundedInduction

-----------------------------------------------------------------------------
(* The recursion of Walks *)

\* A walk to be made: where it starts and its path.
Journeys == Places \X Seq(Components)

\* The root of an image, as far as it matters.
LinksOK(links) ==
  /\ DOMAIN links \subseteq Seq(Names)
  /\ \A p \in DOMAIN links : links[p] \in Dests

\* The walks another one may rest on have fewer symlinks left, or a shorter path.
Before(v, w) ==
  \/ v[1].left < w[1].left
  \/ v[1].left = w[1].left /\ Len(v[2]) < Len(w[2])

\* Where a walk may end: it uses symlinks up.
Ends(w) == {p \in Places : p.left <= w[1].left}

\* Where a walk ends, given where the walks before it do.
Body(links, walk, w) ==
  IF w[2] = <<>> THEN w[1]
  ELSE Enter(links, walk, walk[<<w[1], Dir(w[2])>>], w[2][Len(w[2])])

\* The walks of a root are some function with the equation of their definition.
LEMMA WalkIsChosen ==
  ASSUME NEW links
  PROVE  Walks(links) = CHOOSE f : f = [w \in Journeys |-> Body(links, f, w)]
BY DEF Walks, Journeys, Body

\* A set of numbers has a least element.
LEMMA Least ==
  ASSUME NEW T, T \subseteq Nat, T # {} PROVE \E n \in T : \A m \in T : n <= m
<1> DEFINE R == {p \in Nat \X Nat : p[1] < p[2]}
<1>1. IsWellFoundedOn(R, Nat)
  BY NatLessThanWellFounded DEF OpToRel
<1>2. PICK n \in T : \A m \in T : ~(<<m, n>> \in R)
  BY <1>1, WFMin
<1>3. ASSUME NEW m \in T PROVE n <= m
  <2>1. n \in Nat /\ m \in Nat /\ ~(<<m, n>> \in R)
    BY <1>2, <1>3
  <2>2. QED
    BY <2>1
<1>4. QED
  BY <1>2, <1>3

\* The place reached over too many symlinks is the only one with none left to follow
\* below zero.
LEMMA PlaceLeft ==
  /\ TooMany \in Places /\ TooMany.left = -1
  /\ \A p \in Places : p.left \in Int /\ p.left + 1 \in Nat /\ (p.left = -1 => p = TooMany)
BY DEF Places, TooMany

\* The two parts of a walk to be made.
LEMMA JourneyParts ==
  ASSUME NEW w \in Journeys
  PROVE  /\ w[1] \in Places /\ w[2] \in Seq(Components) /\ Len(w[2]) \in Nat
         /\ w = <<w[1], w[2]>>
BY LenProperties DEF Journeys

\* A set of walks has one no other of them is before.
LEMMA First ==
  ASSUME NEW T, T \subseteq Journeys, T # {}
  PROVE  \E w \in T : \A v \in T : ~Before(v, w)
<1> DEFINE Lefts == {w[1].left + 1 : w \in T}
<1>1. Lefts \subseteq Nat /\ Lefts # {}
  BY JourneyParts, PlaceLeft
<1>2. PICK n \in Lefts : \A m \in Lefts : n <= m
  BY <1>1, Least
<1> DEFINE U == {w \in T : w[1].left + 1 = n}
           Lens == {Len(w[2]) : w \in U}
<1>3. Lens \subseteq Nat /\ Lens # {}
  BY <1>2, JourneyParts
<1>4. PICK l \in Lens : \A m \in Lens : l <= m
  BY <1>3, Least
<1>5. PICK w \in U : l = Len(w[2])
  BY <1>4
<1>6. ASSUME NEW v \in T, Before(v, w) PROVE FALSE
  <2>1. /\ v[1].left \in Int /\ w[1].left \in Int
        /\ Len(v[2]) \in Nat /\ Len(w[2]) \in Nat
    BY JourneyParts, PlaceLeft
  <2>2. n <= v[1].left + 1 /\ w[1].left + 1 = n
    BY <1>2
  <2>3. v[1].left = w[1].left /\ Len(v[2]) < Len(w[2])
    BY <1>1, <1>2, <1>6, <2>1, <2>2 DEF Before
  <2>4. v \in U
    BY <2>2, <2>3
  <2>5. Len(w[2]) <= Len(v[2])
    BY <1>4, <1>5, <2>4
  <2>6. QED
    BY <2>1, <2>3, <2>5
<1>7. QED
  BY <1>6

\* The order of the walks is transitive.
LEMMA BeforeTransitive ==
  ASSUME NEW u \in Journeys, NEW v \in Journeys, NEW w \in Journeys, Before(u, v), Before(v, w)
  PROVE  Before(u, w)
<1>1. /\ u[1].left \in Int /\ v[1].left \in Int /\ w[1].left \in Int
      /\ Len(u[2]) \in Nat /\ Len(v[2]) \in Nat /\ Len(w[2]) \in Nat
  BY JourneyParts, PlaceLeft
<1>2. QED
  BY <1>1 DEF Before

\* No walk is before itself.
LEMMA BeforeIrreflexive == ASSUME NEW w \in Journeys PROVE ~Before(w, w)
<1>1. w[1].left \in Int /\ Len(w[2]) \in Nat
  BY JourneyParts, PlaceLeft
<1>2. QED
  BY <1>1 DEF Before

\* The symlink at a place, and the walk it leads to.
Followed(links, dir, last) ==
  LET dest == links[Append(dir.path, last)]
  IN  <<Place(IF dest.abs THEN <<>> ELSE dir.path, dir.left - 1), dest.parts>>

\* The cases of Enter.
LEMMA EnterCases ==
  ASSUME NEW links, NEW walk, NEW dir, NEW last \in Components
  PROVE  /\ dir = TooMany => Enter(links, walk, dir, last) = TooMany
         /\ dir # TooMany =>
              /\ last = "." => Enter(links, walk, dir, last) = dir
              /\ last = ".." => Enter(links, walk, dir, last) = Place(Dir(dir.path), dir.left)
              /\ last \in Names /\ Append(dir.path, last) \notin DOMAIN links =>
                   Enter(links, walk, dir, last) = Place(Append(dir.path, last), dir.left)
              /\ last \in Names /\ Append(dir.path, last) \in DOMAIN links =>
                   Enter(links, walk, dir, last)
                     = IF dir.left = 0 THEN TooMany ELSE walk[Followed(links, dir, last)]
<1>1. "." \notin Names /\ ".." \notin Names /\ "." # ".."
  BY NameAssumption
<1>2. QED
  BY <1>1 DEF Enter, Followed

\* Following a symlink of a root is a walk with one symlink less left.
LEMMA FollowedIsBefore ==
  ASSUME NEW links, LinksOK(links), NEW dir \in Places, NEW last \in Components,
         dir # TooMany, dir.left # 0, Append(dir.path, last) \in DOMAIN links
  PROVE  /\ Followed(links, dir, last) \in Journeys
         /\ Followed(links, dir, last)[1].left = dir.left - 1
<1>1. links[Append(dir.path, last)] \in Dests
  BY DEF LinksOK
<1>2. dir.path \in Seq(Names) /\ dir.left \in Nat /\ dir.left - 1 \in Nat
  BY DEF Places
<1>3. <<>> \in Seq(Names)
  BY EmptySeq
<1>4. QED
  BY <1>1, <1>2, <1>3 DEF Followed, Place, Places, Journeys, Dests

\* A component leads to a place, with no more symlinks left, if the walks behind
\* symlinks do.
LEMMA EnterEnds ==
  ASSUME NEW links, LinksOK(links), NEW walk, NEW dir \in Places, NEW last \in Components,
         \A v \in Journeys : v[1].left < dir.left => walk[v] \in Ends(v)
  PROVE  /\ Enter(links, walk, dir, last) \in Places
         /\ Enter(links, walk, dir, last).left <= dir.left
<1> DEFINE end == Enter(links, walk, dir, last)
<1>1. CASE dir = TooMany
  BY <1>1, EnterCases, PlaceLeft
<1>2. CASE dir # TooMany
  <2>1. dir.path \in Seq(Names) /\ dir.left \in Nat
    BY <1>2 DEF Places
  <2>2. CASE last = "."
    BY <1>2, <2>1, <2>2, EnterCases
  <2>3. CASE last = ".."
    <3>1. end = Place(Dir(dir.path), dir.left)
      BY <1>2, <2>3, EnterCases
    <3>2. QED
      BY <2>1, <3>1, DirType DEF Place, Places
  <2>4. CASE last \in Names /\ Append(dir.path, last) \notin DOMAIN links
    <3>1. end = Place(Append(dir.path, last), dir.left)
      BY <1>2, <2>4, EnterCases
    <3>2. Append(dir.path, last) \in Seq(Names)
      BY <2>1, <2>4, AppendProperties
    <3>3. QED
      BY <2>1, <3>1, <3>2 DEF Place, Places
  <2>5. CASE last \in Names /\ Append(dir.path, last) \in DOMAIN links
    <3>1. CASE dir.left = 0
      <4>1. end = TooMany
        BY <1>2, <2>5, <3>1, EnterCases
      <4>2. QED
        BY <3>1, <4>1, PlaceLeft
    <3>2. CASE dir.left # 0
      <4>1. end = walk[Followed(links, dir, last)]
        BY <1>2, <2>5, <3>2, EnterCases
      <4>2. /\ Followed(links, dir, last) \in Journeys
            /\ Followed(links, dir, last)[1].left = dir.left - 1
        BY <1>2, <2>5, <3>2, FollowedIsBefore
      <4>3. end \in Ends(Followed(links, dir, last))
        BY <2>1, <4>1, <4>2
      <4>4. end \in Places /\ end.left <= dir.left - 1
        BY <4>2, <4>3 DEF Ends
      <4>5. end.left \in Int
        BY <4>4, PlaceLeft
      <4>6. QED
        BY <2>1, <4>4, <4>5
    <3>3. QED
      BY <3>1, <3>2
  <2>6. QED
    BY <2>2, <2>3, <2>4, <2>5 DEF Components
<1>3. QED
  BY <1>1, <1>2

\* Where a component leads depends only on walks with fewer symlinks left.
LEMMA EnterAgrees ==
  ASSUME NEW links, LinksOK(links), NEW f, NEW g, NEW dir \in Places, NEW last \in Components,
         \A v \in Journeys : v[1].left < dir.left => f[v] = g[v]
  PROVE  Enter(links, f, dir, last) = Enter(links, g, dir, last)
<1>1. CASE dir = TooMany
  BY <1>1, EnterCases
<1>2. CASE dir # TooMany
  <2>1. dir.left \in Nat
    BY <1>2 DEF Places
  <2>2. CASE last \in Names /\ Append(dir.path, last) \in DOMAIN links /\ dir.left # 0
    <3>1. /\ Followed(links, dir, last) \in Journeys
          /\ Followed(links, dir, last)[1].left = dir.left - 1
      BY <1>2, <2>2, FollowedIsBefore
    <3>2. f[Followed(links, dir, last)] = g[Followed(links, dir, last)]
      BY <2>1, <3>1
    <3>3. /\ Enter(links, f, dir, last) = f[Followed(links, dir, last)]
          /\ Enter(links, g, dir, last) = g[Followed(links, dir, last)]
      BY <1>2, <2>2, EnterCases
    <3>4. QED
      BY <3>2, <3>3
  <2>3. CASE ~(last \in Names /\ Append(dir.path, last) \in DOMAIN links /\ dir.left # 0)
    BY <1>2, <2>3, EnterCases DEF Components
  <2>4. QED
    BY <2>2, <2>3
<1>3. QED
  BY <1>1, <1>2

\* The directory of a path, which is walked first, and its last component.
LEMMA FirstPart ==
  ASSUME NEW w \in Journeys, w[2] # <<>>
  PROVE  /\ <<w[1], Dir(w[2])>> \in Journeys
         /\ Before(<<w[1], Dir(w[2])>>, w)
         /\ w[2][Len(w[2])] \in Components
<1>1. w[1] \in Places /\ w[2] \in Seq(Components) /\ Len(w[2]) \in Nat \ {0}
  BY JourneyParts, EmptySeq
<1>2. Dir(w[2]) \in Seq(Components)
  BY <1>1, DirType
<1>3. \A i \in 1 .. Len(w[2]) : w[2][i] \in Components
  BY <1>1, ElementOfSeq
<1>4. Len(Dir(w[2])) = Len(w[2]) - 1
  BY <1>1, <1>3, SubSeqProperties DEF Dir
<1>5. w[2][Len(w[2])] \in Components
  BY <1>1, <1>3
<1>6. QED
  BY <1>1, <1>2, <1>4, <1>5 DEF Journeys, Before

\* The same of a whole walk.
LEMMA BodyEnds ==
  ASSUME NEW links, LinksOK(links), NEW walk, NEW w \in Journeys,
         \A v \in Journeys : Before(v, w) => walk[v] \in Ends(v)
  PROVE  Body(links, walk, w) \in Ends(w)
<1>1. w[1] \in Places /\ w[1].left \in Int
  BY JourneyParts, PlaceLeft
<1>2. CASE w[2] = <<>>
  BY <1>1, <1>2 DEF Body, Ends
<1>3. CASE w[2] # <<>>
  <2> DEFINE dir == walk[<<w[1], Dir(w[2])>>]
             last == w[2][Len(w[2])]
  <2>1. /\ <<w[1], Dir(w[2])>> \in Journeys
        /\ Before(<<w[1], Dir(w[2])>>, w)
        /\ last \in Components
    BY <1>3, FirstPart
  <2>2. dir \in Ends(<<w[1], Dir(w[2])>>)
    BY <2>1
  <2>3. dir \in Places /\ dir.left <= w[1].left
    BY <2>2 DEF Ends
  <2>4. dir.left \in Int
    BY <2>3, PlaceLeft
  <2>5. Body(links, walk, w) = Enter(links, walk, dir, last)
    BY <1>3 DEF Body
  <2> HIDE DEF dir, last
  <2>6. ASSUME NEW v \in Journeys, v[1].left < dir.left PROVE walk[v] \in Ends(v)
    <3>1. v[1].left \in Int
      BY JourneyParts, PlaceLeft
    <3>2. Before(v, w)
      BY <1>1, <2>3, <2>4, <2>6, <3>1 DEF Before
    <3>3. QED
      BY <3>2
  <2>7. /\ Enter(links, walk, dir, last) \in Places
        /\ Enter(links, walk, dir, last).left <= dir.left
    BY <2>1, <2>3, <2>6, EnterEnds
  <2>8. Enter(links, walk, dir, last).left \in Int
    BY <2>7, PlaceLeft
  <2>9. QED
    BY <1>1, <2>3, <2>4, <2>5, <2>7, <2>8 DEF Ends
<1>4. QED
  BY <1>2, <1>3

\* What a walk rests on are the walks before it alone.
LEMMA BodyAgrees ==
  ASSUME NEW links, LinksOK(links), NEW f, NEW g, NEW w \in Journeys,
         \A v \in Journeys : Before(v, w) => f[v] = g[v] /\ f[v] \in Ends(v)
  PROVE  Body(links, f, w) = Body(links, g, w)
<1>1. w[1] \in Places /\ w[1].left \in Int
  BY JourneyParts, PlaceLeft
<1>2. CASE w[2] = <<>>
  BY <1>2 DEF Body
<1>3. CASE w[2] # <<>>
  <2> DEFINE dir == f[<<w[1], Dir(w[2])>>]
             last == w[2][Len(w[2])]
  <2>1. /\ <<w[1], Dir(w[2])>> \in Journeys
        /\ Before(<<w[1], Dir(w[2])>>, w)
        /\ last \in Components
    BY <1>3, FirstPart
  <2>2. dir \in Ends(<<w[1], Dir(w[2])>>) /\ g[<<w[1], Dir(w[2])>>] = dir
    BY <2>1
  <2>3. dir \in Places /\ dir.left <= w[1].left
    BY <2>2 DEF Ends
  <2>4. dir.left \in Int
    BY <2>3, PlaceLeft
  <2>5. /\ Body(links, f, w) = Enter(links, f, dir, last)
        /\ Body(links, g, w) = Enter(links, g, dir, last)
    BY <1>3, <2>2 DEF Body
  <2> HIDE DEF dir, last
  <2>6. ASSUME NEW v \in Journeys, v[1].left < dir.left PROVE f[v] = g[v]
    <3>1. v[1].left \in Int
      BY JourneyParts, PlaceLeft
    <3>2. Before(v, w)
      BY <1>1, <2>3, <2>4, <2>6, <3>1 DEF Before
    <3>3. QED
      BY <3>2
  <2>7. Enter(links, f, dir, last) = Enter(links, g, dir, last)
    BY <2>1, <2>3, <2>6, EnterAgrees
  <2>8. QED
    BY <2>5, <2>7
<1>4. QED
  BY <1>2, <1>3

-----------------------------------------------------------------------------
(* Walks satisfies its own equation *)

Solves(links, f, w) == f[w] \in Ends(w) /\ f[w] = Body(links, f, w)

\* The functions that solve the equation for a walk and all before it.
SolvedUpTo(links, w) ==
  {f \in [Journeys -> Places] :
     \A v \in Journeys : v = w \/ Before(v, w) => Solves(links, f, v)}

\* What solves the walks up to one solves those up to an earlier one.
LEMMA SolvedBefore ==
  ASSUME NEW links, NEW v \in Journeys, NEW w \in Journeys, Before(v, w),
         NEW f \in SolvedUpTo(links, w)
  PROVE  f \in SolvedUpTo(links, v)
BY BeforeTransitive DEF SolvedUpTo

\* All of them agree.
LEMMA SolvedAlike ==
  ASSUME NEW links, LinksOK(links)
  PROVE  \A w \in Journeys : \A f, g \in SolvedUpTo(links, w) : f[w] = g[w]
<1> DEFINE Differ == {w \in Journeys : \E f, g \in SolvedUpTo(links, w) : f[w] # g[w]}
<1>1. SUFFICES ASSUME Differ # {} PROVE FALSE
  OBVIOUS
<1>2. PICK w \in Differ : \A v \in Differ : ~Before(v, w)
  BY <1>1, First
<1>3. w \in Journeys
  OBVIOUS
<1>4. PICK f \in SolvedUpTo(links, w), g \in SolvedUpTo(links, w) : f[w] # g[w]
  BY <1>2
<1>5. ASSUME NEW v \in Journeys, Before(v, w) PROVE f[v] = g[v] /\ f[v] \in Ends(v)
  <2>1. f \in SolvedUpTo(links, v) /\ g \in SolvedUpTo(links, v)
    BY <1>3, <1>5, SolvedBefore
  <2>2. v \notin Differ
    BY <1>2, <1>5
  <2>3. f[v] = g[v]
    BY <2>1, <2>2
  <2>4. QED
    BY <2>1, <2>3 DEF SolvedUpTo, Solves
<1>6. Body(links, f, w) = Body(links, g, w)
  BY <1>3, <1>5, BodyAgrees
<1>7. f[w] = Body(links, f, w) /\ g[w] = Body(links, g, w)
  BY <1>3 DEF SolvedUpTo, Solves
<1>8. QED
  BY <1>4, <1>6, <1>7

\* Solutions for the walks of a set can be put together.
LEMMA SolvedTogether ==
  ASSUME NEW links, LinksOK(links), NEW D, D \subseteq Journeys,
         \A v \in D : \A u \in Journeys : Before(u, v) => u \in D,
         \A v \in D : SolvedUpTo(links, v) # {}
  PROVE  \E h \in [Journeys -> Places] : \A v \in D : Solves(links, h, v)
<1> DEFINE sol(v) == CHOOSE f \in SolvedUpTo(links, v) : TRUE
           h == [v \in Journeys |-> IF v \in D THEN sol(v)[v] ELSE TooMany]
<1>1. \A v \in D : sol(v) \in SolvedUpTo(links, v)
  OBVIOUS
<1> HIDE DEF sol
<1>2. ASSUME NEW v \in D PROVE h[v] = sol(v)[v] /\ h[v] \in Ends(v)
  BY <1>1, <1>2 DEF SolvedUpTo, Solves
<1>3. h \in [Journeys -> Places]
  <2>1. \A v \in Journeys : h[v] \in Places
    BY <1>2, PlaceLeft DEF Ends
  <2>2. QED
    BY <2>1
<1>4. \A v \in D : h[v] = sol(v)[v] /\ h[v] \in Ends(v)
  BY <1>2
<1> HIDE DEF h
<1>5. ASSUME NEW v \in D PROVE Solves(links, h, v)
  <2>1. v \in Journeys
    OBVIOUS
  <2>2. ASSUME NEW u \in Journeys, Before(u, v) PROVE h[u] = sol(v)[u] /\ h[u] \in Ends(u)
    <3>1. u \in D
      BY <1>5, <2>2
    <3>2. sol(v) \in SolvedUpTo(links, u) /\ sol(u) \in SolvedUpTo(links, u)
      BY <1>1, <2>1, <2>2, <3>1, SolvedBefore
    <3>3. sol(v)[u] = sol(u)[u]
      BY <2>2, <3>2, SolvedAlike
    <3>4. QED
      BY <1>4, <3>1, <3>3
  <2>3. Body(links, h, v) = Body(links, sol(v), v)
    BY <2>1, <2>2, BodyAgrees
  <2>4. sol(v)[v] = Body(links, sol(v), v)
    BY <1>1, <2>1 DEF SolvedUpTo, Solves
  <2>5. QED
    BY <1>4, <2>3, <2>4 DEF Solves
<1>6. QED
  BY <1>3, <1>5

\* There is one for every walk.
LEMMA SolvedEverywhere ==
  ASSUME NEW links, LinksOK(links)
  PROVE  \A w \in Journeys : SolvedUpTo(links, w) # {}
<1> DEFINE Unsolved == {w \in Journeys : SolvedUpTo(links, w) = {}}
<1>1. SUFFICES ASSUME Unsolved # {} PROVE FALSE
  OBVIOUS
<1>2. PICK w \in Unsolved : \A v \in Unsolved : ~Before(v, w)
  BY <1>1, First
<1> DEFINE D == {v \in Journeys : Before(v, w)}
<1>3. w \in Journeys
  OBVIOUS
<1>4. \A v \in D : SolvedUpTo(links, v) # {}
  BY <1>2
<1>5. \A v \in D : \A u \in Journeys : Before(u, v) => u \in D
  BY <1>3, BeforeTransitive
<1>6. PICK h \in [Journeys -> Places] : \A v \in D : Solves(links, h, v)
  BY <1>4, <1>5, SolvedTogether
<1>7. \A v \in Journeys : Before(v, w) => Solves(links, h, v)
  BY <1>6
<1> DEFINE g == [h EXCEPT ![w] = Body(links, h, w)]
<1>8. Body(links, h, w) \in Ends(w)
  BY <1>3, <1>7, BodyEnds DEF Solves
<1>9. /\ g \in [Journeys -> Places]
      /\ g[w] = Body(links, h, w)
      /\ \A v \in Journeys : v # w => g[v] = h[v]
  BY <1>3, <1>8 DEF Ends
<1> HIDE DEF g
<1>10. \A v \in Journeys : Before(v, w) => g[v] = h[v] /\ h[v] \in Ends(v)
  BY <1>7, <1>9, BeforeIrreflexive DEF Solves
<1>11. ASSUME NEW v \in Journeys, v = w \/ Before(v, w) PROVE Solves(links, g, v)
  <2>1. \A u \in Journeys : Before(u, v) => h[u] = g[u] /\ h[u] \in Ends(u)
    BY <1>3, <1>10, <1>11, BeforeTransitive
  <2>2. Body(links, h, v) = Body(links, g, v)
    BY <2>1, BodyAgrees
  <2>3. CASE v = w
    BY <1>8, <1>9, <2>2, <2>3 DEF Solves
  <2>4. CASE Before(v, w)
    BY <1>7, <1>10, <2>2, <2>4 DEF Solves
  <2>5. QED
    BY <1>11, <2>3, <2>4
<1>12. g \in SolvedUpTo(links, w)
  BY <1>9, <1>11 DEF SolvedUpTo
<1>13. QED
  BY <1>12

\* The walks in a root are given by the equation they are defined with, and end at places.
THEOREM WalkEquation ==
  ASSUME NEW links, LinksOK(links)
  PROVE  \A w \in Journeys : /\ Walks(links)[w] = Body(links, Walks(links), w)
                             /\ Walks(links)[w] \in Ends(w)
<1>1. PICK h \in [Journeys -> Places] : \A v \in Journeys : Solves(links, h, v)
  BY SolvedEverywhere, SolvedTogether
<1>2. h = [w \in Journeys |-> Body(links, h, w)]
  BY <1>1 DEF Solves
<1> DEFINE walk == Walks(links)
<1>3. walk = [w \in Journeys |-> Body(links, walk, w)]
  BY <1>2, WalkIsChosen
<1> HIDE DEF walk
<1>4. \A w \in Journeys : walk[w] = Body(links, walk, w)
  BY <1>3
<1> DEFINE Astray == {w \in Journeys : walk[w] \notin Ends(w)}
<1>5. Astray = {}
  <2>1. SUFFICES ASSUME Astray # {} PROVE FALSE
    OBVIOUS
  <2>2. PICK w \in Astray : \A v \in Astray : ~Before(v, w)
    BY <2>1, First
  <2>3. \A v \in Journeys : Before(v, w) => walk[v] \in Ends(v)
    BY <2>2
  <2>4. Body(links, walk, w) \in Ends(w)
    BY <2>3, BodyEnds
  <2>5. QED
    BY <1>4, <2>4
<1>6. QED
  BY <1>4, <1>5 DEF walk

-----------------------------------------------------------------------------
(* Walking piece by piece *)

\* Along no path a walk stays where it is.
LEMMA WalkNowhere ==
  ASSUME NEW links, LinksOK(links), NEW p \in Places
  PROVE  Walk(links, p, <<>>) = p
<1>1. <<p, <<>>>> \in Journeys
  BY EmptySeq DEF Journeys
<1>2. QED
  BY <1>1, WalkEquation DEF Body, Walk

\* A walk ends at a place.
LEMMA WalkPlace ==
  ASSUME NEW links, LinksOK(links), NEW p \in Places, NEW path \in Seq(Components)
  PROVE  Walk(links, p, path) \in Places
<1>1. <<p, path>> \in Journeys
  BY DEF Journeys
<1>2. QED
  BY <1>1, WalkEquation DEF Walk, Ends

\* The last component of a path is entered from where the others lead.
LEMMA WalkAppend ==
  ASSUME NEW links, LinksOK(links), NEW p \in Places,
         NEW path \in Seq(Components), NEW last \in Components
  PROVE  Walk(links, p, Append(path, last))
           = Enter(links, Walks(links), Walk(links, p, path), last)
<1> DEFINE w == <<p, Append(path, last)>>
<1>1. /\ Append(path, last) \in Seq(Components)
      /\ Append(path, last) # <<>>
      /\ Append(path, last)[Len(Append(path, last))] = last
  BY AppendProperties
<1>2. w \in Journeys /\ w[1] = p /\ w[2] = Append(path, last)
  BY <1>1 DEF Journeys
<1>3. Dir(Append(path, last)) = path
  BY DirOfAppend
<1> HIDE DEF w
<1>4. Walks(links)[w] = Body(links, Walks(links), w)
  BY <1>2, WalkEquation
<1>5. QED
  BY <1>1, <1>2, <1>3, <1>4 DEF Body, Walk, w

\* The first entries of a sequence of which no more is known.
LEMMA PrefixProperties ==
  ASSUME NEW S, NEW s, NEW n \in Nat, \A i \in 1 .. n : s[i] \in S
  PROVE  /\ SubSeq(s, 1, n) \in Seq(S) /\ Len(SubSeq(s, 1, n)) = n
         /\ \A i \in 1 .. n : SubSeq(s, 1, n)[i] = s[i]
BY SubSeqProperties

\* A path that is not the root is its directory and its last component.
LEMMA LastPart ==
  ASSUME NEW S, NEW path \in Seq(S), path # <<>>
  PROVE  /\ Dir(path) \in Seq(S) /\ Len(Dir(path)) = Len(path) - 1
         /\ path[Len(path)] \in S
         /\ path = Append(Dir(path), path[Len(path)])
         /\ path = Dir(path) \o <<path[Len(path)]>>
<1>1. Len(path) \in Nat \ {0} /\ \A i \in 1 .. Len(path) : path[i] \in S
  BY EmptySeq, LenProperties, ElementOfSeq
<1>2. /\ Dir(path) \in Seq(S) /\ Len(Dir(path)) = Len(path) - 1
      /\ \A i \in 1 .. Len(path) - 1 : Dir(path)[i] = path[i]
  <2> DEFINE n == Len(path) - 1
  <2>1. n \in Nat /\ \A i \in 1 .. n : path[i] \in S
    BY <1>1
  <2> HIDE DEF n
  <2>2. /\ SubSeq(path, 1, n) \in Seq(S) /\ Len(SubSeq(path, 1, n)) = n
        /\ \A i \in 1 .. n : SubSeq(path, 1, n)[i] = path[i]
    BY <2>1, PrefixProperties
  <2>3. QED
    BY <2>2 DEF Dir, n
<1>3. path[Len(path)] \in S
  BY <1>1
<1> DEFINE q == Append(Dir(path), path[Len(path)])
<1>4. /\ q \in Seq(S) /\ Len(q) = Len(path)
      /\ \A i \in 1 .. Len(path) - 1 : q[i] = path[i]
      /\ q[Len(path)] = path[Len(path)]
  BY <1>1, <1>2, <1>3, AppendProperties
<1>5. \A i \in 1 .. Len(path) : q[i] = path[i]
  BY <1>1, <1>4
<1>6. q = path
  BY <1>4, <1>5, SeqEqual
<1>7. q = Dir(path) \o <<path[Len(path)]>>
  BY <1>2, <1>3, AppendIsConcat
<1>8. QED
  BY <1>2, <1>3, <1>6, <1>7

\* A walk that met too many symlinks goes nowhere else.
LEMMA WalkLost ==
  ASSUME NEW links, LinksOK(links), NEW path \in Seq(Components)
  PROVE  Walk(links, TooMany, path) = TooMany
<1>1. TooMany \in Places /\ TooMany.left = -1
  BY PlaceLeft
<1>2. <<TooMany, path>> \in Journeys
  BY <1>1 DEF Journeys
<1>3. Walk(links, TooMany, path) \in Ends(<<TooMany, path>>)
  BY <1>2, WalkEquation DEF Walk
<1> DEFINE end == Walk(links, TooMany, path)
<1>4. end \in Places /\ end.left <= -1
  BY <1>1, <1>3 DEF Ends
<1>5. end.left \in Int /\ end.left + 1 \in Nat
  BY <1>4, PlaceLeft
<1>6. end.left = -1
  BY <1>4, <1>5
<1>7. QED
  BY <1>4, <1>6, PlaceLeft

\* A walk along two paths one after the other.
LEMMA WalkConcat ==
  ASSUME NEW links, LinksOK(links), NEW p \in Places, NEW path \in Seq(Components)
  PROVE  \A rest \in Seq(Components) :
           Walk(links, p, path \o rest) = Walk(links, Walk(links, p, path), rest)
<1> DEFINE Same(rest) == Walk(links, p, path \o rest) = Walk(links, Walk(links, p, path), rest)
           Wrong == {Len(rest) : rest \in {r \in Seq(Components) : ~Same(r)}}
<1>1. SUFFICES ASSUME Wrong # {} PROVE FALSE
  OBVIOUS
<1>2. Wrong \subseteq Nat /\ \A r \in Seq(Components) : ~Same(r) => Len(r) \in Wrong
  BY LenProperties
<1>3. PICK n \in Wrong : \A m \in Wrong : n <= m
  BY <1>1, <1>2, Least
<1>4. PICK rest \in Seq(Components) : Len(rest) = n /\ ~Same(rest)
  BY <1>3
<1> HIDE DEF Wrong
<1>5. Walk(links, p, path) \in Places
  BY WalkPlace
<1>6. CASE rest = <<>>
  <2>1. path \o rest = path
    BY <1>6, ConcatEmptySeq
  <2>2. QED
    BY <1>4, <1>5, <1>6, <2>1, WalkNowhere
<1>7. CASE rest # <<>>
  <2> DEFINE front == Dir(rest)
             last == rest[Len(rest)]
  <2>1. /\ front \in Seq(Components) /\ Len(front) = Len(rest) - 1
        /\ last \in Components /\ rest = Append(front, last)
    BY <1>7, LastPart
  <2> HIDE DEF front, last
  <2>2. Same(front)
    <3>1. n \in Nat /\ ~(n <= n - 1)
      BY <1>2
    <3>2. Len(front) = n - 1
      BY <1>4, <2>1
    <3>3. Len(front) \notin Wrong
      BY <1>3, <3>1, <3>2
    <3>4. QED
      BY <1>2, <2>1, <3>3
  <2>3. path \o rest = Append(path \o front, last)
    <3>1. /\ Append(front, last) = front \o <<last>>
          /\ Append(path \o front, last) = (path \o front) \o <<last>>
      BY <2>1, AppendIsConcat, ConcatProperties
    <3>2. (path \o front) \o <<last>> = path \o (front \o <<last>>)
      BY <2>1, ConcatAssociative
    <3>3. QED
      BY <2>1, <3>1, <3>2
  <2>4. path \o front \in Seq(Components)
    BY <2>1, ConcatProperties
  <2>5. Walk(links, p, path \o rest)
          = Enter(links, Walks(links), Walk(links, p, path \o front), last)
    <3>1. Walk(links, p, Append(path \o front, last))
            = Enter(links, Walks(links), Walk(links, p, path \o front), last)
      BY <2>1, <2>4, WalkAppend
    <3>2. QED
      BY <2>3, <3>1
  <2>6. Walk(links, Walk(links, p, path), rest)
          = Enter(links, Walks(links), Walk(links, Walk(links, p, path), front), last)
    BY <1>5, <2>1, WalkAppend
  <2>7. QED
    BY <1>4, <2>2, <2>5, <2>6
<1>8. QED
  BY <1>6, <1>7

\* A walk begins with the first component, as resolveInRoot does.
LEMMA WalkFirst ==
  ASSUME NEW links, LinksOK(links), NEW p \in Places, NEW path \in Seq(Components),
         path # <<>>
  PROVE  /\ Enter(links, Walks(links), p, Head(path)) \in Places
         /\ Walk(links, p, path)
              = Walk(links, Enter(links, Walks(links), p, Head(path)), Tail(path))
<1> DEFINE c == Head(path)
<1>1. /\ c \in Components /\ Tail(path) \in Seq(Components)
      /\ path = <<c>> \o Tail(path)
  BY HeadTailProperties, ConcatProperties
<1>2. <<>> \in Seq(Components) /\ <<c>> \in Seq(Components) /\ Append(<<>>, c) = <<c>>
  BY <1>1, EmptySeq
<1>3. Walk(links, p, <<c>>) = Enter(links, Walks(links), p, c)
  <2>1. Walk(links, p, Append(<<>>, c))
          = Enter(links, Walks(links), Walk(links, p, <<>>), c)
    BY <1>1, <1>2, WalkAppend
  <2>2. QED
    BY <1>2, <2>1, WalkNowhere
<1>4. Walk(links, p, <<c>>) \in Places
  BY <1>2, WalkPlace
<1>5. Walk(links, p, <<c>> \o Tail(path)) = Walk(links, Walk(links, p, <<c>>), Tail(path))
  BY <1>1, <1>2, WalkConcat
<1>6. QED
  BY <1>1, <1>3, <1>4, <1>5

-----------------------------------------------------------------------------
(* resolveInRoot follows the reference *)

\* What Clean has still to walk leads to the path without "." and "..".
Cleaning ==
  at = "clean" =>
    Walk(<<>>, Place(<<>>, 0), Head(mounts)) = Walk(<<>>, Place(current, 0), parts)

\* What resolveInRoot has still to walk leads to the directory of the mount.
Resolving ==
  at = "resolve" =>
    /\ Dir(Lexical(Head(mounts))) \o base = Lexical(Head(mounts))
    /\ MountDir = Walk(job.links, Place(current, MaxSymlinks - symlinks), parts)

\* Where a call is that works and does not come to its end.
NotGivenUp ==
  /\ at \in {"bundle", "hook", "wait"} => mounts = <<>>
  /\ at = "unlinkErr" /\ faults = 0 => ct = "absent"

WalkIsReference == Cleaning /\ Resolving /\ NotGivenUp /\ ResolvesAsInRoot

\* The symlinks of a container root are ones Walks can be used for, and so are none.
LEMMA RootLinks == LinksOK(<<>>) /\ (TypeOK => LinksOK(job.links))
<1>1. DOMAIN <<>> = {}
  OBVIOUS
<1>2. LinksOK(<<>>)
  BY <1>1 DEF LinksOK
<1>3. ASSUME TypeOK PROVE LinksOK(job.links)
  BY <1>3, JobAssumption DEF TypeOK, JobOK, LinksOK
<1>4. QED
  BY <1>2, <1>3

\* Steps that leave the mount under way alone.
LEMMA MountUntouched ==
  ASSUME TypeOK, WalkIsReference, UNCHANGED <<job, at, mounts, walkVars>>,
         faults' = 0 => faults = 0, ct' = ct \/ ct' = "absent"
  PROVE  WalkIsReference'
<1>1. MountDir' = MountDir /\ Lexical(Head(mounts))' = Lexical(Head(mounts))
  BY DEF MountDir, Lexical
<1>2. ct' = "created" => ct = "created"
  OBVIOUS
<1>3. Cleaning'
  BY DEF WalkIsReference, Cleaning, walkVars
<1>4. Resolving'
  BY <1>1 DEF WalkIsReference, Resolving, walkVars
<1>5. NotGivenUp'
  BY DEF WalkIsReference, NotGivenUp
<1>6. ResolvesAsInRoot'
  BY <1>1, <1>2 DEF WalkIsReference, ResolvesAsInRoot, walkVars
<1>7. QED
  BY <1>3, <1>4, <1>5, <1>6 DEF WalkIsReference

\* Steps to where there is no mount under way.
LEMMA NoMount ==
  ASSUME at' \notin {"clean", "resolve", "volume", "unlinkErr"},
         at' \in {"bundle", "hook", "wait"} => mounts' = <<>>,
         at' = "destroy" => faults' # 0 \/ ct' = "absent" \/ mounts' = <<>> \/ MountDir' = TooMany
  PROVE  WalkIsReference'
<1>1. Cleaning' /\ Resolving' /\ NotGivenUp'
  BY DEF Cleaning, Resolving, NotGivenUp
<1>2. ResolvesAsInRoot'
  BY DEF ResolvesAsInRoot
<1>3. QED
  BY <1>1, <1>2 DEF WalkIsReference

\* Where a component leads in a root without symlinks.
LEMMA EnterLexical ==
  ASSUME NEW path \in Seq(Names), NEW part \in Components
  PROVE  Enter(<<>>, Walks(<<>>), Place(path, 0), part)
           = Place(CASE part = "." -> path [] part = ".." -> Dir(path)
                     [] OTHER -> Append(path, part), 0)
<1>1. Place(path, 0) # TooMany /\ Place(path, 0).path = path /\ Place(path, 0).left = 0
  BY DEF Place, TooMany
<1>2. "." \notin Names /\ ".." \notin Names /\ DOMAIN <<>> = {}
  BY NameAssumption
<1>3. CASE part = "."
  BY <1>1, <1>2, <1>3, EnterCases
<1>4. CASE part = ".."
  BY <1>1, <1>2, <1>4, EnterCases
<1>5. CASE part \in Names
  BY <1>1, <1>2, <1>5, EnterCases
<1>6. QED
  BY <1>3, <1>4, <1>5 DEF Components

\* A place other than TooMany and its parts.
LEMMA PlaceType ==
  ASSUME NEW path \in Seq(Names), NEW left \in Nat
  PROVE  /\ Place(path, left) \in Places /\ Place(path, left) # TooMany
         /\ Place(path, left).path = path /\ Place(path, left).left = left
BY DEF Place, Places, TooMany

\* The steps of Clean.
LEMMA CleanFollows ==
  ASSUME TypeOK, MountUnderWay, WalkIsReference, Clean PROVE WalkIsReference'
<1>1. /\ LinksOK(<<>>) /\ current \in Seq(Names) /\ parts \in Seq(Components)
      /\ 0 \in Nat /\ at = "clean" /\ job' = job /\ mounts' = mounts
  BY RootLinks DEF TypeOK, Clean
<1>2. Place(current, 0) \in Places
  BY <1>1, PlaceType
<1>3. CASE parts # <<>>
  <2>1. /\ at' = "clean" /\ parts' = Tail(parts)
        /\ current' = CASE Head(parts) = "."  -> current
                        [] Head(parts) = ".." -> Dir(current)
                        [] OTHER -> Append(current, Head(parts))
    BY <1>3 DEF Clean, Goto
  <2>2. Head(parts) \in Components
    BY <1>1, <1>3, HeadTailProperties
  <2>3. Enter(<<>>, Walks(<<>>), Place(current, 0), Head(parts)) = Place(current', 0)
    BY <1>1, <2>1, <2>2, EnterLexical
  <2>4. Walk(<<>>, Place(current, 0), parts) = Walk(<<>>, Place(current', 0), Tail(parts))
    BY <1>1, <1>2, <1>3, <2>3, WalkFirst
  <2>5. Cleaning'
    BY <1>1, <2>1, <2>4 DEF WalkIsReference, Cleaning
  <2>6. Resolving' /\ NotGivenUp' /\ ResolvesAsInRoot'
    BY <2>1 DEF Resolving, NotGivenUp, ResolvesAsInRoot
  <2>7. QED
    BY <2>5, <2>6 DEF WalkIsReference
<1>4. CASE parts = <<>>
  <2>1. /\ at' = "resolve" /\ parts' = Dir(current) /\ current' = <<>> /\ symlinks' = 0
        /\ base' = IF current = <<>> THEN <<>> ELSE <<current[Len(current)]>>
    BY <1>4 DEF Clean, Goto
  <2>2. Lexical(Head(mounts)) = current
    <3>1. Walk(<<>>, Place(current, 0), <<>>) = Place(current, 0)
      BY <1>1, <1>2, WalkNowhere
    <3>2. Walk(<<>>, Place(<<>>, 0), Head(mounts)) = Place(current, 0)
      BY <1>1, <1>4, <3>1 DEF WalkIsReference, Cleaning
    <3>3. QED
      BY <1>1, <3>2, PlaceType DEF Lexical
  <2>3. Dir(current) \o base' = current
    <3>1. CASE current = <<>>
      <4>1. Dir(current) = <<>> /\ base' = <<>>
        BY <2>1, <3>1, SubSeqEmpty, EmptySeq DEF Dir
      <4>2. <<>> \o <<>> = <<>>
        BY EmptySeq, ConcatEmptySeq
      <4>3. QED
        BY <3>1, <4>1, <4>2
    <3>2. CASE current # <<>>
      BY <1>1, <2>1, <3>2, LastPart
    <3>3. QED
      BY <3>1, <3>2
  <2>4. MountDir' = Walk(job.links, Place(<<>>, MaxSymlinks), Dir(current))
    BY <1>1, <2>2 DEF MountDir, Lexical
  <2>5. Resolving'
    <3>1. MaxSymlinks - 0 = MaxSymlinks
      BY BoundAssumption
    <3>2. Lexical(Head(mounts))' = current
      BY <1>1, <2>2 DEF Lexical
    <3>3. QED
      BY <1>1, <2>1, <2>3, <2>4, <3>1, <3>2 DEF Resolving
  <2>6. Cleaning' /\ NotGivenUp' /\ ResolvesAsInRoot'
    BY <2>1 DEF Cleaning, NotGivenUp, ResolvesAsInRoot
  <2>7. QED
    BY <2>5, <2>6 DEF WalkIsReference
<1>5. QED
  BY <1>3, <1>4

\* A round of resolveInRoot.
LEMMA RoundFollows ==
  ASSUME TypeOK, MountUnderWay, WalkIsReference, resolveInRoot PROVE WalkIsReference'
<1> DEFINE part == Head(parts)
           next == Append(current, part)
           left == MaxSymlinks - symlinks
           here == Place(current, left)
<1>1. /\ LinksOK(job.links) /\ current \in Seq(Names) /\ parts \in Seq(Components)
      /\ parts # <<>> /\ at = "resolve" /\ UNCHANGED <<job, mounts, base, ct>>
      /\ symlinks \in 0 .. MaxSymlinks
  BY RootLinks DEF TypeOK, resolveInRoot
<1>2. left \in Nat /\ (symlinks = MaxSymlinks <=> left = 0)
  BY <1>1, BoundAssumption
<1>3. part \in Components /\ Tail(parts) \in Seq(Components)
  BY <1>1, HeadTailProperties
<1>4. "." \notin Names /\ ".." \notin Names
  BY NameAssumption
<1> HIDE DEF left, part
<1>5. here \in Places /\ here # TooMany /\ here.path = current /\ here.left = left
  BY <1>1, <1>2, PlaceType
<1>6. /\ MountDir' = MountDir /\ Lexical(Head(mounts))' = Lexical(Head(mounts))
      /\ Dir(Lexical(Head(mounts))) \o base = Lexical(Head(mounts))
  BY <1>1 DEF MountDir, Lexical, WalkIsReference, Resolving
<1>7. MountDir = Walk(job.links, Enter(job.links, Walks(job.links), here, part), Tail(parts))
  <2>1. MountDir = Walk(job.links, here, parts)
    BY <1>1 DEF WalkIsReference, Resolving, left
  <2>2. Walk(job.links, here, parts)
          = Walk(job.links, Enter(job.links, Walks(job.links), here, part), Tail(parts))
    BY <1>1, <1>5, WalkFirst DEF part
  <2>3. QED
    BY <2>1, <2>2
<1>8. ASSUME at' = "resolve",
             MountDir = Walk(job.links, Place(current', MaxSymlinks - symlinks'), parts')
      PROVE  WalkIsReference'
  <2>1. Resolving'
    BY <1>1, <1>6, <1>8 DEF Resolving
  <2>2. Cleaning' /\ NotGivenUp' /\ ResolvesAsInRoot'
    BY <1>8 DEF Cleaning, NotGivenUp, ResolvesAsInRoot
  <2>3. QED
    BY <2>1, <2>2 DEF WalkIsReference
<1>9. CASE part \in {".", ".."} \/ ~IsLink(next)
  <2>1. /\ at' = "resolve" /\ symlinks' = symlinks /\ parts' = Tail(parts)
        /\ current' = CASE part = "."  -> current
                        [] part = ".." -> Dir(current)
                        [] OTHER -> next
    <3>1. ~(part \in Names /\ IsLink(next))
      BY <1>4, <1>9
    <3>2. QED
      BY <3>1 DEF resolveInRoot, Goto, part
  <2>2. Enter(job.links, Walks(job.links), here, part) = Place(current', left)
    <3>1. CASE part = "."
      BY <1>5, <2>1, <3>1, <1>3, EnterCases
    <3>2. CASE part = ".."
      BY <1>5, <2>1, <3>2, <1>3, EnterCases
    <3>3. CASE part \in Names
      <4>1. next \notin DOMAIN job.links /\ current' = next
        BY <1>4, <1>9, <2>1, <3>3 DEF IsLink
      <4>2. QED
        BY <1>3, <1>5, <3>3, <4>1, EnterCases
    <3>4. QED
      BY <1>3, <3>1, <3>2, <3>3 DEF Components
  <2>3. QED
    BY <1>7, <1>8, <2>1, <2>2 DEF left
<1>10. CASE part \in Names /\ IsLink(next) /\ ~IsLastLink
  <2>1. next \in DOMAIN job.links /\ left # 0
    BY <1>2, <1>10 DEF IsLink, IsLastLink
  <2>2. /\ symlinks' = symlinks + 1
        /\ \/ /\ current' = Follow(next) /\ at' = "resolve"
              /\ parts' = job.links[next].parts \o Tail(parts)
           \/ faults' = faults + 1 /\ at' = "destroy"
    BY <1>4, <1>10 DEF resolveInRoot, Goto, Fails, part
  <2>3. CASE at' = "destroy"
    <3>1. faults' # 0
      BY <2>2, <2>3, BoundAssumption DEF TypeOK
    <3>2. QED
      BY <2>3, <3>1, NoMount
  <2>4. CASE at' = "resolve"
    <3> DEFINE from == Place(current', left - 1)
               dest == job.links[next].parts
    <3>1. current' = Follow(next) /\ parts' = dest \o Tail(parts)
      BY <2>2, <2>4
    <3>2. Dir(next) = current
      BY <1>1, <1>10, DirOfAppend
    <3>3. /\ Enter(job.links, Walks(job.links), here, part)
               = Walks(job.links)[Followed(job.links, here, part)]
          /\ Followed(job.links, here, part) \in Journeys
          /\ Followed(job.links, here, part) = <<from, dest>>
      <4>1. Enter(job.links, Walks(job.links), here, part)
              = Walks(job.links)[Followed(job.links, here, part)]
        BY <1>3, <1>5, <1>10, <2>1, EnterCases
      <4>2. Followed(job.links, here, part) \in Journeys
        BY <1>1, <1>3, <1>5, <2>1, FollowedIsBefore
      <4>3. Followed(job.links, here, part) = <<from, dest>>
        BY <1>5, <3>1, <3>2 DEF Followed, Follow
      <4>4. QED
        BY <4>1, <4>2, <4>3
    <3>4. from \in Places /\ dest \in Seq(Components)
      BY <3>3 DEF Journeys
    <3> HIDE DEF from, dest
    <3>5. Enter(job.links, Walks(job.links), here, part) = Walk(job.links, from, dest)
      BY <3>3 DEF Walk
    <3>6. MountDir = Walk(job.links, from, dest \o Tail(parts))
      <4>1. Walk(job.links, from, dest \o Tail(parts))
              = Walk(job.links, Walk(job.links, from, dest), Tail(parts))
        BY <1>1, <1>3, <3>4, WalkConcat
      <4>2. QED
        BY <1>7, <3>5, <4>1
    <3>7. MaxSymlinks - symlinks' = left - 1
      BY <1>1, <2>2, BoundAssumption DEF left
    <3>8. QED
      BY <1>8, <2>4, <3>1, <3>6, <3>7 DEF from
  <2>5. QED
    BY <2>2, <2>3, <2>4
<1>11. CASE part \in Names /\ IsLink(next) /\ IsLastLink
  <2>1. at' = "destroy"
    BY <1>4, <1>11 DEF resolveInRoot, Goto, part
  <2>2. next \in DOMAIN job.links /\ left = 0
    BY <1>2, <1>11 DEF IsLink, IsLastLink
  <2>3. Enter(job.links, Walks(job.links), here, part) = TooMany
    BY <1>3, <1>5, <1>11, <2>2, EnterCases
  <2>4. MountDir = TooMany
    BY <1>1, <1>3, <1>7, <2>3, WalkLost
  <2>5. QED
    BY <1>6, <2>1, <2>4, NoMount
<1>12. QED
  BY <1>3, <1>9, <1>10, <1>11 DEF Components

\* cdiMountTarget, when the directory has been resolved.
LEMMA TargetFollows ==
  ASSUME TypeOK, MountUnderWay, WalkIsReference, cdiMountTarget PROVE WalkIsReference'
<1>1. /\ LinksOK(job.links) /\ current \in Seq(Names) /\ parts = <<>> /\ at = "resolve"
      /\ job' = job /\ base' = base /\ MaxSymlinks - symlinks \in Nat
  <2>1. job \in Jobs /\ current \in Seq(Names) /\ symlinks \in 0 .. MaxSymlinks
    BY DEF TypeOK
  <2>2. LinksOK(job.links)
    BY <2>1, RootLinks
  <2>3. MaxSymlinks - symlinks \in Nat
    BY <2>1, BoundAssumption
  <2>4. parts = <<>> /\ at = "resolve" /\ job' = job /\ base' = base
    BY DEF cdiMountTarget
  <2>5. QED
    BY <2>1, <2>2, <2>3, <2>4
<1>2. at' \in {"mount", "volume"}
  BY DEF cdiMountTarget, Goto
<1>3. CASE at' = "mount"
  BY <1>3, NoMount
<1>4. CASE at' = "volume"
  <2>1. mounts' = mounts /\ current' = current \o base
    BY <1>4 DEF cdiMountTarget, Goto
  <2>2. MountDir' = MountDir /\ Lexical(Head(mounts))' = Lexical(Head(mounts))
    BY <1>1, <2>1 DEF MountDir, Lexical
  <2>3. Place(current, MaxSymlinks - symlinks) \in Places
    BY <1>1, PlaceType
  <2>4. MountDir = Place(current, MaxSymlinks - symlinks)
    BY <1>1, <2>3, WalkNowhere DEF WalkIsReference, Resolving
  <2>5. MountDir # TooMany /\ MountDir.path = current
    BY <1>1, <2>4, PlaceType
  <2>6. Dir(Lexical(Head(mounts))) \o base = Lexical(Head(mounts))
    BY <1>1 DEF WalkIsReference, Resolving
  <2>7. ResolvesAsInRoot'
    BY <1>1, <1>4, <2>1, <2>2, <2>5, <2>6 DEF ResolvesAsInRoot
  <2>8. Cleaning' /\ Resolving' /\ NotGivenUp'
    BY <1>4 DEF Cleaning, Resolving, NotGivenUp
  <2>9. QED
    BY <2>7, <2>8 DEF WalkIsReference
<1>5. QED
  BY <1>2, <1>3, <1>4

\* The steps between mounts, and those that make the volume.
LEMMA VolumeFollows ==
  ASSUME TypeOK, MountUnderWay, WalkIsReference,
         NextMount \/ CreateVolume \/ LinkVolumeTarget \/ UnlinkVolume
  PROVE  WalkIsReference'
<1>1. Fails => faults' # 0
  BY BoundAssumption DEF Fails, TypeOK
<1>2. CASE NextMount
  <2>1. CASE mounts = <<>>
    <3>1. at' \in {"idle", "bundle"} /\ mounts' = <<>>
      BY <1>2, <2>1 DEF NextMount, Goto, Return
    <3>2. QED
      BY <3>1, NoMount
  <2>2. CASE mounts # <<>>
    <3>1. at' = "clean" /\ mounts' = mounts /\ parts' = Head(mounts) /\ current' = <<>>
      BY <1>2, <2>2 DEF NextMount, Goto
    <3>2. Cleaning'
      BY <3>1 DEF Cleaning
    <3>3. Resolving' /\ NotGivenUp' /\ ResolvesAsInRoot'
      BY <3>1 DEF Resolving, NotGivenUp, ResolvesAsInRoot
    <3>4. QED
      BY <3>2, <3>3 DEF WalkIsReference
  <2>3. QED
    BY <2>1, <2>2
<1>3. CASE CreateVolume
  <2>1. at' = "link" \/ (at' = "destroy" /\ Fails)
    BY <1>3 DEF CreateVolume, Goto
  <2>2. QED
    BY <1>1, <2>1, NoMount
<1>4. CASE LinkVolumeTarget
  <2>1. \/ at' = "unlink"
        \/ at' = "unlinkErr" /\ (Fails \/ (ct = "absent" /\ ct' = ct))
    BY <1>4 DEF LinkVolumeTarget, Goto
  <2>2. CASE at' = "unlink"
    BY <2>2, NoMount
  <2>3. CASE at' = "unlinkErr"
    <3>1. NotGivenUp'
      BY <1>1, <2>1, <2>3 DEF NotGivenUp
    <3>2. Cleaning' /\ Resolving' /\ ResolvesAsInRoot'
      BY <2>3 DEF Cleaning, Resolving, ResolvesAsInRoot
    <3>3. QED
      BY <3>1, <3>2 DEF WalkIsReference
  <2>4. QED
    BY <2>1, <2>2, <2>3
<1>5. CASE UnlinkVolume
  <2>1. CASE at = "unlink"
    <3>1. at' = "mount"
      BY <1>5, <2>1 DEF UnlinkVolume, Goto
    <3>2. QED
      BY <3>1, NoMount
  <2>2. CASE at = "unlinkErr"
    <3>1. at' = "destroy" /\ ct' = ct /\ (Works \/ Fails)
      BY <1>5, <2>2 DEF UnlinkVolume, Goto
    <3>2. faults' # 0 \/ ct' = "absent"
      BY <1>1, <2>2, <3>1 DEF WalkIsReference, NotGivenUp, Works
    <3>3. QED
      BY <3>1, <3>2, NoMount
  <2>3. QED
    BY <1>5, <2>1, <2>2 DEF UnlinkVolume
<1>6. QED
  BY <1>2, <1>3, <1>4, <1>5

\* The steps before and after the mounts.
LEMMA RestFollows ==
  ASSUME TypeOK, WalkIsReference,
         \/ loadCDISpecs \/ resolveCDIDevices \/ DevicesResolved \/ CreateFromSpec
         \/ GetRootPath \/ Destroy \/ PrepareBundle \/ runCDIHooks \/ runCDIHook \/ Crash
  PROVE  WalkIsReference'
<1>1. Fails => faults' # 0
  BY BoundAssumption DEF Fails, TypeOK
<1>2. CASE loadCDISpecs \/ resolveCDIDevices \/ DevicesResolved \/ CreateFromSpec
             \/ Destroy \/ Crash
  <2>1. at' \in {"device", "create", "root", "idle"}
    BY <1>2 DEF loadCDISpecs, resolveCDIDevices, DevicesResolved, CreateFromSpec, Destroy,
                Crash, Goto, Return
  <2>2. QED
    BY <2>1, NoMount
<1>3. CASE GetRootPath
  <2>1. at' = "mount" \/ (at' = "destroy" /\ (Fails \/ ct' = "absent"))
    BY <1>3 DEF GetRootPath, Goto
  <2>2. QED
    BY <1>1, <2>1, NoMount
<1>4. CASE PrepareBundle \/ runCDIHooks \/ runCDIHook
  <2>1. at \in {"bundle", "hook", "wait"} /\ mounts' = mounts
        /\ at' \in {"hook", "wait", "destroy", "idle"}
    BY <1>4 DEF PrepareBundle, runCDIHooks, runCDIHook, Goto, Return
  <2>2. mounts' = <<>>
    BY <2>1 DEF WalkIsReference, NotGivenUp
  <2>3. QED
    BY <2>1, <2>2, NoMount
<1>5. QED
  BY <1>2, <1>3, <1>4

\* In every container root and for every path resolveInRoot and cdiMountTarget come to
\* where the reference leads.
THEOREM ResolvesRight == Spec => []ResolvesAsInRoot
<1>1. Init => WalkIsReference
  BY DEF Init, WalkIsReference, Cleaning, Resolving, NotGivenUp, ResolvesAsInRoot
<1>2. ASSUME TypeOK, MountUnderWay, WalkIsReference, [Next]_vars PROVE WalkIsReference'
  <2>1. CASE HookTimeout \/ HookForks \/ HookChildEnds \/ HookExits \/ Removed
               \/ UNCHANGED vars
    <3>1. UNCHANGED <<job, at, mounts, walkVars>>
      BY <2>1 DEF HookTimeout, HookForks, HookChildEnds, HookExits, Removed, vars, walkVars
    <3>2. ct' = ct \/ ct' = "absent"
      BY <2>1 DEF HookTimeout, HookForks, HookChildEnds, HookExits, Removed, vars
    <3>3. faults \in Nat
      BY <1>2, BoundAssumption DEF TypeOK
    <3>4. faults' = faults \/ faults' = faults + 1
      BY <2>1 DEF HookTimeout, HookForks, HookChildEnds, HookExits, Removed, Works, Fails, vars
    <3>5. faults' = 0 => faults = 0
      BY <3>3, <3>4
    <3>6. QED
      BY <1>2, <3>1, <3>2, <3>5, MountUntouched
  <2>2. CASE HandlerStep /\ ~HookTimeout
    <3>1. CASE Clean
      BY <1>2, <3>1, CleanFollows
    <3>2. CASE resolveInRoot
      BY <1>2, <3>2, RoundFollows
    <3>3. CASE cdiMountTarget
      BY <1>2, <3>3, TargetFollows
    <3>4. CASE NextMount \/ CreateVolume \/ LinkVolumeTarget \/ UnlinkVolume
      BY <1>2, <3>4, VolumeFollows
    <3>5. CASE \/ loadCDISpecs \/ resolveCDIDevices \/ DevicesResolved \/ CreateFromSpec
               \/ GetRootPath \/ Destroy \/ PrepareBundle \/ runCDIHooks \/ runCDIHook
      BY <1>2, <3>5, RestFollows
    <3>6. QED
      BY <2>2, <3>1, <3>2, <3>3, <3>4, <3>5 DEF HandlerStep
  <2>3. CASE Crash
    BY <1>2, <2>3, RestFollows
  <2>4. QED
    BY <1>2, <2>1, <2>2, <2>3 DEF Next
<1>3. WalkIsReference => ResolvesAsInRoot
  BY DEF WalkIsReference
<1>4. QED
  BY <1>1, <1>2, <1>3, TypeInv, PTL DEF Spec
=============================================================================
