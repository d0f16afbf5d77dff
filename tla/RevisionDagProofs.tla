--------------------------- MODULE RevisionDagProofs ---------------------------
(****************************************************************************)
(* Proofs about RevisionDag, for any set of histories whose parents come    *)
(* first, any two revisions of one and any limits; about BranchViews,       *)
(* where views merge in memory from the bases of such histories; and about  *)
(* ProjectMetadata and MergeImpact, whose merges are made from such bases.  *)
(*                                                                          *)
(* While it walks, a parent of what a side has reached is reached from that *)
(* side or queued for it; so a walk that ends has reached each history      *)
(* whole.  The topological pass marks what is below a common revision; a    *)
(* common revision that is done, and one that is marked and done, has its   *)
(* parents marked, so that one common revision and all that is marked hold  *)
(* its whole history.  Parents, histories and the two invariants of the     *)
(* walk are stated of any graph and any values, so that a step is a fact    *)
(* about its two states.                                                    *)
(*                                                                          *)
(* The heads that views read only move forward; so those which at the end   *)
(* are what they were when captured have been so all the time.  When the    *)
(* sources of a train are merged one after the other, what each adds to     *)
(* the target's history is its own: the base of each merge is that of the   *)
(* train's step, or holds the same texts, and both yield the same.          *)
(*                                                                          *)
(* Revisions of metadata are sound: what the agents publish and what merges *)
(* and reverts make keeps targets and contracts resolved and acyclic, and   *)
(* complete contracts complete.  A contract that one side of a merge        *)
(* completed is as complete in the result, since the base is in both        *)
(* histories and completeness does not leave a history without a revert.    *)
(* What a gate has read of revisions stays true of them, for they never     *)
(* change; so what it analyzed is what it merges.                           *)
(****************************************************************************)
EXTENDS RevisionDag, BranchViews, MergeImpact, RevisionLogProofs,
        FiniteSetTheorems, WellFoundedInduction, SequenceTheorems, TLAPS

ParentsIn(g, n) == ToSet(g[n])

ClosedIn(g, S) == \A x \in S : ParentsIn(g, x) \subseteq S

HistoryIn(g, n) ==
  {m \in DOMAIN g : \A S \in SUBSET DOMAIN g : n \in S /\ ClosedIn(g, S) => m \in S}

FollowedIn(g, n) == IF IsInjective(g[n]) THEN g[n] ELSE <<Head(g[n])>>

EdgesIn(g, S) == UNION {{<<n, i>> : i \in DOMAIN g[n]} : n \in S}

Root(d, side) == IF side = "left" THEN d.left ELSE d.right

Both(d) == HistoryIn(d.graph, d.left) \cup HistoryIn(d.graph, d.right)

Analysis == [graph : Graphs, left : Nat, right : Nat, nodeLimit : NodeLimits,
             edgeLimit : EdgeLimits]

DagOK(d) == d \in Analysis /\ d.left \in DOMAIN d.graph /\ d.right \in DOMAIN d.graph

WithinLimits(d, S) ==
  /\ Cardinality(S) <= d.nodeLimit
  /\ Cardinality(EdgesIn(d.graph, S)) <= d.edgeLimit

\* Reached from the side, or to be.
Pending(n, side, q, re) == side \in re[n] \/ <<n, side>> \in ToSet(q)

\* d: the analysis; q, kn, re, ed: queue, known, reach and edges.
WalkOK(d, q, kn, re, ed) ==
  /\ q \in Seq((DOMAIN d.graph) \X Sides)
  /\ re \in [DOMAIN d.graph -> SUBSET Sides]
  /\ kn = {n \in DOMAIN d.graph : re[n] # {}}
  /\ \A side \in Sides : \A n \in DOMAIN d.graph :
        side \in re[n] => n \in HistoryIn(d.graph, Root(d, side))
  /\ \A x \in ToSet(q) : x[1] \in HistoryIn(d.graph, Root(d, x[2]))
  /\ \A side \in Sides : Pending(Root(d, side), side, q, re)
  /\ \A side \in Sides : \A n \in DOMAIN d.graph :
        side \in re[n] => \A p \in ParentsIn(d.graph, n) : Pending(p, side, q, re)
  /\ ed = Cardinality(EdgesIn(d.graph, kn))
  /\ WithinLimits(d, kn)

CommonIn(d) == HistoryIn(d.graph, d.left) \cap HistoryIn(d.graph, d.right)

ReachedWhole(d, re) ==
  /\ re \in [DOMAIN d.graph -> SUBSET Sides]
  /\ \A side \in Sides : \A n \in DOMAIN d.graph :
        side \in re[n] <=> n \in HistoryIn(d.graph, Root(d, side))

ChildrenIn(d, kn, n) == {m \in kn : n \in ParentsIn(d.graph, m)}

\* kn, ch, un, nb: known, children, under and nonBest.
OrderOK(d, kn, ch, un, nb) ==
  /\ kn \subseteq Both(d) /\ ClosedIn(d.graph, kn)
  /\ ch = [n \in DOMAIN d.graph |-> Cardinality(ChildrenIn(d, kn, n))]
  /\ un \subseteq Both(d)
  /\ nb = un \cap CommonIn(d)
  /\ \A u \in un : \E c \in CommonIn(d) : u < c /\ u \in HistoryIn(d.graph, c)
  /\ \A n \in Both(d) \ kn : n \in CommonIn(d) \cup un => ParentsIn(d.graph, n) \subseteq un

DagInv ==
  /\ DagOK(dag)
  /\ walk \in {"walk", "limit", "order", "found"}
  /\ walk = "walk" => WalkOK(dag, queue, known, reach, edges) /\ under = {} /\ nonBest = {}
  /\ walk = "limit" => ~WithinLimits(dag, Both(dag))
  /\ walk \in {"order", "found"} =>
        /\ WithinLimits(dag, Both(dag))
        /\ ReachedWhole(dag, reach)
        /\ OrderOK(dag, known, children, under, nonBest)
  /\ walk = "found" => known = {}

------------------------------------------------------------------------------
(* Numbers                                                                  *)

LEMMA LeastElement ==
  ASSUME NEW S \in SUBSET Nat, S # {}
  PROVE  \E m \in S : \A k \in S : m <= k
  <1>1. PICK m \in S : \A k \in S : ~(<<k, m>> \in OpToRel(<, Nat))
    BY NatLessThanWellFounded, WFMin
  <1>2. \A k \in S : ~(k < m)
    BY <1>1 DEF OpToRel
  <1>3. QED
    BY <1>2

LEMMA GreatestElement ==
  ASSUME NEW n \in Nat, NEW S \in SUBSET (1 .. n), S # {}
  PROVE  \E m \in S : \A k \in S : k <= m
  <1> DEFINE T == {n - k : k \in S}
  <1>1. T \in SUBSET Nat /\ T # {}
    <2>1. \A k \in S : n - k \in Nat
      OBVIOUS
    <2>2. QED
      BY <2>1
  <1>2. PICK t \in T : \A u \in T : t <= u
    BY <1>1, LeastElement
  <1>3. PICK m \in S : t = n - m
    BY <1>2
  <1>4. ASSUME NEW k \in S
        PROVE  k <= m
    <2>1. n - m <= n - k
      BY <1>2, <1>3
    <2>2. QED
      BY <2>1
  <1>5. QED
    BY <1>4

------------------------------------------------------------------------------
(* Graphs and histories                                                     *)

LEMMA GraphFacts ==
  ASSUME NEW g \in Graphs
  PROVE  /\ Len(g) \in Nat /\ DOMAIN g = 1 .. Len(g) /\ IsFiniteSet(DOMAIN g)
         /\ 1 \in DOMAIN g
  <1>1. g \in Seq(Seq(Nat)) /\ g # << >>
    BY DagAssumption
  <1>2. Len(g) \in Nat /\ DOMAIN g = 1 .. Len(g)
    BY <1>1
  <1>3. Len(g) >= 1
    BY <1>1, <1>2
  <1>4. QED
    BY <1>2, <1>3, FS_Interval

LEMMA ParentFacts ==
  ASSUME NEW g \in Graphs, NEW n \in DOMAIN g
  PROVE  /\ g[n] \in Seq(1 .. (n - 1)) /\ Len(g[n]) \in {0, 1, 2}
         /\ n # 1 => ParentsIn(g, n) # {}
         /\ FollowedIn(g, n) \in Seq(1 .. (n - 1))
         /\ ToSet(FollowedIn(g, n)) = ParentsIn(g, n)
  <1>1. g[n] \in ParentChoices(n) /\ n \in Nat
    BY DagAssumption, GraphFacts
  <1>2. CASE n = 1
    <2>1. g[n] = << >>
      BY <1>1, <1>2 DEF ParentChoices
    <2>2. DOMAIN g[n] = {}
      BY <2>1
    <2>3. FollowedIn(g, n) = g[n]
      BY <2>2 DEF FollowedIn, IsInjective
    <2>4. << >> \in Seq(1 .. (n - 1)) /\ Len(<< >>) = 0
      OBVIOUS
    <2>5. QED
      BY <1>2, <2>1, <2>3, <2>4 DEF ParentsIn
  <1>3. CASE n # 1
    <2> DEFINE P == 1 .. (n - 1)
    <2>1. g[n] \in {<<p>> : p \in P} \cup P \X P
      BY <1>1, <1>3 DEF ParentChoices
    <2> HIDE DEF P
    <2>2. CASE \E p \in P : g[n] = <<p>>
      <3>1. FollowedIn(g, n) = g[n]
        BY <2>2 DEF FollowedIn, IsInjective
      <3>2. QED
        BY <2>2, <3>1 DEF ParentsIn, ToSet, P
    <2>3. CASE \E p, q \in P : g[n] = <<p, q>>
      <3>1. PICK p \in P, q \in P : g[n] = <<p, q>>
        BY <2>3
      <3>2. FollowedIn(g, n) = IF p = q THEN <<p>> ELSE <<p, q>>
        BY <3>1 DEF FollowedIn, IsInjective
      <3>3. ToSet(<<p, q>>) = {p, q} /\ ToSet(<<p>>) = {p}
        BY DEF ToSet
      <3>4. ToSet(FollowedIn(g, n)) = {p, q} /\ ParentsIn(g, n) = {p, q}
        BY <3>1, <3>2, <3>3 DEF ParentsIn
      <3>5. <<p, q>> \in Seq(P) /\ <<p>> \in Seq(P) /\ Len(<<p, q>>) = 2
        OBVIOUS
      <3>6. QED
        BY <3>1, <3>2, <3>4, <3>5 DEF P
    <2>4. QED
      BY <2>1, <2>2, <2>3
  <1>4. QED
    BY <1>2, <1>3

\* Parents come first.
LEMMA ParentsFirst ==
  ASSUME NEW g \in Graphs, NEW n \in DOMAIN g
  PROVE  /\ ParentsIn(g, n) \subseteq 1 .. (n - 1)
         /\ ParentsIn(g, n) \subseteq DOMAIN g
         /\ IsFiniteSet(ParentsIn(g, n))
  <1>1. g[n] \in Seq(1 .. (n - 1)) /\ n \in 1 .. Len(g) /\ Len(g) \in Nat
    BY ParentFacts, GraphFacts
  <1>2. ParentsIn(g, n) \subseteq 1 .. (n - 1)
    BY <1>1 DEF ParentsIn, ToSet
  <1>3. 1 .. (n - 1) \subseteq 1 .. Len(g)
    BY <1>1
  <1>4. ParentsIn(g, n) \subseteq DOMAIN g
    BY <1>2, <1>3, GraphFacts
  <1>5. QED
    BY <1>2, <1>4, GraphFacts, FS_Subset

\* A history holds its revision, is closed under parents and is least so.
LEMMA HistoryFacts ==
  ASSUME NEW g \in Graphs, NEW n \in DOMAIN g
  PROVE  /\ HistoryIn(g, n) \subseteq DOMAIN g
         /\ n \in HistoryIn(g, n)
         /\ ClosedIn(g, HistoryIn(g, n))
         /\ \A S \in SUBSET DOMAIN g : n \in S /\ ClosedIn(g, S) => HistoryIn(g, n) \subseteq S
  <1>1. HistoryIn(g, n) \subseteq DOMAIN g /\ n \in HistoryIn(g, n)
    BY DEF HistoryIn
  <1>2. \A S \in SUBSET DOMAIN g : n \in S /\ ClosedIn(g, S) => HistoryIn(g, n) \subseteq S
    BY DEF HistoryIn
  <1>3. ASSUME NEW m \in HistoryIn(g, n), NEW p \in ParentsIn(g, m)
        PROVE  p \in HistoryIn(g, n)
    <2>1. p \in DOMAIN g
      BY <1>1, ParentsFirst
    <2>2. ASSUME NEW S \in SUBSET DOMAIN g, n \in S, ClosedIn(g, S)
          PROVE  p \in S
      BY <1>2, <2>2 DEF ClosedIn
    <2>3. QED
      BY <2>1, <2>2 DEF HistoryIn
  <1>4. ClosedIn(g, HistoryIn(g, n))
    BY <1>3 DEF ClosedIn
  <1>5. QED
    BY <1>1, <1>2, <1>4

\* Every history goes back to the first revision.
LEMMA FirstInHistory ==
  ASSUME NEW g \in Graphs, NEW n \in DOMAIN g
  PROVE  1 \in HistoryIn(g, n)
  <1>1. HistoryIn(g, n) \in SUBSET Nat /\ HistoryIn(g, n) # {}
    BY HistoryFacts, GraphFacts
  <1>2. PICK m \in HistoryIn(g, n) : \A k \in HistoryIn(g, n) : m <= k
    BY <1>1, LeastElement
  <1>3. m \in DOMAIN g /\ m \in Nat
    BY HistoryFacts, GraphFacts
  <1>4. ASSUME m # 1 PROVE FALSE
    <2>1. PICK p : p \in ParentsIn(g, m)
      BY <1>3, <1>4, ParentFacts
    <2>2. p \in 1 .. (m - 1)
      BY <1>3, <2>1, ParentsFirst
    <2>3. p \in HistoryIn(g, n)
      BY <2>1, HistoryFacts DEF ClosedIn
    <2>4. QED
      BY <1>2, <1>3, <2>2, <2>3
  <1>5. QED
    BY <1>4

LEMMA BothFacts ==
  ASSUME NEW d, DagOK(d)
  PROVE  /\ d.graph \in Graphs /\ d.nodeLimit \in Nat /\ d.edgeLimit \in Nat
         /\ \A side \in Sides : /\ Root(d, side) \in DOMAIN d.graph
                                /\ HistoryIn(d.graph, Root(d, side)) \subseteq Both(d)
         /\ Both(d) \subseteq DOMAIN d.graph
         /\ CommonIn(d) \subseteq Both(d)
         /\ ClosedIn(d.graph, Both(d))
         /\ IsFiniteSet(Both(d))
  <1>1. d.graph \in Graphs /\ d.nodeLimit \in Nat /\ d.edgeLimit \in Nat
    BY DagAssumption DEF DagOK, Analysis
  <1>2. d.left \in DOMAIN d.graph /\ d.right \in DOMAIN d.graph
    BY DEF DagOK
  <1>3. \A side \in Sides : /\ Root(d, side) \in DOMAIN d.graph
                            /\ HistoryIn(d.graph, Root(d, side)) \subseteq Both(d)
    BY <1>2 DEF Root, Both
  <1>4. Both(d) \subseteq DOMAIN d.graph /\ CommonIn(d) \subseteq Both(d)
    BY <1>1, <1>2, HistoryFacts DEF Both, CommonIn
  <1>5. ClosedIn(d.graph, Both(d))
    BY <1>1, <1>2, HistoryFacts DEF Both, ClosedIn
  <1>6. IsFiniteSet(Both(d))
    BY <1>1, <1>4, GraphFacts, FS_Subset
  <1>7. QED
    BY <1>1, <1>3, <1>4, <1>5, <1>6

------------------------------------------------------------------------------
(* Edges                                                                    *)

LEMMA EdgesFinite ==
  ASSUME NEW g \in Graphs, NEW S \in SUBSET DOMAIN g
  PROVE  IsFiniteSet(EdgesIn(g, S)) /\ Cardinality(EdgesIn(g, S)) \in Nat
  <1>1. IsFiniteSet((DOMAIN g) \X (1 .. 2))
    <2>1. IsFiniteSet(1 .. 2)
      <3>1. PICK one \in Int, two \in Int : one = 1 /\ two = 2
        OBVIOUS
      <3>2. IsFiniteSet(one .. two)
        BY FS_Interval
      <3>3. QED
        BY <3>1, <3>2
    <2>2. IsFiniteSet(DOMAIN g)
      BY GraphFacts
    <2>3. QED
      BY <2>1, <2>2, FS_Product
  <1>2. \A n \in S : \A i \in DOMAIN g[n] : <<n, i>> \in (DOMAIN g) \X (1 .. 2)
    <2>1. \A n \in S : DOMAIN g[n] \subseteq 1 .. 2
      BY ParentFacts
    <2>2. QED
      BY <2>1
  <1>3. EdgesIn(g, S) \in SUBSET ((DOMAIN g) \X (1 .. 2))
    BY <1>2 DEF EdgesIn
  <1>4. IsFiniteSet(EdgesIn(g, S))
    BY <1>1, <1>3, FS_Subset
  <1>5. QED
    BY <1>4, FS_CardinalityType

LEMMA EdgesMonotone ==
  ASSUME NEW g \in Graphs, NEW T \in SUBSET DOMAIN g, NEW S \in SUBSET T
  PROVE  Cardinality(EdgesIn(g, S)) <= Cardinality(EdgesIn(g, T))
  <1>1. EdgesIn(g, S) \in SUBSET EdgesIn(g, T)
    BY DEF EdgesIn
  <1>2. QED
    BY <1>1, EdgesFinite, FS_Subset

LEMMA EdgesAdded ==
  ASSUME NEW g \in Graphs, NEW S \in SUBSET DOMAIN g, NEW n \in (DOMAIN g) \ S
  PROVE  Cardinality(EdgesIn(g, S \cup {n})) =
           Cardinality(EdgesIn(g, S)) + Len(g[n])
  <1> DEFINE P == DOMAIN g[n]
             E == {n} \X P
  <1>1. IsFiniteSet(P) /\ Cardinality(P) \in Nat /\ Cardinality(P) = Len(g[n])
    <2>1. Len(g[n]) \in Nat /\ P = 1 .. Len(g[n])
      BY ParentFacts
    <2> HIDE DEF P
    <2>2. PICK l : l = Len(g[n])
      OBVIOUS
    <2>3. l \in Nat /\ P = 1 .. l
      BY <2>1, <2>2
    <2>4. IsFiniteSet(P) /\ Cardinality(P) = IF 1 > l THEN 0 ELSE l - 1 + 1
      BY <2>3, FS_Interval
    <2>5. QED
      BY <2>2, <2>3, <2>4
  <1>2. IsFiniteSet({n}) /\ Cardinality({n}) = 1
    BY FS_Singleton
  <1>3. IsFiniteSet(E) /\ Cardinality(E) = Cardinality({n}) * Cardinality(P)
    BY <1>1, <1>2, FS_Product
  <1>4. Cardinality(E) = Cardinality(P)
    BY <1>1, <1>2, <1>3
  <1>5. EdgesIn(g, S \cup {n}) = EdgesIn(g, S) \cup E
    BY DEF EdgesIn
  <1>6. EdgesIn(g, S) \cap E = {}
    BY DEF EdgesIn
  <1>7. IsFiniteSet(EdgesIn(g, S)) /\ Cardinality(EdgesIn(g, S)) \in Nat
    BY EdgesFinite
  <1> HIDE DEF P, E
  <1>8. Cardinality(EdgesIn(g, S) \cup E) =
          Cardinality(EdgesIn(g, S)) + Cardinality(E) - Cardinality(EdgesIn(g, S) \cap E)
    BY <1>3, <1>7, FS_Union
  <1>9. Cardinality(EdgesIn(g, S) \cap E) = 0
    BY <1>6, FS_EmptySet
  <1>10. Cardinality(EdgesIn(g, S) \cup E) = Cardinality(EdgesIn(g, S)) + Cardinality(P)
    BY <1>1, <1>4, <1>7, <1>8, <1>9
  <1>11. QED
    BY <1>1, <1>5, <1>10

------------------------------------------------------------------------------
(* The queue                                                                *)

LEMMA ConcatenationSet ==
  ASSUME NEW X, NEW s \in Seq(X), NEW t \in Seq(X)
  PROVE  s \o t \in Seq(X) /\ ToSet(s \o t) = ToSet(s) \cup ToSet(t)
  <1>1. s \o t \in Seq(X) /\ Len(s \o t) = Len(s) + Len(t) /\ Len(s) \in Nat /\ Len(t) \in Nat
    OBVIOUS
  <1>2. ASSUME NEW i \in DOMAIN (s \o t)
        PROVE  (s \o t)[i] \in ToSet(s) \cup ToSet(t)
    <2>1. CASE i <= Len(s)
      BY <1>1, <2>1 DEF ToSet
    <2>2. CASE i > Len(s)
      <3>1. (s \o t)[i] = t[i - Len(s)] /\ i - Len(s) \in DOMAIN t
        BY <1>1, <2>2
      <3>2. QED
        BY <3>1 DEF ToSet
    <2>3. QED
      BY <1>1, <2>1, <2>2
  <1>3. ASSUME NEW i \in DOMAIN s
        PROVE  s[i] \in ToSet(s \o t)
    <2>1. i \in DOMAIN (s \o t) /\ (s \o t)[i] = s[i]
      BY <1>1
    <2>2. QED
      BY <2>1 DEF ToSet
  <1>4. ASSUME NEW i \in DOMAIN t
        PROVE  t[i] \in ToSet(s \o t)
    <2>1. i + Len(s) \in DOMAIN (s \o t) /\ (s \o t)[i + Len(s)] = t[i]
      BY <1>1
    <2>2. QED
      BY <2>1 DEF ToSet
  <1>5. ToSet(s \o t) \subseteq ToSet(s) \cup ToSet(t)
    BY <1>2 DEF ToSet
  <1>6. ToSet(s) \subseteq ToSet(s \o t) /\ ToSet(t) \subseteq ToSet(s \o t)
    BY <1>3, <1>4 DEF ToSet
  <1>7. QED
    BY <1>1, <1>5, <1>6

LEMMA TailSet ==
  ASSUME NEW X, NEW s \in Seq(X), s # << >>
  PROVE  /\ Head(s) \in X /\ Tail(s) \in Seq(X)
         /\ ToSet(s) = ToSet(Tail(s)) \cup {Head(s)}
  <1>1. /\ Len(s) \in Nat /\ Len(s) >= 1 /\ DOMAIN s = 1 .. Len(s)
        /\ Head(s) = s[1] /\ Tail(s) \in Seq(X) /\ Len(Tail(s)) = Len(s) - 1
        /\ DOMAIN Tail(s) = 1 .. (Len(s) - 1)
    OBVIOUS
  <1>2. \A i \in 1 .. (Len(s) - 1) : Tail(s)[i] = s[i + 1]
    OBVIOUS
  <1>3. ASSUME NEW i \in DOMAIN s
        PROVE  s[i] \in ToSet(Tail(s)) \cup {Head(s)}
    <2>1. CASE i = 1
      BY <1>1, <2>1
    <2>2. CASE i # 1
      <3>1. i - 1 \in 1 .. (Len(s) - 1) /\ (i - 1) + 1 = i
        BY <1>1, <2>2
      <3>2. Tail(s)[i - 1] = s[i]
        BY <1>2, <3>1
      <3>3. QED
        BY <1>1, <3>1, <3>2 DEF ToSet
    <2>3. QED
      BY <2>1, <2>2
  <1>4. ASSUME NEW i \in DOMAIN Tail(s)
        PROVE  Tail(s)[i] \in ToSet(s)
    <2>1. i + 1 \in DOMAIN s /\ Tail(s)[i] = s[i + 1]
      BY <1>1, <1>2
    <2>2. QED
      BY <2>1 DEF ToSet
  <1>5. Head(s) \in X /\ Head(s) \in ToSet(s)
    BY <1>1 DEF ToSet
  <1>6. ToSet(s) \subseteq ToSet(Tail(s)) \cup {Head(s)}
    BY <1>3 DEF ToSet
  <1>7. ToSet(Tail(s)) \subseteq ToSet(s)
    BY <1>4 DEF ToSet
  <1>8. QED
    BY <1>1, <1>5, <1>6, <1>7
------------------------------------------------------------------------------
(* The walk                                                                 *)

LEMMA KnownFacts ==
  ASSUME NEW d, DagOK(d), NEW q, NEW kn, NEW re, NEW ed, WalkOK(d, q, kn, re, ed)
  PROVE  /\ kn \subseteq Both(d) /\ IsFiniteSet(kn) /\ Cardinality(kn) \in Nat
         /\ Cardinality(EdgesIn(d.graph, kn)) \in Nat
  <1>1. ASSUME NEW n \in kn
        PROVE  n \in Both(d)
    <2>1. n \in DOMAIN d.graph /\ re[n] # {} /\ re[n] \subseteq Sides
      BY DEF WalkOK
    <2>2. PICK side \in Sides : side \in re[n]
      BY <2>1
    <2>3. n \in HistoryIn(d.graph, Root(d, side))
      BY <2>1, <2>2 DEF WalkOK
    <2>4. QED
      BY <2>3, BothFacts
  <1>2. kn \in SUBSET Both(d) /\ kn \in SUBSET DOMAIN d.graph
    BY <1>1, BothFacts
  <1>3. IsFiniteSet(kn)
    BY <1>2, BothFacts, FS_Subset
  <1>4. QED
    BY <1>2, <1>3, BothFacts, EdgesFinite, FS_CardinalityType

FirstQueued(q, n, side, rest) ==
  q # << >> /\ n = Head(q)[1] /\ side = Head(q)[2] /\ rest = Tail(q)

Queued(q, n, side, rest) == ToSet(q) = ToSet(rest) \cup {<<n, side>>}

LEMMA HeadFacts ==
  ASSUME NEW d, DagOK(d), NEW q, NEW kn, NEW re, NEW ed, WalkOK(d, q, kn, re, ed),
         NEW n, NEW side, NEW rest, FirstQueued(q, n, side, rest)
  PROVE  /\ n \in DOMAIN d.graph /\ side \in Sides
         /\ n \in HistoryIn(d.graph, Root(d, side)) /\ n \in Both(d)
         /\ rest \in Seq((DOMAIN d.graph) \X Sides)
         /\ Queued(q, n, side, rest)
  <1> DEFINE X == (DOMAIN d.graph) \X Sides
  <1>1. q \in Seq(X) /\ q # << >>
    BY DEF WalkOK, FirstQueued
  <1>2. /\ Head(q) \in X /\ rest \in Seq(X)
        /\ ToSet(q) = ToSet(rest) \cup {Head(q)}
    <2> HIDE DEF X
    <2>1. QED
      BY <1>1, TailSet DEF FirstQueued
  <1>3. Head(q) = <<n, side>> /\ n \in DOMAIN d.graph /\ side \in Sides
    BY <1>2 DEF FirstQueued
  <1>4. n \in HistoryIn(d.graph, Root(d, side))
    BY <1>2, <1>3 DEF WalkOK
  <1>5. QED
    BY <1>2, <1>3, <1>4, BothFacts DEF Queued

\* A limit is exceeded only by what belongs to the two histories.
LEMMA LimitFacts ==
  ASSUME NEW d, DagOK(d), NEW q, NEW kn, NEW re, NEW ed, WalkOK(d, q, kn, re, ed),
         NEW n, NEW side, NEW rest, FirstQueued(q, n, side, rest), n \notin kn,
         \/ Cardinality(kn) >= d.nodeLimit
         \/ ed + Len(d.graph[n]) > d.edgeLimit
  PROVE  ~WithinLimits(d, Both(d))
  <1> DEFINE g == d.graph
             S == kn \cup {n}
  <1>1. n \in DOMAIN g /\ n \in Both(d) /\ g \in Graphs
    BY HeadFacts, BothFacts
  <1>2. /\ kn \subseteq Both(d) /\ IsFiniteSet(kn) /\ Cardinality(kn) \in Nat
        /\ Both(d) \in SUBSET DOMAIN g /\ IsFiniteSet(Both(d))
        /\ d.nodeLimit \in Nat /\ d.edgeLimit \in Nat
    BY KnownFacts, BothFacts
  <1>3. S \in SUBSET Both(d)
    BY <1>1, <1>2
  <1>4. Cardinality(S) = Cardinality(kn) + 1
    BY <1>2, FS_AddElement
  <1>5. Cardinality(S) <= Cardinality(Both(d)) /\ Cardinality(Both(d)) \in Nat
    BY <1>2, <1>3, FS_Subset, FS_CardinalityType
  <1>6. n \in (DOMAIN g) \ kn /\ kn \in SUBSET DOMAIN g
    BY <1>1, <1>2
  <1>7. Cardinality(EdgesIn(g, S)) = ed + Len(g[n])
    BY <1>1, <1>6, EdgesAdded DEF WalkOK
  <1>8. /\ Cardinality(EdgesIn(g, S)) <= Cardinality(EdgesIn(g, Both(d)))
        /\ Cardinality(EdgesIn(g, S)) \in Nat /\ Cardinality(EdgesIn(g, Both(d))) \in Nat
    BY <1>1, <1>2, <1>3, EdgesMonotone, EdgesFinite
  <1> HIDE DEF S
  <1>9. CASE Cardinality(kn) >= d.nodeLimit
    BY <1>2, <1>4, <1>5, <1>9 DEF WithinLimits
  <1>10. CASE ed + Len(d.graph[n]) > d.edgeLimit
    BY <1>2, <1>7, <1>8, <1>10 DEF WithinLimits
  <1>11. QED
    BY <1>9, <1>10

LEMMA VisitSeen ==
  ASSUME NEW d, DagOK(d), NEW q, NEW kn, NEW re, NEW ed, WalkOK(d, q, kn, re, ed),
         NEW n, NEW side, NEW rest, FirstQueued(q, n, side, rest), side \in re[n]
  PROVE  /\ n \in kn
         /\ WalkOK(d, rest \o << >>, kn \cup {n}, [re EXCEPT ![n] = @ \cup {side}], ed)
  <1> DEFINE X == (DOMAIN d.graph) \X Sides
  <1>1. /\ n \in DOMAIN d.graph /\ side \in Sides
        /\ rest \in Seq(X)
        /\ Queued(q, n, side, rest)
    BY HeadFacts
  <1>2. n \in kn /\ re \in [DOMAIN d.graph -> SUBSET Sides]
    BY <1>1 DEF WalkOK
  <1>3. kn \cup {n} = kn /\ [re EXCEPT ![n] = @ \cup {side}] = re
    BY <1>1, <1>2
  <1>4. rest \o << >> = rest
    <2> HIDE DEF X
    <2>1. QED
      BY <1>1
  <1>5. \A m, s : Pending(m, s, q, re) => Pending(m, s, rest, re)
    BY <1>1 DEF Pending, Queued
  <1>6. WalkOK(d, rest, kn, re, ed)
    BY <1>1, <1>5 DEF WalkOK, Queued
  <1>7. QED
    BY <1>2, <1>3, <1>4, <1>6

LEMMA VisitNew ==
  ASSUME NEW d, DagOK(d), NEW q, NEW kn, NEW re, NEW ed, WalkOK(d, q, kn, re, ed),
         NEW n, NEW side, NEW rest, FirstQueued(q, n, side, rest),
         n \notin kn => Cardinality(kn) < d.nodeLimit,
         n \notin kn => ed + Len(d.graph[n]) <= d.edgeLimit
  PROVE  WalkOK(d, rest \o [i \in DOMAIN FollowedIn(d.graph, n) |-> <<FollowedIn(d.graph, n)[i], side>>],
                kn \cup {n}, [re EXCEPT ![n] = @ \cup {side}],
                IF n \in kn THEN ed ELSE ed + Len(d.graph[n]))
  <1> DEFINE g  == d.graph
             X  == (DOMAIN g) \X Sides
             f  == FollowedIn(g, n)
             t  == [i \in DOMAIN f |-> <<f[i], side>>]
             q2 == rest \o t
             k2 == kn \cup {n}
             r2 == [re EXCEPT ![n] = @ \cup {side}]
             e2 == IF n \in kn THEN ed ELSE ed + Len(g[n])
  <1> HIDE DEF t, q2, k2, r2, e2
  <1>1. /\ g \in Graphs /\ n \in DOMAIN g /\ side \in Sides
        /\ n \in HistoryIn(g, Root(d, side)) /\ n \in Both(d)
        /\ rest \in Seq(X)
        /\ ToSet(q) = ToSet(rest) \cup {<<n, side>>}
    <2>1. g \in Graphs
      BY BothFacts
    <2>2. /\ n \in DOMAIN d.graph /\ side \in Sides
          /\ n \in HistoryIn(d.graph, Root(d, side)) /\ n \in Both(d)
          /\ rest \in Seq((DOMAIN d.graph) \X Sides)
          /\ Queued(q, n, side, rest)
      <3> HIDE DEF g, X
      <3>1. QED
        BY HeadFacts
    <2>3. QED
      BY <2>1, <2>2 DEF Queued
  <1>2. t \in Seq(X) /\ ToSet(t) = {<<p, side>> : p \in ParentsIn(g, n)}
    <2>1. /\ f \in Seq(1 .. (n - 1)) /\ ToSet(f) = ParentsIn(g, n)
          /\ ParentsIn(g, n) \subseteq DOMAIN g
      BY <1>1, ParentFacts, ParentsFirst
    <2> HIDE DEF f
    <2>2. DOMAIN f = 1 .. Len(f) /\ Len(f) \in Nat
      BY <2>1
    <2>3. \A i \in DOMAIN f : <<f[i], side>> \in X
      BY <1>1, <2>1 DEF ToSet
    <2>4. ToSet(t) = {<<p, side>> : p \in ParentsIn(g, n)}
      <3>1. ToSet(t) = {<<p, side>> : p \in ToSet(f)}
        BY DEF ToSet, t
      <3>2. QED
        BY <2>1, <3>1
    <2> HIDE DEF X, g
    <2>5. QED
      BY <2>2, <2>3, <2>4 DEF t
  <1>3. q2 \in Seq(X) /\ ToSet(q2) = ToSet(rest) \cup ToSet(t)
    <2> HIDE DEF X
    <2>1. rest \in Seq(X) /\ t \in Seq(X)
      BY <1>1, <1>2
    <2>2. QED
      BY <2>1, ConcatenationSet DEF q2
  <1>4. /\ r2 \in [DOMAIN g -> SUBSET Sides]
        /\ r2[n] = re[n] \cup {side}
        /\ \A m \in DOMAIN g : m # n => r2[m] = re[m]
    BY <1>1 DEF WalkOK, r2
  <1>5. kn = {m \in DOMAIN g : re[m] # {}}
    BY DEF WalkOK
  <1>6. k2 = {m \in DOMAIN g : r2[m] # {}}
    BY <1>1, <1>4, <1>5 DEF k2
  <1>7. \A s \in Sides : \A m \in DOMAIN g : s \in r2[m] => m \in HistoryIn(g, Root(d, s))
    BY <1>1, <1>4 DEF WalkOK
  <1>8. ASSUME NEW x \in ToSet(q2)
        PROVE  x[1] \in HistoryIn(g, Root(d, x[2]))
    <2>1. CASE x \in ToSet(rest)
      BY <1>1, <2>1 DEF WalkOK
    <2>2. CASE x \in ToSet(t)
      <3>1. PICK p \in ParentsIn(g, n) : x = <<p, side>>
        BY <1>2, <2>2
      <3>2. ClosedIn(g, HistoryIn(g, Root(d, side)))
        BY <1>1, BothFacts, HistoryFacts
      <3>3. p \in HistoryIn(g, Root(d, side))
        BY <1>1, <3>1, <3>2 DEF ClosedIn
      <3>4. QED
        BY <3>1, <3>3
    <2>3. QED
      BY <1>3, <2>1, <2>2
  <1>9. \A m \in DOMAIN g : \A s \in Sides : Pending(m, s, q, re) => Pending(m, s, q2, r2)
    BY <1>1, <1>3, <1>4 DEF Pending
  <1>10. \A s \in Sides : Pending(Root(d, s), s, q2, r2)
    BY <1>1, <1>9, BothFacts DEF WalkOK
  <1>11. ASSUME NEW s \in Sides, NEW m \in DOMAIN g, s \in r2[m], NEW p \in ParentsIn(g, m)
         PROVE  Pending(p, s, q2, r2)
    <2>1. p \in DOMAIN g
      BY <1>1, ParentsFirst
    <2>2. CASE s \in re[m]
      BY <1>9, <2>1, <2>2 DEF WalkOK
    <2>3. CASE s \notin re[m]
      <3>1. m = n /\ s = side
        BY <1>4, <1>11, <2>3
      <3>2. <<p, s>> \in ToSet(q2)
        BY <1>2, <1>3, <3>1
      <3>3. QED
        BY <3>2 DEF Pending
    <2>4. QED
      BY <2>2, <2>3
  <1>12. e2 = Cardinality(EdgesIn(g, k2)) /\ WithinLimits(d, k2)
    <2>1. /\ kn \in SUBSET DOMAIN g /\ IsFiniteSet(kn) /\ Cardinality(kn) \in Nat
          /\ d.nodeLimit \in Nat /\ d.edgeLimit \in Nat
      BY <1>5, KnownFacts, BothFacts
    <2>2. ed = Cardinality(EdgesIn(g, kn)) /\ WithinLimits(d, kn)
      BY DEF WalkOK
    <2>3. CASE n \in kn
      <3>1. k2 = kn
        BY <2>3 DEF k2
      <3>2. QED
        BY <2>2, <2>3, <3>1 DEF e2
    <2>4. CASE n \notin kn
      <3>1. Cardinality(k2) = Cardinality(kn) + 1
        BY <2>1, <2>4, FS_AddElement DEF k2
      <3>2. Cardinality(EdgesIn(g, k2)) = ed + Len(g[n])
        BY <1>1, <2>1, <2>2, <2>4, EdgesAdded DEF k2
      <3>3. Cardinality(k2) <= d.nodeLimit
        BY <2>1, <2>4, <3>1
      <3>4. QED
        BY <2>4, <3>2, <3>3 DEF WithinLimits, e2
    <2>5. QED
      BY <2>3, <2>4
  <1> HIDE DEF X
  <1>13. WalkOK(d, q2, k2, r2, e2)
    BY <1>3, <1>4, <1>6, <1>7, <1>8, <1>10, <1>11, <1>12 DEF WalkOK, X
  <1>14. QED
    BY <1>13 DEF q2, t, k2, r2, e2

\* A walk that ends has reached both histories and nothing else.
LEMMA WalkEnded ==
  ASSUME NEW d, DagOK(d), NEW q, NEW kn, NEW re, NEW ed, WalkOK(d, q, kn, re, ed), q = << >>
  PROVE  ReachedWhole(d, re) /\ kn = Both(d) /\ WithinLimits(d, Both(d))
  <1>1. d.graph \in Graphs /\ Both(d) \subseteq DOMAIN d.graph
    BY BothFacts
  <1>2. ToSet(q) = {}
    BY DEF ToSet
  <1>3. ASSUME NEW side \in Sides
        PROVE  HistoryIn(d.graph, Root(d, side)) \subseteq {n \in DOMAIN d.graph : side \in re[n]}
    <2> DEFINE S == {n \in DOMAIN d.graph : side \in re[n]}
    <2>1. Root(d, side) \in DOMAIN d.graph
      BY BothFacts
    <2>2. Root(d, side) \in S
      BY <1>2, <2>1 DEF WalkOK, Pending
    <2>3. ASSUME NEW x \in S, NEW p \in ParentsIn(d.graph, x)
          PROVE  p \in S
      <3>1. p \in DOMAIN d.graph
        BY <1>1, ParentsFirst
      <3>2. side \in re[p]
        BY <1>2 DEF WalkOK, Pending
      <3>3. QED
        BY <3>1, <3>2
    <2>4. ClosedIn(d.graph, S)
      BY <2>3 DEF ClosedIn
    <2>5. S \in SUBSET DOMAIN d.graph
      OBVIOUS
    <2> HIDE DEF S
    <2>6. HistoryIn(d.graph, Root(d, side)) \subseteq S
      BY <1>1, <2>1, <2>2, <2>4, <2>5, HistoryFacts
    <2>7. QED
      BY <2>6 DEF S
  <1>4. ReachedWhole(d, re)
    BY <1>3 DEF ReachedWhole, WalkOK
  <1>5. Both(d) \subseteq kn
    <2>1. ASSUME NEW n \in Both(d)
          PROVE  n \in kn
      <3>1. PICK side \in Sides : n \in HistoryIn(d.graph, Root(d, side))
        BY DEF Both, Sides, Root
      <3>2. n \in DOMAIN d.graph /\ side \in re[n]
        BY <1>3, <3>1
      <3>3. QED
        BY <3>2 DEF WalkOK
    <2>2. QED
      BY <2>1
  <1>6. kn = Both(d)
    BY <1>5, KnownFacts
  <1>7. QED
    BY <1>4, <1>6 DEF WalkOK
------------------------------------------------------------------------------
(* The topological pass                                                     *)

LEMMA OrderFacts ==
  ASSUME NEW d, DagOK(d), NEW kn, NEW ch, NEW un, NEW nb, OrderOK(d, kn, ch, un, nb)
  PROVE  /\ d.graph \in Graphs
         /\ kn \subseteq DOMAIN d.graph /\ IsFiniteSet(kn)
         /\ \A n : IsFiniteSet(ChildrenIn(d, kn, n)) /\ Cardinality(ChildrenIn(d, kn, n)) \in Nat
         /\ \A n \in DOMAIN d.graph : ch[n] = 0 <=> ChildrenIn(d, kn, n) = {}
  <1>1. d.graph \in Graphs /\ kn \in SUBSET Both(d) /\ IsFiniteSet(Both(d))
        /\ Both(d) \subseteq DOMAIN d.graph
    BY BothFacts DEF OrderOK
  <1>2. IsFiniteSet(kn)
    BY <1>1, FS_Subset
  <1>3. ASSUME NEW n
        PROVE  IsFiniteSet(ChildrenIn(d, kn, n)) /\ Cardinality(ChildrenIn(d, kn, n)) \in Nat
    <2>1. ChildrenIn(d, kn, n) \in SUBSET kn
      BY DEF ChildrenIn
    <2>2. QED
      BY <1>2, <2>1, FS_Subset, FS_CardinalityType
  <1>4. ASSUME NEW n \in DOMAIN d.graph
        PROVE  ch[n] = 0 <=> ChildrenIn(d, kn, n) = {}
    <2>1. ch[n] = Cardinality(ChildrenIn(d, kn, n))
      BY DEF OrderOK
    <2>2. QED
      BY <1>3, <2>1, FS_EmptySet
  <1>5. QED
    BY <1>1, <1>2, <1>3, <1>4

LEMMA OrderBegun ==
  ASSUME NEW d, DagOK(d), NEW kn, kn = Both(d)
  PROVE  OrderOK(d, kn,
                 [n \in DOMAIN d.graph |-> Cardinality({m \in kn : n \in ParentsIn(d.graph, m)})],
                 {}, {})
  <1>1. ClosedIn(d.graph, kn)
    BY BothFacts
  <1>2. QED
    BY <1>1 DEF OrderOK, ChildrenIn

\* Nothing left over, which would be a cycle: the last revision has no child.
LEMMA SomethingReady ==
  ASSUME NEW d, DagOK(d), NEW kn, NEW ch, NEW un, NEW nb, OrderOK(d, kn, ch, un, nb), kn # {}
  PROVE  \E n \in kn : ch[n] = 0
  <1>1. kn \in SUBSET (1 .. Len(d.graph)) /\ Len(d.graph) \in Nat /\ d.graph \in Graphs
        /\ DOMAIN d.graph = 1 .. Len(d.graph)
    BY OrderFacts, GraphFacts
  <1>2. PICK n \in kn : \A k \in kn : k <= n
    BY <1>1, GreatestElement
  <1>3. ASSUME NEW m \in kn, n \in ParentsIn(d.graph, m) PROVE FALSE
    <2>1. n \in 1 .. (m - 1) /\ m \in Nat
      BY <1>1, <1>3, ParentsFirst
    <2>2. m <= n
      BY <1>2
    <2>3. QED
      BY <2>1, <2>2
  <1>4. ChildrenIn(d, kn, n) = {}
    BY <1>3 DEF ChildrenIn
  <1>5. QED
    BY <1>4, OrderFacts

\* A revision without children left is processed: what is left is still closed.
LEMMA RevisionTaken ==
  ASSUME NEW d, DagOK(d), NEW kn, NEW ch, NEW un, NEW nb, OrderOK(d, kn, ch, un, nb),
         NEW n \in kn, ch[n] = 0
  PROVE  /\ ClosedIn(d.graph, kn \ {n})
         /\ [m \in DOMAIN d.graph |-> IF m \in ParentsIn(d.graph, n) THEN ch[m] - 1 ELSE ch[m]]
              = [m \in DOMAIN d.graph |-> Cardinality(ChildrenIn(d, kn \ {n}, m))]
  <1>1. ChildrenIn(d, kn, n) = {} /\ ClosedIn(d.graph, kn)
    BY OrderFacts DEF OrderOK
  <1>2. ClosedIn(d.graph, kn \ {n})
    BY <1>1 DEF ClosedIn, ChildrenIn
  <1>3. ASSUME NEW m \in DOMAIN d.graph
        PROVE  (IF m \in ParentsIn(d.graph, n) THEN ch[m] - 1 ELSE ch[m])
                  = Cardinality(ChildrenIn(d, kn \ {n}, m))
    <2>1. ch[m] = Cardinality(ChildrenIn(d, kn, m))
      BY DEF OrderOK
    <2>2. ChildrenIn(d, kn \ {n}, m) = ChildrenIn(d, kn, m) \ {n}
      BY DEF ChildrenIn
    <2>3. n \in ChildrenIn(d, kn, m) <=> m \in ParentsIn(d.graph, n)
      BY DEF ChildrenIn
    <2>4. IsFiniteSet(ChildrenIn(d, kn, m))
      BY OrderFacts
    <2>5. Cardinality(ChildrenIn(d, kn, m) \ {n}) =
            IF n \in ChildrenIn(d, kn, m) THEN Cardinality(ChildrenIn(d, kn, m)) - 1
            ELSE Cardinality(ChildrenIn(d, kn, m))
      BY <2>4, FS_RemoveElement
    <2>6. QED
      BY <2>1, <2>2, <2>3, <2>5
  <1>4. QED
    BY <1>2, <1>3

\* Nothing to pass on: the revision is neither common nor below a common one.
LEMMA ProcessOther ==
  ASSUME NEW d, DagOK(d), NEW kn, NEW ch, NEW un, NEW nb, OrderOK(d, kn, ch, un, nb),
         NEW n \in kn, ch[n] = 0, n \notin CommonIn(d) \cup un,
         NEW c2, c2 = [m \in DOMAIN d.graph |-> Cardinality(ChildrenIn(d, kn \ {n}, m))]
  PROVE  OrderOK(d, kn \ {n}, c2, un, nb)
  <1>1. ClosedIn(d.graph, kn \ {n})
    BY RevisionTaken
  <1>2. QED
    BY <1>1 DEF OrderOK

\* Its parents are below a common revision, as it is one itself or below one.
LEMMA ProcessPassing ==
  ASSUME NEW d, DagOK(d), NEW kn, NEW ch, NEW un, NEW nb, OrderOK(d, kn, ch, un, nb),
         NEW n \in kn, ch[n] = 0, n \in CommonIn(d) \cup un,
         NEW c2, c2 = [m \in DOMAIN d.graph |-> Cardinality(ChildrenIn(d, kn \ {n}, m))]
  PROVE  OrderOK(d, kn \ {n}, c2, un \cup ParentsIn(d.graph, n),
                 nb \cup (ParentsIn(d.graph, n) \cap CommonIn(d)))
  <1> DEFINE g == d.graph
             P == ParentsIn(g, n)
             U == un \cup P
  <1>1. /\ g \in Graphs /\ n \in DOMAIN g /\ n \in Nat /\ P \subseteq 1 .. (n - 1)
        /\ P \subseteq kn /\ kn \subseteq Both(d)
    <2>1. g \in Graphs /\ n \in DOMAIN g
      BY OrderFacts
    <2>2. n \in Nat /\ P \subseteq 1 .. (n - 1)
      BY <2>1, GraphFacts, ParentsFirst
    <2>3. P \subseteq kn /\ kn \subseteq Both(d)
      BY DEF OrderOK, ClosedIn
    <2>4. QED
      BY <2>1, <2>2, <2>3
  <1>2. ClosedIn(g, kn \ {n}) /\ kn \ {n} \subseteq Both(d)
    BY <1>1, RevisionTaken
  <1>3. U \subseteq Both(d)
    BY <1>1 DEF OrderOK
  <1>4. nb \cup (P \cap CommonIn(d)) = U \cap CommonIn(d)
    BY DEF OrderOK
  <1>5. PICK c \in CommonIn(d) : n <= c /\ n \in HistoryIn(g, c)
    <2>1. CASE n \in CommonIn(d)
      BY <1>1, <2>1, HistoryFacts
    <2>2. CASE n \in un
      <3>1. PICK c \in CommonIn(d) : n < c /\ n \in HistoryIn(g, c)
        BY <2>2 DEF OrderOK
      <3>2. c \in Nat
        BY <1>1, BothFacts, GraphFacts
      <3>3. QED
        BY <1>1, <3>1, <3>2
    <2>3. QED
      BY <2>1, <2>2
  <1>6. c \in DOMAIN g /\ c \in Nat
    BY <1>1, BothFacts, GraphFacts
  <1>7. ASSUME NEW u \in U
        PROVE  \E x \in CommonIn(d) : u < x /\ u \in HistoryIn(g, x)
    <2>1. CASE u \in un
      BY <2>1 DEF OrderOK
    <2>2. CASE u \in P
      <3>1. u < c
        BY <1>1, <1>5, <1>6, <2>2
      <3>2. u \in HistoryIn(g, c)
        BY <1>1, <1>5, <1>6, <2>2, HistoryFacts DEF ClosedIn
      <3>3. QED
        BY <3>1, <3>2
    <2>3. QED
      BY <2>1, <2>2
  <1>8. ASSUME NEW x \in Both(d) \ (kn \ {n}), x \in CommonIn(d) \cup U
        PROVE  ParentsIn(g, x) \subseteq U
    <2>1. CASE x = n
      BY <2>1
    <2>2. CASE x # n
      <3>1. x \in Both(d) \ kn /\ x \in CommonIn(d) \cup un
        BY <1>1, <1>8, <2>2
      <3>2. QED
        BY <3>1 DEF OrderOK
    <2>3. QED
      BY <2>1, <2>2
  <1> HIDE DEF U, P
  <1>9. OrderOK(d, kn \ {n}, c2, U, nb \cup (P \cap CommonIn(d)))
    BY <1>2, <1>3, <1>4, <1>7, <1>8 DEF OrderOK
  <1>10. QED
    BY <1>9 DEF U, P

\* When all are processed, what is common and not below another is what is
\* common and not marked.
LEMMA OrderEnded ==
  ASSUME NEW d, DagOK(d), NEW ch, NEW un, NEW nb, OrderOK(d, {}, ch, un, nb)
  PROVE  /\ CommonIn(d) # {}
         /\ CommonIn(d) \ nb =
              {n \in CommonIn(d) : ~\E m \in CommonIn(d) \ {n} : n \in HistoryIn(d.graph, m)}
  <1> DEFINE g == d.graph
             C == CommonIn(d)
  <1>1. g \in Graphs /\ C \subseteq Both(d) /\ Both(d) \subseteq DOMAIN g /\ C \subseteq Nat
    BY BothFacts, GraphFacts
  <1>2. un \subseteq Both(d) /\ nb = un \cap C
        /\ \A n \in Both(d) : n \in C \cup un => ParentsIn(g, n) \subseteq un
        /\ \A u \in un : \E c \in C : u < c /\ u \in HistoryIn(g, c)
    BY DEF OrderOK
  <1>3. 1 \in C
    BY <1>1, FirstInHistory DEF CommonIn, DagOK
  <1>4. ASSUME NEW n \in C, n \in nb
        PROVE  \E m \in C \ {n} : n \in HistoryIn(g, m)
    <2>1. PICK c \in C : n < c /\ n \in HistoryIn(g, c)
      BY <1>2, <1>4
    <2>2. c # n
      BY <1>1, <2>1
    <2>3. QED
      BY <2>1, <2>2
  <1>5. ASSUME NEW n \in C, NEW m \in C \ {n}, n \in HistoryIn(g, m)
        PROVE  n \in nb
    <2> DEFINE S == {m} \cup un
    <2>1. S \in SUBSET DOMAIN g /\ m \in S /\ m \in DOMAIN g
      BY <1>1, <1>2
    <2>2. ClosedIn(g, S)
      BY <1>1, <1>2 DEF ClosedIn
    <2>3. HistoryIn(g, m) \subseteq S
      BY <1>1, <2>1, <2>2, HistoryFacts
    <2>4. QED
      BY <1>2, <1>5, <2>3
  <1>6. QED
    BY <1>3, <1>4, <1>5
------------------------------------------------------------------------------
(* The steps                                                                *)

LEMMA OfThisGraph ==
  /\ Nodes = DOMAIN dag.graph
  /\ \A n : Parents(n) = ParentsIn(dag.graph, n)
  /\ \A n : History(n) = HistoryIn(dag.graph, n)
  /\ \A n : Followed(n) = FollowedIn(dag.graph, n)
  /\ \A S : EdgesOf(S) = EdgesIn(dag.graph, S)
  /\ Shared = CommonIn(dag)
  /\ Fits <=> WithinLimits(dag, Both(dag))
  <1>1. Nodes = DOMAIN dag.graph /\ \A n : Parents(n) = ParentsIn(dag.graph, n)
    BY DEF Nodes, Parents, ParentsIn
  <1>2. \A n : History(n) = HistoryIn(dag.graph, n)
    BY <1>1 DEF History, HistoryIn, ParentClosed, ClosedIn
  <1>3. \A S : EdgesOf(S) = EdgesIn(dag.graph, S)
    BY <1>1 DEF EdgesOf, EdgesIn
  <1>4. Shared = CommonIn(dag)
    BY <1>2 DEF Shared, CommonIn
  <1>5. Fits <=> WithinLimits(dag, Both(dag))
    BY <1>2, <1>3 DEF Fits, WithinLimits, Both
  <1>6. \A n : Followed(n) = FollowedIn(dag.graph, n)
    BY DEF Followed, FollowedIn
  <1>7. QED
    BY <1>1, <1>2, <1>3, <1>4, <1>5, <1>6

LEMMA CommonReached ==
  ASSUME DagOK(dag), ReachedWhole(dag, reach)
  PROVE  Common = CommonIn(dag)
  <1>1. Nodes = DOMAIN dag.graph
    BY OfThisGraph
  <1>2. CommonIn(dag) \subseteq DOMAIN dag.graph
    BY BothFacts
  <1>3. \A n \in DOMAIN dag.graph : n \in Common <=> n \in CommonIn(dag)
    BY <1>1 DEF Common, ReachedWhole, CommonIn, Sides, Root
  <1>4. QED
    BY <1>1, <1>2, <1>3 DEF Common

LEMMA WalkBegun ==
  ASSUME NEW d, DagOK(d)
  PROVE  WalkOK(d, <<<<d.left, "left">>, <<d.right, "right">>>>, {},
                [n \in DOMAIN d.graph |-> {}], 0)
  <1> DEFINE q  == <<<<d.left, "left">>, <<d.right, "right">>>>
             re == [n \in DOMAIN d.graph |-> {}]
  <1>1. d.left \in DOMAIN d.graph /\ d.right \in DOMAIN d.graph /\ d.graph \in Graphs
        /\ d.nodeLimit \in Nat /\ d.edgeLimit \in Nat
    BY BothFacts DEF DagOK
  <1>2. q \in Seq((DOMAIN d.graph) \X Sides)
    BY <1>1 DEF Sides
  <1>3. ToSet(q) = {<<d.left, "left">>, <<d.right, "right">>}
    BY DEF ToSet
  <1> HIDE DEF q
  <1>4. \A x \in ToSet(q) : x[1] \in HistoryIn(d.graph, Root(d, x[2]))
    BY <1>1, <1>3, HistoryFacts DEF Root
  <1>5. \A side \in Sides : <<Root(d, side), side>> \in ToSet(q)
    BY <1>3 DEF Root, Sides
  <1>6. EdgesIn(d.graph, {}) = {}
    BY DEF EdgesIn
  <1>7. WithinLimits(d, {}) /\ Cardinality(EdgesIn(d.graph, {})) = 0
    BY <1>1, <1>6, FS_EmptySet DEF WithinLimits
  <1>8. /\ re \in [DOMAIN d.graph -> SUBSET Sides]
        /\ \A n \in DOMAIN d.graph : re[n] = {}
    OBVIOUS
  <1> HIDE DEF re
  <1>9. WalkOK(d, q, {}, re, 0)
    BY <1>2, <1>4, <1>5, <1>7, <1>8 DEF WalkOK, Pending
  <1>10. QED
    BY <1>9 DEF q, re

LEMMA DagInvInit == DagInit("walk") => DagInv
  <1> SUFFICES ASSUME DagInit("walk") PROVE DagInv
    OBVIOUS
  <1>1. PICK g \in Graphs, nl \in NodeLimits, el \in EdgeLimits :
           \E l, r \in DOMAIN g :
             dag = [graph |-> g, left |-> l, right |-> r, nodeLimit |-> nl, edgeLimit |-> el]
    BY DEF DagInit
  <1>2. PICK l, r \in DOMAIN g :
           dag = [graph |-> g, left |-> l, right |-> r, nodeLimit |-> nl, edgeLimit |-> el]
    BY <1>1
  <1>3. l \in Nat /\ r \in Nat
    BY GraphFacts
  <1>4. DagOK(dag)
    BY <1>2, <1>3 DEF DagOK, Analysis
  <1>5. WalkOK(dag, queue, known, reach, edges)
    BY <1>4, WalkBegun, OfThisGraph DEF DagInit
  <1>6. QED
    BY <1>4, <1>5 DEF DagInv, DagInit

LEMMA FirstOfQueue ==
  ASSUME DagInv, walk = "walk", queue # << >>
  PROVE  /\ DagOK(dag) /\ WalkOK(dag, queue, known, reach, edges)
         /\ under = {} /\ nonBest = {}
         /\ FirstQueued(queue, Head(queue)[1], Head(queue)[2], Tail(queue))
  BY DEF DagInv, FirstQueued

LEMMA LimitExceededStep ==
  ASSUME DagInv, LimitExceeded
  PROVE  DagInv'
  <1>1. walk = "walk" /\ queue # << >> /\ walk' = "limit" /\ dag' = dag
    BY DEF LimitExceeded
  <1>2. PICK n, side, rest : /\ n = Head(queue)[1] /\ side = Head(queue)[2]
                             /\ rest = Tail(queue)
    OBVIOUS
  <1>3. /\ n \notin known
        /\ \/ Cardinality(known) >= dag.nodeLimit
           \/ edges + Len(dag.graph[n]) > dag.edgeLimit
    BY <1>2 DEF LimitExceeded, NodeLimitMet, EdgeLimitMet
  <1>4. /\ DagOK(dag) /\ WalkOK(dag, queue, known, reach, edges)
        /\ FirstQueued(queue, n, side, rest)
    BY <1>1, <1>2, FirstOfQueue
  <1>5. ~WithinLimits(dag, Both(dag))
    BY <1>3, <1>4, LimitFacts
  <1>6. QED
    BY <1>1, <1>4, <1>5 DEF DagInv

LEMMA VisitStep ==
  ASSUME DagInv, Visit
  PROVE  DagInv'
  <1>1. /\ walk = "walk" /\ queue # << >>
        /\ UNCHANGED <<dag, walk, children, under, nonBest>>
    BY DEF Visit
  <1>2. PICK n, side, rest : /\ n = Head(queue)[1] /\ side = Head(queue)[2]
                             /\ rest = Tail(queue)
    OBVIOUS
  <1>3. /\ side \notin reach[n] => ~NodeLimitMet(n) /\ ~EdgeLimitMet(n)
        /\ queue' = rest \o IF side \in reach[n] THEN << >>
                            ELSE [i \in DOMAIN Followed(n) |-> <<Followed(n)[i], side>>]
        /\ known' = known \cup {n}
        /\ reach' = [reach EXCEPT ![n] = @ \cup {side}]
        /\ edges' = IF n \in known THEN edges ELSE edges + Len(dag.graph[n])
    BY <1>2 DEF Visit
  <1>4. Followed(n) = FollowedIn(dag.graph, n)
    BY OfThisGraph
  <1>5. /\ DagOK(dag) /\ WalkOK(dag, queue, known, reach, edges)
        /\ FirstQueued(queue, n, side, rest) /\ under = {} /\ nonBest = {}
    BY <1>1, <1>2, FirstOfQueue
  <1>6. WalkOK(dag, queue', known', reach', edges')
    <2>1. CASE side \in reach[n]
      <3>1. /\ n \in known
            /\ WalkOK(dag, rest \o << >>, known \cup {n},
                      [reach EXCEPT ![n] = @ \cup {side}], edges)
        BY <1>5, <2>1, VisitSeen
      <3>2. queue' = rest \o << >> /\ edges' = edges
        BY <1>3, <2>1, <3>1
      <3>3. QED
        BY <1>3, <3>1, <3>2
    <2>2. CASE side \notin reach[n]
      <3>1. /\ n \notin known => Cardinality(known) < dag.nodeLimit
            /\ n \notin known => edges + Len(dag.graph[n]) <= dag.edgeLimit
        <4>1. /\ n \notin known => ~(Cardinality(known) >= dag.nodeLimit)
              /\ n \notin known => ~(edges + Len(dag.graph[n]) > dag.edgeLimit)
          BY <1>3, <2>2 DEF NodeLimitMet, EdgeLimitMet
        <4>2. /\ Cardinality(known) \in Nat /\ dag.nodeLimit \in Nat /\ dag.edgeLimit \in Nat
              /\ edges \in Nat
          BY <1>5, KnownFacts, BothFacts DEF WalkOK
        <4>3. Len(dag.graph[n]) \in Nat
          <5>1. n \in DOMAIN dag.graph /\ dag.graph \in Graphs
            BY <1>5, HeadFacts, BothFacts
          <5>2. QED
            BY <5>1, ParentFacts
        <4>4. QED
          BY <4>1, <4>2, <4>3
      <3>2. queue' = rest \o [i \in DOMAIN FollowedIn(dag.graph, n) |->
                                <<FollowedIn(dag.graph, n)[i], side>>]
        BY <1>3, <1>4, <2>2
      <3>3. WalkOK(dag, rest \o [i \in DOMAIN FollowedIn(dag.graph, n) |->
                                   <<FollowedIn(dag.graph, n)[i], side>>],
                   known \cup {n}, [reach EXCEPT ![n] = @ \cup {side}],
                   IF n \in known THEN edges
                   ELSE edges + Len(dag.graph[n]))
        BY <1>5, <3>1, VisitNew
      <3>4. QED
        BY <1>3, <3>2, <3>3
    <2>3. QED
      BY <2>1, <2>2
  <1>7. QED
    BY <1>1, <1>5, <1>6 DEF DagInv

LEMMA EndWalkStep ==
  ASSUME DagInv, EndWalk
  PROVE  DagInv'
  <1>1. /\ walk = "walk" /\ queue = << >> /\ walk' = "order"
        /\ children' = [n \in Nodes |-> Cardinality({m \in known : n \in Parents(m)})]
        /\ UNCHANGED <<dag, queue, known, reach, edges, under, nonBest>>
    BY DEF EndWalk
  <1>2. DagOK(dag) /\ WalkOK(dag, queue, known, reach, edges) /\ under = {} /\ nonBest = {}
    BY <1>1 DEF DagInv
  <1>3. ReachedWhole(dag, reach) /\ known = Both(dag) /\ WithinLimits(dag, Both(dag))
    BY <1>1, <1>2, WalkEnded
  <1>4. children' = [n \in DOMAIN dag.graph |->
                       Cardinality({m \in known : n \in ParentsIn(dag.graph, m)})]
    BY <1>1, OfThisGraph
  <1>5. OrderOK(dag, known, children', {}, {})
    BY <1>2, <1>3, <1>4, OrderBegun
  <1>6. QED
    BY <1>1, <1>2, <1>3, <1>5 DEF DagInv

LEMMA ProcessStep ==
  ASSUME DagInv, Process
  PROVE  DagInv'
  <1>1. /\ walk = "order" /\ Ready # {}
        /\ UNCHANGED <<dag, walk, queue, reach, edges>>
    BY DEF Process
  <1>2. /\ DagOK(dag) /\ WithinLimits(dag, Both(dag)) /\ ReachedWhole(dag, reach)
        /\ OrderOK(dag, known, children, under, nonBest)
    BY <1>1 DEF DagInv
  <1>3. PICK n : n = Least(Ready)
    OBVIOUS
  <1>4. n \in known /\ children[n] = 0
    <2>1. known \subseteq Nat
      BY <1>2, OrderFacts, GraphFacts
    <2>2. Ready \in SUBSET Nat
      BY <2>1 DEF Ready
    <2>3. \E m \in Ready : \A k \in Ready : m <= k
      BY <1>1, <2>2, LeastElement
    <2>4. n \in Ready
      BY <1>3, <2>3 DEF Least
    <2>5. QED
      BY <2>4 DEF Ready
  <1>5. /\ Parents(n) = ParentsIn(dag.graph, n) /\ Nodes = DOMAIN dag.graph
        /\ Common = CommonIn(dag)
    BY <1>2, OfThisGraph, CommonReached
  <1>6. /\ known' = known \ {n}
        /\ children' = [m \in DOMAIN dag.graph |->
              IF m \in ParentsIn(dag.graph, n) THEN children[m] - 1 ELSE children[m]]
        /\ under' = IF n \in CommonIn(dag) \cup under
                    THEN under \cup ParentsIn(dag.graph, n) ELSE under
        /\ nonBest' = IF n \in CommonIn(dag) \cup under
                      THEN nonBest \cup (ParentsIn(dag.graph, n) \cap CommonIn(dag)) ELSE nonBest
    BY <1>3, <1>5 DEF Process
  <1>7. children' = [m \in DOMAIN dag.graph |->
                       Cardinality(ChildrenIn(dag, known \ {n}, m))]
    BY <1>2, <1>4, <1>6, RevisionTaken
  <1>8. OrderOK(dag, known', children', under', nonBest')
    <2>1. CASE n \in CommonIn(dag) \cup under
      <3>1. OrderOK(dag, known \ {n}, children', under \cup ParentsIn(dag.graph, n),
                    nonBest \cup (ParentsIn(dag.graph, n) \cap CommonIn(dag)))
        BY <1>2, <1>4, <1>7, <2>1, ProcessPassing
      <3>2. QED
        BY <1>6, <2>1, <3>1
    <2>2. CASE n \notin CommonIn(dag) \cup under
      <3>1. OrderOK(dag, known \ {n}, children', under, nonBest)
        BY <1>2, <1>4, <1>7, <2>2, ProcessOther
      <3>2. QED
        BY <1>6, <2>2, <3>1
    <2>3. QED
      BY <2>1, <2>2
  <1>9. QED
    BY <1>1, <1>2, <1>8 DEF DagInv

LEMMA EndOrderStep ==
  ASSUME DagInv, EndOrder
  PROVE  DagInv'
  <1>1. /\ walk = "order" /\ Ready = {}
        /\ UNCHANGED <<dag, queue, known, reach, edges, children, under, nonBest>>
    BY DEF EndOrder
  <1>2. /\ DagOK(dag) /\ WithinLimits(dag, Both(dag)) /\ ReachedWhole(dag, reach)
        /\ OrderOK(dag, known, children, under, nonBest)
    BY <1>1 DEF DagInv
  <1>3. known = {}
    BY <1>1, <1>2, SomethingReady DEF Ready
  <1>4. Common # {}
    BY <1>2, <1>3, OrderEnded, CommonReached
  <1>5. walk' = "found"
    BY <1>3, <1>4 DEF EndOrder
  <1>6. QED
    BY <1>1, <1>2, <1>3, <1>5 DEF DagInv

LEMMA DagInvStep == DagInv /\ [DagNext]_dagVars => DagInv'
  <1> SUFFICES ASSUME DagInv, [DagNext]_dagVars PROVE DagInv'
    OBVIOUS
  <1>1. CASE UNCHANGED dagVars
    BY <1>1 DEF dagVars, DagInv
  <1>2. QED
    BY <1>1, LimitExceededStep, VisitStep, EndWalkStep, ProcessStep, EndOrderStep DEF DagNext

\* The bounded walk and the topological pass of analyze_common_ancestors end with
\* exactly the best common ancestors, of any two revisions of any history, or with
\* a limit that the two histories together really exceed; they never meet a cycle,
\* nor two revisions of one history without a common ancestor.
THEOREM BasesAreExact == DagSpec => []MergeBasesExact
  <1>1. DagInv => MergeBasesExact
    <2> SUFFICES ASSUME DagInv PROVE MergeBasesExact
      OBVIOUS
    <2>1. ASSUME walk = "found"
          PROVE  Fits /\ Common \ nonBest = MergeBases
      <3>1. /\ DagOK(dag) /\ WithinLimits(dag, Both(dag)) /\ ReachedWhole(dag, reach)
            /\ OrderOK(dag, {}, children, under, nonBest)
        BY <2>1 DEF DagInv
      <3>2. Common = CommonIn(dag) /\ Shared = CommonIn(dag)
        BY <3>1, CommonReached, OfThisGraph
      <3>3. CommonIn(dag) \ nonBest =
              {n \in CommonIn(dag) :
                 ~\E m \in CommonIn(dag) \ {n} : n \in HistoryIn(dag.graph, m)}
        BY <3>1, OrderEnded
      <3>4. MergeBases = {n \in CommonIn(dag) :
                            ~\E m \in CommonIn(dag) \ {n} : n \in HistoryIn(dag.graph, m)}
        BY <3>2, OfThisGraph DEF MergeBases
      <3>5. QED
        BY <3>1, <3>2, <3>3, <3>4, OfThisGraph
    <2>2. walk = "limit" => ~Fits
      BY OfThisGraph DEF DagInv
    <2>3. QED
      BY <2>1, <2>2 DEF DagInv, MergeBasesExact
  <1>2. QED
    BY <1>1, DagInvInit, DagInvStep, PTL DEF DagSpec

------------------------------------------------------------------------------
(* Views of branches                                                        *)

\* Every branch has committed its head, after all that it committed before.
HeadsAreLatest ==
  \A k \in Keys : heads[k] # NoRev =>
     /\ <<revs[heads[k]].project, revs[heads[k]].branch>> = k
     /\ \A r \in RevIds : <<revs[r].project, revs[r].branch>> = k => r <= heads[k]

Repository ==
  /\ LogInv
  /\ SnapshotProvenance
  /\ Len(revs) <= MaxRevs
  /\ MergesExact
  /\ HeadsAreLatest

Catalogs == UNION {[K -> Nat] : K \in SUBSET Keys}

Previews == Keys \X Nat \X Nat

Readers ==
  [pc : {"idle", "target", "source", "final", "done"}, kind : ViewKinds, target : Keys,
   selected : Seq(Keys), catalog : Catalogs, todo : Seq(Keys), left : Nat,
   previews : Seq(Previews), state : Snapshots \cup {<< >>}, steps : Seq(Snapshots),
   from : Nat, to : Nat]

Reports ==
  [kind : ViewKinds, target : Keys, catalog : Catalogs, previews : Seq(Previews),
   steps : Seq(Snapshots), from : Nat, to : Nat]

\* A preview shows the heads of the catalog or later ones; those of a page are
\* compared with it.
PreviewOK(w, p) ==
  /\ p \in Previews /\ p[1] \in DOMAIN w.catalog
  /\ w.catalog[w.target] <= p[2] /\ p[2] <= heads[w.target]
  /\ w.catalog[p[1]] <= p[3] /\ p[3] <= heads[p[1]]
  /\ w.kind \in {"queue", "impact"} => p[2] = w.catalog[w.target] /\ p[3] = w.catalog[p[1]]

\* Every step of a train merges a source into the one before it.
StepsOK(target, previews, steps) ==
  /\ target \in RevIds
  /\ steps \in Seq(Snapshots)
  /\ \A s \in 1 .. Len(steps) :
       /\ previews[s][3] \in RevIds
       /\ \E base \in RevIds :
            /\ BestCommonAncestors(target, previews[s][3]) = {base}
            /\ steps[s] = MergeInto(IF s = 1 THEN revs[target].snap ELSE steps[s - 1],
                                    base, previews[s][3], s)

TrainOK(w) ==
  /\ StepsOK(w.catalog[w.target], w.previews, w.steps)
  /\ w.state = (IF w.steps = << >> THEN revs[w.catalog[w.target]].snap ELSE Last(w.steps))
  /\ Len(w.steps) <= Len(w.previews)
  /\ w.pc \in {"target", "source"} => Len(w.steps) = Len(w.previews)

\* The catalog is what the heads were when it was captured.
CatalogOK(catalog, from) ==
  /\ DOMAIN catalog \subseteq Keys
  /\ from \in RevIds
  /\ \A k \in DOMAIN catalog : /\ catalog[k] \in RevIds
                               /\ catalog[k] = HeadAt(k, from)
                               /\ catalog[k] <= heads[k]

ReadingOK(w) ==
  /\ CatalogOK(w.catalog, w.from)
  /\ w.target \in DOMAIN w.catalog
  /\ w.todo \in Seq(DOMAIN w.catalog)
  /\ \A i \in 1 .. Len(w.previews) : PreviewOK(w, w.previews[i])
  /\ w.pc \in {"target", "source"} => w.todo # << >>
  /\ w.pc = "source" =>
       w.catalog[w.target] <= w.left /\ w.left <= heads[w.target]
  /\ w.kind = "train" => TrainOK(w)
  /\ w.pc = "done" /\ w.kind \in {"preflights", "train"} =>
       /\ w.to \in RevIds /\ w.from <= w.to
       /\ \A i \in 1 .. Len(w.previews) : LET p == w.previews[i] IN
            p[2] = HeadAt(w.target, w.to) /\ p[3] = HeadAt(p[1], w.to)

ReaderOK(w) == w \in Readers /\ (w.pc # "idle" => ReadingOK(w))

ViewOK(v) ==
  /\ v.from \in RevIds /\ v.to \in RevIds /\ v.from <= v.to
  /\ \A i \in 1 .. Len(v.previews) : LET p == v.previews[i]
       n == IF v.kind \in {"preflights", "train"} THEN v.to ELSE v.from IN
              p[2] = HeadAt(v.target, n) /\ p[3] = HeadAt(p[1], n)
  /\ v.kind = "train" => StepsOK(v.catalog[v.target], v.previews, v.steps)

ViewsInv ==
  /\ Repository
  /\ ReaderOK(reader)
  /\ views \in Seq(Reports)
  /\ \A i \in 1 .. Len(views) : ViewOK(views[i])

------------------------------------------------------------------------------
(* Ancestry                                                                 *)

\* A common ancestor that all others are in the history of is the only best one.
LEMMA OnlyBase ==
  ASSUME LogInv, NEW left \in RevIds, NEW right \in RevIds, NEW base,
         BestCommonAncestors(left, right) = {base},
         NEW t \in Ancestors(left) \cap Ancestors(right),
         Ancestors(left) \cap Ancestors(right) \subseteq Ancestors(t)
  PROVE  base = t
  <1>1. t \in RevIds
    BY AncestryFacts
  <1>2. /\ base \in Ancestors(left) \cap Ancestors(right)
        /\ \A d \in (Ancestors(left) \cap Ancestors(right)) \ {base} : ~InHistory(base, d)
    BY DEF BestCommonAncestors
  <1>3. InHistory(base, t)
    BY <1>1, <1>2, AncestryFacts
  <1>4. QED
    BY <1>2, <1>3

\* The bases of a merge depend on the common history alone.
LEMMA SameCommonSameBases ==
  ASSUME NEW l1, NEW r1, NEW l2, NEW r2,
         Ancestors(l1) \cap Ancestors(r1) = Ancestors(l2) \cap Ancestors(r2)
  PROVE  BestCommonAncestors(l1, r1) = BestCommonAncestors(l2, r2)
  BY DEF BestCommonAncestors

------------------------------------------------------------------------------
(* Sources published one after the other into a branch                      *)

Under(h, c, s) == IF s = 1 THEN h ELSE c[s - 1]

\* c is the chain of the merges of sources src into h.
ChainOf(h, c, src, n) ==
  /\ n \in Nat
  /\ h \in RevIds
  /\ c \in [1 .. n -> RevIds]
  /\ src \in [1 .. n -> RevIds]
  /\ \A s \in 1 .. n : /\ revs[c[s]].parent1 = Under(h, c, s)
                       /\ revs[c[s]].parent2 = src[s]

\* What a revision of a chain has for parents is in the log.
LEMMA UnderExists ==
  ASSUME NEW h, NEW c, NEW src, NEW n, ChainOf(h, c, src, n), NEW s \in 1 .. n
  PROVE  Under(h, c, s) \in RevIds /\ Under(h, c, s) # NoRev /\ src[s] # NoRev
         /\ c[s] \in RevIds /\ src[s] \in RevIds
  <1>1. s # 1 => s - 1 \in 1 .. n
    BY DEF ChainOf
  <1>2. Under(h, c, s) \in RevIds /\ src[s] \in RevIds /\ c[s] \in RevIds
    BY <1>1 DEF ChainOf, Under
  <1>3. QED
    BY <1>2 DEF RevIds, NoRev

\* A merge of the chain holds the target, and the merges and sources up to it.
LEMMA ChainHolds ==
  ASSUME LogInv, NEW h, NEW c, NEW src, NEW n, ChainOf(h, c, src, n), NEW s \in 1 .. n
  PROVE  /\ h \in Ancestors(c[s])
         /\ \A j \in 1 .. s : c[j] \in Ancestors(c[s]) /\ src[j] \in Ancestors(c[s])
  <1>1. c[s] \in Ancestors(c[s]) /\ AncestryClosed(Ancestors(c[s]))
    BY UnderExists, AncestryFacts
  <1>2. \A j \in 1 .. n : c[j] \in Ancestors(c[s]) =>
           Under(h, c, j) \in Ancestors(c[s]) /\ src[j] \in Ancestors(c[s])
    <2>1. SUFFICES ASSUME NEW j \in 1 .. n, c[j] \in Ancestors(c[s])
                   PROVE  Under(h, c, j) \in Ancestors(c[s]) /\ src[j] \in Ancestors(c[s])
      OBVIOUS
    <2>2. /\ revs[c[j]].parent1 = Under(h, c, j) /\ revs[c[j]].parent2 = src[j]
          /\ Under(h, c, j) # NoRev /\ src[j] # NoRev
      BY UnderExists DEF ChainOf
    <2>3. {revs[c[j]].parent1, revs[c[j]].parent2} \ {NoRev} \subseteq Ancestors(c[s])
      BY <1>1, <2>1 DEF AncestryClosed
    <2>4. QED
      BY <2>2, <2>3
  <1> DEFINE S == {j \in 1 .. s : c[j] \notin Ancestors(c[s])}
  <1>3. S = {}
    <2>1. SUFFICES ASSUME S # {} PROVE FALSE
      OBVIOUS
    <2>2. PICK m \in S : \A k \in S : k <= m
      <3>1. s \in Nat /\ S \in SUBSET (1 .. s)
        BY DEF ChainOf
      <3> HIDE DEF S
      <3>2. QED
        BY <2>1, <3>1, GreatestElement
    <2>3. m # s
      BY <1>1, <2>2
    <2>4. m + 1 \in 1 .. s /\ m + 1 \in 1 .. n /\ m + 1 # 1 /\ (m + 1) - 1 = m
      BY <2>2, <2>3 DEF ChainOf
    <2>5. c[m + 1] \in Ancestors(c[s])
      <3>1. ~(m + 1 <= m)
        BY <2>4
      <3>2. QED
        BY <2>2, <2>4, <3>1
    <2>6. Under(h, c, m + 1) = c[m]
      BY <2>4 DEF Under
    <2>7. QED
      BY <1>2, <2>2, <2>4, <2>5, <2>6
  <1>4. \A j \in 1 .. s : j \in 1 .. n /\ c[j] \in Ancestors(c[s])
    BY <1>3 DEF ChainOf
  <1>5. 1 \in 1 .. s /\ Under(h, c, 1) = h
    BY DEF ChainOf, Under
  <1>6. QED
    BY <1>2, <1>4, <1>5

\* It holds nothing else.
LEMMA ChainHoldsOnly ==
  ASSUME LogInv, NEW h, NEW c, NEW src, NEW n, ChainOf(h, c, src, n), NEW s \in 1 .. n
  PROVE  \A x \in Ancestors(c[s]) : \/ x \in Ancestors(h)
                                    \/ \E j \in 1 .. s : x = c[j] \/ x \in Ancestors(src[j])
  <1> DEFINE T == {x \in RevIds : \/ x \in Ancestors(h)
                                  \/ \E j \in 1 .. s : x = c[j] \/ x \in Ancestors(src[j])}
  <1>1. s \in 1 .. s /\ \A j \in 1 .. s : j \in 1 .. n
    BY DEF ChainOf
  <1>2. c[s] \in T
    BY <1>1, UnderExists
  <1>3. AncestryClosed(T)
    <2>1. SUFFICES ASSUME NEW x \in T,
                          NEW p \in {revs[x].parent1, revs[x].parent2} \ {NoRev}
                   PROVE  p \in T
      BY DEF AncestryClosed
    <2>2. p \in RevIds
      BY <2>1, ParentsExist
    <2>3. CASE x \in Ancestors(h)
      <3>1. AncestryClosed(Ancestors(h))
        BY AncestryFacts DEF ChainOf
      <3>2. QED
        BY <2>1, <2>2, <2>3, <3>1 DEF AncestryClosed
    <2>4. ASSUME NEW j \in 1 .. s, x \in Ancestors(src[j])
          PROVE  p \in T
      <3>1. AncestryClosed(Ancestors(src[j]))
        BY <1>1, AncestryFacts, UnderExists
      <3>2. QED
        BY <2>1, <2>2, <2>4, <3>1 DEF AncestryClosed
    <2>5. ASSUME NEW j \in 1 .. s, x = c[j]
          PROVE  p \in T
      <3>1. p \in {Under(h, c, j), src[j]}
        BY <1>1, <2>1, <2>5 DEF ChainOf
      <3>2. CASE p = src[j]
        BY <1>1, <2>2, <3>2, AncestryFacts
      <3>3. CASE p = Under(h, c, j) /\ j = 1
        BY <2>2, <3>3, AncestryFacts DEF Under
      <3>4. CASE p = Under(h, c, j) /\ j # 1
        <4>1. j - 1 \in 1 .. s
          BY <3>4 DEF ChainOf
        <4>2. p = c[j - 1]
          BY <3>4 DEF Under
        <4>3. QED
          BY <2>2, <4>1, <4>2
      <3>5. QED
        BY <3>1, <3>2, <3>3, <3>4
    <2>6. QED
      BY <2>1, <2>3, <2>4, <2>5
  <1>4. Ancestors(c[s]) \subseteq T
    <2>1. T \in SUBSET RevIds /\ c[s] \in RevIds
      BY UnderExists
    <2> HIDE DEF T
    <2>2. QED
      BY <1>2, <1>3, <2>1, AncestryFacts
  <1>5. QED
    BY <1>4

\* What a merge was made of.
LEMMA MergeMade ==
  ASSUME MergesExact, NEW r \in RevIds, NEW p, NEW q,
         revs[r].parent1 = p, revs[r].parent2 = q, q # NoRev
  PROVE  \E base \in RevIds :
           /\ BestCommonAncestors(p, q) = {base}
           /\ revs[r].snap = Stamp(ThreeWay(revs[base].snap, revs[p].snap, revs[q].snap),
                                   BothChanged(revs[base].snap, revs[p].snap, revs[q].snap), r)
  BY DEF MergesExact, MergedFrom

\* Merging what the target has already changes nothing.
LEMMA NothingNew ==
  ASSUME LogInv, MergesExact, NEW h, NEW c, NEW src, NEW n, ChainOf(h, c, src, n),
         NEW i \in 1 .. n, \A j \in 1 .. i : src[j] \in Ancestors(h)
  PROVE  revs[c[i]].snap = revs[h].snap
  <1> DEFINE S == {j \in 1 .. i : revs[c[j]].snap # revs[h].snap}
  <1>1. SUFFICES ASSUME S # {} PROVE FALSE
    BY DEF ChainOf
  <1>2. PICK m \in S : \A k \in S : m <= k
    <2>1. S \in SUBSET Nat
      BY DEF ChainOf
    <2> HIDE DEF S
    <2>2. QED
      BY <1>1, <2>1, LeastElement
  <1>3. m \in 1 .. i /\ m \in 1 .. n /\ (m # 1 => m - 1 \in 1 .. i /\ m - 1 \in 1 .. n)
    BY <1>2 DEF ChainOf
  <1> DEFINE q == Under(h, c, m)
             t == revs[src[m]].snap
             o == revs[q].snap
  <1>4. q \in RevIds /\ src[m] \in RevIds /\ c[m] \in RevIds /\ src[m] # NoRev
        /\ revs[c[m]].parent1 = q /\ revs[c[m]].parent2 = src[m]
    <2>1. m \in 1 .. n
      BY <1>3
    <2> HIDE DEF S
    <2>2. /\ q \in RevIds /\ src[m] \in RevIds /\ c[m] \in RevIds
          /\ src[m] # NoRev
      BY <2>1, UnderExists
    <2>3. revs[c[m]].parent1 = q /\ revs[c[m]].parent2 = src[m]
      BY <2>1, Zenon DEF ChainOf
    <2>4. QED
      BY <2>2, <2>3
  <1>5. o = revs[h].snap
    <2>1. CASE m = 1
      BY <2>1 DEF Under
    <2>2. CASE m # 1
      <3>1. ~(m <= m - 1)
        BY <1>3
      <3>2. QED
        BY <1>2, <1>3, <2>2, <3>1 DEF Under
    <2>3. QED
      BY <2>1, <2>2
  <1>6. h \in Ancestors(q)
    <2>1. CASE m = 1
      BY <2>1, AncestryFacts DEF Under, ChainOf
    <2>2. CASE m # 1
      BY <1>3, <2>2, ChainHolds DEF Under
    <2>3. QED
      BY <2>1, <2>2
  <1>7. src[m] \in Ancestors(q)
    BY <1>3, <1>4, <1>6, AncestryFacts
  <1> HIDE DEF q
  <1>8. PICK base \in RevIds :
          /\ BestCommonAncestors(q, src[m]) = {base}
          /\ revs[c[m]].snap = Stamp(ThreeWay(revs[base].snap, o, t),
                                     BothChanged(revs[base].snap, o, t), c[m])
    BY <1>4, MergeMade
  <1>9. base = src[m]
    <2>1. src[m] \in Ancestors(q) \cap Ancestors(src[m])
      BY <1>4, <1>7, AncestryFacts
    <2>2. Ancestors(q) \cap Ancestors(src[m]) \subseteq Ancestors(src[m])
      OBVIOUS
    <2>3. QED
      BY <1>4, <1>8, <2>1, <2>2, OnlyBase
  <1>10. t \in Snapshots /\ o \in Snapshots
    BY <1>4, RevisionType DEF LogInv
  <1>11. BothChanged(t, o, t) = {}
    BY DEF BothChanged
  <1>12. Stamp(ThreeWay(t, o, t), {}, c[m]) = o
    BY <1>10 DEF Stamp, ThreeWay, Snapshots
  <1>13. revs[c[m]].snap = o
    BY <1>8, <1>9, <1>11, <1>12
  <1>14. QED
    BY <1>2, <1>5, <1>13

\* When no two sources share what the target does not have, the base from which
\* a source is merged into the chain holds the same texts as the base from
\* which the train merged it.
LEMMA SameBaseTexts ==
  ASSUME LogInv, MergesExact, NEW h, NEW c, NEW src, NEW n, ChainOf(h, c, src, n),
         Independent(h, src), NEW s \in 1 .. n, NEW b \in RevIds, NEW d \in RevIds,
         BestCommonAncestors(h, src[s]) = {b},
         BestCommonAncestors(Under(h, c, s), src[s]) = {d}
  PROVE  revs[d].snap = revs[b].snap
  <1> DEFINE q == Under(h, c, s)
             Inside == {j \in 1 .. s : j # s /\ c[j] \in Ancestors(src[s])}
  <1>1. /\ h \in RevIds /\ q \in RevIds /\ src[s] \in RevIds /\ DOMAIN src = 1 .. n /\ n \in Nat
        /\ \A j \in 1 .. s : j \in 1 .. n /\ src[j] \in RevIds /\ c[j] \in RevIds
        /\ s # 1 => s - 1 \in 1 .. n /\ q = c[s - 1]
        /\ s = 1 => q = h
    BY UnderExists DEF ChainOf, Under
  <1>2. \A j \in 1 .. s : j # s => j \in 1 .. (s - 1) /\ s # 1
    BY <1>1
  <1>3. h \in Ancestors(q)
    BY <1>1, ChainHolds, AncestryFacts
  <1>4. \A j \in 1 .. s : j # s => Ancestors(src[j]) \cap Ancestors(src[s]) \subseteq Ancestors(h)
    BY <1>1 DEF Independent
  <1>5. ASSUME NEW x \in Ancestors(q) \cap Ancestors(src[s])
        PROVE  x \in Ancestors(h) \/ \E j \in Inside : x = c[j]
    <2>1. CASE s = 1
      BY <1>1, <1>5, <2>1
    <2>2. CASE s # 1
      <3>1. s - 1 \in 1 .. n /\ \A j \in 1 .. (s - 1) : j \in 1 .. s /\ j # s
        BY <1>1, <2>2
      <3>2. \/ x \in Ancestors(h)
            \/ \E j \in 1 .. (s - 1) : x = c[j] \/ x \in Ancestors(src[j])
        BY <1>1, <1>5, <2>2, <3>1, ChainHoldsOnly
      <3>3. QED
        BY <1>4, <1>5, <3>1, <3>2
    <2>3. QED
      BY <2>1, <2>2
  <1>6. CASE Inside = {}
    <2>1. Ancestors(h) \subseteq Ancestors(q)
      BY <1>1, <1>3, AncestryFacts
    <2>2. Ancestors(q) \cap Ancestors(src[s]) = Ancestors(h) \cap Ancestors(src[s])
      BY <1>5, <1>6, <2>1
    <2>3. BestCommonAncestors(q, src[s]) = BestCommonAncestors(h, src[s])
      BY <2>2, SameCommonSameBases
    <2>4. QED
      BY <2>3
  <1>7. CASE Inside # {}
    <2>1. PICK i \in Inside : \A k \in Inside : k <= i
      <3>1. s \in Nat /\ Inside \in SUBSET (1 .. s)
        BY <1>1
      <3> HIDE DEF Inside
      <3>2. QED
        BY <1>7, <3>1, GreatestElement
    <2>2. /\ i \in 1 .. n /\ c[i] \in RevIds /\ i \in 1 .. (s - 1) /\ s # 1
          /\ s - 1 \in 1 .. n /\ q = c[s - 1]
          /\ \A j \in 1 .. i : j \in 1 .. s /\ j # s /\ j \in 1 .. n
      BY <1>1, <1>2, <2>1
    <2>3. Ancestors(c[i]) \subseteq Ancestors(src[s]) /\ c[i] \in Ancestors(src[s])
      BY <1>1, <2>1, AncestryFacts
    <2>4. /\ h \in Ancestors(c[i])
          /\ \A j \in 1 .. i : c[j] \in Ancestors(c[i]) /\ src[j] \in Ancestors(c[i])
      BY <2>2, ChainHolds
    <2>5. \A j \in 1 .. i : src[j] \in Ancestors(h)
      <3>1. \A j \in 1 .. i : src[j] \in Ancestors(src[j])
        BY <1>1, <2>2, AncestryFacts
      <3>2. QED
        BY <1>4, <2>2, <2>3, <2>4, <3>1
    <2>6. revs[c[i]].snap = revs[h].snap
      BY <2>2, <2>5, NothingNew
    <2>7. b = h
      <3>1. h \in Ancestors(h) \cap Ancestors(src[s])
        BY <1>1, <2>3, <2>4, AncestryFacts
      <3>2. Ancestors(h) \cap Ancestors(src[s]) \subseteq Ancestors(h)
        OBVIOUS
      <3>3. QED
        BY <1>1, <3>1, <3>2, OnlyBase
    <2>8. d = c[i]
      <3>1. c[i] \in Ancestors(q) \cap Ancestors(src[s])
        BY <2>2, <2>3, ChainHolds
      <3>2. Ancestors(h) \subseteq Ancestors(c[i])
        BY <2>2, <2>4, AncestryFacts
      <3>3. \A j \in Inside : j \in 1 .. i
        BY <1>1, <2>1, <2>2
      <3>4. Ancestors(q) \cap Ancestors(src[s]) \subseteq Ancestors(c[i])
        BY <1>5, <2>4, <3>2, <3>3
      <3>5. BestCommonAncestors(q, src[s]) = {d}
        OBVIOUS
      <3>6. q \in RevIds /\ src[s] \in RevIds
        BY <1>1
      <3> HIDE DEF q, Inside
      <3>7. ASSUME NEW t \in Ancestors(q) \cap Ancestors(src[s]),
                   Ancestors(q) \cap Ancestors(src[s]) \subseteq Ancestors(t)
            PROVE  d = t
        BY <3>5, <3>6, <3>7, OnlyBase
      <3>8. QED
        BY <3>1, <3>4, <3>7
    <2>9. QED
      BY <2>6, <2>7, <2>8
  <1>8. QED
    BY <1>6, <1>7

\* No revision holds a text that only a train has.
LEMMA TextsReal ==
  ASSUME Repository, NEW r \in RevIds, NEW m \in Modules
  PROVE  revs[r].snap[m] \in Nat /\ revs[r].snap[m] <= MaxRevs
  <1>1. revs[r].snap[m] \in Nat /\ Len(revs) \in Nat /\ MaxRevs \in Nat
    BY RevisionType, ConstantsAssumption DEF Repository, LogInv, LogTypeOK, Snapshots
  <1>2. revs[r].snap[m] # Absent => revs[r].snap[m] \in RevIds
    BY HistoryExists DEF Repository, SnapshotProvenance
  <1>3. QED
    BY <1>1, <1>2 DEF Repository, Absent, RevIds

\* One merge of texts foretells another from a base of the same texts.
LEMMA MergeForetells ==
  ASSUME Repository, NEW state, NEW q \in RevIds, NEW right \in RevIds, NEW b \in RevIds,
         NEW d \in RevIds, NEW n \in RevIds, NEW s \in Nat \ {0}, Foretold(state, q),
         state \in Snapshots, revs[d].snap = revs[b].snap,
         revs[n].snap = Stamp(ThreeWay(revs[d].snap, revs[q].snap, revs[right].snap),
                              BothChanged(revs[d].snap, revs[q].snap, revs[right].snap), n)
  PROVE  Foretold(MergeInto(state, b, right, s), n)
  <1> DEFINE x == revs[b].snap
             o == revs[q].snap
             t == revs[right].snap
             v == MergeInto(state, b, right, s)
  <1>1. SUFFICES ASSUME NEW m \in Modules
                 PROVE  v[m] <= MaxRevs => revs[n].snap[m] = v[m]
    BY DEF Foretold
  <1>2. /\ x[m] \in Nat /\ x[m] <= MaxRevs /\ t[m] \in Nat /\ t[m] <= MaxRevs /\ state[m] \in Nat
        /\ MaxRevs \in Nat
    BY TextsReal, ConstantsAssumption DEF Snapshots
  <1>3. state[m] <= MaxRevs => o[m] = state[m]
    BY DEF Foretold
  <1>4. v[m] = IF state[m] # x[m] /\ t[m] # x[m] /\ state[m] # t[m] THEN MaxRevs + s
               ELSE IF state[m] = x[m] THEN t[m] ELSE state[m]
    BY DEF MergeInto, BothChanged, ThreeWay, Virtual
  <1>5. revs[n].snap[m] = IF o[m] # x[m] /\ t[m] # x[m] /\ o[m] # t[m] THEN n
                          ELSE IF o[m] = x[m] THEN t[m] ELSE o[m]
    BY DEF Stamp, BothChanged, ThreeWay
  <1> HIDE DEF x, o, t, v
  <1>6. CASE state[m] <= MaxRevs
    <2>1. o[m] = state[m]
      BY <1>3, <1>6
    <2>2. QED
      BY <1>2, <1>4, <1>5, <2>1
  <1>7. CASE ~(state[m] <= MaxRevs)
    <2>1. state[m] # x[m] /\ state[m] # t[m]
      BY <1>2, <1>7
    <2>2. v[m] = MaxRevs + s \/ v[m] = state[m]
      BY <1>4, <2>1
    <2>3. QED
      BY <1>2, <1>7, <2>2
  <1>8. QED
    BY <1>6, <1>7

\* The steps of a train foretell every chain of the same merges.
LEMMA ChainForetold ==
  ASSUME Repository, NEW h, NEW previews, NEW steps, StepsOK(h, previews, steps),
         NEW c, NEW src, \A s \in 1 .. Len(steps) : src[s] = previews[s][3],
         ChainOf(h, c, src, Len(steps)), Independent(h, src)
  PROVE  \A s \in 1 .. Len(steps) : Foretold(steps[s], c[s])
  <1> DEFINE n == Len(steps)
             S == {s \in 1 .. n : ~Foretold(steps[s], c[s])}
  <1>1. SUFFICES ASSUME S # {} PROVE FALSE
    OBVIOUS
  <1>2. n \in Nat /\ h \in RevIds
    BY DEF StepsOK
  <1>3. PICK s \in S : \A k \in S : s <= k
    <2>1. S \in SUBSET Nat
      BY <1>2
    <2> HIDE DEF S
    <2>2. QED
      BY <1>1, <2>1, LeastElement
  <1>4. s \in 1 .. n /\ s \in Nat \ {0} /\ ~Foretold(steps[s], c[s])
        /\ (s # 1 => s - 1 \in 1 .. n /\ ~(s <= s - 1))
    BY <1>2, <1>3
  <1> DEFINE q == Under(h, c, s)
             state == IF s = 1 THEN revs[h].snap ELSE steps[s - 1]
  <1>5. PICK b \in RevIds : /\ BestCommonAncestors(h, src[s]) = {b}
                            /\ steps[s] = MergeInto(state, b, src[s], s)
    BY <1>4 DEF StepsOK
  <1>6. q \in RevIds /\ src[s] \in RevIds /\ c[s] \in RevIds /\ src[s] # NoRev
        /\ revs[c[s]].parent1 = q /\ revs[c[s]].parent2 = src[s]
    <2>1. /\ Under(h, c, s) \in RevIds /\ src[s] # NoRev
          /\ c[s] \in RevIds /\ src[s] \in RevIds
      BY <1>4, UnderExists
    <2>2. /\ revs[c[s]].parent1 = Under(h, c, s) /\ revs[c[s]].parent2 = src[s]
      BY <1>4 DEF ChainOf
    <2>3. QED
      BY <2>1, <2>2
  <1>7. Foretold(state, q) /\ state \in Snapshots
    <2>1. CASE s = 1
      BY <1>2, <2>1, RevisionType DEF Foretold, Under, Repository, LogInv
    <2>2. CASE s # 1
      <3>1. Foretold(steps[s - 1], c[s - 1]) /\ steps[s - 1] \in Snapshots
        BY <1>3, <1>4, <2>2 DEF StepsOK
      <3>2. QED
        BY <2>2, <3>1 DEF Under
    <2>3. QED
      BY <2>1, <2>2
  <1> HIDE DEF q, state, S
  <1>8. PICK d \in RevIds :
          /\ BestCommonAncestors(q, src[s]) = {d}
          /\ revs[c[s]].snap = Stamp(ThreeWay(revs[d].snap, revs[q].snap, revs[src[s]].snap),
                                     BothChanged(revs[d].snap, revs[q].snap, revs[src[s]].snap),
                                     c[s])
    <2>1. MergesExact
      BY DEF Repository
    <2>2. PICK left, right, d \in RevIds :
            /\ revs[c[s]].parent1 = left /\ revs[c[s]].parent2 = right
            /\ BestCommonAncestors(left, right) = {d}
            /\ revs[c[s]].snap = MergedFrom(d, left, right, c[s])
      BY <1>6, <2>1 DEF MergesExact
    <2>3. left = q /\ right = src[s]
      BY <1>6, <2>2
    <2>4. QED
      BY <2>2, <2>3 DEF MergedFrom
  <1>9. revs[d].snap = revs[b].snap
    BY <1>4, <1>5, <1>8, SameBaseTexts DEF Repository, q
  <1>10. Foretold(steps[s], c[s])
    BY <1>4, <1>5, <1>6, <1>7, <1>8, <1>9, MergeForetells
  <1>11. QED
    BY <1>4, <1>10

------------------------------------------------------------------------------
(* The repository while views are made *)

LogStep == Commit \/ UNCHANGED logVars

\* What everybody else does is one of the operations, and publishes a revision.
LEMMA CommitFacts ==
  ASSUME LogInv, Commit
  PROVE  LogNext /\ ExactStep
  <1>1. ASSUME NEW k \in Keys, NEW m \in Modules, WriteModule(k, m)
        PROVE  LogNext /\ ExactStep
    <2>1. heads[k] \in RevIds /\ revs[heads[k]].snap \in Snapshots
      BY <1>1, RevisionType DEF WriteModule, LogInv, ProjectClosed
    <2>2. {m} \in SUBSET Modules /\ {} \in SUBSET Contents
      OBVIOUS
    <2>3. QED
      BY <1>1, <2>1, <2>2, PlainIsExact DEF WriteModule, LogNext
  <1>2. ASSUME NEW k \in Keys, NEW source \in Keys, Merge(k, source)
        PROVE  LogNext /\ ExactStep
    BY <1>2, MergeIsExact DEF LogNext
  <1>3. QED
    BY <1>1, <1>2 DEF Commit

\* The log keeps what it holds while views are made, and the bases of what it holds.
LEMMA LogStepKeeps ==
  ASSUME Repository, LogStep
  PROVE  /\ [LogNext]_logVars
         /\ RevIds \subseteq RevIds'
         /\ \A r \in RevIds : revs'[r] = revs[r]
         /\ \A l, r \in RevIds : BestCommonAncestors(l, r)' = BestCommonAncestors(l, r)
         /\ \A k : \A n \in RevIds : HeadAt(k, n)' = HeadAt(k, n)
  <1>1. LogInv /\ [LogNext]_logVars
    BY CommitFacts DEF LogStep, Repository
  <1>2. RevIds \subseteq RevIds' /\ \A r \in RevIds : revs'[r] = revs[r]
    BY <1>1, RevisionsKept
  <1>3. \A l, r \in RevIds : BestCommonAncestors(l, r)' = BestCommonAncestors(l, r)
    BY <1>1, StepGrows, BasesStay
  <1>4. ASSUME NEW k, NEW n \in RevIds
        PROVE  HeadAt(k, n)' = HeadAt(k, n)
    <2>1. \A r \in 1 .. n : revs'[r] = revs[r]
      BY <1>1, <1>2 DEF RevIds, LogInv, LogTypeOK
    <2>2. {r \in 1 .. n : <<revs'[r].project, revs'[r].branch>> = k}
            = {r \in 1 .. n : <<revs[r].project, revs[r].branch>> = k}
      BY <2>1
    <2>3. QED
      BY <2>2 DEF HeadAt
  <1>5. QED
    BY <1>1, <1>2, <1>3, <1>4

\* Heads only move to later revisions, and what is committed last is the head.
LEMMA LogStepMoves ==
  ASSUME Repository, LogStep
  PROVE  /\ Len(revs) \in Nat /\ Len(revs') \in Nat /\ Len(revs) <= Len(revs')
         /\ \A k \in Keys : heads[k] \in Nat /\ heads[k] <= heads'[k]
         /\ HeadsAreLatest'
  <1>1. /\ LogInv /\ HeadsAreLatest
        /\ Len(revs) \in Nat /\ heads \in [Keys -> Nat]
        /\ \A k \in Keys : heads[k] # NoRev => heads[k] \in RevIds
    BY DEF Repository, LogInv, LogTypeOK, ProjectClosed
  <1>2. CASE UNCHANGED logVars
    <2>1. revs' = revs /\ heads' = heads /\ RevIds' = RevIds
      BY <1>2 DEF logVars, RevIds
    <2>2. QED
      BY <1>1, <2>1 DEF HeadsAreLatest
  <1>3. CASE Commit
    <2> DEFINE n == Len(revs) + 1
    <2>1. PICK k \in Keys, p2 \in RevIds \cup {NoRev}, snap \in Snapshots,
               written \in SUBSET Modules, extra \in SUBSET Contents :
            Publish(k, heads[k], p2, snap, written, extra)
      BY <1>1, <1>3, CommitFacts DEF ExactStep
    <2>2. /\ Len(revs') = n /\ RevIds' = RevIds \cup {n} /\ n \notin RevIds
          /\ revs'[n].project = k[1] /\ revs'[n].branch = k[2]
          /\ revs'[n].parent1 = heads[k] /\ revs'[n].parent2 = p2
          /\ heads' = [heads EXCEPT ![k] = n]
          /\ \A r \in RevIds : revs'[r] = revs[r]
      BY <1>1, <2>1, PublishFacts
    <2>3. heads[k] <= Len(revs) /\ \A r \in RevIds : r <= Len(revs)
      BY <1>1 DEF RevIds, NoRev
    <2>4. \A j \in Keys : heads[j] \in Nat /\ heads[j] <= heads'[j]
      <3>1. SUFFICES ASSUME NEW j \in Keys
                     PROVE  heads[j] \in Nat /\ heads[j] <= heads'[j]
        OBVIOUS
      <3>2. heads[j] \in Nat /\ heads'[j] = IF j = k THEN n ELSE heads[j]
        BY <1>1, <2>2
      <3>3. heads[k] < n
        BY <1>1, <2>3
      <3>4. QED
        BY <3>2, <3>3
    <2>5. HeadsAreLatest'
      <3>1. SUFFICES ASSUME NEW j \in Keys, heads'[j] # NoRev
                     PROVE  /\ <<revs'[heads'[j]].project, revs'[heads'[j]].branch>> = j
                            /\ \A r \in RevIds' :
                                 <<revs'[r].project, revs'[r].branch>> = j => r <= heads'[j]
        BY DEF HeadsAreLatest
      <3>2. CASE j = k
        <4>1. heads'[j] = n /\ j = <<k[1], k[2]>>
          BY <1>1, <2>2, <3>2 DEF Keys
        <4>2. n \in Nat /\ \A r \in RevIds \cup {n} : r <= n
          BY <1>1 DEF RevIds
        <4>3. QED
          BY <2>2, <4>1, <4>2
      <3>3. CASE j # k
        <4>1. heads'[j] = heads[j] /\ heads[j] \in RevIds /\ revs'[heads[j]] = revs[heads[j]]
          BY <1>1, <2>2, <3>1, <3>3
        <4>2. <<revs'[n].project, revs'[n].branch>> # j
          BY <2>2, <3>3 DEF Keys
        <4>3. QED
          BY <1>1, <2>2, <3>1, <4>1, <4>2 DEF HeadsAreLatest
      <3>4. QED
        BY <3>2, <3>3
    <2>6. QED
      BY <1>1, <2>2, <2>4, <2>5
  <1>4. QED
    BY <1>2, <1>3 DEF LogStep

\* The repository stays one that views may find.
LEMMA RepositoryStep ==
  ASSUME Repository, LogStep
  PROVE  Repository'
  <1>1. LogInv' /\ SnapshotProvenance'
    <2>1. LogInv /\ SnapshotProvenance /\ [LogNext]_logVars
      BY LogStepKeeps DEF Repository
    <2>2. QED
      BY <2>1, LogInvStep, SnapshotProvenanceStep
  <1>2. Len(revs') <= MaxRevs
    <2>1. CASE UNCHANGED logVars
      BY <2>1 DEF logVars, Repository
    <2>2. CASE Commit
      <3>1. Len(revs) < MaxRevs /\ Len(revs) \in Nat /\ MaxRevs \in Nat
        BY <2>2, LogStepMoves, ConstantsAssumption DEF Commit
      <3>2. Len(revs') = Len(revs) + 1
        <4>1. LogInv
          BY DEF Repository
        <4>2. PICK k \in Keys, p2 \in RevIds \cup {NoRev}, snap \in Snapshots,
                   written \in SUBSET Modules, extra \in SUBSET Contents :
                Publish(k, heads[k], p2, snap, written, extra)
          BY <2>2, <4>1, CommitFacts DEF ExactStep
        <4>3. QED
          BY <4>1, <4>2, PublishFacts
      <3>3. QED
        BY <3>1, <3>2
    <2>3. QED
      BY <2>1, <2>2 DEF LogStep
  <1>3. MergesExact'
    BY LogStepKeeps, MergesExactStep DEF Repository
  <1>4. QED
    BY <1>1, <1>2, <1>3, LogStepMoves DEF Repository

\* The largest of some numbers is what HeadAt takes.
LEMMA LargestIsMax ==
  ASSUME NEW S \in SUBSET Nat, NEW x \in S, \A y \in S : y <= x
  PROVE  Max(S) = x
  <1>1. \A y \in S : x >= y
    OBVIOUS
  <1>2. PICK m \in S : m = Max(S) /\ \A y \in S : m >= y
    BY <1>1 DEF Max
  <1>3. m >= x /\ x >= m /\ m \in Nat /\ x \in Nat
    BY <1>1, <1>2
  <1>4. QED
    BY <1>2, <1>3

\* Now the head of a branch is the last revision committed on it.
LEMMA HeadAtNow ==
  ASSUME Repository, NEW k \in Keys, heads[k] # NoRev
  PROVE  heads[k] \in RevIds /\ Len(revs) \in RevIds /\ HeadAt(k, Len(revs)) = heads[k]
  <1>1. heads[k] \in RevIds /\ Len(revs) \in Nat
    BY DEF Repository, LogInv, LogTypeOK, ProjectClosed
  <1> DEFINE S == {r \in 1 .. Len(revs) : <<revs[r].project, revs[r].branch>> = k}
  <1>2. heads[k] \in S /\ \A r \in S : r <= heads[k]
    BY <1>1 DEF Repository, HeadsAreLatest, RevIds
  <1>3. S \in SUBSET Nat
    BY <1>1
  <1> HIDE DEF S
  <1>4. Max(S) = heads[k]
    BY <1>2, <1>3, LargestIsMax
  <1>5. QED
    BY <1>1, <1>4 DEF HeadAt, RevIds, S

------------------------------------------------------------------------------
(* What a view has read stays as it was                                     *)

\* The steps of a train stay merges from the common ancestor.
LEMMA StepsKept ==
  ASSUME Repository, LogStep, NEW h, NEW previews, NEW steps, StepsOK(h, previews, steps)
  PROVE  StepsOK(h, previews, steps)'
  <1>1. RevIds \subseteq RevIds' /\ \A r \in RevIds : revs'[r] = revs[r]
    BY LogStepKeeps
  <1>2. h \in RevIds' /\ revs'[h] = revs[h] /\ steps \in Seq(Snapshots)
    BY <1>1 DEF StepsOK
  <1>3. ASSUME NEW s \in 1 .. Len(steps)
        PROVE  /\ previews[s][3] \in RevIds'
               /\ \E base \in RevIds' :
                    /\ BestCommonAncestors(h, previews[s][3])' = {base}
                    /\ steps[s] = MergeInto(IF s = 1 THEN revs[h].snap ELSE steps[s - 1],
                                            base, previews[s][3], s)'
    <2> DEFINE state == IF s = 1 THEN revs[h].snap ELSE steps[s - 1]
    <2>1. PICK right \in RevIds, base \in RevIds :
            /\ previews[s][3] = right
            /\ BestCommonAncestors(h, right) = {base}
            /\ steps[s] = MergeInto(state, base, right, s)
      BY DEF StepsOK
    <2>2. BestCommonAncestors(h, right)' = {base}
      BY <2>1, LogStepKeeps DEF StepsOK
    <2>3. MergeInto(state, base, right, s)' = MergeInto(state, base, right, s)
      BY <1>1, <1>2, <2>1 DEF MergeInto, BothChanged, ThreeWay
    <2>4. QED
      BY <1>1, <2>1, <2>2, <2>3
  <1>4. QED
    BY <1>2, <1>3 DEF StepsOK

\* A catalog stays what the heads were when it was captured, and no later than they are.
LEMMA CatalogKept ==
  ASSUME Repository, LogStep, NEW catalog, NEW from, CatalogOK(catalog, from)
  PROVE  CatalogOK(catalog, from)'
  <1>1. DOMAIN catalog \subseteq Keys /\ from \in RevIds'
    BY LogStepKeeps DEF CatalogOK
  <1>2. ASSUME NEW k \in DOMAIN catalog
        PROVE  catalog[k] \in RevIds' /\ catalog[k] = HeadAt(k, from)' /\ catalog[k] <= heads'[k]
    <2>1. catalog[k] \in RevIds /\ catalog[k] <= heads[k] /\ k \in Keys /\ Len(revs) \in Nat
      BY LogStepMoves DEF CatalogOK
    <2>2. catalog[k] \in Nat /\ heads[k] \in Nat /\ heads[k] <= heads'[k] /\ heads'[k] \in Nat
      <3>1. heads' \in [Keys -> Nat]
        BY RepositoryStep DEF Repository, LogInv, LogTypeOK
      <3>2. QED
        BY <2>1, <3>1, LogStepMoves DEF RevIds
    <2>3. catalog[k] \in RevIds' /\ catalog[k] = HeadAt(k, from)'
      BY <2>1, LogStepKeeps DEF CatalogOK
    <2>4. QED
      BY <2>1, <2>2, <2>3
  <1>3. QED
    BY <1>1, <1>2 DEF CatalogOK

\* A preview stays between its catalog and the heads.
LEMMA PreviewKept ==
  ASSUME Repository, LogStep, NEW w, NEW p, PreviewOK(w, p),
         CatalogOK(w.catalog, w.from), w.target \in DOMAIN w.catalog
  PROVE  PreviewOK(w, p)'
  <1>1. p \in Previews /\ p[1] \in Keys /\ w.target \in Keys /\ p[2] \in Nat /\ p[3] \in Nat
    BY DEF PreviewOK, CatalogOK, Previews
  <1>2. \A k \in Keys : heads[k] \in Nat /\ heads'[k] \in Nat /\ heads[k] <= heads'[k]
    <2>1. heads' \in [Keys -> Nat]
      BY RepositoryStep DEF Repository, LogInv, LogTypeOK
    <2>2. QED
      BY <2>1, LogStepMoves
  <1>3. p[2] <= heads'[w.target] /\ p[3] <= heads'[p[1]]
    <2>1. p[2] <= heads[w.target] /\ p[3] <= heads[p[1]]
      BY DEF PreviewOK
    <2>2. QED
      BY <1>1, <1>2, <2>1
  <1>4. QED
    BY <1>1, <1>3 DEF PreviewOK

\* Whatever is committed, a view that is being composed stays one of its moment.
LEMMA ReaderKept ==
  ASSUME Repository, LogStep, NEW w, ReaderOK(w)
  PROVE  ReaderOK(w)'
  <1>0. w \in Readers
    BY DEF ReaderOK
  <1>1. SUFFICES ASSUME ReadingOK(w)
                 PROVE  ReadingOK(w)'
    BY DEF ReaderOK
  <1>2. /\ CatalogOK(w.catalog, w.from) /\ w.target \in DOMAIN w.catalog /\ w.target \in Keys
        /\ CatalogOK(w.catalog, w.from)'
    BY <1>1, CatalogKept DEF ReadingOK, CatalogOK
  <1>3. \A i \in 1 .. Len(w.previews) : PreviewOK(w, w.previews[i])'
    <2>1. SUFFICES ASSUME NEW i \in 1 .. Len(w.previews)
                   PROVE  PreviewOK(w, w.previews[i])'
      OBVIOUS
    <2>2. PICK p : p = w.previews[i]
      OBVIOUS
    <2>3. PreviewOK(w, p)'
      BY <1>1, <1>2, <2>2, PreviewKept DEF ReadingOK
    <2>4. QED
      BY <2>2, <2>3
  <1>4. ASSUME w.kind = "train" PROVE TrainOK(w)'
    <2>1. TrainOK(w)
      BY <1>1, <1>4 DEF ReadingOK
    <2>2. PICK h : h = w.catalog[w.target]
      OBVIOUS
    <2>3. StepsOK(h, w.previews, w.steps) /\ h \in RevIds
      BY <2>1, <2>2 DEF TrainOK, StepsOK
    <2>4. StepsOK(h, w.previews, w.steps)' /\ revs'[h] = revs[h]
      BY <2>3, StepsKept, LogStepKeeps
    <2>5. QED
      BY <2>1, <2>2, <2>4 DEF TrainOK
  <1>5. w.pc = "source" =>
          w.catalog[w.target] <= w.left /\ w.left <= heads'[w.target]
    <2>1. heads[w.target] \in Nat /\ heads'[w.target] \in Nat /\ heads[w.target] <= heads'[w.target]
      <3>1. heads' \in [Keys -> Nat]
        BY RepositoryStep DEF Repository, LogInv, LogTypeOK
      <3>2. QED
        BY <1>2, <3>1, LogStepMoves
    <2>2. w.left \in Nat
      BY <1>0 DEF Readers
    <2>3. QED
      BY <1>1, <2>1, <2>2 DEF ReadingOK
  <1>6. w.pc = "done" /\ w.kind \in {"preflights", "train"} =>
          /\ w.to \in RevIds' /\ w.from <= w.to
          /\ \A i \in 1 .. Len(w.previews) : LET p == w.previews[i] IN
               p[2] = HeadAt(w.target, w.to)' /\ p[3] = HeadAt(p[1], w.to)'
    BY <1>1, LogStepKeeps DEF ReadingOK
  <1>7. QED
    BY <1>1, <1>2, <1>3, <1>4, <1>5, <1>6 DEF ReadingOK

\* And so does a completed view.
LEMMA ViewKept ==
  ASSUME Repository, LogStep, NEW v, ViewOK(v)
  PROVE  ViewOK(v)'
  <1>1. /\ v.from \in RevIds' /\ v.to \in RevIds'
    BY LogStepKeeps DEF ViewOK
  <1>2. ASSUME NEW i \in 1 .. Len(v.previews), NEW n,
               n = IF v.kind \in {"preflights", "train"} THEN v.to ELSE v.from
        PROVE  LET p == v.previews[i] IN
                 p[2] = HeadAt(v.target, n)' /\ p[3] = HeadAt(p[1], n)'
    <2>1. n \in RevIds
      BY <1>2 DEF ViewOK
    <2>2. LET p == v.previews[i] IN
            p[2] = HeadAt(v.target, n) /\ p[3] = HeadAt(p[1], n)
      BY <1>2 DEF ViewOK
    <2>3. QED
      BY <2>1, <2>2, LogStepKeeps
  <1>3. v.kind = "train" => StepsOK(v.catalog[v.target], v.previews, v.steps)'
    <2>1. PICK h : h = v.catalog[v.target]
      OBVIOUS
    <2>2. v.kind = "train" => StepsOK(h, v.previews, v.steps)'
      BY <2>1, StepsKept DEF ViewOK
    <2>3. QED
      BY <2>1, <2>2
  <1>4. QED
    BY <1>1, <1>2, <1>3 DEF ViewOK

------------------------------------------------------------------------------
(* Each step of a view                                                      *)

\* The view becomes w, and nobody commits.
LEMMA ReaderBecomes ==
  ASSUME ViewsInv, UNCHANGED <<logVars, views>>, NEW w, ReaderOK(w), reader' = w
  PROVE  ViewsInv'
  <1>1. Repository /\ LogStep
    BY DEF ViewsInv, LogStep
  <1>2. ReaderOK(w)'
    BY <1>1, ReaderKept
  <1>3. ReaderOK(reader)'
    BY <1>2
  <1>4. (\A i \in 1 .. Len(views) : ViewOK(views[i]))'
    <2>1. \A i \in 1 .. Len(views) : ViewOK(views'[i])
      BY DEF ViewsInv
    <2>2. SUFFICES ASSUME NEW i \in 1 .. Len(views)
                   PROVE  ViewOK(views[i])'
      OBVIOUS
    <2>3. PICK v : v = views'[i]
      OBVIOUS
    <2>4. ViewOK(v)'
      BY <1>1, <2>1, <2>3, ViewKept
    <2>5. QED
      BY <2>3, <2>4
  <1>5. Repository' /\ views' \in Seq(Reports)
    BY <1>1, RepositoryStep DEF ViewsInv
  <1>6. QED
    BY <1>3, <1>4, <1>5 DEF ViewsInv

\* Nobody reads.
LEMMA NobodyOK ==
  NobodyReads \in Readers /\ ReaderOK(NobodyReads)
  <1> DEFINE target == <<CHOOSE p \in Projects : TRUE, Main>>
  <1>1. target \in Keys
    BY ConstantsAssumption DEF Keys
  <1>2. << >> \in Catalogs
    <2>1. << >> \in [{} -> Nat] /\ {} \in SUBSET Keys
      OBVIOUS
    <2>2. QED
      BY <2>1 DEF Catalogs
  <1>3. NobodyReads \in Readers
    <2>1. << >> \in Seq(Keys) /\ << >> \in Seq(Previews) /\ << >> \in Seq(Snapshots)
      OBVIOUS
    <2>2. NoRev \in Nat
      BY DEF NoRev
    <2>3. NobodyReads =
            [pc |-> "idle", kind |-> "queue", target |-> target, selected |-> << >>,
             catalog |-> << >>, todo |-> << >>, left |-> NoRev, previews |-> << >>,
             state |-> << >>, steps |-> << >>, from |-> 0, to |-> 0]
      BY DEF NobodyReads
    <2> HIDE DEF target
    <2>4. QED
      BY <1>1, <1>2, <2>1, <2>2, <2>3 DEF Readers, ViewKinds
  <1>4. QED
    BY <1>3 DEF ReaderOK, NobodyReads

\* The heads of now are a catalog.
LEMMA CaptureOK ==
  ASSUME Repository, NEW target \in Keys, heads[target] # NoRev
  PROVE  /\ CatalogOK(Catalog(target), Len(revs))
         /\ target \in DOMAIN Catalog(target)
         /\ Catalog(target)[target] = heads[target]
  <1>1. DOMAIN Catalog(target) \subseteq Keys /\ target \in DOMAIN Catalog(target)
        /\ \A k \in DOMAIN Catalog(target) : Catalog(target)[k] = heads[k] /\ heads[k] # NoRev
    BY DEF Catalog
  <1>2. Len(revs) \in RevIds
    BY HeadAtNow
  <1>3. \A k \in DOMAIN Catalog(target) :
          /\ Catalog(target)[k] \in RevIds /\ Catalog(target)[k] = HeadAt(k, Len(revs))
          /\ Catalog(target)[k] <= heads[k]
    BY <1>1, HeadAtNow DEF RevIds
  <1>4. QED
    BY <1>1, <1>2, <1>3 DEF CatalogOK

\* A branch is selected at most once, so that there are only so many selections.
LEMMA SelectionsAreSources ==
  ASSUME Repository, NEW kind, NEW target \in Keys, NEW selected \in Selections(target)
  PROVE  /\ selected \in Seq(DOMAIN Catalog(target))
         /\ Readings(kind, selected) \in Seq(DOMAIN Catalog(target))
         /\ Readings(kind, selected) # << >>
  <1> DEFINE K == DOMAIN Catalog(target)
  <1>1. Catalog(target) \in Injection(K, 1 .. Len(revs)) /\ Len(revs) \in Nat
    <2>1. K \subseteq Keys /\ \A k \in K : Catalog(target)[k] = heads[k] /\ heads[k] # NoRev
      BY DEF Catalog
    <2>2. \A k \in K : heads[k] \in 1 .. Len(revs)
      BY <2>1, HeadAtNow DEF RevIds
    <2>3. \A j, k \in K : heads[j] = heads[k] => j = k
      BY <2>1 DEF Repository, HeadsAreLatest
    <2>4. Catalog(target) \in [K -> 1 .. Len(revs)]
      BY <2>1, <2>2 DEF Catalog
    <2>5. QED
      BY <2>1, <2>3, <2>4 DEF Injection, IsInjective, Repository, LogInv, LogTypeOK
  <1>2. IsFiniteSet(K)
    BY <1>1, FS_Interval, FS_Injection
  <1>3. PICK S \in SUBSET (K \ {target}) : selected \in SetToSeqs(S)
    BY DEF Selections, SetToAllKPermutations
  <1>4. Cardinality(S) \in Nat
    BY <1>2, <1>3, FS_Subset, FS_CardinalityType
  <1>5. selected \in [1 .. Cardinality(S) -> K] /\ selected # << >>
    BY <1>3 DEF SetToSeqs, Selections
  <1> HIDE DEF K
  <1>6. selected \in Seq(K) /\ Len(selected) \in Nat \ {0}
    BY <1>4, <1>5
  <1>7. \A i \in 1 .. 2 * Len(selected) : (i + 1) \div 2 \in 1 .. Len(selected)
    BY <1>6
  <1>8. [i \in 1 .. 2 * Len(selected) |-> selected[(i + 1) \div 2]] \in Seq(K) \ {<< >>}
    BY <1>6, <1>7
  <1>9. QED
    BY <1>5, <1>6, <1>8 DEF Readings, K

\* The heads are captured in one read.
LEMMA CaptureStep ==
  ASSUME ViewsInv, NEW kind \in ViewKinds, NEW target \in Keys,
         NEW selected \in Selections(target),
         Capture(kind, target, selected)
  PROVE  ViewsInv'
  <1> DEFINE catalog == Catalog(target)
             w == [NobodyReads EXCEPT
                     !.pc = "target", !.kind = kind, !.target = target, !.selected = selected,
                     !.catalog = catalog, !.todo = Readings(kind, selected),
                     !.state = revs[heads[target]].snap, !.from = Len(revs), !.to = Len(revs)]
  <1>1. heads[target] # NoRev /\ reader' = w /\ UNCHANGED <<logVars, views>>
    BY DEF Capture
  <1>2. Repository
    BY DEF ViewsInv
  <1>3. /\ CatalogOK(catalog, Len(revs)) /\ target \in DOMAIN catalog
        /\ catalog[target] = heads[target] /\ catalog[target] \in RevIds
    BY <1>1, <1>2, CaptureOK DEF CatalogOK
  <1>4. /\ selected \in Seq(DOMAIN catalog)
        /\ Readings(kind, selected) \in Seq(DOMAIN catalog) /\ Readings(kind, selected) # << >>
    BY <1>2, SelectionsAreSources DEF catalog
  <1> HIDE DEF catalog
  <1>5. /\ w.pc = "target" /\ w.kind = kind /\ w.target = target /\ w.catalog = catalog
        /\ w.todo = Readings(kind, selected) /\ w.previews = << >> /\ w.steps = << >>
        /\ w.state = revs[heads[target]].snap /\ w.from = Len(revs)
    BY DEF NobodyReads
  <1> HIDE DEF w
  <1>6. TrainOK(w)
    <2>1. Len(<< >>) = 0 /\ DOMAIN << >> = {} /\ 1 .. 0 = {}
      OBVIOUS
    <2>2. StepsOK(catalog[target], << >>, << >>)
      BY <1>3, <2>1 DEF StepsOK
    <2>3. QED
      BY <1>3, <1>5, <2>1, <2>2 DEF TrainOK
  <1>7. w \in Readers
    <2>1. selected \in Seq(Keys) /\ Readings(kind, selected) \in Seq(Keys)
      <3>1. DOMAIN catalog \subseteq Keys
        BY <1>3 DEF CatalogOK
      <3>2. QED
        BY <1>4, <3>1
    <2>2. catalog \in Catalogs
      <3>1. DOMAIN catalog \in SUBSET Keys
        BY <1>3 DEF CatalogOK
      <3>2. catalog \in [DOMAIN catalog -> Nat]
        BY <1>3 DEF catalog, Catalog, CatalogOK, RevIds
      <3>3. QED
        BY <3>1, <3>2 DEF Catalogs
    <2>3. revs[heads[target]].snap \in Snapshots /\ Len(revs) \in Nat
      BY <1>2, <1>3, RevisionType DEF Repository, LogInv, LogTypeOK
    <2>4. QED
      BY <2>1, <2>2, <2>3, NobodyOK DEF Readers, w
  <1>8. Len(w.previews) = 0
    BY <1>5
  <1>9. ReadingOK(w)
    BY <1>3, <1>4, <1>5, <1>6, <1>8 DEF ReadingOK
  <1>10. QED
    BY <1>1, <1>7, <1>9, ReaderBecomes DEF ReaderOK

\* The head of the target is read, later than it was captured.
LEMMA PreviewTargetStep ==
  ASSUME ViewsInv, PreviewTarget
  PROVE  ViewsInv'
  <1> DEFINE w == [reader EXCEPT !.pc = "source", !.left = heads[reader.target]]
  <1>1. reader \in Readers /\ reader.pc = "target" /\ ReadingOK(reader)
        /\ reader' = w /\ UNCHANGED <<logVars, views>>
    BY DEF PreviewTarget, ViewsInv, ReaderOK
  <1>2. heads[reader.target] \in Nat
    BY <1>1 DEF ViewsInv, Repository, LogInv, LogTypeOK, Readers
  <1>3. w \in Readers
    BY <1>1, <1>2 DEF Readers
  <1>4. /\ w.pc = "source" /\ w.left = heads[reader.target] /\ w.kind = reader.kind
        /\ w.target = reader.target /\ w.catalog = reader.catalog /\ w.todo = reader.todo
        /\ w.previews = reader.previews /\ w.steps = reader.steps /\ w.state = reader.state
        /\ w.from = reader.from
    BY <1>1 DEF Readers
  <1> HIDE DEF w
  <1>5. \A i \in 1 .. Len(w.previews) : PreviewOK(w, w.previews[i])
    BY <1>1, <1>4 DEF ReadingOK, PreviewOK
  <1>6. w.catalog[w.target] <= w.left /\ w.left <= heads[w.target]
    BY <1>1, <1>2, <1>4 DEF ReadingOK, CatalogOK
  <1>7. w.kind = "train" => TrainOK(w)
    BY <1>1, <1>4 DEF ReadingOK, TrainOK
  <1>8. ReadingOK(w)
    BY <1>1, <1>4, <1>5, <1>6, <1>7 DEF ReadingOK
  <1>9. QED
    BY <1>1, <1>3, <1>8, ReaderBecomes DEF ReaderOK

\* What is left to be read stays a list of the sources.
LEMMA FirstMovesLast ==
  ASSUME NEW X, NEW s \in Seq(X), s # << >>
  PROVE  Tail(s) \in Seq(X) /\ Append(Tail(s), Head(s)) \in Seq(X)
  OBVIOUS

\* A preview of a source that is still to be read.
LEMMA OnwardOK ==
  ASSUME ViewsInv, reader.pc = "source", NEW right \in Nat, NEW clean \in BOOLEAN,
         NEW steps \in Seq(Snapshots),
         PreviewOK(reader, <<Head(reader.todo), reader.left, right>>),
         reader.kind = "train" =>
           /\ StepsOK(reader.catalog[reader.target],
                      Append(reader.previews, <<Head(reader.todo), reader.left, right>>), steps)
           /\ IF clean THEN Len(steps) = Len(reader.previews) + 1 ELSE steps = reader.steps
  PROVE  ReaderOK(Onward(right, clean, steps))
  <1> DEFINE w == Onward(right, clean, steps)
             p == <<Head(reader.todo), reader.left, right>>
             rest == IF /\ reader.kind = "impact" /\ clean
                        /\ Len(reader.previews) < Len(reader.selected)
                     THEN Append(Tail(reader.todo), Head(reader.todo)) ELSE Tail(reader.todo)
  <1>1. reader \in Readers /\ ReadingOK(reader) /\ reader.todo # << >>
    BY DEF ViewsInv, ReaderOK, ReadingOK
  <1>2. rest \in Seq(DOMAIN reader.catalog)
    <2>1. reader.todo \in Seq(DOMAIN reader.catalog)
      BY <1>1 DEF ReadingOK
    <2>2. /\ Tail(reader.todo) \in Seq(DOMAIN reader.catalog)
          /\ Append(Tail(reader.todo), Head(reader.todo)) \in Seq(DOMAIN reader.catalog)
      BY <1>1, <2>1, FirstMovesLast
    <2>3. QED
      BY <2>2
  <1>3. p \in Previews
    BY DEF PreviewOK
  <1> HIDE DEF p, rest
  <1>4. /\ Append(reader.previews, p) \in Seq(Previews)
        /\ Len(reader.previews) \in Nat
        /\ Len(Append(reader.previews, p)) = Len(reader.previews) + 1
        /\ Append(reader.previews, p)[Len(reader.previews) + 1] = p
        /\ \A i \in 1 .. Len(reader.previews) : Append(reader.previews, p)[i] = reader.previews[i]
    BY <1>1, <1>3 DEF Readers
  <1>5. w = [reader EXCEPT
               !.previews = Append(@, p), !.todo = rest, !.steps = steps,
               !.state = IF steps # << >> THEN Last(steps) ELSE @,
               !.pc = IF rest # << >> /\ (reader.kind = "train" => clean) THEN "target"
                      ELSE IF reader.kind \in {"preflights", "train"} THEN "final" ELSE "done"]
    BY DEF Onward, p, rest
  <1> HIDE DEF w
  <1>6. /\ w.previews = Append(reader.previews, p) /\ w.todo = rest /\ w.steps = steps
        /\ w.state = IF steps # << >> THEN Last(steps) ELSE reader.state
        /\ w.pc = IF rest # << >> /\ (reader.kind = "train" => clean) THEN "target"
                  ELSE IF reader.kind \in {"preflights", "train"} THEN "final" ELSE "done"
        /\ w.kind = reader.kind /\ w.target = reader.target /\ w.catalog = reader.catalog
        /\ w.from = reader.from
    BY <1>1, <1>5 DEF Readers
  <1>7. w \in Readers
    <2>1. rest \in Seq(Keys)
      BY <1>1, <1>2 DEF ReadingOK, CatalogOK
    <2>2. steps # << >> => Last(steps) \in Snapshots
      BY DEF Last
    <2>3. QED
      BY <1>1, <1>4, <1>5, <2>1, <2>2 DEF Readers
  <1>8. \A i \in 1 .. Len(w.previews) : PreviewOK(w, w.previews[i])
    <2>1. SUFFICES ASSUME NEW i \in 1 .. Len(reader.previews) + 1
                   PROVE  PreviewOK(w, w.previews[i])
      BY <1>4, <1>6
    <2>2. PreviewOK(reader, w.previews[i])
      <3>1. CASE i = Len(reader.previews) + 1
        BY <1>4, <1>6, <3>1 DEF p
      <3>2. CASE i # Len(reader.previews) + 1
        <4>1. i \in 1 .. Len(reader.previews)
          BY <1>4, <3>2
        <4>2. QED
          BY <1>1, <1>4, <1>6, <4>1 DEF ReadingOK
      <3>3. QED
        BY <3>1, <3>2
    <2>3. QED
      BY <1>6, <2>2 DEF PreviewOK
  <1>9. w.kind = "train" => TrainOK(w)
    <2>1. SUFFICES ASSUME reader.kind = "train" PROVE TrainOK(w)
      BY <1>6
    <2>2. TrainOK(reader) /\ Len(reader.steps) = Len(reader.previews)
      BY <1>1, <2>1 DEF ReadingOK, TrainOK
    <2>3. StepsOK(w.catalog[w.target], w.previews, w.steps)
      BY <1>6, <2>1 DEF p
    <2>4. w.state = (IF w.steps = << >> THEN revs[w.catalog[w.target]].snap ELSE Last(w.steps))
      <3>1. CASE steps # << >>
        BY <1>6, <3>1
      <3>2. CASE steps = << >>
        <4>1. Len(steps) = 0
          BY <3>2
        <4>2. reader.steps = << >>
          BY <1>4, <2>1, <3>2, <4>1
        <4>3. QED
          BY <1>6, <2>2, <3>2, <4>2 DEF TrainOK
      <3>3. QED
        BY <3>1, <3>2
    <2>5. /\ Len(w.steps) <= Len(w.previews)
          /\ w.pc \in {"target", "source"} => Len(w.steps) = Len(w.previews)
      BY <1>4, <1>6, <2>1, <2>2
    <2>6. QED
      BY <2>3, <2>4, <2>5 DEF TrainOK
  <1>10. w.pc \in {"target", "final", "done"}
         /\ (w.pc = "target" => w.todo # << >>)
         /\ (w.pc = "done" => w.kind \notin {"preflights", "train"})
    BY <1>6
  <1>11. ReadingOK(w)
    <2>1. /\ CatalogOK(w.catalog, w.from)
          /\ w.target \in DOMAIN w.catalog /\ w.todo \in Seq(DOMAIN w.catalog)
      BY <1>1, <1>2, <1>6 DEF ReadingOK
    <2>2. QED
      BY <1>8, <1>9, <1>10, <2>1 DEF ReadingOK
  <1>12. QED
    BY <1>7, <1>11 DEF w, ReaderOK

\* A step of a train yields a snapshot.
LEMMA MergeIntoType ==
  ASSUME MaxRevs \in Nat, NEW state \in Snapshots, NEW base, NEW right, NEW step \in Nat,
         revs[base].snap \in Snapshots, revs[right].snap \in Snapshots
  PROVE  MergeInto(state, base, right, step) \in Snapshots
  <1>1. \A m \in Modules :
          /\ Virtual(step) \in Nat
          /\ ThreeWay(revs[base].snap, state, revs[right].snap)[m] \in Nat
    BY DEF Virtual, ThreeWay, Snapshots
  <1>2. QED
    BY <1>1 DEF MergeInto, Snapshots

\* Of a page, every preview is compared with the catalog.
LEMMA PreviewSourceStep ==
  ASSUME ViewsInv, PreviewSource
  PROVE  ViewsInv'
  <1> DEFINE source == Head(reader.todo)
             right  == heads[source]
             target == reader.catalog[reader.target]
             p      == <<source, reader.left, right>>
             bases  == BestCommonAncestors(reader.left, right)
             x(base) == MergeInto(reader.state, base, right, Len(reader.steps) + 1)
             steps(clean, base) == IF reader.kind # "train" \/ ~clean THEN reader.steps
                                   ELSE Append(reader.steps, x(base))
  <1>1. /\ reader \in Readers /\ ReadingOK(reader) /\ reader.todo # << >> /\ Repository
        /\ reader.pc = "source" /\ reader.left = target /\ right = reader.catalog[source]
        /\ Cardinality(bases) = 1 /\ UNCHANGED <<logVars, views>>
    BY DEF PreviewSource, PreviewsCatalog, ViewsInv, ReaderOK, ReadingOK
  <1>2. PICK base \in bases, clean \in BOOLEAN : reader' = Onward(right, clean, steps(clean, base))
    BY DEF PreviewSource
  <1>3. /\ source \in DOMAIN reader.catalog /\ CatalogOK(reader.catalog, reader.from)
        /\ reader.target \in DOMAIN reader.catalog
    BY <1>1 DEF ReadingOK
  <1>4. /\ source \in Keys /\ reader.target \in Keys /\ right \in RevIds /\ target \in RevIds
        /\ target <= heads[reader.target] /\ right \in Nat /\ target \in Nat
    BY <1>1, <1>3 DEF CatalogOK, RevIds
  <1>5. PreviewOK(reader, p)
    BY <1>1, <1>3, <1>4 DEF PreviewOK, Previews
  <1>6. bases = {base} /\ base \in RevIds
    <2>1. bases \subseteq RevIds
      BY DEF BestCommonAncestors, Ancestors
    <2>2. IsFiniteSet(RevIds)
      BY <1>1, FS_Interval DEF RevIds, Repository, LogInv, LogTypeOK
    <2>3. IsFiniteSet(bases)
      BY <2>1, <2>2, FS_Subset
    <2> HIDE DEF bases
    <2>4. PICK b : bases = {b}
      BY <1>1, <2>3, FS_Singleton
    <2>5. QED
      BY <1>2, <2>1, <2>4
  <1> HIDE DEF source, right, target, bases
  <1>7. CASE reader.kind # "train"
    <2>1. reader.steps \in Seq(Snapshots) /\ steps(clean, base) = reader.steps
      BY <1>1, <1>7 DEF Readers
    <2>2. ReaderOK(Onward(right, clean, reader.steps))
      BY <1>1, <1>4, <1>5, <1>7, <2>1, OnwardOK DEF source
    <2>3. QED
      BY <1>1, <1>2, <2>1, <2>2, ReaderBecomes
  <1>8. CASE reader.kind = "train"
    <2>1. /\ StepsOK(target, reader.previews, reader.steps)
          /\ reader.state = (IF reader.steps = << >> THEN revs[target].snap ELSE Last(reader.steps))
          /\ Len(reader.steps) = Len(reader.previews)
      BY <1>1, <1>8 DEF ReadingOK, TrainOK, target
    <2> DEFINE n == Len(reader.previews)
               q == Append(reader.previews, p)
    <2>2. /\ n \in Nat /\ q[n + 1] = p /\ \A i \in 1 .. n : q[i] = reader.previews[i]
          /\ reader.steps \in Seq(Snapshots) /\ Len(reader.steps) = n
      <3>1. reader.previews \in Seq(Previews) /\ p \in Previews
        BY <1>1, <1>5 DEF Readers, PreviewOK
      <3> HIDE DEF p
      <3>2. QED
        BY <2>1, <3>1 DEF StepsOK
    <2>3. StepsOK(target, q, reader.steps)
      BY <2>1, <2>2 DEF StepsOK
    <2>4. CASE ~clean
      <3>1. steps(clean, base) = reader.steps
        BY <2>4
      <3>2. ReaderOK(Onward(right, clean, reader.steps))
        BY <1>1, <1>4, <1>5, <2>2, <2>3, <2>4, OnwardOK DEF source, target
      <3>3. QED
        BY <1>1, <1>2, <3>1, <3>2, ReaderBecomes
    <2>5. CASE clean
      <3> DEFINE t == Append(reader.steps, x(base))
      <3>1. steps(clean, base) = t
        BY <1>8, <2>5
      <3>2. reader.state \in Snapshots
        <4>1. revs[target].snap \in Snapshots
          BY <1>1, <1>4, RevisionType DEF Repository, LogInv
        <4>2. reader.steps # << >> => Last(reader.steps) \in Snapshots
          BY <2>2 DEF Last
        <4>3. QED
          BY <2>1, <4>1, <4>2
      <3>3. x(base) \in Snapshots
        <4>1. revs[base].snap \in Snapshots /\ revs[right].snap \in Snapshots /\ MaxRevs \in Nat
          BY <1>1, <1>4, <1>6, RevisionType, ConstantsAssumption DEF Repository, LogInv
        <4>2. QED
          BY <2>2, <3>2, <4>1, MergeIntoType
      <3>4. x(base) = MergeInto(IF n + 1 = 1 THEN revs[target].snap ELSE reader.steps[n],
                                base, right, n + 1)
        BY <2>1, <2>2 DEF Last
      <3> HIDE DEF x
      <3>5. t \in Seq(Snapshots) /\ Len(t) = n + 1 /\ t[n + 1] = x(base)
            /\ \A i \in 1 .. n : t[i] = reader.steps[i]
        BY <2>2, <3>3
      <3>6. q[n + 1][3] = right
        BY <2>2
      <3> HIDE DEF t, q, p
      <3>7. StepsOK(target, q, t)
        <4>1. SUFFICES ASSUME NEW s \in 1 .. (n + 1)
                       PROVE  /\ q[s][3] \in RevIds
                              /\ \E b \in RevIds :
                                   /\ BestCommonAncestors(target, q[s][3]) = {b}
                                   /\ t[s] = MergeInto(IF s = 1 THEN revs[target].snap ELSE t[s - 1],
                                                       b, q[s][3], s)
          BY <1>4, <3>5 DEF StepsOK
        <4>2. CASE s \in 1 .. n
          <5>1. t[s] = reader.steps[s] /\ (s # 1 => t[s - 1] = reader.steps[s - 1])
            BY <2>2, <3>5, <4>2
          <5>2. QED
            BY <2>2, <2>3, <4>2, <5>1 DEF StepsOK
        <4>3. CASE s = n + 1
          <5>1. t[s] = MergeInto(IF s = 1 THEN revs[target].snap ELSE t[s - 1], base, right, s)
            <6>1. s # 1 => t[s - 1] = reader.steps[n]
              BY <2>2, <3>5, <4>3
            <6>2. QED
              BY <3>4, <3>5, <4>3, <6>1
          <5>2. BestCommonAncestors(target, right) = {base}
            BY <1>1, <1>6 DEF bases
          <5>3. QED
            BY <1>4, <1>6, <3>6, <4>3, <5>1, <5>2
        <4>4. QED
          BY <2>2, <4>1, <4>2, <4>3
      <3>8. ReaderOK(Onward(right, clean, t))
        BY <1>1, <1>4, <1>5, <2>2, <2>5, <3>5, <3>7, OnwardOK DEF source, target, p, q
      <3>9. QED
        BY <1>1, <1>2, <3>1, <3>8, ReaderBecomes
    <2>6. QED
      BY <2>4, <2>5
  <1>9. QED
    BY <1>7, <1>8

\* A preflight that fails shows the heads of that moment.
LEMMA PreflightFailsStep ==
  ASSUME ViewsInv, PreflightFails
  PROVE  ViewsInv'
  <1> DEFINE source == Head(reader.todo)
             right  == heads[source]
  <1>1. /\ reader \in Readers /\ ReadingOK(reader) /\ reader.todo # << >> /\ Repository
        /\ reader.pc = "source" /\ reader.kind = "preflights"
        /\ reader' = Onward(right, FALSE, << >>) /\ UNCHANGED <<logVars, views>>
    BY DEF PreflightFails, ViewsInv, ReaderOK, ReadingOK
  <1>2. /\ source \in DOMAIN reader.catalog /\ CatalogOK(reader.catalog, reader.from)
        /\ reader.target \in DOMAIN reader.catalog
    BY <1>1 DEF ReadingOK
  <1>3. source \in Keys /\ reader.target \in Keys /\ right \in Nat /\ reader.left \in Nat
    BY <1>1, <1>2 DEF CatalogOK, Repository, LogInv, LogTypeOK, Readers
  <1>4. PreviewOK(reader, <<source, reader.left, right>>)
    BY <1>1, <1>2, <1>3 DEF PreviewOK, Previews, CatalogOK, ReadingOK
  <1>5. << >> \in Seq(Snapshots) /\ FALSE \in BOOLEAN
    OBVIOUS
  <1> HIDE DEF right
  <1>6. ReaderOK(Onward(right, FALSE, << >>))
    BY <1>1, <1>3, <1>4, <1>5, OnwardOK
  <1>7. QED
    BY <1>1, <1>6, ReaderBecomes

\* The catalog has not changed: nor has any head that was previewed.
LEMMA CaptureAgainStep ==
  ASSUME ViewsInv, CaptureAgain
  PROVE  ViewsInv'
  <1> DEFINE w == [reader EXCEPT !.pc = "done", !.to = Len(revs)]
  <1>1. /\ reader \in Readers /\ ReadingOK(reader) /\ reader.pc = "final" /\ Repository
        /\ Catalog(reader.target) = reader.catalog
        /\ reader' = w /\ UNCHANGED <<logVars, views>>
    BY DEF CaptureAgain, ViewsInv, ReaderOK
  <1>2. CatalogOK(reader.catalog, reader.from) /\ reader.target \in DOMAIN reader.catalog
    BY <1>1 DEF ReadingOK
  <1>3. Len(revs) \in Nat
    BY <1>1 DEF Repository, LogInv, LogTypeOK
  <1>4. w \in Readers
    BY <1>1, <1>3 DEF Readers
  <1>5. /\ w.pc = "done" /\ w.to = Len(revs) /\ w.kind = reader.kind
        /\ w.target = reader.target /\ w.catalog = reader.catalog /\ w.todo = reader.todo
        /\ w.previews = reader.previews /\ w.steps = reader.steps /\ w.state = reader.state
        /\ w.from = reader.from
    BY <1>1 DEF Readers
  <1> HIDE DEF w
  <1>6. \A k \in DOMAIN reader.catalog :
          /\ k \in Keys /\ heads[k] # NoRev /\ reader.catalog[k] = heads[k]
          /\ heads[k] \in Nat /\ heads[k] = HeadAt(k, Len(revs)) /\ Len(revs) \in RevIds
    <2>1. \A k \in DOMAIN reader.catalog :
            k \in Keys /\ heads[k] # NoRev /\ reader.catalog[k] = heads[k]
      BY <1>1 DEF Catalog
    <2>2. QED
      BY <1>1, <2>1, HeadAtNow DEF RevIds
  <1>7. \A i \in 1 .. Len(reader.previews) : LET p == reader.previews[i] IN
          p[2] = HeadAt(reader.target, Len(revs)) /\ p[3] = HeadAt(p[1], Len(revs))
    <2>1. SUFFICES ASSUME NEW i \in 1 .. Len(reader.previews), NEW p, p = reader.previews[i]
                   PROVE  /\ p[2] = HeadAt(reader.target, Len(revs))
                          /\ p[3] = HeadAt(p[1], Len(revs))
      OBVIOUS
    <2>2. PreviewOK(reader, p)
      BY <1>1, <2>1 DEF ReadingOK
    <2>3. p[2] \in Nat /\ p[3] \in Nat /\ p[1] \in DOMAIN reader.catalog
      BY <2>2 DEF PreviewOK, Previews
    <2>4. p[2] = heads[reader.target] /\ p[3] = heads[p[1]]
      BY <1>2, <1>6, <2>2, <2>3 DEF PreviewOK
    <2>5. QED
      BY <1>2, <1>6, <2>3, <2>4
  <1>8. \A i \in 1 .. Len(w.previews) : PreviewOK(w, w.previews[i])
    BY <1>1, <1>5 DEF ReadingOK, PreviewOK
  <1>9. w.kind = "train" => TrainOK(w)
    BY <1>1, <1>5 DEF ReadingOK, TrainOK
  <1>10. w.to \in RevIds /\ w.from <= w.to
    BY <1>2, <1>3, <1>5, <1>6 DEF CatalogOK, RevIds
  <1>11. ReadingOK(w)
    BY <1>1, <1>2, <1>5, <1>7, <1>8, <1>9, <1>10 DEF ReadingOK
  <1>12. QED
    BY <1>1, <1>4, <1>11, ReaderBecomes DEF ReaderOK

\* The view is completed.
LEMMA ReturnStep ==
  ASSUME ViewsInv, Return
  PROVE  ViewsInv'
  <1> DEFINE v == [kind |-> reader.kind, target |-> reader.target,
                   catalog |-> reader.catalog, previews |-> reader.previews,
                   steps |-> reader.steps, from |-> reader.from,
                   to |-> IF reader.kind \in {"preflights", "train"} THEN reader.to
                          ELSE Len(revs)]
  <1>1. /\ reader \in Readers /\ ReadingOK(reader) /\ reader.pc = "done" /\ Repository
        /\ views' = Append(views, v) /\ reader' = NobodyReads /\ UNCHANGED logVars
        /\ views \in Seq(Reports) /\ \A i \in 1 .. Len(views) : ViewOK(views[i])
        /\ Len(revs) \in Nat
    BY DEF Return, ViewsInv, ReaderOK, Repository, LogInv, LogTypeOK
  <1>2. v \in Reports
    BY <1>1 DEF Readers, Reports
  <1>3. CatalogOK(reader.catalog, reader.from) /\ reader.target \in DOMAIN reader.catalog
    BY <1>1 DEF ReadingOK
  <1>4. ViewOK(v)
    <2>1. v.from \in RevIds /\ v.to \in RevIds /\ v.from <= v.to
      <3>1. reader.from \in RevIds
        BY <1>3 DEF CatalogOK
      <3>2. Len(revs) \in RevIds /\ reader.from <= Len(revs)
        BY <1>1, <3>1 DEF RevIds
      <3>3. QED
        BY <1>1, <3>1, <3>2 DEF ReadingOK
    <2>2. ASSUME NEW i \in 1 .. Len(reader.previews), NEW p, p = reader.previews[i]
          PROVE  LET n == IF reader.kind \in {"preflights", "train"} THEN reader.to ELSE reader.from
                 IN  p[2] = HeadAt(reader.target, n) /\ p[3] = HeadAt(p[1], n)
      <3>1. CASE reader.kind \in {"preflights", "train"}
        BY <1>1, <2>2, <3>1 DEF ReadingOK
      <3>2. CASE reader.kind \notin {"preflights", "train"}
        <4>1. reader.kind \in {"queue", "impact"}
          BY <1>1, <3>2 DEF Readers, ViewKinds
        <4>2. PreviewOK(reader, p)
          BY <1>1, <2>2 DEF ReadingOK
        <4>3. QED
          BY <1>3, <3>2, <4>1, <4>2 DEF PreviewOK, CatalogOK
      <3>3. QED
        BY <3>1, <3>2
    <2>3. v.kind = "train" => StepsOK(v.catalog[v.target], v.previews, v.steps)
      BY <1>1 DEF ReadingOK, TrainOK
    <2>4. QED
      BY <2>1, <2>2, <2>3 DEF ViewOK
  <1> HIDE DEF v
  <1>5. Repository /\ LogStep
    BY <1>1 DEF LogStep
  <1>6. views' \in Seq(Reports) /\ Len(views) \in Nat /\ Len(views') = Len(views) + 1
        /\ views'[Len(views) + 1] = v /\ \A i \in 1 .. Len(views) : views'[i] = views[i]
    BY <1>1, <1>2
  <1>7. (\A i \in 1 .. Len(views) : ViewOK(views[i]))'
    <2>1. SUFFICES ASSUME NEW i \in 1 .. Len(views')
                   PROVE  ViewOK(views[i])'
      OBVIOUS
    <2>2. PICK u : u = views'[i]
      OBVIOUS
    <2>3. ViewOK(u)
      BY <1>1, <1>4, <1>6, <2>2
    <2>4. ViewOK(u)'
      BY <1>5, <2>3, ViewKept
    <2>5. QED
      BY <2>2, <2>4
  <1>8. ReaderOK(reader)'
    <2>1. ReaderOK(NobodyReads)'
      BY NobodyOK DEF ReaderOK, NobodyReads
    <2>2. QED
      BY <1>1, <2>1
  <1>9. QED
    BY <1>5, <1>6, <1>7, <1>8, RepositoryStep DEF ViewsInv

\* Every step of a view, and of everybody else, keeps what is known of the views.
LEMMA ViewsInvStep ==
  ASSUME ViewsInv, [ViewsNext]_<<logVars, viewVars>>
  PROVE  ViewsInv'
  <1>1. CASE UNCHANGED <<logVars, viewVars>> \/ Commit
    <2>1. Repository /\ LogStep /\ reader' = reader /\ views' = views
      BY <1>1 DEF ViewsInv, LogStep, Commit, viewVars
    <2>2. ReaderOK(reader)'
      <3>1. PICK w : w = reader /\ ReaderOK(w)
        BY DEF ViewsInv
      <3>2. ReaderOK(w)'
        BY <2>1, <3>1, ReaderKept
      <3>3. QED
        BY <2>1, <3>1, <3>2
    <2>3. (\A i \in 1 .. Len(views) : ViewOK(views[i]))'
      <3>1. SUFFICES ASSUME NEW i \in 1 .. Len(views')
                     PROVE  ViewOK(views[i])'
        OBVIOUS
      <3>2. PICK u : u = views'[i]
        OBVIOUS
      <3>3. ViewOK(u)'
        BY <2>1, <3>1, <3>2, ViewKept DEF ViewsInv
      <3>4. QED
        BY <3>2, <3>3
    <2>4. views' \in Seq(Reports)
      BY <2>1 DEF ViewsInv
    <2>5. QED
      BY <2>1, <2>2, <2>3, <2>4, RepositoryStep DEF ViewsInv
  <1>2. CASE \E kind \in ViewKinds, target \in Keys :
               \E selected \in Selections(target) : Capture(kind, target, selected)
    BY <1>2, CaptureStep
  <1>3. CASE GiveUp
    BY <1>3, NobodyOK, ReaderBecomes DEF GiveUp
  <1>4. QED
    BY <1>1, <1>2, <1>3, PreviewTargetStep, PreviewSourceStep, PreflightFailsStep,
       CaptureAgainStep, ReturnStep DEF ViewsNext

\* No view has been made.
LEMMA ViewsInvInit == Repository /\ ViewsInit => ViewsInv
  <1>1. ViewsInit => views \in Seq(Reports) /\ Len(views) = 0
    BY DEF ViewsInit
  <1>2. QED
    BY <1>1, NobodyOK DEF ViewsInit, ViewsInv

LEMMA TrainForetells ==
  ASSUME Repository, NEW h, NEW previews, NEW steps, StepsOK(h, previews, steps)
  PROVE  LET sources == [s \in DOMAIN steps |-> previews[s][3]]
         IN  \A chain \in [DOMAIN steps -> RevIds] :
               (\A s \in DOMAIN chain :
                   /\ revs[chain[s]].parent1 = (IF s = 1 THEN h ELSE chain[s - 1])
                   /\ revs[chain[s]].parent2 = sources[s])
               => \/ \A s \in DOMAIN chain : Foretold(steps[s], chain[s])
                  \/ ~Independent(h, sources)
  <1> DEFINE sources == [s \in DOMAIN steps |-> previews[s][3]]
  <1>1. /\ DOMAIN steps = 1 .. Len(steps) /\ Len(steps) \in Nat /\ h \in RevIds
        /\ \A s \in 1 .. Len(steps) : previews[s][3] \in RevIds
    BY DEF StepsOK
  <1>2. /\ \A s \in 1 .. Len(steps) : sources[s] = previews[s][3]
        /\ sources \in [1 .. Len(steps) -> RevIds]
    BY <1>1
  <1> HIDE DEF sources
  <1>3. ASSUME NEW chain \in [DOMAIN steps -> RevIds],
               \A s \in DOMAIN chain :
                  /\ revs[chain[s]].parent1 = (IF s = 1 THEN h ELSE chain[s - 1])
                  /\ revs[chain[s]].parent2 = sources[s],
               Independent(h, sources)
        PROVE  \A s \in DOMAIN chain : Foretold(steps[s], chain[s])
    <2>1. ChainOf(h, chain, sources, Len(steps))
      BY <1>1, <1>2, <1>3 DEF ChainOf, Under
    <2>2. \A s \in 1 .. Len(steps) : Foretold(steps[s], chain[s])
      BY <1>2, <1>3, <2>1, ChainForetold
    <2>3. QED
      BY <1>1, <1>3, <2>2
  <1>4. QED
    BY <1>3 DEF sources

\* The invariant says what the views show.
LEMMA ViewsInvHolds == ViewsInv => ViewsHold
  <1>1. SUFFICES ASSUME ViewsInv PROVE ViewsHold
    OBVIOUS
  <1>2. /\ DOMAIN views = 1 .. Len(views)
        /\ \A i \in 1 .. Len(views) : ViewOK(views[i]) /\ views[i] \in Reports
    BY <1>1 DEF ViewsInv
  <1>3. ViewsOfOneMoment
    <2>1. SUFFICES ASSUME NEW i \in 1 .. Len(views), NEW v, v = views[i]
                   PROVE  \E n \in (IF v.kind \in {"preflights", "train"} THEN {v.to}
                                  ELSE v.from .. v.to) :
                            \A p \in ToSet(v.previews) :
                               p[2] = HeadAt(v.target, n) /\ p[3] = HeadAt(p[1], n)
      BY <1>2 DEF ViewsOfOneMoment
    <2>2. ViewOK(v) /\ v.previews \in Seq(Previews) /\ v.from \in Nat /\ v.to \in Nat
      BY <1>2, <2>1 DEF Reports
    <2>3. PICK n : n = IF v.kind \in {"preflights", "train"} THEN v.to ELSE v.from
      OBVIOUS
    <2>4. n \in (IF v.kind \in {"preflights", "train"} THEN {v.to} ELSE v.from .. v.to)
      BY <2>2, <2>3 DEF ViewOK
    <2>5. \A p \in ToSet(v.previews) : p[2] = HeadAt(v.target, n) /\ p[3] = HeadAt(p[1], n)
      <3>1. \A p \in ToSet(v.previews) : \E j \in 1 .. Len(v.previews) : p = v.previews[j]
        BY <2>2 DEF ToSet
      <3>2. QED
        BY <2>2, <2>3, <3>1 DEF ViewOK
    <2>6. QED
      BY <2>4, <2>5
  <1>4. TrainsForetell
    <2>1. SUFFICES ASSUME NEW i \in 1 .. Len(views), views[i].kind = "train"
                   PROVE  LET v       == views[i]
                              target  == v.catalog[v.target]
                              sources == [s \in DOMAIN v.steps |-> v.previews[s][3]]
                          IN  \A chain \in [DOMAIN v.steps -> RevIds] :
                                (\A s \in DOMAIN chain :
                                    /\ revs[chain[s]].parent1 = (IF s = 1 THEN target ELSE chain[s - 1])
                                    /\ revs[chain[s]].parent2 = sources[s])
                                => \/ \A s \in DOMAIN chain : Foretold(v.steps[s], chain[s])
                                   \/ ~Independent(target, sources)
      BY <1>2 DEF TrainsForetell
    <2> DEFINE v == views[i]
    <2>2. Repository /\ StepsOK(v.catalog[v.target], v.previews, v.steps)
      BY <1>1, <1>2, <2>1 DEF ViewOK, ViewsInv
    <2> HIDE DEF v
    <2>3. QED
      BY <2>2, TrainForetells DEF v
  <1>5. QED
    BY <1>3, <1>4 DEF ViewsHold

\* Views of branches, while everybody commits and merges: from any repository that
\* is well formed, whose merges are from the best common ancestors (theorems of the
\* log) and whose branches with a head have all committed it.
ViewsSpec == Repository /\ ViewsInit /\ [][ViewsNext]_<<logVars, viewVars>>

\* Pages of the project's queue, their impact, preflights and trains all show
\* the heads of one moment, however the branches move while they are made; and
\* a train foretells what publishing its sources one after the other gives,
\* unless the sources share history that the target does not have.
THEOREM ViewsCanBeActedUpon == ViewsSpec => []ViewsHold
  <1>1. Repository /\ ViewsInit => ViewsInv
    BY ViewsInvInit
  <1>2. ViewsInv /\ [ViewsNext]_<<logVars, viewVars>> => ViewsInv'
    BY ViewsInvStep
  <1>3. ViewsInv => ViewsHold
    BY ViewsInvHolds
  <1>4. QED
    BY <1>1, <1>2, <1>3, PTL DEF ViewsSpec
------------------------------------------------------------------------------
(* The metadata of a project                                                *)

SourceTrees == [kind : {"source"}, made : Nat, text : SUBSET Nat]
BuildTrees  == [kind : {"build"}, made : Nat, document : Sources]
TestTrees   == [kind : {"test"}, made : Nat, build : Builds]
TaskTrees   ==
  [kind : {"task"}, made : Nat, branch : Branches, owner : Agents, status : DOMAIN Transitions,
   allowed : SUBSET Sources, needs : SUBSET Tasks, tests : SUBSET Tests]

Trees == SourceTrees \cup BuildTrees \cup TestTrees \cup TaskTrees

\* Every document is of one sort, and what agents propose are contracts.
DocumentsApart ==
  /\ Modules = Sources \cup Builds \cup Tests \cup Tasks
  /\ Sources \cap (Builds \cup Tests \cup Tasks) = {}
  /\ Builds \cap (Tests \cup Tasks) = {}
  /\ Tests \cap Tasks = {}
  /\ Drafts \subseteq [name : Tasks, owner : Agents, status : DOMAIN Transitions,
                       allowed : SUBSET Sources, needs : SUBSET Tasks, tests : SUBSET Tests]

\* A tree of the document's sort.
TreeFits(d, tree) ==
  /\ d \in Sources => tree \in SourceTrees
  /\ d \in Builds => tree \in BuildTrees
  /\ d \in Tests => tree \in TestTrees
  /\ d \in Tasks => tree \in TaskTrees

TreesFit(trees) == \A d \in DOMAIN trees : d \in Modules /\ TreeFits(d, trees[d])

StateFits(state) == \A d \in Modules : state[d] = NoTree \/ TreeFits(d, state[d])

\* What MetadataResolves asks of the state of one revision, and its type.
StateOK(state) ==
  /\ StateFits(state)
  /\ BuildsResolve(state) /\ TestsResolve(state)
  /\ \A n \in Contracts(state) : AllPresent(state, state[n].allowed \cup state[n].needs)
  /\ Acyclic(state, Contracts(state))

OpNames == {"edit", "delete", "set_build_target", "set_test_target", "create_task_contract",
            "set_task_status", "task_node_apply_batch", "merge", "revert"}

Entries ==
  [op : OpNames, about : Modules \cup {"nothing"}, actor : Agents \cup {"nobody"},
   trees : UNION {[S -> Trees] : S \in SUBSET Modules}]

EntriesOK ==
  /\ entries \in Seq(Entries)
  /\ Len(entries) = Len(revs)
  /\ \A r \in RevIds : TreesFit(entries[r].trees)

\* The revisions that wrote the texts of a snapshot have an entry with its trees.
Written(snap) ==
  \A d \in Modules : snap[d] # Absent =>
     snap[d] \in RevIds /\ d \in DOMAIN entries[snap[d]].trees

SnapshotsWritten == \A r \in RevIds : Written(revs[r].snap)

StatesOK == \A r \in RevIds : StateOK(State(r))

\* An edit in the name of a task has a parent.
BatchesHaveParents ==
  \A r \in RevIds : entries[r].op = "task_node_apply_batch" => revs[r].parent1 # NoRev

\* A history that metadata may be founded on; and every history from there.
Founded ==
  /\ LogInv
  /\ EntriesOK
  /\ SnapshotsWritten
  /\ StatesOK
  /\ BatchesHaveParents
  /\ ContractsBind

MetadataInv == DocumentsApart /\ Founded /\ call.branch \in Keys

\* The documents of a snapshot, when a revision writes some trees over it.
TreeAt(snap, d) == IF snap[d] = Absent THEN NoTree ELSE entries[snap[d]].trees[d]

After(snap, trees) ==
  [d \in Modules |-> IF d \in DOMAIN trees THEN trees[d] ELSE TreeAt(snap, d)]

\* The parents of a revision that is published on branch k, and their history.
ParentsOf(k, p2) == {heads[k], p2} \ {NoRev}

PastOf(k, p2) == UNION {Ancestors(p) : p \in ParentsOf(k, p2)}

\* A contract that is complete in p is so in the state, too, or a revert came between.
StaysComplete(p, past, state, n) ==
  State(p)[n].status = "complete" =>
     \/ Present(state, n) /\ state[n].status = "complete"
     \/ \E q \in past : entries[q].op = "revert"

\* A revision of sound metadata.
SoundRevision(k, p2, snap, e) ==
  /\ heads[k] \in RevIds
  /\ p2 # NoRev => revs[p2].project = k[1]
  /\ Publish(k, heads[k], p2, snap, DOMAIN e.trees, {})
  /\ entries' = Append(entries, e)
  /\ Written(snap)
  /\ TreesFit(e.trees)
  /\ StateOK(After(snap, e.trees))
  /\ e.op = "task_node_apply_batch" =>
       \A d \in DOMAIN e.trees : Executable(State(heads[k]), k, e.about, e.actor, d)
  /\ e.op = "revert" \/
       \A p \in ParentsOf(k, p2) : \A n \in Contracts(State(p)) :
          StaysComplete(p, PastOf(k, p2), After(snap, e.trees), n)

SoundStep ==
  \E k \in Keys, p2 \in RevIds \cup {NoRev}, snap \in Snapshots, e \in Entries :
     SoundRevision(k, p2, snap, e)

\* What every revision has recorded stays, and the states with it.
EntriesGrow == \A r \in RevIds : entries'[r] = entries[r]

LEMMA StatesStay ==
  ASSUME LogGrows, SnapshotsWritten, EntriesGrow
  PROVE  \A r \in RevIds : State(r)' = State(r)
  BY DEF LogGrows, SnapshotsWritten, Written, EntriesGrow, State

\* A sound revision is the last one, with the state that it was written to have.
LEMMA SoundFacts ==
  ASSUME Founded, NEW k \in Keys, NEW p2 \in RevIds \cup {NoRev}, NEW snap \in Snapshots,
         NEW e \in Entries, SoundRevision(k, p2, snap, e), NEW n, n = Len(revs) + 1
  PROVE  /\ LogInv' /\ LogGrows /\ EntriesGrow
         /\ RevIds' = RevIds \cup {n} /\ n \notin RevIds
         /\ entries' \in Seq(Entries) /\ Len(entries') = Len(revs') /\ entries'[n] = e
         /\ heads' = [heads EXCEPT ![k] = n]
         /\ revs'[n].project = k[1] /\ revs'[n].branch = k[2]
         /\ revs'[n].parent1 = heads[k] /\ revs'[n].parent2 = p2
         /\ revs'[n].snap = Stamp(snap, DOMAIN e.trees, n)
         /\ \A r \in RevIds : State(r)' = State(r)
         /\ State(n)' = After(snap, e.trees)
  <1> DEFINE written == DOMAIN e.trees
  <1>1. LogInv /\ written \in SUBSET Modules /\ heads[k] \in RevIds
        /\ Publish(k, heads[k], p2, snap, written, {}) /\ entries' = Append(entries, e)
        /\ (p2 # NoRev => revs[p2].project = k[1])
    BY DEF Founded, SoundRevision, TreesFit
  <1>2. {} \in SUBSET Contents
    OBVIOUS
  <1> HIDE DEF written
  <1>3. /\ Len(revs) \in Nat /\ Len(revs') = n
        /\ RevIds' = RevIds \cup {n} /\ n \notin RevIds
        /\ \A r \in RevIds : revs'[r] = revs[r]
        /\ heads' = [heads EXCEPT ![k] = n]
        /\ revs'[n].project = k[1] /\ revs'[n].branch = k[2]
        /\ revs'[n].parent1 = heads[k] /\ revs'[n].parent2 = p2
    BY <1>1, <1>2, PublishFacts
  <1>4. revs'[n].snap = Stamp(snap, written, n)
    BY <1>1, PublishedSnap
  <1>5. LogInv'
    <2>1. PublishStep
      BY <1>1, <1>2 DEF PublishStep
    <2>2. QED
      BY <1>1, <2>1, ShapeKeepsLog
  <1>6. LogGrows
    BY <1>3 DEF LogGrows
  <1>7. entries \in Seq(Entries) /\ Len(entries) = Len(revs) /\ RevIds = 1 .. Len(revs)
    BY DEF Founded, EntriesOK, RevIds
  <1>8. /\ entries' \in Seq(Entries) /\ Len(entries') = n /\ entries'[n] = e
        /\ EntriesGrow
    BY <1>1, <1>3, <1>7 DEF EntriesGrow
  <1>9. \A r \in RevIds : State(r)' = State(r)
    BY <1>6, <1>8, StatesStay DEF Founded
  <1>10. State(n)' = After(snap, e.trees)
    <2> DEFINE there(d) == IF revs'[n].snap[d] = Absent THEN NoTree
                           ELSE entries'[revs'[n].snap[d]].trees[d]
               here(d) == IF d \in DOMAIN e.trees THEN e.trees[d] ELSE TreeAt(snap, d)
    <2>1. ASSUME NEW d \in Modules
          PROVE  there(d) = here(d)
      <3>1. CASE d \in written
        BY <1>3, <1>4, <1>8, <3>1 DEF Stamp, Absent, written
      <3>2. CASE d \notin written
        <4>1. revs'[n].snap[d] = snap[d]
          BY <1>4, <3>2 DEF Stamp
        <4>2. snap[d] # Absent => snap[d] \in RevIds
          BY DEF SoundRevision, Written
        <4>3. QED
          BY <1>8, <3>2, <4>1, <4>2 DEF EntriesGrow, TreeAt, written
      <3>3. QED
        BY <3>1, <3>2
    <2>2. State(n)' = [d \in Modules |-> there(d)]
      BY DEF State
    <2>3. After(snap, e.trees) = [d \in Modules |-> here(d)]
      BY DEF After
    <2> HIDE DEF there, here
    <2>4. QED
      BY <2>1, <2>2, <2>3
  <1>11. QED
    BY <1>3, <1>4, <1>5, <1>6, <1>8, <1>9, <1>10 DEF written

\* What a contract allows is a matter of the state.
LEMMA FoundedStep ==
  ASSUME DocumentsApart, Founded, SoundStep
  PROVE  Founded'
  <1>1. PICK k \in Keys, p2 \in RevIds \cup {NoRev}, snap \in Snapshots, e \in Entries :
          SoundRevision(k, p2, snap, e)
    BY DEF SoundStep
  <1>n. PICK n : n = Len(revs) + 1
    OBVIOUS
  <1> DEFINE state == After(snap, e.trees)
             StateNew(r) == State(r)'
             WrittenNew(s) == \A d \in Modules : s[d] # Absent =>
                                 s[d] \in RevIds' /\ d \in DOMAIN entries'[s[d]].trees
  <1>2. /\ LogInv' /\ LogGrows /\ EntriesGrow
        /\ RevIds' = RevIds \cup {n} /\ n \notin RevIds
        /\ entries' \in Seq(Entries) /\ Len(entries') = Len(revs') /\ entries'[n] = e
        /\ revs'[n].project = k[1] /\ revs'[n].branch = k[2]
        /\ revs'[n].parent1 = heads[k] /\ revs'[n].parent2 = p2
        /\ revs'[n].snap = Stamp(snap, DOMAIN e.trees, n)
        /\ \A r \in RevIds : StateNew(r) = State(r)
        /\ StateNew(n) = state
    BY <1>1, <1>n, SoundFacts
  <1>3. heads[k] \in RevIds /\ heads[k] # NoRev /\ <<k[1], k[2]>> = k
    BY <1>1 DEF SoundRevision, RevIds, NoRev, Keys
  <1>4. EntriesOK'
    <2>1. \A r \in RevIds' : TreesFit(entries'[r].trees)
      BY <1>1, <1>2 DEF EntriesOK, Founded, SoundRevision, EntriesGrow
    <2>2. QED
      BY <1>2, <2>1 DEF EntriesOK, TreesFit, TreeFits, SourceTrees, BuildTrees, TestTrees,
         TaskTrees
  <1>5. SnapshotsWritten'
    <2>1. \A r \in RevIds : WrittenNew(revs'[r].snap)
      BY <1>2 DEF Founded, SnapshotsWritten, Written, LogGrows, EntriesGrow
    <2>2. WrittenNew(revs'[n].snap)
      <3>1. Written(snap)
        BY <1>1 DEF SoundRevision
      <3>2. ASSUME NEW d \in Modules, revs'[n].snap[d] # Absent
            PROVE  revs'[n].snap[d] \in RevIds' /\ d \in DOMAIN entries'[revs'[n].snap[d]].trees
        <4>1. CASE d \in DOMAIN e.trees
          BY <1>2, <4>1 DEF Stamp
        <4>2. CASE d \notin DOMAIN e.trees
          <5>1. revs'[n].snap[d] = snap[d]
            BY <1>2, <4>2 DEF Stamp
          <5>3. QED
            BY <1>2, <3>1, <3>2, <5>1 DEF Written, EntriesGrow
        <4>3. QED
          BY <4>1, <4>2
      <3>3. QED
        BY <3>2
    <2>3. QED
      BY <1>2, <2>1, <2>2 DEF SnapshotsWritten, Written
  <1>6. StatesOK'
    <2>1. \A r \in RevIds' : StateOK(StateNew(r))
      BY <1>1, <1>2 DEF Founded, StatesOK, SoundRevision
    <2>2. QED
      BY <2>1 DEF StatesOK, StateOK, StateFits, TreeFits, SourceTrees, BuildTrees, TestTrees,
         TaskTrees, BuildsResolve, TestsResolve, Present, Contracts, AllPresent, Acyclic, NeedsClosed
  <1>7. BatchesHaveParents'
    BY <1>1, <1>2, <1>3 DEF BatchesHaveParents, Founded, SoundRevision, EntriesGrow, LogGrows
  <1>8. ContractsBind'
    <2> DEFINE AncestorsNew(r) == Ancestors(r)'
    <2>1. /\ \A r \in RevIds : AncestorsNew(r) = Ancestors(r) /\ Ancestors(r) \subseteq RevIds
          /\ \A r \in RevIds : r \in Ancestors(r)
      BY <1>2, BasesStay, AncestryFacts DEF Founded
    <2>2. AncestorsNew(n) = {n} \cup Ancestors(heads[k])
                              \cup (IF p2 = NoRev THEN {} ELSE Ancestors(p2))
      BY <1>2, <1>3, NewAncestors DEF Founded
    <2>3. ASSUME NEW r \in RevIds', entries'[r].op = "task_node_apply_batch",
                 NEW d \in DOMAIN entries'[r].trees, NEW h, h = revs'[r].parent1
          PROVE  Executable(StateNew(h), <<revs'[r].project, revs'[r].branch>>,
                            entries'[r].about, entries'[r].actor, d)
      <3>1. CASE r \in RevIds
        <4>1. entries'[r] = entries[r] /\ revs'[r] = revs[r]
          BY <1>2, <3>1 DEF EntriesGrow, LogGrows
        <4>2. h \in RevIds
          BY <2>3, <3>1, <4>1, ParentsExist DEF Founded, BatchesHaveParents
        <4>3. StateNew(h) = State(h)
          BY <1>2, <4>2
        <4>4. QED
          BY <2>3, <3>1, <4>1, <4>3 DEF Founded, ContractsBind
      <3>2. CASE r = n
        <4>1. StateNew(h) = State(heads[k])
          BY <1>2, <1>3, <2>3, <3>2
        <4>2. QED
          BY <1>1, <1>2, <1>3, <2>3, <3>2, <4>1 DEF SoundRevision
      <3>3. QED
        BY <1>2, <3>1, <3>2
    <2>4. ASSUME NEW r \in RevIds', NEW p \in AncestorsNew(r), NEW m \in Contracts(StateNew(p)),
                 StateNew(p)[m].status = "complete"
          PROVE  \/ Present(StateNew(r), m) /\ StateNew(r)[m].status = "complete"
                 \/ \E q \in AncestorsNew(r) : entries'[q].op = "revert"
      <3>1. ASSUME NEW h \in RevIds, p \in Ancestors(h)
            PROVE  /\ p \in RevIds /\ StateNew(p) = State(p)
                   /\ \/ Present(State(h), m) /\ State(h)[m].status = "complete"
                      \/ \E q \in Ancestors(h) : entries'[q].op = "revert"
        <4>1. p \in RevIds /\ StateNew(p) = State(p)
          BY <1>2, <2>1, <3>1
        <4>2. \/ Present(State(h), m) /\ State(h)[m].status = "complete"
              \/ \E q \in Ancestors(h) : entries[q].op = "revert"
          BY <2>4, <3>1, <4>1 DEF Founded, ContractsBind
        <4>3. QED
          BY <1>2, <2>1, <3>1, <4>1, <4>2 DEF EntriesGrow
      <3>2. CASE r \in RevIds
        BY <1>2, <2>1, <3>1, <3>2
      <3>3. CASE r = n
        <4>1. CASE p = n
          BY <2>4, <3>3, <4>1 DEF Contracts
        <4>2. ASSUME NEW h \in ParentsOf(k, p2), p \in Ancestors(h)
              PROVE  \/ Present(state, m) /\ state[m].status = "complete"
                     \/ \E q \in AncestorsNew(n) : entries'[q].op = "revert"
          <5>1. h \in RevIds /\ Ancestors(h) \subseteq AncestorsNew(n) /\ n \in AncestorsNew(n)
            BY <1>3, <2>2, <4>2 DEF ParentsOf
          <5>2. PastOf(k, p2) \subseteq AncestorsNew(n) /\ PastOf(k, p2) \subseteq RevIds
            BY <1>3, <2>1, <2>2 DEF PastOf, ParentsOf
          <5>3. CASE \E q \in Ancestors(h) : entries'[q].op = "revert"
            BY <5>1, <5>3
          <5>4. CASE e.op = "revert"
            BY <1>2, <5>1, <5>4
          <5>5. CASE Present(State(h), m) /\ State(h)[m].status = "complete" /\ e.op # "revert"
            <6>1. m \in Contracts(State(h))
              BY <2>4, <5>5 DEF Contracts
            <6>2. StaysComplete(h, PastOf(k, p2), state, m)
              BY <1>1, <4>2, <5>5, <6>1 DEF SoundRevision
            <6>3. QED
              BY <1>2, <5>2, <5>5, <6>2 DEF StaysComplete, EntriesGrow
          <5>6. QED
            BY <3>1, <4>2, <5>1, <5>3, <5>4, <5>5
        <4>3. QED
          BY <1>2, <1>3, <2>2, <2>4, <3>3, <4>1, <4>2 DEF ParentsOf
      <3>4. QED
        BY <1>2, <3>2, <3>3
    <2>5. ASSUME NEW r \in RevIds', entries'[r].op = "task_node_apply_batch",
                 NEW d \in DOMAIN entries'[r].trees
          PROVE  Executable(State(revs[r].parent1), <<revs[r].project, revs[r].branch>>,
                            entries[r].about, entries[r].actor, d)'
      <3>1. PICK h : h = revs'[r].parent1
        OBVIOUS
      <3>2. Executable(StateNew(h), <<revs'[r].project, revs'[r].branch>>,
                       entries'[r].about, entries'[r].actor, d)
        BY <2>3, <2>5, <3>1
      <3>3. QED
        BY <3>1, <3>2 DEF State, Executable, Owns, Present
    <2>6. ASSUME NEW r \in RevIds', NEW p \in Ancestors(r)', NEW m \in Contracts(State(p))',
                 (State(p)[m].status = "complete")'
          PROVE  (\/ Present(State(r), m) /\ State(r)[m].status = "complete"
                  \/ \E q \in Ancestors(r) : entries[q].op = "revert")'
      <3>1. m \in Contracts(StateNew(p)) /\ StateNew(p)[m].status = "complete"
        BY <2>6 DEF Contracts, Present
      <3>2. \/ Present(StateNew(r), m) /\ StateNew(r)[m].status = "complete"
            \/ \E q \in AncestorsNew(r) : entries'[q].op = "revert"
        BY <2>4, <3>1
      <3>3. QED
        BY <3>2 DEF Present
    <2>7. QED
      BY <2>5, <2>6 DEF ContractsBind, Ancestors
  <1>9. QED
    BY <1>2, <1>4, <1>5, <1>6, <1>7, <1>8 DEF Founded

------------------------------------------------------------------------------
(* What one document may do to a state                                      *)

\* Circles of contracts are a matter of the contracts alone.
LEMMA ContractsAlone ==
  ASSUME NEW s, NEW t, \A n \in Tasks : t[n] = s[n], Acyclic(s, Contracts(s))
  PROVE  Contracts(t) = Contracts(s) /\ Acyclic(t, Contracts(t))
  <1>1. Contracts(t) = Contracts(s)
    BY DEF Contracts, Present
  <1>2. \A n \in Contracts(s) : n \in Tasks
    BY DEF Contracts
  <1>3. ASSUME NEW n \in Contracts(s)
        PROVE  \E S \in SUBSET (Contracts(s) \ {n}) : NeedsClosed(t, S) /\ t[n].needs \subseteq S
    <2>1. PICK S \in SUBSET (Contracts(s) \ {n}) : NeedsClosed(s, S) /\ s[n].needs \subseteq S
      BY DEF Acyclic
    <2>2. NeedsClosed(t, S) /\ t[n].needs \subseteq S
      BY <1>2, <2>1 DEF NeedsClosed
    <2>3. QED
      BY <2>2
  <1>4. QED
    BY <1>1, <1>3 DEF Acyclic

\* No tree that fits its document is missing.
LEMMA FittingIsPresent ==
  ASSUME DocumentsApart, NEW d \in Modules, NEW tree, TreeFits(d, tree)
  PROVE  tree # NoTree /\ tree \in Trees
  BY DEF DocumentsApart, TreeFits, Trees, NoTree, SourceTrees, BuildTrees, TestTrees, TaskTrees

\* Sources and targets may be set whenever what they name is there.
LEMMA TargetsMaySet ==
  ASSUME DocumentsApart, NEW s \in [Modules -> Trees \cup {NoTree}], StateOK(s),
         NEW d \in Modules, d \notin Tasks, NEW tree, TreeFits(d, tree),
         d \in Builds => Present(s, tree.document), d \in Tests => Present(s, tree.build)
  PROVE  StateOK([s EXCEPT ![d] = tree])
  <1> DEFINE t == [s EXCEPT ![d] = tree]
  <1>1. t[d] = tree /\ (\A x \in Modules : x # d => t[x] = s[x])
    OBVIOUS
  <1> HIDE DEF t
  <1>2. tree # NoTree
    BY FittingIsPresent
  <1>3. \A x \in Modules : Present(s, x) => Present(t, x)
    BY <1>1, <1>2 DEF Present
  <1>4. StateFits(t)
    BY <1>1 DEF StateFits, StateOK
  <1>5. BuildsResolve(t)
    <2>1. ASSUME NEW b \in Builds, Present(t, b)
          PROVE  Present(t, t[b].document)
      <3>1. b \in Modules /\ t[b] \in BuildTrees
        BY <1>4, <2>1 DEF StateFits, DocumentsApart, TreeFits, Present
      <3>2. t[b].document \in Modules
        BY <3>1 DEF BuildTrees, DocumentsApart
      <3>3. Present(s, t[b].document)
        BY <1>1, <2>1, <3>1 DEF StateOK, BuildsResolve, Present
      <3>4. QED
        BY <1>3, <3>2, <3>3
    <2>2. QED
      BY <2>1 DEF BuildsResolve
  <1>6. TestsResolve(t)
    <2>1. ASSUME NEW b \in Tests, Present(t, b)
          PROVE  Present(t, t[b].build)
      <3>1. b \in Modules /\ t[b] \in TestTrees
        BY <1>4, <2>1 DEF StateFits, DocumentsApart, TreeFits, Present
      <3>2. t[b].build \in Modules
        BY <3>1 DEF TestTrees, DocumentsApart
      <3>3. Present(s, t[b].build)
        BY <1>1, <2>1, <3>1 DEF StateOK, TestsResolve, Present
      <3>4. QED
        BY <1>3, <3>2, <3>3
    <2>2. QED
      BY <2>1 DEF TestsResolve
  <1>7. \A n \in Tasks : n \in Modules /\ t[n] = s[n]
    BY <1>1 DEF DocumentsApart
  <1>8. Contracts(t) = Contracts(s) /\ Acyclic(t, Contracts(t))
    BY <1>7, ContractsAlone DEF StateOK
  <1>9. ASSUME NEW n \in Contracts(t), NEW x \in t[n].allowed \cup t[n].needs
        PROVE  Present(t, x)
    <2>1. n \in Tasks /\ n \in Modules /\ t[n] = s[n] /\ t[n] \in TaskTrees
      BY <1>4, <1>7, <1>9 DEF Contracts, StateFits, TreeFits, Present
    <2>2. x \in Modules
      BY <1>9, <2>1 DEF TaskTrees, DocumentsApart
    <2>3. Present(s, x)
      BY <1>8, <1>9, <2>1 DEF StateOK, AllPresent
    <2>4. QED
      BY <1>3, <2>2, <2>3
  <1>10. QED
    BY <1>4, <1>5, <1>6, <1>8, <1>9 DEF StateOK, AllPresent, t

\* A target that no test builds may be deleted, and so may a test.
LEMMA TargetsMayGo ==
  ASSUME DocumentsApart, NEW s \in [Modules -> Trees \cup {NoTree}], StateOK(s),
         NEW d \in Builds \cup Tests,
         d \in Builds => \A x \in Tests : Present(s, x) => s[x].build # d
  PROVE  StateOK([s EXCEPT ![d] = NoTree])
  <1> DEFINE t == [s EXCEPT ![d] = NoTree]
  <1>1. d \in Modules /\ t[d] = NoTree /\ (\A x \in Modules : x # d => t[x] = s[x])
    BY DEF DocumentsApart
  <1> HIDE DEF t
  <1>2. \A x \in Modules : Present(t, x) => x # d /\ Present(s, x) /\ t[x] = s[x]
    BY <1>1 DEF Present
  <1>3. \A x \in Modules : x # d /\ Present(s, x) => Present(t, x)
    BY <1>1 DEF Present
  <1>4. StateFits(t)
    BY <1>1 DEF StateFits, StateOK
  <1>5. BuildsResolve(t)
    <2>1. ASSUME NEW b \in Builds, Present(t, b)
          PROVE  Present(t, t[b].document)
      <3>1. b \in Modules /\ Present(s, b) /\ t[b] = s[b] /\ t[b] \in BuildTrees
        BY <1>2, <1>4, <2>1 DEF StateFits, DocumentsApart, TreeFits, Present
      <3>2. t[b].document \in Modules /\ t[b].document # d
        BY <3>1 DEF BuildTrees, DocumentsApart
      <3>3. Present(s, t[b].document)
        BY <2>1, <3>1 DEF StateOK, BuildsResolve
      <3>4. QED
        BY <1>3, <3>2, <3>3
    <2>2. QED
      BY <2>1 DEF BuildsResolve
  <1>6. TestsResolve(t)
    <2>1. ASSUME NEW b \in Tests, Present(t, b)
          PROVE  Present(t, t[b].build)
      <3>1. b \in Modules /\ Present(s, b) /\ t[b] = s[b] /\ t[b] \in TestTrees
        BY <1>2, <1>4, <2>1 DEF StateFits, DocumentsApart, TreeFits, Present
      <3>2. t[b].build \in Builds
        BY <3>1 DEF TestTrees
      <3>3. t[b].build \in Modules /\ t[b].build # d
        BY <3>1, <3>2 DEF DocumentsApart
      <3>4. Present(s, t[b].build)
        BY <2>1, <3>1 DEF StateOK, TestsResolve
      <3>5. QED
        BY <1>3, <3>3, <3>4
    <2>2. QED
      BY <2>1 DEF TestsResolve
  <1>7. \A n \in Tasks : n \in Modules /\ n # d /\ t[n] = s[n]
    BY <1>1 DEF DocumentsApart
  <1>8. Contracts(t) = Contracts(s) /\ Acyclic(t, Contracts(t))
    BY <1>7, ContractsAlone DEF StateOK
  <1>9. ASSUME NEW n \in Contracts(t), NEW x \in t[n].allowed \cup t[n].needs
        PROVE  Present(t, x)
    <2>1. n \in Tasks /\ n \in Modules /\ t[n] = s[n] /\ t[n] \in TaskTrees
      BY <1>4, <1>7, <1>9 DEF Contracts, StateFits, TreeFits, Present
    <2>2. x \in Modules /\ x # d
      BY <1>9, <2>1 DEF TaskTrees, DocumentsApart
    <2>3. Present(s, x)
      BY <1>8, <1>9, <2>1 DEF StateOK, AllPresent
    <2>4. QED
      BY <1>3, <2>2, <2>3
  <1>10. QED
    BY <1>4, <1>5, <1>6, <1>8, <1>9 DEF StateOK, AllPresent, t

\* A contract may be put when everything it names is there.
LEMMA ContractsMaySet ==
  ASSUME DocumentsApart, NEW s \in [Modules -> Trees \cup {NoTree}], StateOK(s),
         NEW d \in Tasks, NEW tree, TreeFits(d, tree),
         TasksResolve([s EXCEPT ![d] = tree])
  PROVE  StateOK([s EXCEPT ![d] = tree])
  <1> DEFINE t == [s EXCEPT ![d] = tree]
  <1>1. d \in Modules /\ t[d] = tree /\ (\A x \in Modules : x # d => t[x] = s[x])
    BY DEF DocumentsApart
  <1>2. TasksResolve(t)
    OBVIOUS
  <1> HIDE DEF t
  <1>3. StateFits(t)
    BY <1>1 DEF StateFits, StateOK
  <1>4. BuildsResolve(t)
    <2>1. ASSUME NEW b \in Builds, Present(t, b)
          PROVE  Present(t, t[b].document)
      <3>1. b \in Modules /\ b # d /\ t[b] = s[b] /\ t[b] \in BuildTrees
        BY <1>1, <1>3, <2>1 DEF StateFits, DocumentsApart, TreeFits, Present
      <3>2. t[b].document \in Modules /\ t[b].document # d
        BY <3>1 DEF BuildTrees, DocumentsApart
      <3>3. QED
        BY <1>1, <2>1, <3>1, <3>2 DEF StateOK, BuildsResolve, Present
    <2>2. QED
      BY <2>1 DEF BuildsResolve
  <1>5. TestsResolve(t)
    <2>1. ASSUME NEW b \in Tests, Present(t, b)
          PROVE  Present(t, t[b].build)
      <3>1. b \in Modules /\ b # d /\ t[b] = s[b] /\ t[b] \in TestTrees
        BY <1>1, <1>3, <2>1 DEF StateFits, DocumentsApart, TreeFits, Present
      <3>2. t[b].build \in Modules /\ t[b].build # d
        BY <3>1 DEF TestTrees, DocumentsApart
      <3>3. QED
        BY <1>1, <2>1, <3>1, <3>2 DEF StateOK, TestsResolve, Present
    <2>2. QED
      BY <2>1 DEF TestsResolve
  <1>6. QED
    BY <1>2, <1>3, <1>4, <1>5 DEF StateOK, TasksResolve, ContractResolves, AllPresent, t

------------------------------------------------------------------------------
(* The operations publish sound revisions                                   *)

\* The state of an existing revision, as a function of the documents.
LEMMA StateFacts ==
  ASSUME DocumentsApart, Founded, NEW r \in RevIds
  PROVE  /\ State(r) \in [Modules -> Trees \cup {NoTree}]
         /\ StateOK(State(r))
         /\ revs[r].snap \in Snapshots
         /\ Written(revs[r].snap)
         /\ \A d \in Modules : State(r)[d] = TreeAt(revs[r].snap, d)
        /\ \A d \in Modules : revs[r].snap[d] # Absent => TreeFits(d, State(r)[d])
  <1>1. StateOK(State(r)) /\ Written(revs[r].snap)
    BY DEF Founded, StatesOK, SnapshotsWritten
  <1>2. revs[r].snap \in Snapshots
    BY RevisionType DEF Founded, LogInv
  <1>3. \A d \in Modules : State(r)[d] = TreeAt(revs[r].snap, d)
    BY DEF State, TreeAt
  <1>4. \A d \in Modules : revs[r].snap[d] # Absent => TreeFits(d, State(r)[d])
    BY <1>1, <1>3 DEF Founded, EntriesOK, Written, TreesFit, TreeAt
  <1>5. \A d \in Modules : State(r)[d] \in Trees \cup {NoTree}
    BY <1>1, FittingIsPresent DEF StateOK, StateFits
  <1>6. State(r) = [d \in Modules |-> State(r)[d]]
    BY DEF State
  <1>7. QED
    BY <1>1, <1>2, <1>3, <1>4, <1>5, <1>6

\* One document is set, in a call that read the head that it extends.
LEMMA PutIsSound ==
  ASSUME DocumentsApart, Founded, NEW k \in Keys, NEW base, NEW d \in Modules, NEW tree,
         NEW op \in OpNames, NEW about \in Modules, NEW actor \in Agents,
         PutTree(k, base, d, tree, op, about, actor),
         TreeFits(d, tree), StateOK([State(base) EXCEPT ![d] = tree]),
         op = "task_node_apply_batch" => Executable(State(base), k, about, actor, d),
         d \in Tasks /\ Present(State(base), d) =>
           State(base)[d].status # "complete"
  PROVE  SoundStep
  <1> DEFINE trees == [x \in {d} |-> tree]
             e == Entry(op, about, actor, trees)
             snap == revs[base].snap
  <1>1. base \in RevIds /\ heads[k] = base /\ base # NoRev
    BY DEF PutTree, HeadAsRead, Founded, LogInv, ProjectClosed
  <1>2. /\ State(base) \in [Modules -> Trees \cup {NoTree}]
        /\ snap \in Snapshots /\ Written(snap)
        /\ \A x \in Modules : State(base)[x] = TreeAt(snap, x)
    BY <1>1, StateFacts
  <1>3. tree \in Trees
    BY FittingIsPresent
  <1>4. DOMAIN trees = {d} /\ trees[d] = tree /\ trees \in [{d} -> Trees]
    BY <1>3
  <1>5. {d} \in SUBSET Modules
    OBVIOUS
  <1> HIDE DEF trees
  <1>6. e \in Entries /\ e.trees = trees /\ e.op = op /\ e.about = about /\ e.actor = actor
    BY <1>4, <1>5 DEF Entries, Entry
  <1>7. Publish(k, heads[k], NoRev, snap, {d}, {}) /\ entries' = Append(entries, e)
    BY DEF PutTree, trees
  <1> HIDE DEF e
  <1>8. After(snap, e.trees) = [State(base) EXCEPT ![d] = tree]
    BY <1>2, <1>4, <1>6 DEF After
  <1>9. TreesFit(e.trees)
    BY <1>4, <1>6 DEF TreesFit
  <1>10. ASSUME NEW n \in Contracts(State(base))
         PROVE  StaysComplete(base, PastOf(k, NoRev), After(snap, e.trees), n)
    <2>1. n \in Tasks /\ n \in Modules /\ Present(State(base), n)
      BY DEF Contracts, DocumentsApart
    <2>2. CASE n = d
      BY <2>1, <2>2 DEF StaysComplete
    <2>3. CASE n # d
      BY <1>2, <1>8, <2>1, <2>3 DEF StaysComplete, Present
    <2>4. QED
      BY <2>2, <2>3
  <1>11. SoundRevision(k, NoRev, snap, e)
    <2>1. heads[k] \in RevIds
      BY <1>1
    <2>2. Publish(k, heads[k], NoRev, snap, DOMAIN e.trees, {})
      BY <1>4, <1>6, <1>7
    <2>3. StateOK(After(snap, e.trees))
      BY <1>8
    <2>4. e.op = "task_node_apply_batch" =>
            \A x \in DOMAIN e.trees : Executable(State(heads[k]), k, e.about, e.actor, x)
      BY <1>1, <1>4, <1>6
    <2>5. \A p \in ParentsOf(k, NoRev) : \A n \in Contracts(State(p)) :
             StaysComplete(p, PastOf(k, NoRev), After(snap, e.trees), n)
      BY <1>1, <1>10 DEF ParentsOf
    <2>6. QED
      BY <1>2, <1>7, <1>9, <2>1, <2>2, <2>3, <2>4, <2>5 DEF SoundRevision
  <1>12. QED
    BY <1>2, <1>6, <1>11 DEF SoundStep

\* One target or test is removed.
LEMMA RemovalIsSound ==
  ASSUME DocumentsApart, Founded, NEW k \in Keys, NEW base, NEW d \in Builds \cup Tests,
         NEW actor \in Agents, RemoveTree(k, base, d, actor),
         StateOK([State(base) EXCEPT ![d] = NoTree])
  PROVE  SoundStep
  <1> DEFINE snap == [revs[base].snap EXCEPT ![d] = Absent]
             e == Entry("delete", d, actor, << >>)
  <1>1. base \in RevIds /\ heads[k] = base /\ base # NoRev /\ d \in Modules
    BY DEF RemoveTree, HeadAsRead, Founded, LogInv, ProjectClosed, DocumentsApart
  <1>2. /\ State(base) \in [Modules -> Trees \cup {NoTree}]
        /\ revs[base].snap \in Snapshots /\ Written(revs[base].snap)
        /\ \A x \in Modules : State(base)[x] = TreeAt(revs[base].snap, x)
    BY <1>1, StateFacts
  <1>3. snap \in Snapshots /\ snap[d] = Absent
        /\ \A x \in Modules : x # d => snap[x] = revs[base].snap[x]
    BY <1>1, <1>2 DEF Snapshots, Absent
  <1>4. << >> \in [{} -> Trees] /\ DOMAIN << >> = {}
    <2>1. << >> \in Seq(Trees) /\ Len(<< >>) = 0
      OBVIOUS
    <2>2. << >> \in [1 .. Len(<< >>) -> Trees]
      BY <2>1, LenProperties
    <2>3. 1 .. 0 = {}
      OBVIOUS
    <2>4. << >> \in [{} -> Trees]
      BY <2>1, <2>2, <2>3
    <2>5. QED
      BY <2>4
  <1>5. e \in Entries /\ e.trees = << >> /\ e.op = "delete"
    <2>1. PICK none : none = << >>
      OBVIOUS
    <2>2. none \in [{} -> Trees] /\ {} \in SUBSET Modules
      BY <1>4, <2>1
    <2>3. none \in UNION {[S -> Trees] : S \in SUBSET Modules}
      BY <2>2
    <2>4. e = [op |-> "delete", about |-> d, actor |-> actor, trees |-> none]
      BY <2>1 DEF Entry
    <2>5. "delete" \in OpNames /\ d \in Modules \cup {"nothing"} /\ actor \in Agents \cup {"nobody"}
      BY <1>1 DEF OpNames
    <2> HIDE DEF e
    <2>6. e \in Entries
      BY <2>3, <2>4, <2>5 DEF Entries
    <2>7. QED
      BY <2>1, <2>4, <2>6
  <1>6. Publish(k, heads[k], NoRev, snap, {}, {}) /\ entries' = Append(entries, e)
    BY DEF RemoveTree
  <1> HIDE DEF e, snap
  <1>7. Written(snap)
    BY <1>2, <1>3 DEF Written
  <1>8. After(snap, e.trees) = [State(base) EXCEPT ![d] = NoTree]
    <2>1. \A x \in Modules : x # d => TreeAt(snap, x) = State(base)[x]
      BY <1>2, <1>3 DEF TreeAt
    <2>2. TreeAt(snap, d) = NoTree
      BY <1>3 DEF TreeAt
    <2>3. After(snap, e.trees) = [x \in Modules |-> TreeAt(snap, x)]
      BY <1>4, <1>5 DEF After
    <2>4. QED
      BY <1>1, <1>2, <2>1, <2>2, <2>3
  <1>9. TreesFit(e.trees)
    BY <1>4, <1>5 DEF TreesFit
  <1>10. ASSUME NEW n \in Contracts(State(base))
         PROVE  StaysComplete(base, PastOf(k, NoRev), After(snap, e.trees), n)
    <2>1. n \in Modules /\ n # d /\ Present(State(base), n)
      BY DEF Contracts, DocumentsApart
    <2>2. QED
      BY <1>2, <1>8, <2>1 DEF StaysComplete, Present
  <1>11. SoundRevision(k, NoRev, snap, e)
    BY <1>1, <1>2, <1>4, <1>5, <1>6, <1>7, <1>8, <1>9, <1>10 DEF SoundRevision, ParentsOf
  <1>12. QED
    BY <1>3, <1>5, <1>11 DEF SoundStep

\* A merge takes every document from one side, or merges two sources.
LEMMA MergedStateFacts ==
  ASSUME DocumentsApart, Founded, NEW base \in RevIds, NEW ours \in RevIds, NEW theirs \in RevIds,
         Mergeable(revs[base].snap, revs[ours].snap, revs[theirs].snap),
         TreesMerge(base, ours, theirs), NEW d \in Modules
  PROVE  LET b == revs[base].snap
             o == revs[ours].snap
             t == revs[theirs].snap
             merged == MergedState(base, ours, theirs)
         IN  /\ d \in BothChanged(b, o, t) =>
                  TreeFits(d, merged[d]) /\ (d \notin Sources => merged[d] = State(ours)[d]
                                                          /\ merged[d] = State(theirs)[d])
             /\ d \notin BothChanged(b, o, t) => merged[d] = TreeAt(ThreeWay(b, o, t), d)
             /\ d \notin BothChanged(b, o, t) /\ o[d] # b[d] => merged[d] = State(ours)[d]
             /\ d \notin BothChanged(b, o, t) /\ o[d] = b[d] => merged[d] = State(theirs)[d]
             /\ merged[d] = NoTree \/ TreeFits(d, merged[d])
  <1> DEFINE b == revs[base].snap
             o == revs[ours].snap
             t == revs[theirs].snap
             merged == MergedState(base, ours, theirs)
             both == BothChanged(b, o, t)
  <1>1. /\ State(ours)[d] = TreeAt(o, d) /\ State(theirs)[d] = TreeAt(t, d)
        /\ o[d] # Absent => TreeFits(d, State(ours)[d])
        /\ t[d] # Absent => TreeFits(d, State(theirs)[d])
        /\ o[d] = Absent => State(ours)[d] = NoTree
        /\ t[d] = Absent => State(theirs)[d] = NoTree
    BY StateFacts DEF TreeAt
  <1>2. ThreeWay(b, o, t)[d] = IF o[d] = b[d] THEN t[d] ELSE o[d]
    BY DEF ThreeWay
  <1>3. merged[d] = IF d \in both THEN MergedTree(State(ours)[d], State(theirs)[d])
                    ELSE IF o[d] = b[d] THEN State(theirs)[d] ELSE State(ours)[d]
    BY DEF MergedState
  <1>4. both = {m \in Modules : o[m] # b[m] /\ t[m] # b[m] /\ o[m] # t[m]}
    BY DEF BothChanged
  <1>5. CASE d \in both
    <2>1. o[d] # Absent /\ t[d] # Absent
      BY <1>5 DEF Mergeable
    <2>2. CASE d \in Sources
      <3>1. State(ours)[d] \in SourceTrees /\ State(theirs)[d] \in SourceTrees
        BY <1>1, <2>1, <2>2 DEF TreeFits
      <3>2. [State(ours)[d] EXCEPT !.text = @ \cup State(theirs)[d].text] \in SourceTrees
        BY <3>1 DEF SourceTrees
      <3>3. merged[d] \in SourceTrees
        BY <1>3, <1>5, <3>1, <3>2 DEF MergedTree, SourceTrees
      <3>4. TreeFits(d, merged[d])
        BY <2>2, <3>3 DEF TreeFits, DocumentsApart
      <3>5. QED
        BY <1>5, <2>2, <3>4
    <2>3. CASE d \notin Sources
      <3>1. State(ours)[d] = State(theirs)[d]
        BY <1>5, <2>3 DEF TreesMerge
      <3>2. State(ours)[d].kind # "source"
        BY <1>1, <2>1, <2>3 DEF TreeFits, DocumentsApart, BuildTrees, TestTrees, TaskTrees
      <3>3. merged[d] = State(ours)[d]
        BY <1>3, <1>5, <3>2 DEF MergedTree
      <3>4. QED
        BY <1>1, <1>5, <2>1, <3>1, <3>3
    <2>4. QED
      BY <2>2, <2>3
  <1>6. CASE d \notin both
    <2>1. merged[d] = TreeAt(ThreeWay(b, o, t), d)
      BY <1>1, <1>2, <1>3, <1>6 DEF TreeAt
    <2>2. o[d] # b[d] => merged[d] = State(ours)[d]
      BY <1>2, <1>3, <1>6
    <2>3. o[d] = b[d] => merged[d] = State(theirs)[d]
      BY <1>1, <1>2, <1>3, <1>6 DEF TreeAt
    <2>4. QED
      BY <1>1, <1>6, <2>1, <2>2, <2>3
  <1>7. QED
    BY <1>5, <1>6

\* A contract that one side of a merge holds to be complete is complete in the
\* merge, unless there is a revert in the history of the sides.
LEMMA MergedStaysComplete ==
  ASSUME DocumentsApart, Founded, NEW base \in RevIds, NEW ours \in RevIds, NEW theirs \in RevIds,
         Mergeable(revs[base].snap, revs[ours].snap, revs[theirs].snap),
         TreesMerge(base, ours, theirs), base \in Ancestors(ours), base \in Ancestors(theirs),
         NEW p \in {ours, theirs}, NEW n \in Contracts(State(p))
  PROVE  StaysComplete(p, Ancestors(ours) \cup Ancestors(theirs), MergedState(base, ours, theirs), n)
  <1> DEFINE b == revs[base].snap
             o == revs[ours].snap
             t == revs[theirs].snap
             merged == MergedState(base, ours, theirs)
             both == BothChanged(b, o, t)
             complete(state) == Present(state, n) /\ state[n].status = "complete"
  <1>1. SUFFICES ASSUME complete(State(p)),
                        ~ \E q \in Ancestors(ours) \cup Ancestors(theirs) : entries[q].op = "revert"
                 PROVE  complete(merged)
    BY DEF StaysComplete, Contracts
  <1>2. n \in Tasks /\ n \in Modules /\ n \notin Sources
    BY DEF Contracts, DocumentsApart
  <1>3. /\ n \in both => merged[n] = State(ours)[n] /\ merged[n] = State(theirs)[n]
        /\ n \notin both /\ o[n] # b[n] => merged[n] = State(ours)[n]
        /\ n \notin both /\ o[n] = b[n] => merged[n] = State(theirs)[n]
    BY <1>2, MergedStateFacts
  <1>4. /\ State(base)[n] = TreeAt(b, n) /\ State(ours)[n] = TreeAt(o, n)
        /\ State(theirs)[n] = TreeAt(t, n)
    BY <1>2, StateFacts
  <1>5. ASSUME NEW side \in {ours, theirs}, complete(State(base))
        PROVE  complete(State(side))
    BY <1>1, <1>2, <1>5 DEF Founded, ContractsBind, Contracts, Ancestors
  <1>6. o[n] = b[n] => State(ours)[n] = State(base)[n]
    BY <1>4 DEF TreeAt
  <1>7. t[n] = b[n] => State(theirs)[n] = State(base)[n]
    BY <1>4 DEF TreeAt
  <1>8. o[n] = t[n] => State(theirs)[n] = State(ours)[n]
    BY <1>4 DEF TreeAt
  <1>9. n \in both \/ o[n] = b[n] \/ t[n] = b[n] \/ o[n] = t[n]
    BY <1>2 DEF BothChanged
  <1>10. \A x, y : x[n] = y[n] => (complete(x) <=> complete(y))
    BY DEF Present
  <1> HIDE DEF b, o, t, merged, both, complete
  <1>11. CASE p = ours
    BY <1>1, <1>3, <1>5, <1>6, <1>7, <1>8, <1>9, <1>10, <1>11
  <1>12. CASE p = theirs
    BY <1>1, <1>3, <1>5, <1>6, <1>7, <1>8, <1>9, <1>10, <1>12
  <1>13. QED
    BY <1>11, <1>12

\* A merge or a revert of metadata publishes the state that it has checked.
LEMMA MergedRevision ==
  ASSUME DocumentsApart, Founded, NEW k \in Keys, NEW base \in RevIds, NEW theirs \in RevIds,
         heads[k] \in RevIds, NEW p2 \in RevIds \cup {NoRev}, NEW op \in {"merge", "revert"},
         p2 # NoRev => revs[p2].project = k[1],
         AdvanceHead(k), PublishThreeWay(k, base, theirs, p2),
         PublishMerged(k, base, theirs, op),
         op = "merge" =>
           p2 = theirs /\ base \in Ancestors(heads[k]) /\ base \in Ancestors(theirs)
  PROVE  \E snap \in Snapshots, e \in Entries :
           /\ SoundRevision(k, p2, snap, e)
           /\ After(snap, e.trees) = MergedState(base, heads[k], theirs)
  <1> DEFINE ours == heads[k]
             b == revs[base].snap
             o == revs[ours].snap
             t == revs[theirs].snap
             snap == ThreeWay(b, o, t)
             merged == MergedState(base, ours, theirs)
             both == BothChanged(b, o, t)
             trees == [d \in both |-> merged[d]]
             e == Entry(op, "nothing", "nobody", trees)
  <1>1. b \in Snapshots /\ o \in Snapshots /\ t \in Snapshots /\ Written(o) /\ Written(t)
    BY StateFacts
  <1>2. snap \in Snapshots /\ both \in SUBSET Modules
    BY <1>1, ThreeWayType
  <1>3. Publish(k, ours, p2, snap, both, {}) /\ entries' = Append(entries, e)
        /\ Mergeable(b, o, t) /\ TreesMerge(base, ours, theirs) /\ Checks(merged)
    BY DEF PublishThreeWay, PublishMerged, Publish
  <1>4. ASSUME NEW d \in Modules
        PROVE  /\ d \in both => TreeFits(d, merged[d])
               /\ d \notin both => merged[d] = TreeAt(snap, d)
               /\ merged[d] = NoTree \/ TreeFits(d, merged[d])
    BY <1>3, MergedStateFacts
  <1>5. merged = [d \in Modules |-> merged[d]]
    BY DEF MergedState
  <1>6. Written(snap)
    BY <1>1 DEF Written, ThreeWay
  <1> HIDE DEF merged, both, snap
  <1>7. \A d \in both : merged[d] \in Trees
    BY <1>2, <1>4, FittingIsPresent
  <1>8. DOMAIN trees = both /\ trees \in [both -> Trees] /\ \A d \in both : trees[d] = merged[d]
    BY <1>7
  <1> HIDE DEF trees
  <1>9. e \in Entries /\ e.trees = trees /\ e.op = op
    BY <1>2, <1>8 DEF Entries, Entry, OpNames
  <1> HIDE DEF e
  <1>10. TreesFit(e.trees)
    BY <1>2, <1>4, <1>8, <1>9 DEF TreesFit
  <1>11. After(snap, e.trees) = merged
    BY <1>2, <1>4, <1>5, <1>8, <1>9 DEF After
  <1>12. StateOK(merged)
    <2>1. StateFits(merged)
      BY <1>4 DEF StateFits
    <2>2. QED
      BY <1>3, <2>1 DEF StateOK, Checks, TasksResolve, ContractResolves, AllPresent
  <1>13. op = "revert" \/
           \A p \in ParentsOf(k, p2) : \A n \in Contracts(State(p)) :
              StaysComplete(p, PastOf(k, p2), merged, n)
    <2>1. ASSUME op = "merge", NEW p \in ParentsOf(k, p2), NEW n \in Contracts(State(p))
          PROVE  StaysComplete(p, PastOf(k, p2), merged, n)
      <3>1. ParentsOf(k, p2) = {ours, theirs}
        BY <2>1 DEF ParentsOf, RevIds, NoRev
      <3>2. PastOf(k, p2) = Ancestors(ours) \cup Ancestors(theirs)
        BY <3>1 DEF PastOf
      <3>3. QED
        BY <1>3, <2>1, <3>1, <3>2, MergedStaysComplete DEF merged
    <2>2. QED
      BY <2>1
  <1>14. SoundRevision(k, p2, snap, e)
    BY <1>3, <1>6, <1>8, <1>9, <1>10, <1>11, <1>12, <1>13 DEF SoundRevision
  <1>15. QED
    BY <1>2, <1>9, <1>11, <1>14 DEF merged

\* Sources and their targets.
LEMMA TargetOperationsAreSound ==
  ASSUME DocumentsApart, Founded, NEW k \in Keys, NEW base, NEW actor \in Agents,
         \/ \E d \in Sources : EditSource(k, base, d, actor)
         \/ \E b \in Builds, d \in Sources : SetBuild(k, base, b, d, actor)
         \/ \E b \in Builds : DeleteBuild(k, base, b, actor)
         \/ \E t \in Tests, b \in Builds : SetTest(k, base, t, b, actor)
         \/ \E t \in Tests : DeleteTest(k, base, t, actor)
  PROVE  SoundStep
  <1> DEFINE s == State(base)
  <1>1. HeadAsRead(k, base)
    BY DEF EditSource, SetBuild, DeleteBuild, SetTest, DeleteTest, PutTree, RemoveTree
  <1>2. base \in RevIds
    BY <1>1 DEF HeadAsRead, Founded, LogInv, ProjectClosed
  <1>3. s \in [Modules -> Trees \cup {NoTree}] /\ StateOK(s)
    BY <1>2, StateFacts
  <1>4. Len(revs) + 1 \in Nat
    BY DEF Founded, LogInv, LogTypeOK
  <1>5. \A d \in Modules : Made(s, d) \in Nat
    BY <1>3, <1>4 DEF Made, Present, Trees, SourceTrees, BuildTrees, TestTrees, TaskTrees
  <1>6. ASSUME NEW d \in Sources, EditSource(k, base, d, actor)
        PROVE  SoundStep
    <2> DEFINE tree == Source(Made(s, d))
    <2>1. d \in Modules /\ d \notin Tasks /\ d \notin Builds /\ d \notin Tests
      BY DEF DocumentsApart
    <2>2. TreeFits(d, tree)
      BY <1>4, <1>5, <2>1 DEF TreeFits, Source, SourceTrees
    <2>3. PutTree(k, base, d, tree, "edit", d, actor)
      BY <1>6 DEF EditSource
    <2> HIDE DEF tree, s
    <2>4. StateOK([s EXCEPT ![d] = tree])
      BY <1>3, <2>1, <2>2, TargetsMaySet
    <2>5. QED
      BY <2>1, <2>2, <2>3, <2>4, PutIsSound DEF OpNames, s
  <1>7. ASSUME NEW b \in Builds, NEW d \in Sources, SetBuild(k, base, b, d, actor)
        PROVE  SoundStep
    <2> DEFINE tree == Build(d, Made(s, b))
    <2>1. b \in Modules /\ b \notin Tasks /\ b \notin Sources /\ b \notin Tests
      BY DEF DocumentsApart
    <2>2. TreeFits(b, tree) /\ tree.document = d
      BY <1>5, <2>1 DEF TreeFits, Build, BuildTrees
    <2>3. PutTree(k, base, b, tree, "set_build_target", b, actor) /\ Present(s, d)
      BY <1>7 DEF SetBuild
    <2> HIDE DEF tree, s
    <2>4. StateOK([s EXCEPT ![b] = tree])
      BY <1>3, <2>1, <2>2, <2>3, TargetsMaySet
    <2>5. QED
      BY <2>1, <2>2, <2>3, <2>4, PutIsSound DEF OpNames, s
  <1>8. ASSUME NEW t \in Tests, NEW b \in Builds, SetTest(k, base, t, b, actor)
        PROVE  SoundStep
    <2> DEFINE tree == Test(b, Made(s, t))
    <2>1. t \in Modules /\ t \notin Tasks /\ t \notin Sources /\ t \notin Builds
      BY DEF DocumentsApart
    <2>2. TreeFits(t, tree) /\ tree.build = b
      BY <1>5, <2>1 DEF TreeFits, Test, TestTrees
    <2>3. PutTree(k, base, t, tree, "set_test_target", t, actor) /\ Present(s, b)
      BY <1>8 DEF SetTest
    <2> HIDE DEF tree, s
    <2>4. StateOK([s EXCEPT ![t] = tree])
      BY <1>3, <2>1, <2>2, <2>3, TargetsMaySet
    <2>5. QED
      BY <2>1, <2>2, <2>3, <2>4, PutIsSound DEF OpNames, s
  <1>9. ASSUME NEW b \in Builds, DeleteBuild(k, base, b, actor)
        PROVE  SoundStep
    <2>1. RemoveTree(k, base, b, actor) /\ \A t \in Tests : Present(s, t) => s[t].build # b
      BY <1>9 DEF DeleteBuild
    <2> HIDE DEF s
    <2>2. StateOK([s EXCEPT ![b] = NoTree])
      BY <1>3, <2>1, TargetsMayGo
    <2>3. QED
      BY <2>1, <2>2, RemovalIsSound DEF s
  <1>10. ASSUME NEW t \in Tests, DeleteTest(k, base, t, actor)
        PROVE  SoundStep
    <2>1. RemoveTree(k, base, t, actor) /\ t \notin Builds
      BY <1>10 DEF DeleteTest, DocumentsApart
    <2> HIDE DEF s
    <2>2. StateOK([s EXCEPT ![t] = NoTree])
      BY <1>3, <2>1, TargetsMayGo
    <2>3. QED
      BY <2>1, <2>2, RemovalIsSound DEF s
  <1>11. QED
    BY <1>6, <1>7, <1>8, <1>9, <1>10

\* Contracts, and edits in their name.
LEMMA TaskOperationsAreSound ==
  ASSUME DocumentsApart, Founded, NEW k \in Keys, NEW base, NEW actor \in Agents,
         \/ \E draft \in Drafts : CreateTask(k, base, draft, actor)
         \/ \E n \in Tasks : \E status \in DOMAIN Transitions : SetStatus(k, base, n, status, actor)
         \/ \E n \in Tasks, d \in Sources : ScopedBatch(k, base, n, d, actor)
  PROVE  SoundStep
  <1> DEFINE s == State(base)
  <1>1. HeadAsRead(k, base)
    BY DEF CreateTask, SetStatus, ScopedBatch, PutTree
  <1>2. base \in RevIds
    BY <1>1 DEF HeadAsRead, Founded, LogInv, ProjectClosed
  <1>3. s \in [Modules -> Trees \cup {NoTree}] /\ StateOK(s)
    BY <1>2, StateFacts
  <1>4. Len(revs) + 1 \in Nat
    BY DEF Founded, LogInv, LogTypeOK
  <1>5. \A n \in Tasks : n \in Modules /\ n \notin Sources /\ n \notin Builds /\ n \notin Tests
    BY DEF DocumentsApart
  <1>6. ASSUME NEW draft \in Drafts, CreateTask(k, base, draft, actor)
        PROVE  SoundStep
    <2> DEFINE tree == Contract(k, draft)
               d == draft.name
    <2>1. d \in Tasks /\ d \in Modules /\ tree \in TaskTrees
      BY <1>4, <1>5 DEF DocumentsApart, Contract, TaskTrees, Keys
    <2>2. TreeFits(d, tree)
      BY <1>5, <2>1 DEF TreeFits
    <2>3. PutTree(k, base, d, tree, "create_task_contract", d, actor) /\ ~ Present(s, d)
          /\ TasksResolve([s EXCEPT ![d] = tree])
      BY <1>6 DEF CreateTask
    <2> HIDE DEF tree, d, s
    <2>4. StateOK([s EXCEPT ![d] = tree])
      BY <1>3, <2>1, <2>2, <2>3, ContractsMaySet
    <2>5. QED
      BY <2>1, <2>2, <2>3, <2>4, PutIsSound DEF OpNames, s
  <1>7. ASSUME NEW n \in Tasks, NEW status \in DOMAIN Transitions,
               SetStatus(k, base, n, status, actor)
        PROVE  SoundStep
    <2> DEFINE tree == [s[n] EXCEPT !.status = status]
    <2>1. Present(s, n) /\ status \in Transitions[s[n].status]
          /\ TasksResolve([s EXCEPT ![n] = tree])
          /\ PutTree(k, base, n, tree, "set_task_status", n, actor)
      BY <1>7 DEF SetStatus, Owns
    <2>2. s[n] \in TaskTrees /\ n \in Modules
      BY <1>3, <1>5, <2>1 DEF StateOK, StateFits, TreeFits, Present
    <2>3. tree \in TaskTrees
      BY <2>2 DEF TaskTrees
    <2>4. TreeFits(n, tree)
      BY <1>5, <2>3 DEF TreeFits
    <2>5. s[n].status # "complete"
      BY <2>1 DEF Transitions
    <2> HIDE DEF tree, s
    <2>6. StateOK([s EXCEPT ![n] = tree])
      BY <1>3, <2>1, <2>4, ContractsMaySet
    <2>7. QED
      BY <2>1, <2>2, <2>4, <2>5, <2>6, PutIsSound DEF OpNames, s
  <1>8. ASSUME NEW n \in Tasks, NEW d \in Sources, ScopedBatch(k, base, n, d, actor)
        PROVE  SoundStep
    <2> DEFINE tree == Source(s[d].made)
    <2>1. Executable(s, k, n, actor, d) /\ ContractResolves(s, s[n])
          /\ PutTree(k, base, d, tree, "task_node_apply_batch", n, actor)
      BY <1>8 DEF ScopedBatch
    <2>2. d \in Modules /\ n \in Modules /\ d \notin Tasks /\ d \notin Builds /\ d \notin Tests
      BY <1>5 DEF DocumentsApart
    <2>3. Present(s, d)
      BY <2>1 DEF Executable, ContractResolves, AllPresent
    <2>4. s[d] \in SourceTrees
      BY <1>3, <2>2, <2>3 DEF StateOK, StateFits, TreeFits, Present
    <2>5. TreeFits(d, tree)
      BY <1>4, <2>2, <2>4 DEF TreeFits, Source, SourceTrees
    <2> HIDE DEF tree, s
    <2>6. StateOK([s EXCEPT ![d] = tree])
      BY <1>3, <2>2, <2>5, TargetsMaySet
    <2>7. QED
      BY <2>1, <2>2, <2>5, <2>6, PutIsSound DEF OpNames, s
  <1>9. QED
    BY <1>6, <1>7, <1>8

LEMMA OperationsAreSound ==
  ASSUME DocumentsApart, Founded, NEW k \in Keys, NEW base, NEW actor \in Agents,
         Operations(k, base, actor)
  PROVE  SoundStep
  BY TargetOperationsAreSound, TaskOperationsAreSound DEF Operations

\* Merges and reverts of metadata.
LEMMA MetadataMergeRevision ==
  ASSUME DocumentsApart, Founded, NEW k \in Keys, NEW source \in Keys, MergeMetadata(k, source)
  PROVE  /\ heads[k] \in RevIds /\ heads[source] \in RevIds
         /\ \E snap \in Snapshots, e \in Entries, base \in RevIds :
              /\ SoundRevision(k, heads[source], snap, e)
              /\ BestCommonAncestors(heads[k], heads[source]) = {base}
              /\ After(snap, e.trees) = MergedState(base, heads[k], heads[source])
  <1>1. /\ k[1] = source[1] /\ heads[k] \in RevIds /\ heads[source] \in RevIds
        /\ revs[heads[source]].project = k[1] /\ AdvanceHead(k)
    BY DEF MergeMetadata, Merge, Founded, LogInv, ProjectClosed
  <1>2. PICK base \in RevIds :
          /\ BestCommonAncestors(heads[k], heads[source]) = {base}
          /\ PublishThreeWay(k, base, heads[source], heads[source])
    BY DEF MergeMetadata, Merge
  <1>3. PublishMerged(k, base, heads[source], "merge")
    BY <1>2 DEF MergeMetadata
  <1>4. base \in Ancestors(heads[k]) /\ base \in Ancestors(heads[source])
    <2>1. base \in BestCommonAncestors(heads[k], heads[source])
      BY <1>2
    <2>2. QED
      BY <2>1 DEF BestCommonAncestors
  <1>5. QED
    BY <1>1, <1>2, <1>3, <1>4, MergedRevision

LEMMA MetadataRevertRevision ==
  ASSUME DocumentsApart, Founded, NEW k \in Keys, NEW r \in RevIds, RevertMetadata(k, r)
  PROVE  SoundStep
  <1>1. heads[k] \in RevIds /\ AdvanceHead(k) /\ revs[r].parent1 # NoRev
        /\ PublishThreeWay(k, r, revs[r].parent1, NoRev)
        /\ PublishMerged(k, r, revs[r].parent1, "revert")
    BY DEF RevertMetadata, Revert, Founded, LogInv, ProjectClosed
  <1>2. revs[r].parent1 \in RevIds
    BY <1>1, ParentsExist DEF Founded
  <1>3. QED
    BY <1>1, <1>2, MergedRevision DEF SoundStep

\* Whatever a call or somebody else publishes is sound.
LEMMA OthersAreSound ==
  ASSUME DocumentsApart, Founded, OthersPublish
  PROVE  SoundStep
  <1>1. ASSUME NEW k \in Keys, NEW source \in Keys, MergeMetadata(k, source)
        PROVE  SoundStep
    BY <1>1, MetadataMergeRevision DEF SoundStep
  <1>2. QED
    BY <1>1, OperationsAreSound, MetadataRevertRevision DEF OthersPublish

\* What is founded does not change while nothing is published.
LEMMA FoundedStays ==
  ASSUME Founded, UNCHANGED <<logVars, entries>>
  PROVE  Founded'
  <1>1. revs' = revs /\ heads' = heads /\ documents' = documents /\ entries' = entries
        /\ RevIds' = RevIds
    BY DEF logVars, RevIds
  <1>2. LogInv'
    BY <1>1 DEF Founded, LogInv, LogTypeOK, ProjectClosed
  <1>3. EntriesOK'
    BY <1>1 DEF Founded, EntriesOK, TreesFit, TreeFits, SourceTrees, BuildTrees, TestTrees, TaskTrees
  <1>4. SnapshotsWritten' /\ BatchesHaveParents'
    BY <1>1 DEF Founded, SnapshotsWritten, Written, BatchesHaveParents
  <1>5. (\A r : State(r)' = State(r)) /\ \A r : Ancestors(r)' = Ancestors(r)
    BY <1>1 DEF State, Ancestors, InHistory, AncestryClosed
  <1>6. StatesOK'
    <2> DEFINE StateNew(r) == State(r)'
    <2>1. \A r \in RevIds' : StateOK(StateNew(r))
      BY <1>1, <1>5 DEF Founded, StatesOK
    <2>2. QED
      BY <2>1 DEF StatesOK, StateOK, StateFits, TreeFits, SourceTrees, BuildTrees, TestTrees,
         TaskTrees, BuildsResolve, TestsResolve, Present, Contracts, AllPresent, Acyclic, NeedsClosed
  <1>7. ContractsBind'
    BY <1>1, <1>5 DEF Founded, ContractsBind, Executable, Owns, Present, Contracts
  <1>8. QED
    BY <1>2, <1>3, <1>4, <1>6, <1>7 DEF Founded

LEMMA MetadataInvStep ==
  ASSUME MetadataInv, [MetadataNext]_<<logVars, metadataVars>>
  PROVE  MetadataInv'
  <1> USE DEF MetadataInv
  <1>1. DocumentsApart'
    BY DEF DocumentsApart
  <1>2. NobodyCalls.branch \in Keys
    BY ConstantsAssumption DEF NobodyCalls, Keys
  <1>3. CASE UNCHANGED <<logVars, metadataVars>>
    BY <1>1, <1>3, FoundedStays DEF metadataVars
  <1>4. CASE \E k \in Keys : ReadHead(k)
    BY <1>1, <1>4, FoundedStays DEF ReadHead
  <1>5. CASE FailCall
    BY <1>1, <1>2, <1>5, FoundedStays DEF FailCall
  <1>6. CASE PublishCall
    BY <1>1, <1>2, <1>6, OperationsAreSound, FoundedStep DEF PublishCall
  <1>7. CASE OthersPublish
    BY <1>1, <1>7, OthersAreSound, FoundedStep DEF OthersPublish
  <1>8. QED
    BY <1>3, <1>4, <1>5, <1>6, <1>7 DEF MetadataNext

\* A project with only its first revision is such a history.
LEMMA NewProjectFounded ==
  ASSUME DocumentsApart, NEW p \in Projects,
         revs = <<[project |-> p, branch |-> Main, parent1 |-> NoRev, parent2 |-> NoRev,
                   snap |-> [d \in Modules |-> Absent], docs |-> {}]>>,
         heads = [k \in Keys |-> IF k = <<p, Main>> THEN 1 ELSE NoRev],
         documents = {},
         entries = <<Entry("edit", "nothing", "nobody", [d \in {} |-> NoTree])>>
  PROVE  Founded
  <1>1. RevIds = {1}
    BY DEF RevIds
  <1>2. Main \in Branches
    BY ConstantsAssumption
  <1>3. revs[1] \in Revision /\ revs \in Seq(Revision)
    BY <1>2 DEF Revision, Snapshots, Absent, NoRev
  <1>4. LogInv
    BY <1>1, <1>3 DEF LogInv, LogTypeOK, ProjectClosed, NoRev, Keys
  <1> DEFINE none == [d \in {} |-> NoTree]
  <1>5. none \in [{} -> Trees] /\ DOMAIN none = {}
    OBVIOUS
  <1> HIDE DEF none
  <1>6. entries = <<Entry("edit", "nothing", "nobody", none)>>
    BY DEF none
  <1>7. {} \in SUBSET Modules
    OBVIOUS
  <1>8. Entry("edit", "nothing", "nobody", none) \in Entries
    BY <1>5, <1>7 DEF Entry, Entries, OpNames
  <1>9. entries[1].trees = none /\ entries[1].op = "edit"
    BY <1>6 DEF Entry
  <1>10. EntriesOK
    BY <1>1, <1>5, <1>6, <1>8, <1>9 DEF EntriesOK, TreesFit
  <1>11. SnapshotsWritten
    BY <1>1 DEF SnapshotsWritten, Written
  <1>12. State(1) = [d \in Modules |-> NoTree]
    BY DEF State
  <1>13. Contracts(State(1)) = {}
    BY <1>12 DEF Contracts, Present, DocumentsApart
  <1>14. StateOK(State(1))
    BY <1>12, <1>13 DEF StateOK, StateFits, BuildsResolve, TestsResolve, Present, Acyclic,
       DocumentsApart
  <1>15. StatesOK
    BY <1>1, <1>14 DEF StatesOK
  <1>16. BatchesHaveParents
    BY <1>1, <1>9 DEF BatchesHaveParents
  <1>17. ContractsBind
    BY <1>1, <1>9, <1>13 DEF ContractsBind, Ancestors
  <1>18. QED
    BY <1>4, <1>10, <1>11, <1>15, <1>16, <1>17 DEF Founded

\* From every history that is itself well founded.
MetadataSpec ==
  DocumentsApart /\ Founded /\ call = NobodyCalls /\ [][MetadataNext]_<<logVars, metadataVars>>

\* Sources, build targets, tests and contracts are there wherever they are named,
\* in every revision, contracts wait for one another in no circle, edits in the
\* name of a task were allowed where they were made, and complete contracts stay
\* complete until something is reverted, although every call reads a head first
\* and publishes later, and merges bring together what no call has seen.
THEOREM MetadataReliable == MetadataSpec => []MetadataHolds
  <1>1. DocumentsApart /\ Founded /\ call = NobodyCalls => MetadataInv
    BY ConstantsAssumption DEF MetadataInv, NobodyCalls, Keys
  <1>2. MetadataInv /\ [MetadataNext]_<<logVars, metadataVars>> => MetadataInv'
    BY MetadataInvStep
  <1>3. MetadataInv => MetadataHolds
    BY DEF MetadataInv, Founded, StatesOK, StateOK, MetadataHolds, MetadataResolves
  <1>4. QED
    BY <1>1, <1>2, <1>3, PTL DEF MetadataSpec

------------------------------------------------------------------------------
(* The impact of changes                                                    *)

\* What a build gives, and the result of a test.
Compilations == [build : Builds, text : SUBSET Nat]

Results == [test : Tests, compiles : Compilations]

GateType ==
  [pc : {"idle", "ours", "theirs", "ready", "published"}, target : Keys, source : Keys,
   accepts : BOOLEAN, ours : Nat, preview : [ours : Nat, theirs : Nat], left : SUBSET Builds,
   compiled : SUBSET Compilations, tests : BOOLEAN, published : Nat]

\* All tests of a state have passed with the text that they run in it.
AllPassed(state) == \A t \in Tests : Present(state, t) => Runs(state, t) \in tested.passed

\* The merge that was analysed is clean, and what it affects is either left to
\* validate or was compiled.
AnalysisOK(g, ours, theirs) ==
  LET before == State(ours)
      after  == Candidate(ours, theirs)
  IN  /\ ours \in RevIds /\ theirs \in RevIds
      /\ CleanMerge(ours, theirs)
      /\ g.accepts \/ Uncovered(before, after) = {}
      /\ g.left \subseteq Surviving(before, after)
      /\ \A b \in Surviving(before, after) : b \in g.left \/ Compiles(after, b) \in g.compiled

\* The tests on the virtual merge have all passed.
CandidateTested(ours, theirs) == tested.at # NoRev /\ AllPassed(Candidate(ours, theirs))

\* What was published is the merge that was analysed.
PublishedOK(r, ours, theirs) ==
  r \in RevIds /\ revs[r].parent1 = ours /\ State(r) = Candidate(ours, theirs)

GateInv(g) ==
  /\ g \in GateType
  /\ g.pc # "idle" => heads[g.target] \in RevIds /\ heads[g.source] \in RevIds
  /\ g.pc \in {"theirs", "ready"} => g.ours \in RevIds
  /\ g.preview # NoPreview => AnalysisOK(g, g.preview.ours, g.preview.theirs)
  /\ g.tests => g.preview # NoPreview /\ CandidateTested(g.preview.ours, g.preview.theirs)
  /\ g.pc \in {"ready", "published"} => g.preview # NoPreview /\ g.left = {}
  /\ g.pc = "published" => PublishedOK(g.published, g.preview.ours, g.preview.theirs)

TestedInv ==
  /\ tested \in [at : Nat, passed : SUBSET Results]
  /\ tested.at # NoRev => tested.at \in RevIds /\ AllPassed(State(tested.at))

ImpactInv == MetadataInv /\ GateInv(gate) /\ TestedInv

\* The virtual merge of two revisions that merge cleanly is a sound state.
LEMMA CandidateFacts ==
  ASSUME DocumentsApart, Founded, NEW ours \in RevIds, NEW theirs \in RevIds,
         CleanMerge(ours, theirs)
  PROVE  \E base \in RevIds :
           /\ BestCommonAncestors(ours, theirs) = {base}
           /\ Candidate(ours, theirs) = MergedState(base, ours, theirs)
           /\ StateOK(Candidate(ours, theirs))
  <1> DEFINE bases == BestCommonAncestors(ours, theirs)
  <1>1. bases \subseteq RevIds
    BY DEF BestCommonAncestors, Ancestors
  <1>2. IsFiniteSet(bases)
    <2>1. Len(revs) \in Int /\ RevIds = 1 .. Len(revs)
      BY DEF Founded, LogInv, LogTypeOK, RevIds
    <2>2. IsFiniteSet(RevIds)
      BY <2>1, FS_Interval
    <2>3. QED
      BY <1>1, <2>2, FS_Subset
  <1>3. PICK base : bases = {base}
    BY <1>2, FS_Singleton DEF CleanMerge
  <1>4. base \in RevIds /\ base \in bases
    BY <1>1, <1>3
  <1>5. Candidate(ours, theirs) = MergedState(base, ours, theirs)
    BY <1>3 DEF Candidate
  <1>6. /\ Mergeable(revs[base].snap, revs[ours].snap, revs[theirs].snap)
        /\ TreesMerge(base, ours, theirs) /\ Checks(MergedState(base, ours, theirs))
    BY <1>4 DEF CleanMerge
  <1>7. StateFits(MergedState(base, ours, theirs))
    BY <1>4, <1>6, MergedStateFacts DEF StateFits
  <1>8. QED
    BY <1>3, <1>4, <1>5, <1>6, <1>7
       DEF StateOK, Checks, TasksResolve, ContractResolves, AllPresent

\* A build target that a change does not affect compiles what it did before.
LEMMA UnaffectedCompileAlike ==
  ASSUME DocumentsApart, NEW before, NEW after, StateOK(after),
         NEW b \in Builds, Present(after, b), b \notin Affected(before, after)
  PROVE  Present(before, b) /\ Compiles(after, b) = Compiles(before, b)
  <1>1. after[b].document \in Sources /\ after[b].document \in Modules
    BY DEF StateOK, StateFits, DocumentsApart, TreeFits, Present, BuildTrees
  <1>2. SourcesOf(before, b) = {after[b].document}
        /\ {after[b].document} \cap Changed(before, after) = {}
    BY DEF Affected, SourcesOf
  <1>3. Present(before, b) /\ before[b].document = after[b].document
    BY <1>2 DEF SourcesOf
  <1>4. before[after[b].document] = after[after[b].document]
    BY <1>1, <1>2 DEF Changed
  <1>5. QED
    BY <1>3, <1>4 DEF Compiles

\* A test that a plan does not select runs what it did before.
LEMMA UnselectedRunAlike ==
  ASSUME DocumentsApart, NEW before, NEW after, StateOK(after),
         NEW t \in Tests, Present(after, t), t \notin Selected(before, after)
  PROVE  Present(before, t) /\ Runs(after, t) = Runs(before, t)
  <1> DEFINE b == after[t].build
             d == after[b].document
  <1>1. b \in Builds /\ b \in Modules /\ t \in Modules /\ Present(after, b)
    BY DEF StateOK, StateFits, DocumentsApart, TreeFits, Present, TestTrees, TestsResolve
  <1>2. d \in Modules
    BY <1>1 DEF StateOK, StateFits, DocumentsApart, TreeFits, Present, BuildTrees
  <1>3. Changed(before, after) \cap {t, b, d} = {}
    BY DEF Selected
  <1>4. before[t] = after[t] /\ before[b] = after[b] /\ before[d] = after[d]
    BY <1>1, <1>2, <1>3 DEF Changed
  <1>5. QED
    BY <1>4 DEF Runs, Compiles, Present

\* What builds give, and tests, in a sound state.
LEMMA ResultTypes ==
  ASSUME DocumentsApart, NEW s, StateOK(s)
  PROVE  /\ \A b \in Builds : Present(s, b) => Compiles(s, b) \in Compilations
         /\ \A t \in Tests : Present(s, t) => Runs(s, t) \in Results
  <1>1. ASSUME NEW b \in Builds, Present(s, b)
        PROVE  Compiles(s, b) \in Compilations
    <2>1. s[b].document \in Sources /\ s[b].document \in Modules
      BY <1>1 DEF StateOK, StateFits, DocumentsApart, TreeFits, Present, BuildTrees
    <2>2. s[s[b].document] \in SourceTrees
      BY <1>1, <2>1 DEF StateOK, StateFits, TreeFits, Present, BuildsResolve
    <2>3. s[s[b].document].text \in SUBSET Nat
      BY <2>2 DEF SourceTrees
    <2>4. QED
      BY <2>3 DEF Compiles, Compilations
  <1>2. ASSUME NEW t \in Tests, Present(s, t)
        PROVE  Runs(s, t) \in Results
    <2>1. s[t].build \in Builds /\ Present(s, s[t].build)
      BY <1>2 DEF StateOK, StateFits, DocumentsApart, TreeFits, Present, TestTrees, TestsResolve
    <2>2. QED
      BY <1>1, <2>1 DEF Runs, Results
  <1>3. QED
    BY <1>1, <1>2

\* Revisions, entries and heads are never taken back.
Grows ==
  /\ LogGrows /\ EntriesGrow
  /\ \A k \in Keys : heads[k] \in RevIds => heads'[k] \in RevIds'

\* Nor is what tests have passed.
PassesGrow ==
  tested.at # NoRev => tested'.at # NoRev /\ tested.passed \subseteq tested'.passed

LEMMA SoundGrows ==
  ASSUME Founded, SoundStep
  PROVE  Grows
  <1>1. PICK k \in Keys, p2 \in RevIds \cup {NoRev}, snap \in Snapshots, e \in Entries :
          SoundRevision(k, p2, snap, e)
    BY DEF SoundStep
  <1>2. PICK n : n = Len(revs) + 1
    OBVIOUS
  <1>3. LogGrows /\ EntriesGrow /\ RevIds' = RevIds \cup {n} /\ heads' = [heads EXCEPT ![k] = n]
    BY <1>1, <1>2, SoundFacts
  <1>4. heads \in [Keys -> Nat]
    BY DEF Founded, LogInv, LogTypeOK
  <1>5. QED
    BY <1>3, <1>4 DEF Grows

LEMMA UnchangedGrows ==
  ASSUME UNCHANGED <<logVars, metadataVars>>
  PROVE  Grows
  BY DEF logVars, metadataVars, Grows, LogGrows, EntriesGrow, RevIds

\* A virtual merge stays what it was.
LEMMA CandidateStays ==
  ASSUME DocumentsApart, Founded, Grows, NEW ours \in RevIds, NEW theirs \in RevIds,
         CleanMerge(ours, theirs)
  PROVE  /\ CleanMerge(ours, theirs)'
         /\ Candidate(ours, theirs)' = Candidate(ours, theirs)
  <1> DEFINE BasesNew == BestCommonAncestors(ours, theirs)'
  <1>1. PICK base \in RevIds : BestCommonAncestors(ours, theirs) = {base}
    BY CandidateFacts
  <1>2. BasesNew = {base}
    BY <1>1, BasesStay DEF Grows, Founded
  <1>3. revs'[base] = revs[base] /\ revs'[ours] = revs[ours] /\ revs'[theirs] = revs[theirs]
    BY DEF Grows, LogGrows
  <1>4. State(ours)' = State(ours) /\ State(theirs)' = State(theirs)
    BY StatesStay DEF Grows, Founded
  <1>5. MergedState(base, ours, theirs)' = MergedState(base, ours, theirs)
    BY <1>3, <1>4 DEF MergedState, MergedTree, BothChanged
  <1>6. TreesMerge(base, ours, theirs) /\ Checks(MergedState(base, ours, theirs))
        /\ Mergeable(revs[base].snap, revs[ours].snap, revs[theirs].snap)
    BY <1>1 DEF CleanMerge
  <1>7. TreesMerge(base, ours, theirs)'
    BY <1>3, <1>4, <1>6 DEF TreesMerge, BothChanged
  <1>8. Mergeable(revs[base].snap, revs[ours].snap, revs[theirs].snap)'
    BY <1>3, <1>6 DEF Mergeable, BothChanged, Absent
  <1>9. Checks(MergedState(base, ours, theirs))'
    BY <1>5, <1>6 DEF Checks, BuildsResolve, TestsResolve, TasksResolve, Present, Contracts,
       ContractResolves, AllPresent, Acyclic, NeedsClosed
  <1>10. Cardinality(BestCommonAncestors(ours, theirs))' = 1
    BY <1>2, FS_Singleton
  <1>11. CleanMerge(ours, theirs)'
    BY <1>2, <1>7, <1>8, <1>9, <1>10 DEF CleanMerge
  <1>12. Candidate(ours, theirs)' = Candidate(ours, theirs)
    BY <1>1, <1>2, <1>5 DEF Candidate
  <1>13. QED
    BY <1>11, <1>12

\* What has been analysed stays true while revisions are added.
LEMMA AnalysisStays ==
  ASSUME MetadataInv, Grows, NEW g, NEW ours, NEW theirs,
         AnalysisOK(g, ours, theirs)
  PROVE  AnalysisOK(g, ours, theirs)'
  <1> DEFINE StateNew(r) == State(r)'
             CandidateNew(o, t) == Candidate(o, t)'
  <1>1. ours \in RevIds /\ theirs \in RevIds /\ CleanMerge(ours, theirs)
    BY DEF AnalysisOK
  <1>2. CleanMerge(ours, theirs)' /\ CandidateNew(ours, theirs) = Candidate(ours, theirs)
    BY <1>1, CandidateStays DEF MetadataInv
  <1>3. StateNew(ours) = State(ours)
    BY <1>1, StatesStay DEF Grows, MetadataInv, Founded
  <1>4. ours \in RevIds' /\ theirs \in RevIds'
    BY <1>1 DEF Grows, LogGrows
  <1>5. g.accepts \/ Uncovered(StateNew(ours), CandidateNew(ours, theirs)) = {}
    BY <1>2, <1>3 DEF AnalysisOK
  <1>6. /\ g.left \subseteq Surviving(StateNew(ours), CandidateNew(ours, theirs))
        /\ \A b \in Surviving(StateNew(ours), CandidateNew(ours, theirs)) :
             b \in g.left \/ Compiles(CandidateNew(ours, theirs), b) \in g.compiled
    BY <1>2, <1>3 DEF AnalysisOK
  <1>7. QED
    BY <1>2, <1>4, <1>5, <1>6 DEF AnalysisOK, Uncovered, Surviving, Affected, SourcesOf, Changed,
       Present, Compiles

\* So does what has been tested, while tests pass.
LEMMA TestsStay ==
  ASSUME MetadataInv, Grows, PassesGrow, NEW ours \in RevIds, NEW theirs \in RevIds,
         CleanMerge(ours, theirs), CandidateTested(ours, theirs)
  PROVE  CandidateTested(ours, theirs)'
  <1>1. Candidate(ours, theirs)' = Candidate(ours, theirs)
    BY CandidateStays DEF MetadataInv
  <1>2. tested.at # NoRev /\ tested'.at # NoRev /\ tested.passed \subseteq tested'.passed
    BY DEF CandidateTested, PassesGrow
  <1>3. AllPassed(Candidate(ours, theirs))
    BY DEF CandidateTested
  <1>4. QED
    BY <1>1, <1>2, <1>3 DEF CandidateTested, AllPassed, Present, Runs, Compiles, NoRev

\* What was published stays published.
LEMMA PublishedStays ==
  ASSUME MetadataInv, Grows, NEW r, NEW ours \in RevIds, NEW theirs \in RevIds,
         CleanMerge(ours, theirs), PublishedOK(r, ours, theirs)
  PROVE  PublishedOK(r, ours, theirs)'
  <1>1. r \in RevIds /\ r \in RevIds' /\ revs'[r] = revs[r]
    BY DEF PublishedOK, Grows, LogGrows
  <1>2. State(r)' = State(r)
    BY <1>1, StatesStay DEF Grows, MetadataInv, Founded
  <1>3. Candidate(ours, theirs)' = Candidate(ours, theirs)
    BY CandidateStays DEF MetadataInv
  <1>4. QED
    BY <1>1, <1>2, <1>3 DEF PublishedOK

\* The gate's invariant, for a gate that a step leaves behind.
LEMMA GateInvNew ==
  ASSUME NEW g, g = gate', GateInv(g)'
  PROVE  GateInv(gate)'
  BY DEF GateInv

\* Whoever publishes, the gate has lost nothing.
LEMMA GateStays ==
  ASSUME MetadataInv, GateInv(gate), Grows, PassesGrow, gate' = gate
  PROVE  GateInv(gate)'
  <1>1. PICK g : g = gate
    OBVIOUS
  <1>2. GateInv(g)
    BY <1>1
  <1>3. g \in GateType'
    BY <1>2 DEF GateInv, GateType, Compilations, Keys
  <1>4. g.pc # "idle" => heads'[g.target] \in RevIds' /\ heads'[g.source] \in RevIds'
    BY <1>2 DEF GateInv, Grows, GateType
  <1>5. g.pc \in {"theirs", "ready"} => g.ours \in RevIds'
    BY <1>2 DEF GateInv, Grows, LogGrows
  <1>6. g.preview # NoPreview => AnalysisOK(g, g.preview.ours, g.preview.theirs)'
    BY <1>2, AnalysisStays DEF GateInv
  <1>7. g.pc = "published" => PublishedOK(g.published, g.preview.ours, g.preview.theirs)'
    BY <1>2, PublishedStays DEF GateInv, AnalysisOK
  <1>8. g.tests => CandidateTested(g.preview.ours, g.preview.theirs)'
    BY <1>2, TestsStay DEF GateInv, AnalysisOK
  <1>9. GateInv(g)'
    BY <1>2, <1>3, <1>4, <1>5, <1>6, <1>7, <1>8 DEF GateInv, NoPreview, NoRev
  <1>10. QED
    BY <1>1, <1>9, GateInvNew

\* The tested revision stays as tested.
LEMMA TestedStays ==
  ASSUME MetadataInv, TestedInv, Grows, tested' = tested
  PROVE  TestedInv'
  <1>1. tested' \in [at : Nat, passed : SUBSET Results']
    BY DEF TestedInv, Results, Compilations
  <1>2. ASSUME tested.at # NoRev, NEW r, r = tested.at
        PROVE  r \in RevIds' /\ State(r)' = State(r)
    <2>1. r \in RevIds
      BY <1>2 DEF TestedInv
    <2>2. QED
      BY <2>1, StatesStay DEF Grows, LogGrows, MetadataInv, Founded
  <1>3. ASSUME tested.at # NoRev
        PROVE  tested.at \in RevIds' /\ AllPassed(State(tested.at))'
    <2>1. PICK r : r = tested.at
      OBVIOUS
    <2>2. r \in RevIds' /\ State(r)' = State(r) /\ AllPassed(State(r))
      BY <1>2, <1>3, <2>1 DEF TestedInv
    <2>3. State(tested.at)' = State(r)
      BY <2>1, <2>2
    <2>4. QED
      BY <2>1, <2>2, <2>3 DEF AllPassed, Present, Runs, Compiles
  <1>4. QED
    BY <1>1, <1>3 DEF TestedInv, NoRev

------------------------------------------------------------------------------
(* Testing, and the steps of the gate                                       *)

\* Steps of the agent that publish nothing.
LEMMA QuietStep ==
  ASSUME MetadataInv, UNCHANGED <<logVars, metadataVars>>
  PROVE  /\ MetadataInv' /\ Grows
         /\ RevIds' = RevIds /\ heads' = heads
         /\ \A r : State(r)' = State(r)
  <1>1. MetadataInv'
    BY FoundedStays DEF MetadataInv, metadataVars, DocumentsApart
  <1>2. \A r : State(r)' = State(r)
    BY DEF State, logVars, metadataVars
  <1>3. QED
    BY <1>1, <1>2, UnchangedGrows DEF logVars, RevIds

\* A gate that has analysed nothing needs only its heads.
LEMMA GateBegins ==
  ASSUME NEW g \in GateType', g = gate', g.preview = NoPreview, ~ g.tests,
         g.pc \in {"idle", "ours", "theirs"},
         g.pc # "idle" => heads'[g.target] \in RevIds' /\ heads'[g.source] \in RevIds',
         g.pc = "theirs" => g.ours \in RevIds'
  PROVE  GateInv(gate)'
  <1>1. GateInv(g)'
    BY DEF GateInv, NoPreview, NoRev
  <1>2. QED
    BY <1>1, GateInvNew

\* A gate that goes on with what it has analysed.
LEMMA GateGoesOn ==
  ASSUME MetadataInv, Grows, NEW g \in GateType', g = gate',
         AnalysisOK(g, g.preview.ours, g.preview.theirs), g.preview # NoPreview,
         g.pc \in {"ours", "theirs", "ready"},
         heads'[g.target] \in RevIds', heads'[g.source] \in RevIds',
         g.pc \in {"theirs", "ready"} => g.ours \in RevIds',
         g.pc = "ready" => g.left = {},
         g.tests => CandidateTested(g.preview.ours, g.preview.theirs)'
  PROVE  GateInv(gate)'
  <1>1. AnalysisOK(g, g.preview.ours, g.preview.theirs)'
    BY AnalysisStays
  <1>2. GateInv(g)'
    BY <1>1 DEF GateInv, NoPreview, NoRev
  <1>3. QED
    BY <1>2, GateInvNew

LEMMA TestHeadStep ==
  ASSUME MetadataInv, GateInv(gate), TestedInv, NEW k \in Keys, TestHead(k)
  PROVE  GateInv(gate)' /\ TestedInv'
  <1> DEFINE r == heads[k]
             s == State(r)
             passed == RunAll(s, {t \in Tests : Present(s, t)})
  <1>1. /\ tested.at = NoRev /\ gate' = gate /\ tested' = [at |-> r, passed |-> passed]
        /\ r \in RevIds
    BY DEF TestHead, MetadataInv, Founded, LogInv, ProjectClosed
  <1>2. Grows /\ PassesGrow /\ RevIds' = RevIds /\ \A q : State(q)' = State(q)
    BY <1>1, QuietStep DEF TestHead, PassesGrow
  <1>3. GateInv(gate)'
    BY <1>1, <1>2, GateStays
  <1>4. passed \subseteq Results
    BY <1>1, ResultTypes DEF RunAll, MetadataInv, Founded, StatesOK
  <1>5. \A t \in Tests : Present(s, t) => Runs(s, t) \in passed
    BY DEF RunAll
  <1>6. r \in Nat
    BY <1>1 DEF RevIds
  <1> HIDE DEF passed
  <1>7. tested' \in [at : Nat, passed : SUBSET Results']
    BY <1>1, <1>4, <1>6 DEF Results, Compilations
  <1>8. r \in RevIds' /\ tested'.at = r /\ tested'.passed = passed
    BY <1>1, <1>2
  <1>9. PICK q : q = r
    OBVIOUS
  <1>10. State(tested.at)' = State(q)
    BY <1>2, <1>8, <1>9
  <1>11. AllPassed(State(tested.at))'
    BY <1>5, <1>8, <1>9, <1>10 DEF AllPassed, Present, Runs, Compiles
  <1>12. QED
    BY <1>3, <1>7, <1>8, <1>11 DEF TestedInv, NoRev

LEMMA RunPlanStep ==
  ASSUME MetadataInv, GateInv(gate), TestedInv, NEW k \in Keys, RunPlan(k)
  PROVE  GateInv(gate)' /\ TestedInv'
  <1> DEFINE r == heads[k]
             before == State(tested.at)
             s == State(r)
             passed == tested.passed \cup RunAll(s, Selected(before, s))
  <1>1. /\ tested.at # NoRev /\ gate' = gate /\ tested' = [at |-> r, passed |-> passed]
        /\ r \in RevIds
    BY DEF RunPlan, MetadataInv, Founded, LogInv, ProjectClosed
  <1>2. tested.at \in RevIds /\ AllPassed(before) /\ tested.passed \subseteq Results
    BY <1>1 DEF TestedInv
  <1>3. Grows /\ RevIds' = RevIds /\ \A q : State(q)' = State(q)
    BY QuietStep DEF RunPlan
  <1>4. StateOK(s) /\ DocumentsApart /\ r # NoRev
    BY <1>1 DEF MetadataInv, Founded, StatesOK, RevIds, NoRev
  <1>5. PassesGrow
    BY <1>1, <1>4 DEF PassesGrow
  <1>6. GateInv(gate)'
    BY <1>1, <1>3, <1>5, GateStays
  <1>7. passed \subseteq Results
    BY <1>2, <1>4, ResultTypes DEF RunAll, Selected
  <1>8. ASSUME NEW t \in Tests, Present(s, t)
        PROVE  Runs(s, t) \in passed
    <2>1. CASE t \in Selected(before, s)
      BY <2>1 DEF RunAll
    <2>2. CASE t \notin Selected(before, s)
      BY <1>2, <1>4, <1>8, <2>2, UnselectedRunAlike DEF AllPassed
    <2>3. QED
      BY <2>1, <2>2
  <1>9. r \in Nat
    BY <1>1 DEF RevIds
  <1> HIDE DEF passed
  <1>10. tested' \in [at : Nat, passed : SUBSET Results']
    BY <1>1, <1>7, <1>9 DEF Results, Compilations
  <1>11. r \in RevIds' /\ tested'.at = r /\ tested'.passed = passed
    BY <1>1, <1>3
  <1>12. PICK q : q = r
    OBVIOUS
  <1>13. State(tested.at)' = State(q)
    BY <1>3, <1>11, <1>12
  <1>14. AllPassed(State(tested.at))'
    BY <1>8, <1>11, <1>12, <1>13 DEF AllPassed, Present, Runs, Compiles
  <1>15. QED
    BY <1>6, <1>10, <1>11, <1>14 DEF TestedInv, NoRev

LEMMA NoGateFacts ==
  /\ NoGate \in GateType /\ NoGate.pc = "idle" /\ NoGate.preview = NoPreview /\ ~ NoGate.tests
  /\ NoGate.left = {} /\ NoGate.compiled = {}
  BY ConstantsAssumption DEF NoGate, GateType, NoPreview, NoRev, NobodyCalls, Keys

LEMMA GateTypeStays == GateType' = GateType
  BY DEF GateType, Compilations, Keys

\* The tests of a virtual merge stay as they were in steps that run no tests.
LEMMA GateTestsStay ==
  ASSUME MetadataInv, GateInv(gate), Grows, tested' = tested, gate.tests,
         NEW ours, NEW theirs, ours = gate.preview.ours, theirs = gate.preview.theirs
  PROVE  CandidateTested(ours, theirs)'
  <1>1. PassesGrow
    BY DEF PassesGrow
  <1>2. QED
    BY <1>1, TestsStay DEF GateInv, AnalysisOK

\* The gate is opened, reads its target, or gives up.
LEMMA PlainGateStep ==
  ASSUME MetadataInv, GateInv(gate), TestedInv,
         (\E k, source \in Keys : StartGate(k, source)) \/ ReadOurs \/ FailGate \/ BeginMerge
  PROVE  GateInv(gate)'
  <1>1. /\ UNCHANGED <<logVars, metadataVars>> /\ tested' = tested
    BY DEF StartGate, ReadOurs, FailGate, BeginMerge, SetGate
  <1>2. Grows /\ RevIds' = RevIds /\ heads' = heads
    BY <1>1, QuietStep
  <1>3. \A o, t : gate.tests /\ o = gate.preview.ours /\ t = gate.preview.theirs =>
          CandidateTested(o, t)'
    BY <1>1, <1>2, GateTestsStay
  <1>4. PICK g : g = gate'
    OBVIOUS
  <1>5. gate \in GateType
    BY DEF GateInv
  <1>6. CASE \E k, source \in Keys : StartGate(k, source)
    <2>1. PICK k \in Keys, source \in Keys : StartGate(k, source)
      BY <1>6
    <2>2. PICK accepts \in BOOLEAN :
            g = [NoGate EXCEPT !.pc = "ours", !.target = k, !.source = source, !.accepts = accepts]
      BY <1>4, <2>1 DEF StartGate, SetGate
    <2>3. g \in GateType /\ g.pc = "ours" /\ g.target = k /\ g.source = source
          /\ g.preview = NoPreview /\ ~ g.tests
      BY <2>2, NoGateFacts DEF GateType
    <2>4. heads[k] \in RevIds /\ heads[source] \in RevIds
      BY <2>1 DEF StartGate, MetadataInv, Founded, LogInv, ProjectClosed
    <2>5. QED
      BY <1>2, <1>4, <2>3, <2>4, GateTypeStays, GateBegins
  <1>7. CASE ReadOurs
    <2>1. gate.pc = "ours" /\ g = [gate EXCEPT !.pc = "theirs", !.ours = heads[gate.target]]
      BY <1>4, <1>7 DEF ReadOurs, SetGate
    <2>2. heads[gate.target] \in RevIds /\ heads[gate.source] \in RevIds
          /\ heads[gate.target] \in Nat
      BY <2>1 DEF GateInv, RevIds
    <2>3. /\ g \in GateType /\ g.pc = "theirs" /\ g.target = gate.target /\ g.source = gate.source
          /\ g.ours = heads[gate.target] /\ g.preview = gate.preview /\ g.tests = gate.tests
          /\ g.accepts = gate.accepts /\ g.left = gate.left /\ g.compiled = gate.compiled
      BY <1>5, <2>1, <2>2 DEF GateType
    <2>4. CASE gate.preview = NoPreview
      BY <1>2, <1>4, <2>2, <2>3, <2>4, GateTypeStays, GateBegins DEF GateInv
    <2>5. CASE gate.preview # NoPreview
      <3>1. AnalysisOK(g, g.preview.ours, g.preview.theirs)
        BY <2>3, <2>5 DEF GateInv, AnalysisOK
      <3>2. QED
        BY <1>2, <1>3, <1>4, <2>2, <2>3, <2>5, <3>1, GateTypeStays, GateGoesOn
    <2>6. QED
      BY <2>4, <2>5
  <1>8. CASE FailGate
    BY <1>4, <1>8, NoGateFacts, GateTypeStays, GateBegins DEF FailGate, SetGate
  <1>9. CASE BeginMerge
    <2>1. gate.pc = "theirs" /\ gate.preview # NoPreview /\ gate.left = {}
          /\ g = [gate EXCEPT !.pc = "ready"]
      BY <1>4, <1>9 DEF BeginMerge, SetGate
    <2>2. heads[gate.target] \in RevIds /\ heads[gate.source] \in RevIds /\ gate.ours \in RevIds
      BY <2>1 DEF GateInv
    <2>3. /\ g \in GateType /\ g.pc = "ready" /\ g.target = gate.target /\ g.source = gate.source
          /\ g.ours = gate.ours /\ g.preview = gate.preview /\ g.tests = gate.tests
          /\ g.accepts = gate.accepts /\ g.left = gate.left /\ g.compiled = gate.compiled
      BY <1>5, <2>1 DEF GateType
    <2>4. AnalysisOK(g, g.preview.ours, g.preview.theirs)
      BY <2>1, <2>3 DEF GateInv, AnalysisOK
    <2>5. QED
      BY <1>2, <1>3, <1>4, <2>1, <2>2, <2>3, <2>4, GateTypeStays, GateGoesOn
  <1>10. QED
    BY <1>6, <1>7, <1>8, <1>9

\* The merge is analysed: nothing is compiled yet, and everything affected is left.
LEMMA AnalyzeStep ==
  ASSUME MetadataInv, GateInv(gate), TestedInv, Analyze
  PROVE  GateInv(gate)'
  <1> DEFINE ours == gate.ours
             theirs == heads[gate.source]
             before == State(ours)
             after == Candidate(ours, theirs)
             preview == [ours |-> ours, theirs |-> theirs]
  <1>1. /\ gate.pc = "theirs" /\ gate.preview = NoPreview /\ CleanMerge(ours, theirs)
        /\ gate.accepts \/ Uncovered(before, after) = {}
        /\ UNCHANGED <<logVars, metadataVars>> /\ tested' = tested
        /\ gate' = [gate EXCEPT !.pc = "ours", !.preview = preview, !.left = Surviving(before, after)]
    BY DEF Analyze, SetGate
  <1>2. Grows /\ RevIds' = RevIds /\ heads' = heads
    BY <1>1, QuietStep
  <1>3. \A o, t : gate.tests /\ o = gate.preview.ours /\ t = gate.preview.theirs =>
          CandidateTested(o, t)'
    BY <1>1, <1>2, GateTestsStay
  <1>4. gate \in GateType /\ ours \in RevIds /\ theirs \in RevIds /\ heads[gate.target] \in RevIds
        /\ ~ gate.tests
    BY <1>1 DEF GateInv
  <1>5. Surviving(before, after) \subseteq Builds
    BY DEF Surviving, Affected
  <1>6. preview \in [ours : Nat, theirs : Nat] /\ preview.ours = ours /\ preview.theirs = theirs
        /\ preview # NoPreview
    BY <1>4 DEF RevIds, NoPreview, NoRev
  <1> HIDE DEF preview
  <1>7. PICK g : g = gate'
    OBVIOUS
  <1>8. /\ g \in GateType /\ g.pc = "ours" /\ g.target = gate.target /\ g.source = gate.source
        /\ g.preview = preview /\ g.tests = gate.tests /\ g.accepts = gate.accepts
        /\ g.left = Surviving(before, after)
    BY <1>1, <1>4, <1>5, <1>6, <1>7 DEF GateType
  <1>9. AnalysisOK(g, ours, theirs)
    BY <1>1, <1>4, <1>8 DEF AnalysisOK
  <1>10. QED
    BY <1>2, <1>3, <1>4, <1>6, <1>7, <1>8, <1>9, GateTypeStays, GateGoesOn

\* One affected target compiles.
LEMMA ValidateStep ==
  ASSUME MetadataInv, GateInv(gate), TestedInv, NEW b \in Builds, ValidateTarget(b)
  PROVE  GateInv(gate)'
  <1> DEFINE ours == gate.ours
             theirs == heads[gate.source]
             before == State(ours)
             after == Candidate(ours, theirs)
             result == Compiles(after, b)
  <1>1. /\ gate.pc = "theirs" /\ b \in gate.left
        /\ gate.preview = [ours |-> ours, theirs |-> theirs]
        /\ UNCHANGED <<logVars, metadataVars>> /\ tested' = tested
        /\ gate' = [gate EXCEPT !.pc = "ours", !.left = @ \ {b}, !.compiled = @ \cup {result}]
    BY DEF ValidateTarget, SetGate, SamePreview
  <1>2. Grows /\ RevIds' = RevIds /\ heads' = heads
    BY <1>1, QuietStep
  <1>3. \A o, t : gate.tests /\ o = gate.preview.ours /\ t = gate.preview.theirs =>
          CandidateTested(o, t)'
    BY <1>1, <1>2, GateTestsStay
  <1>4. gate \in GateType /\ ours \in RevIds /\ theirs \in RevIds /\ heads[gate.target] \in RevIds
    BY <1>1 DEF GateInv
  <1>5. gate.preview.ours = ours /\ gate.preview.theirs = theirs /\ gate.preview # NoPreview
    BY <1>1, <1>4 DEF RevIds, NoPreview, NoRev
  <1>6. AnalysisOK(gate, ours, theirs)
    BY <1>5 DEF GateInv
  <1>7. result \in Compilations
    <2>1. StateOK(after) /\ DocumentsApart
      BY <1>4, <1>6, CandidateFacts DEF AnalysisOK, MetadataInv
    <2>2. Present(after, b)
      BY <1>1, <1>6 DEF AnalysisOK, Surviving
    <2>3. QED
      BY <2>1, <2>2, ResultTypes
  <1> HIDE DEF result
  <1>8. PICK g : g = gate'
    OBVIOUS
  <1>9. /\ g \in GateType /\ g.pc = "ours" /\ g.target = gate.target /\ g.source = gate.source
        /\ g.preview = gate.preview /\ g.tests = gate.tests /\ g.accepts = gate.accepts
        /\ g.left = gate.left \ {b} /\ g.compiled = gate.compiled \cup {result}
    BY <1>1, <1>4, <1>7, <1>8 DEF GateType
  <1>10. AnalysisOK(g, ours, theirs)
    BY <1>6, <1>9 DEF AnalysisOK, result
  <1>11. QED
    BY <1>2, <1>3, <1>4, <1>5, <1>8, <1>9, <1>10, GateTypeStays, GateGoesOn

\* The tests that the merge may affect pass on it.
LEMMA TestCandidateStep ==
  ASSUME MetadataInv, GateInv(gate), TestedInv, TestCandidate
  PROVE  GateInv(gate)' /\ TestedInv'
  <1> DEFINE ours == gate.ours
             theirs == heads[gate.source]
             before == State(ours)
             after == Candidate(ours, theirs)
             passed == tested.passed \cup RunAll(after, Selected(before, after))
  <1>1. /\ gate.pc = "theirs" /\ tested.at = ours
        /\ gate.preview = [ours |-> ours, theirs |-> theirs]
        /\ UNCHANGED <<logVars, metadataVars>> /\ tested' = [tested EXCEPT !.passed = passed]
        /\ gate' = [gate EXCEPT !.pc = "ours", !.tests = TRUE]
    BY DEF TestCandidate, SetGate, SamePreview
  <1>2. Grows /\ RevIds' = RevIds /\ heads' = heads /\ \A q : State(q)' = State(q)
    BY <1>1, QuietStep
  <1>3. gate \in GateType /\ ours \in RevIds /\ theirs \in RevIds /\ heads[gate.target] \in RevIds
    BY <1>1 DEF GateInv
  <1>4. gate.preview.ours = ours /\ gate.preview.theirs = theirs /\ gate.preview # NoPreview
        /\ ours # NoRev
    BY <1>1, <1>3 DEF RevIds, NoPreview, NoRev
  <1>5. AnalysisOK(gate, ours, theirs)
    BY <1>4 DEF GateInv
  <1>6. StateOK(after) /\ DocumentsApart
    BY <1>3, <1>5, CandidateFacts DEF AnalysisOK, MetadataInv
  <1>7. tested \in [at : Nat, passed : SUBSET Results] /\ AllPassed(before)
    BY <1>1, <1>4 DEF TestedInv
  <1>8. passed \subseteq Results /\ tested.passed \subseteq passed
    BY <1>6, <1>7, ResultTypes DEF RunAll, Selected
  <1>9. ASSUME NEW t \in Tests, Present(after, t)
        PROVE  Runs(after, t) \in passed
    <2>1. CASE t \in Selected(before, after)
      BY <2>1 DEF RunAll
    <2>2. CASE t \notin Selected(before, after)
      BY <1>6, <1>7, <1>9, <2>2, UnselectedRunAlike DEF AllPassed
    <2>3. QED
      BY <2>1, <2>2
  <1> HIDE DEF passed
  <1>10. tested' \in [at : Nat, passed : SUBSET Results] /\ tested'.at = ours
         /\ tested'.passed = passed
    BY <1>1, <1>7, <1>8
  <1>11. PassesGrow
    BY <1>1, <1>4, <1>8, <1>10 DEF PassesGrow
  <1>12. PICK g : g = gate'
    OBVIOUS
  <1>13. /\ g \in GateType /\ g.pc = "ours" /\ g.target = gate.target /\ g.source = gate.source
         /\ g.preview = gate.preview /\ g.tests = TRUE /\ g.accepts = gate.accepts
         /\ g.left = gate.left /\ g.compiled = gate.compiled /\ g.published = gate.published
    BY <1>1, <1>3, <1>12 DEF GateType
  <1>14. AnalysisOK(g, ours, theirs)
    BY <1>5, <1>13 DEF AnalysisOK
  <1>15. ASSUME NEW o, NEW t, o = ours, t = theirs
         PROVE  CandidateTested(o, t)'
    <2>1. Candidate(o, t)' = Candidate(o, t)
      BY <1>2, <1>3, <1>5, <1>15, CandidateStays DEF AnalysisOK, MetadataInv
    <2>2. Candidate(o, t) = after
      BY <1>15
    <2> HIDE DEF after
    <2>3. QED
      BY <1>4, <1>9, <1>10, <2>1, <2>2 DEF CandidateTested, AllPassed, Present, Runs, Compiles, NoRev
  <1>16. GateInv(gate)'
    BY <1>2, <1>3, <1>4, <1>12, <1>13, <1>14, <1>15, GateTypeStays, GateGoesOn
  <1>17. ASSUME NEW o, o = ours
         PROVE  State(o)' = before /\ o \in RevIds'
    BY <1>2, <1>3, <1>17
  <1>18. AllPassed(State(tested.at))'
    <2>1. PICK o : o = ours
      OBVIOUS
    <2>2. State(tested.at)' = State(o)'
      BY <1>10, <2>1
    <2>3. State(o)' = before /\ AllPassed(before)
      BY <1>7, <1>17, <2>1
    <2> HIDE DEF before
    <2>4. QED
      BY <1>8, <1>10, <2>2, <2>3 DEF AllPassed, Present, Runs, Compiles
  <1>19. QED
    BY <1>2, <1>3, <1>10, <1>16, <1>18 DEF TestedInv, Results, Compilations

\* The merge that is published behind the gate is the one that was analysed.
LEMMA PublishReadyStep ==
  ASSUME MetadataInv, GateInv(gate), TestedInv, PublishReady
  PROVE  MetadataInv' /\ GateInv(gate)' /\ TestedInv'
  <1>1. PICK k, source, ours, theirs, n :
          /\ k = gate.target /\ source = gate.source
          /\ ours = heads[k] /\ theirs = heads[source] /\ n = Len(revs) + 1
    OBVIOUS
  <1>2. /\ gate.pc = "ready" /\ gate.preview.ours = ours /\ gate.preview.theirs = theirs
        /\ MergeMetadata(k, source) /\ call' = call
        /\ gate' = [gate EXCEPT !.pc = "published", !.published = n]
        /\ tested' = IF ~ gate.tests THEN tested ELSE [tested EXCEPT !.at = n]
    BY <1>1 DEF PublishReady, HeadsAsPreviewed
  <1>3. gate \in GateType /\ k \in Keys /\ source \in Keys /\ gate.preview # NoPreview
        /\ gate.left = {} /\ AnalysisOK(gate, ours, theirs)
    BY <1>1, <1>2 DEF GateInv, GateType
  <1>4. DocumentsApart /\ Founded
    BY DEF MetadataInv
  <1>5. ours \in RevIds /\ theirs \in RevIds /\ CleanMerge(ours, theirs)
    BY <1>3 DEF AnalysisOK
  <1>6. PICK snap \in Snapshots, e \in Entries, base \in RevIds :
          /\ SoundRevision(k, theirs, snap, e)
          /\ BestCommonAncestors(ours, theirs) = {base}
          /\ After(snap, e.trees) = MergedState(base, ours, theirs)
    <2>1. MergeMetadata(k, source) /\ k \in Keys /\ source \in Keys
      BY <1>2, <1>3
    <2>2. \E snap \in Snapshots, e \in Entries, base \in RevIds :
            /\ SoundRevision(k, heads[source], snap, e)
            /\ BestCommonAncestors(heads[k], heads[source]) = {base}
            /\ After(snap, e.trees) = MergedState(base, heads[k], heads[source])
      BY <1>4, <2>1, MetadataMergeRevision
    <2>3. QED
      BY <1>1, <2>2
  <1>7. Candidate(ours, theirs) = After(snap, e.trees)
    BY <1>6 DEF Candidate
  <1>8. /\ LogGrows /\ RevIds' = RevIds \cup {n} /\ n \notin RevIds
        /\ heads' = [heads EXCEPT ![k] = n] /\ revs'[n].parent1 = ours
        /\ State(n)' = Candidate(ours, theirs)
    <2>1. n = Len(revs) + 1 /\ theirs \in RevIds \cup {NoRev} /\ ours = heads[k]
          /\ SoundRevision(k, theirs, snap, e)
      BY <1>1, <1>5, <1>6
    <2>2. /\ LogGrows /\ RevIds' = RevIds \cup {n} /\ n \notin RevIds
          /\ heads' = [heads EXCEPT ![k] = n] /\ revs'[n].parent1 = heads[k]
          /\ State(n)' = After(snap, e.trees)
      BY <1>3, <1>4, <2>1, SoundFacts
    <2>3. QED
      BY <1>7, <2>1, <2>2
  <1>9. SoundStep
    BY <1>3, <1>5, <1>6 DEF SoundStep
  <1>10. MetadataInv' /\ Grows
    BY <1>2, <1>4, <1>9, FoundedStep, SoundGrows DEF MetadataInv, DocumentsApart
  <1>11. n \in Nat /\ n # NoRev
    BY <1>1, <1>4 DEF Founded, LogInv, LogTypeOK, NoRev
  <1>12. CleanMerge(ours, theirs)' /\ Candidate(ours, theirs)' = Candidate(ours, theirs)
    BY <1>4, <1>5, <1>10, CandidateStays
  <1>13. PublishedOK(n, ours, theirs)'
    BY <1>8, <1>12 DEF PublishedOK
  <1>14. tested \in [at : Nat, passed : SUBSET Results]
    BY DEF TestedInv
  <1>15. PassesGrow
    BY <1>2, <1>11, <1>14 DEF PassesGrow
  <1>16. PICK g : g = gate'
    OBVIOUS
  <1>17. /\ g \in GateType /\ g.pc = "published" /\ g.target = k /\ g.source = source
         /\ g.preview = gate.preview /\ g.tests = gate.tests /\ g.accepts = gate.accepts
         /\ g.left = gate.left /\ g.compiled = gate.compiled /\ g.published = n
    BY <1>1, <1>2, <1>3, <1>11, <1>16 DEF GateType
  <1>18. GateInv(gate)'
    <2>1. AnalysisOK(g, ours, theirs)
      BY <1>3, <1>17 DEF AnalysisOK
    <2>2. AnalysisOK(g, ours, theirs)'
      BY <1>10, <2>1, AnalysisStays
    <2>3. heads'[k] \in RevIds' /\ heads'[source] \in RevIds'
      BY <1>1, <1>3, <1>5, <1>10 DEF Grows
    <2>4. g.tests => CandidateTested(ours, theirs)'
      BY <1>2, <1>5, <1>10, <1>15, <1>17, TestsStay DEF GateInv
    <2>5. GateInv(g)'
      BY <1>2, <1>3, <1>13, <1>17, <2>2, <2>3, <2>4, GateTypeStays DEF GateInv, NoPreview, NoRev
    <2>6. QED
      BY <1>16, <2>5, GateInvNew
  <1>19. TestedInv'
    <2>1. CASE ~ gate.tests
      BY <1>2, <1>10, <2>1, TestedStays
    <2>2. CASE gate.tests
      <3>1. tested' \in [at : Nat, passed : SUBSET Results] /\ tested'.at = n
            /\ tested'.passed = tested.passed
        BY <1>2, <1>11, <1>14, <2>2
      <3>2. AllPassed(Candidate(ours, theirs))
        BY <1>2, <2>2 DEF GateInv, CandidateTested
      <3>3. State(tested.at)' = State(n)'
        BY <3>1
      <3>4. AllPassed(State(tested.at))'
        BY <1>8, <3>1, <3>2, <3>3 DEF AllPassed, Present, Runs, Compiles
      <3>5. QED
        BY <1>8, <3>1, <3>4 DEF TestedInv, Results, Compilations
    <2>3. QED
      BY <2>1, <2>2
  <1>20. QED
    BY <1>10, <1>18, <1>19

LEMMA ImpactInvStep ==
  ASSUME ImpactInv, [ImpactNext]_<<logVars, metadataVars, impactVars>>
  PROVE  ImpactInv'
  <1>1. MetadataInv /\ GateInv(gate) /\ TestedInv
    BY DEF ImpactInv
  <1>2. CASE UNCHANGED <<logVars, metadataVars, impactVars>>
    <2>1. PassesGrow /\ gate' = gate /\ tested' = tested
      BY <1>2 DEF impactVars, PassesGrow
    <2>2. QED
      BY <1>1, <1>2, <2>1, QuietStep, GateStays, TestedStays DEF ImpactInv
  <1>3. CASE \E k \in Keys : TestHead(k) \/ RunPlan(k)
    <2>1. UNCHANGED <<logVars, metadataVars>>
      BY <1>3 DEF TestHead, RunPlan
    <2>2. QED
      BY <1>1, <1>3, <2>1, QuietStep, TestHeadStep, RunPlanStep DEF ImpactInv
  <1>4. CASE (\E k, source \in Keys : StartGate(k, source)) \/ ReadOurs \/ FailGate \/ BeginMerge
             \/ Analyze \/ \E b \in Builds : ValidateTarget(b)
    <2>1. UNCHANGED <<logVars, metadataVars>> /\ tested' = tested
      BY <1>4 DEF StartGate, ReadOurs, FailGate, BeginMerge, Analyze, ValidateTarget, SetGate
    <2>2. GateInv(gate)'
      BY <1>1, <1>4, PlainGateStep, AnalyzeStep, ValidateStep
    <2>3. QED
      BY <1>1, <2>1, <2>2, QuietStep, TestedStays DEF ImpactInv
  <1>5. CASE TestCandidate
    <2>1. UNCHANGED <<logVars, metadataVars>>
      BY <1>5 DEF TestCandidate, SetGate
    <2>2. QED
      BY <1>1, <1>5, <2>1, QuietStep, TestCandidateStep DEF ImpactInv
  <1>6. CASE PublishReady
    BY <1>1, <1>6, PublishReadyStep DEF ImpactInv
  <1>7. CASE OthersPublish /\ UNCHANGED impactVars
    <2>1. SoundStep /\ DocumentsApart /\ Founded /\ call' = call
      BY <1>1, <1>7, OthersAreSound DEF MetadataInv, OthersPublish
    <2>2. MetadataInv' /\ Grows
      BY <1>1, <2>1, FoundedStep, SoundGrows DEF MetadataInv, DocumentsApart
    <2>3. PassesGrow /\ gate' = gate /\ tested' = tested
      BY <1>7 DEF impactVars, PassesGrow
    <2>4. QED
      BY <1>1, <2>2, <2>3, GateStays, TestedStays DEF ImpactInv
  <1>8. QED
    BY <1>2, <1>3, <1>4, <1>5, <1>6, <1>7 DEF ImpactNext

\* What the invariant says of the merge that was published.
LEMMA GatedMergesHold ==
  ASSUME ImpactInv
  PROVE  GatedMergesCompile
  <1>1. SUFFICES ASSUME gate.pc = "published"
                 PROVE  LET after  == State(gate.published)
                            before == State(revs[gate.published].parent1)
                        IN  /\ \A b \in Builds : Present(after, b) =>
                                 \/ Compiles(after, b) \in gate.compiled
                                 \/ Present(before, b) /\ Compiles(after, b) = Compiles(before, b)
                            /\ gate.accepts \/ \A d \in Sources : after[d] # before[d] =>
                                 \E b \in Builds : Present(after, b) /\ after[b].document = d
    BY DEF GatedMergesCompile
  <1> DEFINE ours == gate.preview.ours
             theirs == gate.preview.theirs
             after == State(gate.published)
             before == State(revs[gate.published].parent1)
  <1>2. AnalysisOK(gate, ours, theirs) /\ gate.left = {} /\ PublishedOK(gate.published, ours, theirs)
    BY <1>1 DEF ImpactInv, GateInv
  <1>3. after = Candidate(ours, theirs) /\ before = State(ours) /\ gate.published \in RevIds
    BY <1>2 DEF PublishedOK
  <1>4. StateOK(after) /\ DocumentsApart
    BY <1>3 DEF ImpactInv, MetadataInv, Founded, StatesOK
  <1>5. /\ gate.accepts \/ Uncovered(before, after) = {}
        /\ \A b \in Surviving(before, after) : Compiles(after, b) \in gate.compiled
    BY <1>2, <1>3 DEF AnalysisOK
  <1> HIDE DEF after, before
  <1>6. ASSUME NEW b \in Builds, Present(after, b)
        PROVE  \/ Compiles(after, b) \in gate.compiled
               \/ Present(before, b) /\ Compiles(after, b) = Compiles(before, b)
    <2>1. CASE b \in Affected(before, after)
      BY <1>5, <1>6, <2>1 DEF Surviving
    <2>2. CASE b \notin Affected(before, after)
      BY <1>4, <1>6, <2>2, UnaffectedCompileAlike
    <2>3. QED
      BY <2>1, <2>2
  <1>7. ASSUME ~ gate.accepts, NEW d \in Sources, after[d] # before[d]
        PROVE  \E b \in Builds : Present(after, b) /\ after[b].document = d
    <2>1. d \in Changed(before, after)
      BY <1>4, <1>7 DEF Changed, DocumentsApart
    <2>2. PICK b \in Builds : d \in SourcesOf(after, b)
      BY <1>5, <1>7, <2>1 DEF Uncovered
    <2>3. QED
      BY <2>2 DEF SourcesOf
  <1>8. QED
    BY <1>6, <1>7 DEF after, before

\* The same history, and an agent that has not begun to merge and to test.
ImpactSpec ==
  /\ DocumentsApart /\ Founded /\ call = NobodyCalls
  /\ gate = NoGate /\ tested = NothingTested
  /\ [][ImpactNext]_<<logVars, metadataVars, impactVars>>

\* Whatever impact analysis leaves out has not changed: a merge behind the gate
\* compiles everything it affects, whatever moved while it was validated, and the
\* tests that plans did not select would have run what they ran before.
THEOREM ImpactIsComplete == ImpactSpec => []ImpactComplete
  <1>1. /\ DocumentsApart /\ Founded /\ call = NobodyCalls /\ gate = NoGate
        /\ tested = NothingTested
        => ImpactInv
    <2>1. NobodyCalls.branch \in Keys
      BY ConstantsAssumption DEF NobodyCalls, Keys
    <2>2. gate = NoGate => GateInv(gate)
      BY NoGateFacts DEF GateInv
    <2>3. tested = NothingTested => TestedInv
      BY DEF TestedInv, NothingTested, NoRev
    <2>4. QED
      BY <2>1, <2>2, <2>3 DEF ImpactInv, MetadataInv
  <1>2. ImpactInv /\ [ImpactNext]_<<logVars, metadataVars, impactVars>> => ImpactInv'
    BY ImpactInvStep
  <1>3. ImpactInv => ImpactComplete
    BY GatedMergesHold DEF ImpactInv, TestedInv, ImpactComplete, TestedThroughout, AllPassed
  <1>4. QED
    BY <1>1, <1>2, <1>3, PTL DEF ImpactSpec
==============================================================================
