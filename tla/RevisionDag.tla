----------------------------- MODULE RevisionDag -----------------------------
(****************************************************************************)
(* analyze_common_ancestors: one bounded breadth-first walk from two        *)
(* revisions at once, and one topological pass over what it visited, which  *)
(* together give the merge bases.  The graph, the two revisions and the     *)
(* limits are chosen at the start; revisions are numbered so that parents   *)
(* come first.                                                              *)
(****************************************************************************)
EXTENDS Naturals, Sequences, FiniteSets, SequencesExt

CONSTANTS
  Graphs,       \* histories: the parents of every revision
  NodeLimits,   \* the limits a walk may run under
  EdgeLimits

\* The first revision of a project has no parent, every other one or two; a merge
\* of branches with the same head names that head twice.
ParentChoices(n) ==
  IF n = 1 THEN {<<>>}
  ELSE {<<p>> : p \in 1..(n - 1)} \cup (1..(n - 1)) \X (1..(n - 1))

ASSUME DagAssumption ==
  /\ \A g \in Graphs : /\ g \in Seq(Seq(Nat)) /\ g # <<>>
                       /\ \A n \in DOMAIN g : g[n] \in ParentChoices(n)
  /\ NodeLimits \subseteq Nat /\ EdgeLimits \subseteq Nat

Sides == {"left", "right"}

VARIABLES
  dag,       \* graph, the two revisions, and the limits
  walk,      \* where the analysis is: walk, order, or how it ended
  queue,     \* <<revision, side>> still to be visited
  known,     \* the revisions whose parents were loaded
  reach,     \* from which sides a revision was reached
  edges,     \* edges_visited
  children,  \* child_counts of the topological pass
  under,     \* common_descendant: revisions below a common one
  nonBest    \* common revisions that are no merge base

dagVars == <<dag, walk, queue, known, reach, edges, children, under, nonBest>>

Nodes == DOMAIN dag.graph
Parents(n) == ToSet(dag.graph[n])

\* A parent that is named twice counts as two edges, but is followed once.
Followed(n) == IF IsInjective(dag.graph[n]) THEN dag.graph[n] ELSE <<Head(dag.graph[n])>>

DagInit(start) ==
  /\ \E g \in Graphs, nl \in NodeLimits, el \in EdgeLimits : \E l, r \in DOMAIN g :
       dag = [graph |-> g, left |-> l, right |-> r, nodeLimit |-> nl, edgeLimit |-> el]
  /\ walk = start
  /\ queue = <<<<dag.left, "left">>, <<dag.right, "right">>>>
  /\ known = {}
  /\ reach = [n \in Nodes |-> {}]
  /\ edges = 0
  /\ children = [n \in Nodes |-> 0]
  /\ under = {}
  /\ nonBest = {}

NoAnalysis ==
  /\ dag = [graph |-> <<<<>>>>, left |-> 1, right |-> 1, nodeLimit |-> 1, edgeLimit |-> 1]
  /\ walk = "off"
  /\ queue = <<>>
  /\ known = {}
  /\ reach = <<{}>>
  /\ edges = 0
  /\ children = <<0>>
  /\ under = {}
  /\ nonBest = {}

------------------------------------------------------------------------------
(* The walk                                                                 *)

NodeLimitMet(n) == n \notin known /\ Cardinality(known) >= dag.nodeLimit
EdgeLimitMet(n) == n \notin known /\ edges + Len(dag.graph[n]) > dag.edgeLimit

LimitExceeded ==
  /\ walk = "walk"
  /\ queue # <<>>
  /\ LET n == Head(queue)[1]
     IN  /\ Head(queue)[2] \notin reach[n]
         /\ NodeLimitMet(n) \/ EdgeLimitMet(n)
  /\ walk' = "limit"
  /\ UNCHANGED <<dag, queue, known, reach, edges, children, under, nonBest>>

\* Mutant: the edges of a revision count once for each side.
VisitCountsTwice ==
  /\ walk = "walk"
  /\ queue # <<>>
  /\ LET n == Head(queue)[1]
         side == Head(queue)[2]
         seen == side \in reach[n]
     IN  /\ ~(side \notin reach[n] /\ (NodeLimitMet(n) \/ EdgeLimitMet(n)))
         /\ queue' = Tail(queue) \o IF seen THEN <<>>
                                    ELSE [i \in DOMAIN Followed(n) |-> <<Followed(n)[i], side>>]
         /\ known' = known \cup {n}
         /\ reach' = [reach EXCEPT ![n] = @ \cup {side}]
         /\ edges' = IF seen THEN edges ELSE edges + Len(dag.graph[n])
  /\ UNCHANGED <<dag, walk, children, under, nonBest>>

Visit ==
  /\ walk = "walk"
  /\ queue # <<>>
  /\ LET n == Head(queue)[1]
         side == Head(queue)[2]
         seen == side \in reach[n]
     IN  /\ ~(side \notin reach[n] /\ (NodeLimitMet(n) \/ EdgeLimitMet(n)))
         /\ queue' = Tail(queue) \o IF seen THEN <<>>
                                    ELSE [i \in DOMAIN Followed(n) |-> <<Followed(n)[i], side>>]
         /\ known' = known \cup {n}
         /\ reach' = [reach EXCEPT ![n] = @ \cup {side}]
         /\ edges' = IF n \in known THEN edges ELSE edges + Len(dag.graph[n])
  /\ UNCHANGED <<dag, walk, children, under, nonBest>>

\* Every revision visited has its parents visited by now.
EndWalk ==
  /\ walk = "walk"
  /\ queue = <<>>
  /\ walk' = "order"
  /\ children' = [n \in Nodes |-> Cardinality({m \in known : n \in Parents(m)})]
  /\ UNCHANGED <<dag, queue, known, reach, edges, under, nonBest>>

------------------------------------------------------------------------------
(* The topological pass; known shrinks to what is still to be processed     *)

Common == {n \in Nodes : reach[n] = Sides}

Ready == {n \in known : children[n] = 0}

Least(S) == CHOOSE n \in S : \A m \in S : n <= m

Process ==
  /\ walk = "order"
  /\ Ready # {}
  /\ LET n == Least(Ready)
         propagates == n \in Common \cup under
     IN  /\ known' = known \ {n}
         /\ children' = [m \in Nodes |-> IF m \in Parents(n) THEN children[m] - 1 ELSE children[m]]
         /\ under' = IF propagates THEN under \cup Parents(n) ELSE under
         /\ nonBest' = IF propagates THEN nonBest \cup (Parents(n) \cap Common) ELSE nonBest
  /\ UNCHANGED <<dag, walk, queue, reach, edges>>

\* Nothing was processed twice or left over: a cycle or a missing parent would.
EndOrder ==
  /\ walk = "order"
  /\ Ready = {}
  /\ walk' = IF known # {} THEN "cycle"
             ELSE IF Common = {} THEN "unrelated" ELSE "found"
  /\ UNCHANGED <<dag, queue, known, reach, edges, children, under, nonBest>>

DagNext == LimitExceeded \/ Visit \/ EndWalk \/ Process \/ EndOrder

DagSpec == DagInit("walk") /\ [][DagNext]_dagVars

------------------------------------------------------------------------------
(* The definition to compare with                                           *)

ParentClosed(S) == \A x \in S : Parents(x) \subseteq S

\* What every set that holds n, and with a revision its parents, holds.
History(n) ==
  {m \in Nodes : \A S \in SUBSET Nodes : n \in S /\ ParentClosed(S) => m \in S}

Shared == History(dag.left) \cap History(dag.right)

MergeBases == {n \in Shared : ~\E m \in Shared \ {n} : n \in History(m)}

\* One for each parent that a revision names.
EdgesOf(S) == UNION {{<<n, i>> : i \in DOMAIN dag.graph[n]} : n \in S}

\* Both histories together are within the limits.
Fits ==
  LET all == History(dag.left) \cup History(dag.right)
  IN  /\ Cardinality(all) <= dag.nodeLimit
      /\ Cardinality(EdgesOf(all)) <= dag.edgeLimit

\* The walk gives exactly the best common ancestors, or fails, and fails only
\* if the two histories together really are larger than a limit: it never
\* returns a base computed from part of them.
MergeBasesExact ==
  /\ walk = "found" => Fits /\ Common \ nonBest = MergeBases
  /\ walk = "limit" => ~Fits
  /\ walk \notin {"cycle", "unrelated"}
==============================================================================
