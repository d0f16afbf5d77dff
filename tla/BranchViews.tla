----------------------------- MODULE BranchViews ------------------------------
(****************************************************************************)
(* Views of several branches that must describe one moment: pages of the    *)
(* project's merge queue, the same with the impact of every merge, batches  *)
(* of selected preflights, and merge trains.  Each captures the heads of    *)
(* all branches in one read and then previews one source after the other,   *)
(* reading the head of the target and that of the source again each time;   *)
(* preflights and trains capture the heads once more at the end.            *)
(*                                                                          *)
(* A train merges its sources into a virtual state in memory, one after the *)
(* other, always from the common ancestor with the target as it is.         *)
(****************************************************************************)
EXTENDS RevisionLog, SequencesExt

CONSTANTS
  Starts,    \* the repositories a view may find: revisions and heads
  MaxViews   \* bound: completed views

VARIABLES
  reader,    \* the view being composed
  views      \* completed views

viewVars == <<reader, views>>

ViewKinds == {"queue", "impact", "preflights", "train"}

Catalog(target) == [k \in {s \in Keys : s[1] = target[1] /\ heads[s] # NoRev} |-> heads[k]]

NobodyReads ==
  [pc |-> "idle", kind |-> "queue", target |-> <<CHOOSE p \in Projects : TRUE, Main>>, selected |-> << >>,
   catalog |-> << >>, todo |-> << >>, left |-> NoRev, previews |-> << >>,
   state |-> << >>, steps |-> << >>, from |-> 0, to |-> 0]

ViewsInit ==
  /\ reader = NobodyReads
  /\ views = << >>

\* A preflight is run right after the preview of its source.
Readings(kind, selected) ==
  IF kind = "preflights" THEN [i \in 1 .. 2 * Len(selected) |-> selected[(i + 1) \div 2]]
  ELSE selected

\* The sources of a page, or those the caller names, in an order.
Selections(target) == SetToAllKPermutations(DOMAIN Catalog(target) \ {target}) \ {<< >>}

Capture(kind, target, selected) ==
  /\ reader.pc = "idle"
  /\ Len(views) < MaxViews
  /\ heads[target] # NoRev
  /\ reader' = [NobodyReads EXCEPT
       !.pc = "target", !.kind = kind, !.target = target, !.selected = selected,
       !.catalog = Catalog(target), !.todo = Readings(kind, selected),
       !.state = revs[heads[target]].snap, !.from = Len(revs), !.to = Len(revs)]
  /\ UNCHANGED <<logVars, views>>

PreviewTarget ==
  /\ reader.pc = "target"
  /\ reader' = [reader EXCEPT !.pc = "source", !.left = heads[reader.target]]
  /\ UNCHANGED <<logVars, views>>

\* The text of a document that a train's step merges node by node, in memory.
Virtual(step) == MaxRevs + step

\* Mutant: every step starts from the target.
MergeIntoTarget(state, base, right, step) ==
  LET ours == revs[reader.left].snap
  IN  [m \in Modules |-> IF m \in BothChanged(revs[base].snap, ours, revs[right].snap)
                         THEN Virtual(step)
                         ELSE ThreeWay(revs[base].snap, ours, revs[right].snap)[m]]

\* One step of a train, from the common ancestor of target and source.
MergeInto(state, base, right, step) ==
  [m \in Modules |-> IF m \in BothChanged(revs[base].snap, state, revs[right].snap)
                     THEN Virtual(step)
                     ELSE ThreeWay(revs[base].snap, state, revs[right].snap)[m]]

\* The source has been previewed.  The impact of the merges that are clean is
\* found after the whole page; a train that conflicts stops with what it has.
Onward(right, clean, steps) ==
  LET source == Head(reader.todo)
      rest   == IF reader.kind = "impact" /\ clean /\ Len(reader.previews) < Len(reader.selected)
                THEN Append(Tail(reader.todo), source) ELSE Tail(reader.todo)
  IN  [reader EXCEPT
         !.previews = Append(@, <<source, reader.left, right>>),
         !.todo = rest, !.steps = steps,
         !.state = IF steps # << >> THEN Last(steps) ELSE @,
         !.pc = IF rest # << >> /\ (reader.kind = "train" => clean) THEN "target"
                ELSE IF reader.kind \in {"preflights", "train"} THEN "final" ELSE "done"]

\* Mutant: the heads that were previewed are not compared with the catalog.
PreviewsAnyHeads(right) == TRUE

\* Are these the heads of the catalog?
PreviewsCatalog(right) ==
  /\ reader.left = reader.catalog[reader.target]
  /\ right = reader.catalog[Head(reader.todo)]

PreviewSource ==
  LET right == heads[Head(reader.todo)]
      bases == BestCommonAncestors(reader.left, right)
  IN  /\ reader.pc = "source"
      /\ PreviewsCatalog(right)
      /\ Cardinality(bases) = 1
      /\ \E base \in bases, clean \in BOOLEAN :
           /\ clean => Mergeable(revs[base].snap, reader.state, revs[right].snap)
           /\ ~clean => BothChanged(revs[base].snap, reader.state, revs[right].snap) # {}
           /\ reader' = Onward(right, clean,
                IF reader.kind # "train" \/ ~clean THEN reader.steps
                ELSE Append(reader.steps,
                            MergeInto(reader.state, base, right, Len(reader.steps) + 1)))
      /\ UNCHANGED <<logVars, views>>

\* Whatever error a preflight meets is its result, and its heads go unnoticed:
\* a policy in force there forbids it, or the merge has no single base.
PreflightFails ==
  /\ reader.pc = "source"
  /\ reader.kind = "preflights"
  /\ Len(reader.previews) % 2 = 1
  /\ reader' = Onward(heads[Head(reader.todo)], FALSE, << >>)
  /\ UNCHANGED <<logVars, views>>

\* Mutant: the catalog at the end is not compared with the first.
CaptureAgainOnly ==
  /\ reader.pc = "final"
  /\ reader' = [reader EXCEPT !.pc = "done", !.to = Len(revs)]
  /\ UNCHANGED <<logVars, views>>

CaptureAgain ==
  /\ reader.pc = "final"
  /\ Catalog(reader.target) = reader.catalog
  /\ reader' = [reader EXCEPT !.pc = "done", !.to = Len(revs)]
  /\ UNCHANGED <<logVars, views>>

\* What the view says is a hash of what it was made of.
Return ==
  /\ reader.pc = "done"
  /\ views' = Append(views, [kind |-> reader.kind, target |-> reader.target,
                             catalog |-> reader.catalog, previews |-> reader.previews,
                             steps |-> reader.steps, from |-> reader.from,
                             to |-> IF reader.kind \in {"preflights", "train"} THEN reader.to
                                    ELSE Len(revs)])
  /\ reader' = NobodyReads
  /\ UNCHANGED logVars

\* A head has moved, a base is ambiguous, a call fails.
GiveUp ==
  /\ reader.pc # "idle"
  /\ reader' = NobodyReads
  /\ UNCHANGED <<logVars, views>>

\* Everybody else.
Commit ==
  /\ Len(revs) < MaxRevs
  /\ \E k \in Keys : \/ \E m \in Modules : WriteModule(k, m)
                     \/ \E source \in Keys \ {k} : Merge(k, source)
  /\ UNCHANGED viewVars

ViewsNext ==
  \/ \E kind \in ViewKinds, target \in Keys :
       \E selected \in Selections(target) : Capture(kind, target, selected)
  \/ PreviewTarget \/ PreviewSource \/ PreflightFails \/ CaptureAgain \/ Return \/ GiveUp
  \/ Commit

------------------------------------------------------------------------------
\* The head of branch k when there were n revisions.
HeadAt(k, n) == Max({r \in 1..n : <<revs[r].project, revs[r].branch>> = k})

\* All the previews of a view show the heads of one moment while it was made,
\* although every one of them reads two heads of its own; for preflights and
\* trains it is the moment at which they were completed.
ViewsOfOneMoment ==
  \A i \in DOMAIN views :
     LET v == views[i]
     IN  \E n \in (IF v.kind \in {"preflights", "train"} THEN {v.to} ELSE v.from .. v.to) :
           \A p \in ToSet(v.previews) :
              p[2] = HeadAt(v.target, n) /\ p[3] = HeadAt(p[1], n)

\* Nothing that two of these heads share is new to the target.
Independent(target, sources) ==
  \A i, j \in DOMAIN sources :
     i # j => Ancestors(sources[i]) \cap Ancestors(sources[j]) \subseteq Ancestors(target)

\* Same texts, but for those that a train merges node by node.
Foretold(step, n) ==
  \A m \in Modules : step[m] <= MaxRevs => revs[n].snap[m] = step[m]

\* When the sources of a train are published one after the other into its
\* target, in its order, they give exactly the states that it has shown, unless
\* the sources share history that the target does not have.
TrainsForetell ==
  \A i \in DOMAIN views : views[i].kind = "train" =>
     LET v       == views[i]
         target  == v.catalog[v.target]
         sources == [s \in DOMAIN v.steps |-> v.previews[s][3]]
     IN  \A chain \in [DOMAIN v.steps -> RevIds] :
           (\A s \in DOMAIN chain :
               /\ revs[chain[s]].parent1 = (IF s = 1 THEN target ELSE chain[s - 1])
               /\ revs[chain[s]].parent2 = sources[s])
           => \/ \A s \in DOMAIN chain : Foretold(v.steps[s], chain[s])
              \/ ~Independent(target, sources)

\* Both: a view of several branches can be acted upon.
ViewsHold == ViewsOfOneMoment /\ TrainsForetell
==============================================================================
