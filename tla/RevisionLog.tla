----------------------------- MODULE RevisionLog -----------------------------
(****************************************************************************)
(* What the revision repository promises: a store of immutable revisions,   *)
(* named branch heads, and shared context documents, on which every         *)
(* operation takes effect at once, on the heads of that moment.             *)
(*                                                                          *)
(* The code never runs an operation at once: a call reads a head, works on  *)
(* the snapshot of it and publishes later, while other processes publish    *)
(* too.  RevisionStore models that, and is shown to implement this module.  *)
(*                                                                          *)
(* A revision id is its index in `revs`: ids are fresh (uuid4), and the     *)
(* index is the order in which the publishing transactions committed.  A    *)
(* module (program document) of a snapshot is the id of the revision that   *)
(* wrote its text, or Absent.                                               *)
(****************************************************************************)
EXTENDS Naturals, Sequences, FiniteSets

CONSTANTS
  Projects,   \* project names
  Branches,   \* branch names, the same set for every project
  Main,       \* the branch initialize_project creates
  NoBranch,   \* owner of a revision that was not committed on a branch
  Modules,    \* program document names (module_snapshots.qualified_name)
  Contents,   \* context documents, named by their content hash
  MaxRevs     \* bound on the number of revisions

ASSUME ConstantsAssumption ==
  /\ Projects # {}
  /\ Main \in Branches
  /\ NoBranch \notin Branches
  /\ MaxRevs \in Nat

VARIABLES
  revs,       \* the revisions table with its snapshots and document links
  heads,      \* the branches table: <<project, branch>> -> head, or NoRev
  documents   \* the documents table

logVars == <<revs, heads, documents>>

NoRev  == 0
Absent == 0

Keys == Projects \X Branches

RevIds == 1 .. Len(revs)

Snapshots == [Modules -> Nat]

\* `branch` is not a column: it records on which branch a revision was
\* committed, for the properties below.
Revision == [project : Projects,
             branch  : Branches \cup {NoBranch},
             parent1 : Nat,
             parent2 : Nat,
             snap    : Snapshots,
             docs    : SUBSET Contents]

LogTypeOK ==
  /\ revs \in Seq(Revision)
  /\ heads \in [Keys -> Nat]
  /\ documents \subseteq Contents

------------------------------------------------------------------------------
(* Ancestry, without recursion: r is in the history of h when it is in every  *)
(* set of revisions that holds h and is closed under parents.                *)

AncestryClosed(S) ==
  \A x \in S : {revs[x].parent1, revs[x].parent2} \ {NoRev} \subseteq S

InHistory(r, h) ==
  \A S \in SUBSET RevIds : h \in S /\ AncestryClosed(S) => r \in S

Ancestors(h) == {r \in RevIds : InHistory(r, h)}

\* The common ancestors that no other common ancestor descends from.
BestCommonAncestors(left, right) ==
  LET common == Ancestors(left) \cap Ancestors(right)
  IN  {c \in common : \A d \in common \ {c} : ~InHistory(c, d)}

\* The same along first parents only: the history of a branch.
FirstParentClosed(S) ==
  \A x \in S : revs[x].parent1 # NoRev => revs[x].parent1 \in S

OnFirstParentHistory(r, h) ==
  \A S \in SUBSET RevIds : h \in S /\ FirstParentClosed(S) => r \in S

------------------------------------------------------------------------------
(* The three-way merge of two snapshots, at the grain of whole documents.   *)
(* Inside a document that both sides changed the code merges node by node   *)
(* (module TreeMerge); here that yields a new text or a conflict.           *)

BothChanged(base, ours, theirs) ==
  {m \in Modules : /\ ours[m] # base[m]
                   /\ theirs[m] # base[m]
                   /\ ours[m] # theirs[m]}

\* A document added by both sides, or deleted by one and edited by the other,
\* is always a conflict; one edited by both may be.
Mergeable(base, ours, theirs) ==
  \A m \in BothChanged(base, ours, theirs) :
     Absent \notin {base[m], ours[m], theirs[m]}

ThreeWay(base, ours, theirs) ==
  [m \in Modules |-> IF ours[m] = base[m] THEN theirs[m] ELSE ours[m]]

Changes(base, ours, theirs) ==
  ThreeWay(base, ours, theirs) # ours \/ BothChanged(base, ours, theirs) # {}

------------------------------------------------------------------------------
(* The operations *)

\* A snapshot in which the modules of `written` hold the text of revision n.
Stamp(snap, written, n) ==
  [m \in Modules |-> IF m \in written THEN n ELSE snap[m]]

\* The branch moves to the revision that the same transaction inserts.
AdvanceHead(k) == heads' = [heads EXCEPT ![k] = Len(revs) + 1]

\* One immutable revision with its snapshot and its document links, which start
\* from those of its first parent only.
InsertRevision(k, owner, parent1, parent2, snap, written, extra) ==
  /\ revs' = Append(revs,
       [project |-> k[1],
        branch  |-> owner,
        parent1 |-> parent1,
        parent2 |-> parent2,
        snap    |-> Stamp(snap, written, Len(revs) + 1),
        docs    |-> (IF parent1 = NoRev THEN {} ELSE revs[parent1].docs) \cup extra])
  /\ documents' = documents \cup extra

\* A revision and the move of its branch, in one transaction.
Publish(k, parent1, parent2, snap, written, extra) ==
  /\ AdvanceHead(k)
  /\ InsertRevision(k, k[2], parent1, parent2, snap, written, extra)

InitProject(p) ==
  /\ heads[<<p, Main>>] = NoRev
  /\ Publish(<<p, Main>>, NoRev, NoRev, [m \in Modules |-> Absent], {}, {})

CreateBranch(k, from) ==
  /\ k[1] = from[1]
  /\ heads[k] = NoRev
  /\ heads[from] # NoRev
  /\ heads' = [heads EXCEPT ![k] = heads[from]]
  /\ UNCHANGED <<revs, documents>>

CreateBranchAt(k, r) ==
  /\ r \in RevIds
  /\ revs[r].project = k[1]
  /\ heads[k] = NoRev
  /\ heads' = [heads EXCEPT ![k] = r]
  /\ UNCHANGED <<revs, documents>>

\* A node edit, an edit batch, a new program or an import: the text of one
\* document is replaced.
WriteModule(k, m) ==
  /\ heads[k] # NoRev
  /\ Publish(k, heads[k], NoRev, revs[heads[k]].snap, {m}, {})

AddContext(k, c) ==
  /\ heads[k] # NoRev
  /\ Publish(k, heads[k], NoRev, revs[heads[k]].snap, {}, {c})

\* The three-way merge of another revision's snapshot into the head.
PublishThreeWay(k, base, theirs, parent2) ==
  LET b == revs[base].snap
      o == revs[heads[k]].snap
      t == revs[theirs].snap
  IN  /\ Mergeable(b, o, t)
      /\ InsertRevision(k, k[2], heads[k], parent2,
                        ThreeWay(b, o, t), BothChanged(b, o, t), {})

Merge(k, source) ==
  /\ k[1] = source[1]
  /\ heads[k] # NoRev
  /\ heads[source] # NoRev
  /\ AdvanceHead(k)
  /\ \E base \in RevIds :
       /\ BestCommonAncestors(heads[k], heads[source]) = {base}
       /\ PublishThreeWay(k, base, heads[source], heads[source])

\* The inverse of revision r: a merge of its first parent into the head with r
\* as the base.  One that changes nothing is refused.
Revert(k, r) ==
  /\ heads[k] # NoRev
  /\ AdvanceHead(k)
  /\ r \in RevIds
  /\ revs[r].parent1 # NoRev
  /\ OnFirstParentHistory(r, heads[k])
  /\ Changes(revs[r].snap, revs[heads[k]].snap, revs[revs[r].parent1].snap)
  /\ PublishThreeWay(k, r, revs[r].parent1, NoRev)

LogInit ==
  /\ revs = << >>
  /\ heads = [k \in Keys |-> NoRev]
  /\ documents = {}

LogNext ==
  \/ \E p \in Projects : InitProject(p)
  \/ \E k, from \in Keys : CreateBranch(k, from)
  \/ \E k \in Keys, r \in RevIds : CreateBranchAt(k, r)
  \/ \E k \in Keys, m \in Modules : WriteModule(k, m)
  \/ \E k \in Keys, c \in Contents : AddContext(k, c)
  \/ \E k, source \in Keys : Merge(k, source)
  \/ \E k \in Keys, r \in RevIds : Revert(k, r)

LogSpec == LogInit /\ [][LogNext]_logVars

------------------------------------------------------------------------------
(* What the operations preserve *)

\* Every revision committed on a branch stays on that branch's first-parent
\* history: no publication, of any process, drops another one's commit.
NoLostUpdate ==
  \A r \in RevIds : revs[r].branch # NoBranch =>
     LET head == heads[<<revs[r].project, revs[r].branch>>]
     IN  head \in RevIds /\ OnFirstParentHistory(r, head)

\* Parents and heads are earlier revisions of the same project.
ProjectClosed ==
  /\ \A r \in RevIds : \A p \in {revs[r].parent1, revs[r].parent2} \ {NoRev} :
        p \in 1 .. (r - 1) /\ revs[p].project = revs[r].project
  /\ \A k \in Keys : heads[k] # NoRev =>
        heads[k] \in RevIds /\ revs[heads[k]].project = k[1]

\* The text a snapshot shows was written by that revision or an ancestor of it:
\* merging and reverting bring in nothing from outside the revision's history.
SnapshotProvenance ==
  \A r \in RevIds : \A m \in Modules :
     revs[r].snap[m] # Absent => InHistory(revs[r].snap[m], r)

\* A revision keeps its first parent's context documents, every linked document
\* exists, and every document row is linked by some revision (a failed
\* publication leaves none behind).
ContextSound ==
  /\ \A r \in RevIds : revs[r].parent1 # NoRev =>
        revs[revs[r].parent1].docs \subseteq revs[r].docs
  /\ documents = UNION {revs[r].docs : r \in RevIds}

==============================================================================
