-------------------------- MODULE RevisionLogProofs --------------------------
(****************************************************************************)
(* Proofs about the atomic operations of RevisionLog, for any number of     *)
(* projects, branches, documents and revisions.                             *)
(*                                                                          *)
(* The inductive invariant is LogInv: the type invariant alone is not       *)
(* inductive, because a publication reads the snapshot at a head and at the *)
(* parents, and only ProjectClosed says that those are existing revisions.  *)
(****************************************************************************)
EXTENDS RevisionLog, TLAPS

LogInv == LogTypeOK /\ ProjectClosed

\* What a step that creates a branch does.
BranchStep ==
  \E k \in Keys, r \in RevIds :
     /\ heads[k] = NoRev
     /\ revs[r].project = k[1]
     /\ heads' = [heads EXCEPT ![k] = r]
     /\ UNCHANGED <<revs, documents>>

\* What a step that publishes a revision does.
PublishStep ==
  \E k \in Keys, p2 \in RevIds \cup {NoRev}, snap \in Snapshots,
     written \in SUBSET Modules, extra \in SUBSET Contents :
     /\ p2 # NoRev => revs[p2].project = k[1]
     /\ Publish(k, heads[k], p2, snap, written, extra)

------------------------------------------------------------------------------
\* Three-way merging three snapshots gives a snapshot.
LEMMA ThreeWayType ==
  ASSUME NEW b \in Snapshots, NEW o \in Snapshots, NEW t \in Snapshots
  PROVE  /\ ThreeWay(b, o, t) \in Snapshots
         /\ BothChanged(b, o, t) \in SUBSET Modules
  BY DEF ThreeWay, BothChanged, Snapshots

\* An existing revision is well formed.
LEMMA RevisionType ==
  ASSUME LogTypeOK, NEW r \in RevIds
  PROVE  /\ revs[r] \in Revision
         /\ revs[r].snap \in Snapshots
         /\ revs[r].docs \in SUBSET Contents
         /\ revs[r].project \in Projects
  <1>1. revs[r] \in Revision
    BY DEF LogTypeOK, RevIds
  <1>2. QED
    BY <1>1 DEF Revision

\* Both parents of an existing revision exist.
LEMMA ParentsExist ==
  ASSUME LogInv, NEW x \in RevIds
  PROVE  /\ revs[x].parent1 # NoRev => revs[x].parent1 \in RevIds
         /\ revs[x].parent2 # NoRev => revs[x].parent2 \in RevIds
  <1>1. \A p \in {revs[x].parent1, revs[x].parent2} \ {NoRev} : p \in 1 .. (x - 1)
    BY DEF LogInv, ProjectClosed
  <1>2. \A p \in 1 .. (x - 1) : p \in RevIds
    BY DEF LogInv, LogTypeOK, RevIds
  <1>3. QED
    BY <1>1, <1>2

\* A merge of two existing revisions into a head is a publication.
LEMMA PublishThreeWayShape ==
  ASSUME LogInv, NEW k \in Keys, NEW base \in RevIds, NEW theirs \in RevIds,
         NEW p2 \in RevIds \cup {NoRev}, heads[k] # NoRev,
         p2 # NoRev => revs[p2].project = k[1],
         AdvanceHead(k), PublishThreeWay(k, base, theirs, p2)
  PROVE  PublishStep
  <1> DEFINE b == revs[base].snap
             o == revs[heads[k]].snap
             t == revs[theirs].snap
  <1>1. heads[k] \in RevIds
    BY DEF LogInv, ProjectClosed
  <1>2. b \in Snapshots /\ o \in Snapshots /\ t \in Snapshots
    BY <1>1, RevisionType DEF LogInv
  <1>3. ThreeWay(b, o, t) \in Snapshots /\ BothChanged(b, o, t) \in SUBSET Modules
    BY <1>2, ThreeWayType
  <1>4. Publish(k, heads[k], p2, ThreeWay(b, o, t), BothChanged(b, o, t), {})
    BY DEF PublishThreeWay, Publish
  <1>5. {} \in SUBSET Contents
    OBVIOUS
  <1> HIDE DEF b, o, t
  <1>6. QED
    BY <1>3, <1>4, <1>5 DEF PublishStep

\* Every operation creates a branch or publishes one revision.
LEMMA StepShape ==
  ASSUME LogInv, LogNext
  PROVE  BranchStep \/ PublishStep
  <1>1. ASSUME NEW p \in Projects, InitProject(p)
        PROVE  PublishStep
    <2>1. <<p, Main>> \in Keys
      BY ConstantsAssumption DEF Keys
    <2>2. [m \in Modules |-> Absent] \in Snapshots
      BY DEF Snapshots, Absent
    <2>3. NoRev \in RevIds \cup {NoRev} /\ {} \in SUBSET Modules /\ {} \in SUBSET Contents
      OBVIOUS
    <2>4. Publish(<<p, Main>>, heads[<<p, Main>>], NoRev, [m \in Modules |-> Absent], {}, {})
      BY <1>1 DEF InitProject
    <2>5. QED
      BY <2>1, <2>2, <2>3, <2>4 DEF PublishStep
  <1>2. ASSUME NEW k \in Keys, NEW from \in Keys, CreateBranch(k, from)
        PROVE  BranchStep
    <2>1. heads[from] \in RevIds /\ revs[heads[from]].project = k[1]
      BY <1>2 DEF CreateBranch, LogInv, ProjectClosed
    <2>2. QED
      BY <1>2, <2>1 DEF CreateBranch, BranchStep
  <1>3. ASSUME NEW k \in Keys, NEW r \in RevIds, CreateBranchAt(k, r)
        PROVE  BranchStep
    BY <1>3 DEF CreateBranchAt, BranchStep
  <1>4. ASSUME NEW k \in Keys, NEW m \in Modules, WriteModule(k, m)
        PROVE  PublishStep
    <2>1. heads[k] \in RevIds
      BY <1>4 DEF WriteModule, LogInv, ProjectClosed
    <2>2. revs[heads[k]].snap \in Snapshots
      BY <2>1, RevisionType DEF LogInv
    <2>3. {m} \in SUBSET Modules /\ {} \in SUBSET Contents /\ NoRev \in RevIds \cup {NoRev}
      OBVIOUS
    <2>4. Publish(k, heads[k], NoRev, revs[heads[k]].snap, {m}, {})
      BY <1>4 DEF WriteModule
    <2>5. QED
      BY <2>2, <2>3, <2>4 DEF PublishStep
  <1>5. ASSUME NEW k \in Keys, NEW c \in Contents, AddContext(k, c)
        PROVE  PublishStep
    <2>1. heads[k] \in RevIds
      BY <1>5 DEF AddContext, LogInv, ProjectClosed
    <2>2. revs[heads[k]].snap \in Snapshots
      BY <2>1, RevisionType DEF LogInv
    <2>3. {} \in SUBSET Modules /\ {c} \in SUBSET Contents /\ NoRev \in RevIds \cup {NoRev}
      OBVIOUS
    <2>4. Publish(k, heads[k], NoRev, revs[heads[k]].snap, {}, {c})
      BY <1>5 DEF AddContext
    <2>5. QED
      BY <2>2, <2>3, <2>4 DEF PublishStep
  <1>6. ASSUME NEW k \in Keys, NEW source \in Keys, Merge(k, source)
        PROVE  PublishStep
    <2>1. heads[source] \in RevIds /\ revs[heads[source]].project = k[1]
      BY <1>6 DEF Merge, LogInv, ProjectClosed
    <2>2. PICK base \in RevIds : PublishThreeWay(k, base, heads[source], heads[source])
      BY <1>6 DEF Merge
    <2>3. heads[k] # NoRev /\ AdvanceHead(k)
      BY <1>6 DEF Merge
    <2>4. QED
      BY <2>1, <2>2, <2>3, PublishThreeWayShape
  <1>7. ASSUME NEW k \in Keys, NEW r \in RevIds, Revert(k, r)
        PROVE  PublishStep
    <2>1. revs[r].parent1 \in RevIds
      BY <1>7 DEF Revert, LogInv, ProjectClosed, RevIds
    <2>2. heads[k] # NoRev /\ AdvanceHead(k) /\ PublishThreeWay(k, r, revs[r].parent1, NoRev)
      BY <1>7 DEF Revert
    <2>3. QED
      BY <2>1, <2>2, PublishThreeWayShape
  <1>8. QED
    BY <1>1, <1>2, <1>3, <1>4, <1>5, <1>6, <1>7 DEF LogNext

------------------------------------------------------------------------------
(* What the two shapes of step leave alone                                  *)

\* After a publication the older revisions are as they were, and the new one is
\* the last.
LEMMA PublishFacts ==
  ASSUME LogInv, NEW k \in Keys, NEW p2 \in RevIds \cup {NoRev},
         NEW snap \in Snapshots, NEW written \in SUBSET Modules,
         NEW extra \in SUBSET Contents,
         Publish(k, heads[k], p2, snap, written, extra)
  PROVE  LET n == Len(revs) + 1
         IN  /\ Len(revs) \in Nat
             /\ Len(revs') = n
             /\ RevIds' = RevIds \cup {n}
             /\ n \notin RevIds
             /\ \A r \in RevIds : revs'[r] = revs[r]
             /\ revs'[n] \in Revision
             /\ revs'[n].project = k[1]
             /\ revs'[n].branch = k[2]
             /\ revs'[n].parent1 = heads[k]
             /\ revs'[n].parent2 = p2
             /\ revs'[n].docs = (IF heads[k] = NoRev THEN {} ELSE revs[heads[k]].docs)
                                  \cup extra
             /\ revs' \in Seq(Revision)
             /\ heads' = [heads EXCEPT ![k] = n]
             /\ documents' = documents \cup extra
  <1> DEFINE n == Len(revs) + 1
             docs == (IF heads[k] = NoRev THEN {} ELSE revs[heads[k]].docs) \cup extra
             e == [project |-> k[1], branch |-> k[2], parent1 |-> heads[k],
                   parent2 |-> p2, snap |-> Stamp(snap, written, n), docs |-> docs]
  <1>1. revs \in Seq(Revision) /\ Len(revs) \in Nat /\ n \in Nat
    BY DEF LogInv, LogTypeOK
  <1>2. Stamp(snap, written, n) \in Snapshots
    BY <1>1 DEF Stamp, Snapshots
  <1>3. docs \in SUBSET Contents
    <2>1. CASE heads[k] = NoRev
      BY <2>1
    <2>2. CASE heads[k] # NoRev
      <3>1. heads[k] \in RevIds
        BY <2>2 DEF LogInv, ProjectClosed
      <3>2. QED
        BY <3>1, RevisionType DEF LogInv
    <2>3. QED
      BY <2>1, <2>2
  <1>4. k[1] \in Projects /\ k[2] \in Branches /\ heads[k] \in Nat /\ p2 \in Nat
    BY <1>1 DEF Keys, LogInv, LogTypeOK, RevIds, NoRev
  <1>5. revs' = Append(revs, e) /\ heads' = [heads EXCEPT ![k] = n]
        /\ documents' = documents \cup extra
    BY DEF Publish, InsertRevision, AdvanceHead
  <1> HIDE DEF docs
  <1>6. e \in Revision
    BY <1>2, <1>3, <1>4 DEF Revision
  <1>7. e.project = k[1] /\ e.branch = k[2] /\ e.parent1 = heads[k] /\ e.parent2 = p2
        /\ e.docs = docs
    OBVIOUS
  <1> HIDE DEF e
  <1>8. revs' \in Seq(Revision) /\ Len(revs') = n /\ revs'[n] = e
        /\ \A r \in 1 .. Len(revs) : revs'[r] = revs[r]
    BY <1>1, <1>5, <1>6
  <1>9. RevIds' = RevIds \cup {n} /\ n \notin RevIds
    BY <1>1, <1>8 DEF RevIds
  <1>10. QED
    BY <1>1, <1>5, <1>6, <1>7, <1>8, <1>9 DEF RevIds, docs

\* Creating a branch touches neither revisions nor documents.
LEMMA BranchKeepsRevisions ==
  ASSUME UNCHANGED <<revs, documents>>
  PROVE  RevIds' = RevIds /\ revs' = revs /\ documents' = documents
  BY DEF RevIds

------------------------------------------------------------------------------
\* The invariant starts true.
LEMMA LogInvInit == LogInit => LogInv
  <1> SUFFICES ASSUME LogInit PROVE LogInv
    OBVIOUS
  <1>1. revs = << >> /\ Len(revs) = 0 /\ RevIds = {}
    BY DEF LogInit, RevIds
  <1>2. LogTypeOK
    BY <1>1 DEF LogInit, LogTypeOK, NoRev
  <1>3. ProjectClosed
    BY <1>1 DEF LogInit, ProjectClosed
  <1>4. QED
    BY <1>2, <1>3 DEF LogInv

\* Whatever creates a branch or publishes one revision preserves it.
LEMMA ShapeKeepsLog ==
  ASSUME LogInv, BranchStep \/ PublishStep
  PROVE  LogInv'
  <1>1. CASE BranchStep
    <2>1. PICK k \in Keys, r \in RevIds :
             /\ heads[k] = NoRev
             /\ revs[r].project = k[1]
             /\ heads' = [heads EXCEPT ![k] = r]
             /\ UNCHANGED <<revs, documents>>
      BY <1>1 DEF BranchStep
    <2>2. LogTypeOK'
      BY <2>1 DEF LogInv, LogTypeOK, RevIds
    <2>3. ProjectClosed'
      BY <2>1, BranchKeepsRevisions DEF LogInv, LogTypeOK, ProjectClosed
    <2>4. QED
      BY <2>2, <2>3 DEF LogInv
  <1>2. CASE PublishStep
    <2>1. PICK k \in Keys, p2 \in RevIds \cup {NoRev}, snap \in Snapshots,
               written \in SUBSET Modules, extra \in SUBSET Contents :
             /\ p2 # NoRev => revs[p2].project = k[1]
             /\ Publish(k, heads[k], p2, snap, written, extra)
      BY <1>2 DEF PublishStep
    <2> DEFINE n == Len(revs) + 1
    <2>2. /\ Len(revs) \in Nat
          /\ RevIds' = RevIds \cup {n}
          /\ n \notin RevIds
          /\ \A r \in RevIds : revs'[r] = revs[r]
          /\ revs'[n].project = k[1]
          /\ revs'[n].parent1 = heads[k]
          /\ revs'[n].parent2 = p2
          /\ revs' \in Seq(Revision)
          /\ heads' = [heads EXCEPT ![k] = n]
          /\ documents' = documents \cup extra
      BY <2>1, PublishFacts
    <2>3. LogTypeOK'
      BY <2>2 DEF LogInv, LogTypeOK
    <2>4. \A r \in RevIds' : \A p \in {revs'[r].parent1, revs'[r].parent2} \ {NoRev} :
             p \in 1 .. (r - 1) /\ revs'[p].project = revs'[r].project
      <3>1. ASSUME NEW r \in RevIds
            PROVE  \A p \in {revs'[r].parent1, revs'[r].parent2} \ {NoRev} :
                      p \in 1 .. (r - 1) /\ revs'[p].project = revs'[r].project
        <4>1. \A p \in {revs[r].parent1, revs[r].parent2} \ {NoRev} :
                 p \in RevIds /\ p \in 1 .. (r - 1) /\ revs[p].project = revs[r].project
          BY <2>2 DEF LogInv, ProjectClosed, RevIds
        <4>2. QED
          BY <2>2, <4>1
      <3>2. heads[k] # NoRev => heads[k] \in RevIds /\ revs[heads[k]].project = k[1]
        BY DEF LogInv, ProjectClosed
      <3>3. \A p \in {heads[k], p2} \ {NoRev} : p \in RevIds /\ revs[p].project = k[1]
        BY <2>1, <3>2
      <3>4. \A p \in RevIds : p \in 1 .. (n - 1)
        BY <2>2 DEF RevIds
      <3>5. \A p \in {revs'[n].parent1, revs'[n].parent2} \ {NoRev} :
               p \in 1 .. (n - 1) /\ revs'[p].project = revs'[n].project
        BY <2>2, <3>3, <3>4
      <3>6. QED
        BY <2>2, <3>1, <3>5
    <2>5. \A j \in Keys : heads'[j] # NoRev =>
             heads'[j] \in RevIds' /\ revs'[heads'[j]].project = j[1]
      BY <2>2 DEF LogInv, LogTypeOK, ProjectClosed
    <2>6. ProjectClosed'
      BY <2>4, <2>5 DEF ProjectClosed
    <2>7. QED
      BY <2>3, <2>6 DEF LogInv
  <1>3. QED
    BY <1>1, <1>2

\* Every operation preserves it.
LEMMA LogInvStep ==
  ASSUME LogInv, [LogNext]_logVars
  PROVE  LogInv'
  <1>1. CASE UNCHANGED logVars
    BY <1>1 DEF logVars, LogInv, LogTypeOK, ProjectClosed, RevIds
  <1>2. QED
    BY <1>1, StepShape, ShapeKeepsLog

\* The tables hold what their columns say, and every parent and head is an
\* earlier revision of the same project: the schema's triggers never fire.
THEOREM LogWellFormed == LogSpec => [](LogTypeOK /\ ProjectClosed)
  <1>1. LogSpec => []LogInv
    BY LogInvInit, LogInvStep, PTL DEF LogSpec
  <1>2. QED
    BY <1>1, PTL DEF LogInv

------------------------------------------------------------------------------
(* What a publication leaves alone                                          *)

\* The revisions that exist stay as they are.
LEMMA RevisionsKept ==
  ASSUME LogInv, [LogNext]_logVars
  PROVE  /\ RevIds \subseteq RevIds'
         /\ \A r \in RevIds : revs'[r] = revs[r]
  <1>1. CASE UNCHANGED logVars
    BY <1>1 DEF logVars, RevIds
  <1>2. CASE BranchStep
    BY <1>2, BranchKeepsRevisions DEF BranchStep
  <1>3. CASE PublishStep
    <2>1. PICK k \in Keys, p2 \in RevIds \cup {NoRev}, snap \in Snapshots,
               written \in SUBSET Modules, extra \in SUBSET Contents :
             Publish(k, heads[k], p2, snap, written, extra)
      BY <1>3 DEF PublishStep
    <2>2. /\ RevIds' = RevIds \cup {Len(revs) + 1}
          /\ \A r \in RevIds : revs'[r] = revs[r]
      BY <2>1, PublishFacts
    <2>3. QED
      BY <2>2
  <1>4. QED
    BY <1>1, <1>2, <1>3, StepShape

\* Neither parent relation leads from an old revision to a new one: a set closed
\* under the new parents is, on the old revisions, closed under the old ones.
LEMMA FirstParentHistoryKept ==
  ASSUME LogInv, [LogNext]_logVars, NEW h \in RevIds, NEW r \in RevIds,
         OnFirstParentHistory(r, h)
  PROVE  OnFirstParentHistory(r, h)'
  <1>1. SUFFICES ASSUME NEW S \in SUBSET RevIds', h \in S, FirstParentClosed(S)'
                 PROVE  r \in S
    BY DEF OnFirstParentHistory
  <1> DEFINE T == S \cap RevIds
  <1>2. FirstParentClosed(T)
    BY <1>1, ParentsExist, RevisionsKept DEF FirstParentClosed
  <1>3. h \in T /\ T \in SUBSET RevIds
    BY <1>1
  <1>4. QED
    BY <1>2, <1>3 DEF OnFirstParentHistory

\* The log only grows: what exists stays as it is.
LogGrows ==
  /\ RevIds \subseteq RevIds'
  /\ \A r \in RevIds : revs'[r] = revs[r]

\* The steps of the log make it grow.
LEMMA StepGrows ==
  ASSUME LogInv, [LogNext]_logVars
  PROVE  LogGrows
  BY RevisionsKept DEF LogGrows

\* The whole history of an old revision is as it was.
LEMMA HistoryStays ==
  ASSUME LogInv, LogGrows, NEW h \in RevIds
  PROVE  \A r : r \in RevIds' /\ InHistory(r, h)' <=> r \in RevIds /\ InHistory(r, h)
  <1> USE DEF LogGrows
  <1>1. \A x \in RevIds : {revs[x].parent1, revs[x].parent2} \ {NoRev} \subseteq RevIds
    BY ParentsExist
  <1>2. ASSUME NEW r, r \in RevIds', InHistory(r, h)'
        PROVE  r \in RevIds /\ InHistory(r, h)
    <2>1. \A S \in SUBSET RevIds : h \in S /\ AncestryClosed(S) => r \in S
      <3>1. SUFFICES ASSUME NEW S \in SUBSET RevIds, h \in S, AncestryClosed(S)
                     PROVE  r \in S
        OBVIOUS
      <3>2. AncestryClosed(S)' /\ S \in SUBSET RevIds'
        BY <3>1 DEF AncestryClosed
      <3>3. QED
        BY <1>2, <3>1, <3>2 DEF InHistory
    <2>2. AncestryClosed(RevIds)
      BY <1>1 DEF AncestryClosed
    <2>3. r \in RevIds
      BY <2>1, <2>2
    <2>4. QED
      BY <2>1, <2>3 DEF InHistory
  <1>3. ASSUME NEW r, r \in RevIds, InHistory(r, h)
        PROVE  r \in RevIds' /\ InHistory(r, h)'
    <2>1. SUFFICES ASSUME NEW S \in SUBSET RevIds', h \in S, AncestryClosed(S)'
                   PROVE  r \in S
      BY <1>3 DEF InHistory
    <2> DEFINE T == S \cap RevIds
    <2>2. AncestryClosed(T)
      BY <1>1, <2>1 DEF AncestryClosed
    <2>3. h \in T /\ T \in SUBSET RevIds
      BY <2>1
    <2>4. QED
      BY <1>3, <2>2, <2>3 DEF InHistory
  <1>4. QED
    BY <1>2, <1>3

\* And so it is after every operation.
LEMMA HistoryOfOldKept ==
  ASSUME LogInv, [LogNext]_logVars, NEW h \in RevIds
  PROVE  \A r : r \in RevIds' /\ InHistory(r, h)' <=> r \in RevIds /\ InHistory(r, h)
  BY StepGrows, HistoryStays

------------------------------------------------------------------------------
(* No lost update                                                           *)

\* The branch that publishes keeps its history under its new head n.
LEMMA HistoryExtended ==
  ASSUME LogInv, [LogNext]_logVars, NEW n, NEW h \in RevIds, n \in RevIds',
         revs'[n].parent1 = h,
         NEW r \in RevIds, OnFirstParentHistory(r, h)
  PROVE  OnFirstParentHistory(r, n)'
  <1>1. OnFirstParentHistory(r, h)'
    BY FirstParentHistoryKept
  <1>2. SUFFICES ASSUME NEW S \in SUBSET RevIds', n \in S, FirstParentClosed(S)'
                 PROVE  r \in S
    BY DEF OnFirstParentHistory
  <1>3. h # NoRev
    BY DEF RevIds, NoRev
  <1>4. h \in S
    BY <1>2, <1>3 DEF FirstParentClosed
  <1>5. QED
    BY <1>1, <1>2, <1>4 DEF OnFirstParentHistory

\* The owner of a revision has a head, and every other branch's head is safe from
\* a publication on k.
LEMMA NoLostUpdateStep ==
  ASSUME LogInv, NoLostUpdate, [LogNext]_logVars
  PROVE  NoLostUpdate'
  <1>1. CASE UNCHANGED logVars
    BY <1>1 DEF logVars, NoLostUpdate, OnFirstParentHistory, FirstParentClosed, RevIds
  <1>2. CASE BranchStep
    <2>1. PICK k \in Keys, q \in RevIds :
             /\ heads[k] = NoRev
             /\ heads' = [heads EXCEPT ![k] = q]
             /\ UNCHANGED <<revs, documents>>
      BY <1>2 DEF BranchStep
    <2>2. SUFFICES ASSUME NEW r \in RevIds, revs[r].branch # NoBranch
                   PROVE  LET head == heads'[<<revs[r].project, revs[r].branch>>]
                          IN  head \in RevIds /\ OnFirstParentHistory(r, head)
      BY <2>1 DEF NoLostUpdate, OnFirstParentHistory, FirstParentClosed, RevIds
    <2> DEFINE j == <<revs[r].project, revs[r].branch>>
    <2>3. heads[j] \in RevIds /\ OnFirstParentHistory(r, heads[j])
      BY <2>2 DEF NoLostUpdate
    <2>4. j # k
      BY <2>1, <2>3 DEF RevIds, NoRev
    <2>5. heads'[j] = heads[j]
      BY <2>1, <2>4 DEF LogInv, LogTypeOK
    <2>6. QED
      BY <2>3, <2>5
  <1>3. CASE PublishStep
    <2>1. PICK k \in Keys, p2 \in RevIds \cup {NoRev}, snap \in Snapshots,
               written \in SUBSET Modules, extra \in SUBSET Contents :
             Publish(k, heads[k], p2, snap, written, extra)
      BY <1>3 DEF PublishStep
    <2>2. PICK n :
          /\ RevIds' = RevIds \cup {n}
          /\ \A r \in RevIds : revs'[r] = revs[r]
          /\ revs'[n].project = k[1]
          /\ revs'[n].branch = k[2]
          /\ revs'[n].parent1 = heads[k]
          /\ heads' = [heads EXCEPT ![k] = n]
      BY <2>1, PublishFacts
    <2>3. k = <<k[1], k[2]>>
      BY DEF Keys
    <2>4. heads'[k] = n
      BY <2>2 DEF LogInv, LogTypeOK
    <2>5. n \in RevIds' /\ OnFirstParentHistory(n, n)'
      BY <2>2 DEF OnFirstParentHistory
    <2>6. ASSUME NEW r \in RevIds, revs[r].branch # NoBranch
          PROVE  \E h \in RevIds' : /\ h = heads'[<<revs'[r].project, revs'[r].branch>>]
                                    /\ OnFirstParentHistory(r, h)'
      <3> DEFINE j == <<revs[r].project, revs[r].branch>>
      <3>1. PICK h \in RevIds : h = heads[j] /\ OnFirstParentHistory(r, h)
        BY <2>6 DEF NoLostUpdate
      <3>2. revs'[r] = revs[r]
        BY <2>2
      <3>3. CASE j = k
        <4>1. OnFirstParentHistory(r, n)'
          BY <2>2, <2>5, <3>1, <3>3, HistoryExtended
        <4>2. QED
          BY <2>4, <2>5, <3>2, <3>3, <4>1
      <3>4. CASE j # k
        <4>1. OnFirstParentHistory(r, h)'
          BY <3>1, FirstParentHistoryKept
        <4>2. heads'[j] = h
          BY <2>2, <3>1, <3>4 DEF LogInv, LogTypeOK
        <4>3. QED
          BY <2>2, <3>2, <4>1, <4>2
      <3>5. QED
        BY <3>3, <3>4
    <2>7. \A r \in RevIds' : revs'[r].branch # NoBranch =>
             \E h \in RevIds' : /\ h = heads'[<<revs'[r].project, revs'[r].branch>>]
                               /\ OnFirstParentHistory(r, h)'
      <3>1. <<revs'[n].project, revs'[n].branch>> = k
        BY <2>2, <2>3
      <3>2. \A r \in RevIds : revs'[r].branch = revs[r].branch
        BY <2>2
      <3>3. QED
        BY <2>2, <2>4, <2>5, <2>6, <3>1, <3>2
    <2>8. SUFFICES ASSUME NEW r \in RevIds', revs'[r].branch # NoBranch
                   PROVE  LET head == heads'[<<revs'[r].project, revs'[r].branch>>]
                          IN  /\ head \in RevIds'
                              /\ \A S \in SUBSET RevIds' :
                                    head \in S /\ FirstParentClosed(S)' => r \in S
      BY DEF NoLostUpdate, OnFirstParentHistory
    <2>9. QED
      BY <2>7, <2>8 DEF OnFirstParentHistory
  <1>4. QED
    BY <1>1, <1>2, <1>3, StepShape

\* Every revision ever committed on a branch stays on its first-parent history.
THEOREM LogKeepsUpdates == LogSpec => []NoLostUpdate
  <1>1. LogInit => NoLostUpdate
    BY DEF LogInit, NoLostUpdate, RevIds
  <1>2. LogSpec => [](LogInv /\ NoLostUpdate)
    BY <1>1, LogInvInit, LogInvStep, NoLostUpdateStep, PTL DEF LogSpec
  <1>3. QED
    BY <1>2, PTL

------------------------------------------------------------------------------
(* Context documents                                                        *)

LEMMA ContextSoundStep ==
  ASSUME LogInv, ContextSound, [LogNext]_logVars
  PROVE  ContextSound'
  <1>1. CASE UNCHANGED logVars
    BY <1>1 DEF logVars, ContextSound, RevIds
  <1>2. CASE BranchStep
    BY <1>2, BranchKeepsRevisions DEF BranchStep, ContextSound
  <1>3. CASE PublishStep
    <2>1. PICK k \in Keys, p2 \in RevIds \cup {NoRev}, snap \in Snapshots,
               written \in SUBSET Modules, extra \in SUBSET Contents :
             Publish(k, heads[k], p2, snap, written, extra)
      BY <1>3 DEF PublishStep
    <2>2. PICK n :
          /\ RevIds' = RevIds \cup {n}
          /\ \A r \in RevIds : revs'[r] = revs[r]
          /\ revs'[n].parent1 = heads[k]
          /\ revs'[n].docs = (IF heads[k] = NoRev THEN {} ELSE revs[heads[k]].docs)
                               \cup extra
          /\ documents' = documents \cup extra
      BY <2>1, PublishFacts
    <2>3. heads[k] # NoRev => heads[k] \in RevIds
      BY DEF LogInv, ProjectClosed
    <2>4. \A r \in RevIds : revs[r].parent1 # NoRev => revs[r].parent1 \in RevIds
      BY ParentsExist
    <2>5. \A r \in RevIds' : revs'[r].parent1 # NoRev =>
             revs'[revs'[r].parent1].docs \subseteq revs'[r].docs
      <3>1. ASSUME NEW r \in RevIds, revs[r].parent1 # NoRev
            PROVE  revs'[revs'[r].parent1].docs \subseteq revs'[r].docs
        BY <2>2, <2>4, <3>1 DEF ContextSound
      <3>2. heads[k] # NoRev => revs'[heads[k]].docs \subseteq revs'[n].docs
        BY <2>2, <2>3
      <3>3. QED
        BY <2>2, <3>1, <3>2
    <2>6. documents' = UNION {revs'[r].docs : r \in RevIds'}
      <3>1. documents = UNION {revs[r].docs : r \in RevIds}
        BY DEF ContextSound
      <3>2. heads[k] # NoRev => revs[heads[k]].docs \subseteq documents
        BY <2>3, <3>1
      <3>3. \A d \in documents' : \E r \in RevIds' : d \in revs'[r].docs
        <4>1. ASSUME NEW d \in documents PROVE \E r \in RevIds : d \in revs[r].docs
          BY <3>1
        <4>2. QED
          BY <2>2, <4>1
      <3>4. \A r \in RevIds' : revs'[r].docs \subseteq documents'
        <4>1. ASSUME NEW r \in RevIds PROVE revs[r].docs \subseteq documents
          BY <3>1
        <4>2. revs'[n].docs \subseteq documents'
          BY <2>2, <3>2
        <4>3. QED
          BY <2>2, <4>1, <4>2
      <3>5. QED
        BY <3>3, <3>4
    <2>7. QED
      BY <2>5, <2>6 DEF ContextSound
  <1>4. QED
    BY <1>1, <1>2, <1>3, StepShape

\* Context is inherited along first parents, and no document row is an orphan.
THEOREM LogContextSound == LogSpec => []ContextSound
  <1>1. LogInit => ContextSound
    BY DEF LogInit, ContextSound, RevIds
  <1>2. LogSpec => [](LogInv /\ ContextSound)
    BY <1>1, LogInvInit, LogInvStep, ContextSoundStep, PTL DEF LogSpec
  <1>3. QED
    BY <1>2, PTL

------------------------------------------------------------------------------
(* Provenance of texts                                                      *)

\* Every text of the snapshot comes from the history of one of the parents.
FromParents(snap, parents) ==
  \A m \in Modules : snap[m] # Absent =>
     \E q \in RevIds, p \in parents \ {NoRev} :
        p \in RevIds /\ InHistory(q, p) /\ snap[m] = revs[q].snap[m]

\* What a publication that brings in nothing else does.
ProvenStep ==
  \E k \in Keys, p2 \in RevIds \cup {NoRev}, snap \in Snapshots,
     written \in SUBSET Modules, extra \in SUBSET Contents :
     /\ Publish(k, heads[k], p2, snap, written, extra)
     /\ FromParents(snap, {heads[k], p2})

\* The snapshot a publication stores.
LEMMA PublishedSnap ==
  ASSUME LogInv, NEW k \in Keys, NEW p2, NEW snap, NEW written, NEW extra,
         Publish(k, heads[k], p2, snap, written, extra)
  PROVE  revs'[Len(revs) + 1].snap = Stamp(snap, written, Len(revs) + 1)
  <1> DEFINE docs == (IF heads[k] = NoRev THEN {} ELSE revs[heads[k]].docs) \cup extra
             e == [project |-> k[1], branch |-> k[2], parent1 |-> heads[k],
                   parent2 |-> p2, snap |-> Stamp(snap, written, Len(revs) + 1),
                   docs |-> docs]
  <1>1. revs' = Append(revs, e)
    BY DEF Publish, InsertRevision
  <1>2. e.snap = Stamp(snap, written, Len(revs) + 1)
    OBVIOUS
  <1> HIDE DEF e
  <1>3. revs'[Len(revs) + 1] = e
    BY <1>1 DEF LogInv, LogTypeOK
  <1>4. QED
    BY <1>2, <1>3

\* History is transitive, and holds each member's first parent.
LEMMA HistoryTransitive ==
  ASSUME NEW r, NEW q, NEW h, InHistory(r, q), InHistory(q, h)
  PROVE  InHistory(r, h)
  BY DEF InHistory

LEMMA HistoryHoldsParent ==
  ASSUME NEW r, NEW h, InHistory(r, h), revs[r].parent1 # NoRev
  PROVE  InHistory(revs[r].parent1, h)
  BY DEF InHistory, AncestryClosed

\* First-parent history is part of history.
LEMMA FirstParentHistoryInHistory ==
  ASSUME NEW r, NEW h, OnFirstParentHistory(r, h)
  PROVE  InHistory(r, h)
  BY DEF OnFirstParentHistory, InHistory, FirstParentClosed, AncestryClosed

\* What an existing revision is in the history of exists.
LEMMA HistoryExists ==
  ASSUME LogInv, NEW h \in RevIds, NEW r, InHistory(r, h)
  PROVE  r \in RevIds
  <1>1. AncestryClosed(RevIds)
    BY ParentsExist DEF AncestryClosed
  <1>2. QED
    BY <1>1 DEF InHistory

\* A merge takes each text from one of its two sides.
LEMMA MergedIsProven ==
  ASSUME LogInv, NEW k \in Keys, NEW base \in RevIds, NEW theirs \in RevIds,
         NEW p2 \in RevIds \cup {NoRev}, heads[k] # NoRev,
         AdvanceHead(k), PublishThreeWay(k, base, theirs, p2),
         \E p \in {heads[k], p2} \ {NoRev} : p \in RevIds /\ InHistory(theirs, p)
  PROVE  ProvenStep
  <1> DEFINE b == revs[base].snap
             o == revs[heads[k]].snap
             t == revs[theirs].snap
             s == ThreeWay(b, o, t)
  <1>1. heads[k] \in RevIds
    BY DEF LogInv, ProjectClosed
  <1>2. b \in Snapshots /\ o \in Snapshots /\ t \in Snapshots
    BY <1>1, RevisionType DEF LogInv
  <1>3. s \in Snapshots /\ BothChanged(b, o, t) \in SUBSET Modules
    BY <1>2, ThreeWayType
  <1>4. Publish(k, heads[k], p2, s, BothChanged(b, o, t), {})
    BY DEF PublishThreeWay, Publish
  <1>5. \A m \in Modules : s[m] = o[m] \/ s[m] = t[m]
    BY DEF ThreeWay
  <1>6. InHistory(heads[k], heads[k])
    BY DEF InHistory
  <1>7. FromParents(s, {heads[k], p2})
    <2>1. ASSUME NEW m \in Modules, s[m] = o[m]
          PROVE  \E q \in RevIds, p \in {heads[k], p2} \ {NoRev} :
                    p \in RevIds /\ InHistory(q, p) /\ s[m] = revs[q].snap[m]
      BY <1>1, <1>6, <2>1
    <2>2. ASSUME NEW m \in Modules, s[m] = t[m]
          PROVE  \E q \in RevIds, p \in {heads[k], p2} \ {NoRev} :
                    p \in RevIds /\ InHistory(q, p) /\ s[m] = revs[q].snap[m]
      BY <2>2
    <2>3. QED
      BY <1>5, <2>1, <2>2 DEF FromParents
  <1> HIDE DEF s, b, o, t
  <1>8. {} \in SUBSET Contents
    OBVIOUS
  <1>9. QED
    BY <1>3, <1>4, <1>7, <1>8 DEF ProvenStep

LEMMA ProvenanceShape ==
  ASSUME LogInv, LogNext
  PROVE  BranchStep \/ ProvenStep
  <1>1. ASSUME NEW p \in Projects, InitProject(p)
        PROVE  ProvenStep
    <2>1. <<p, Main>> \in Keys
      BY ConstantsAssumption DEF Keys
    <2>2. [m \in Modules |-> Absent] \in Snapshots
      BY DEF Snapshots, Absent
    <2>3. Publish(<<p, Main>>, heads[<<p, Main>>], NoRev, [m \in Modules |-> Absent], {}, {})
      BY <1>1 DEF InitProject
    <2>4. FromParents([m \in Modules |-> Absent], {heads[<<p, Main>>], NoRev})
      BY DEF FromParents
    <2>5. NoRev \in RevIds \cup {NoRev} /\ {} \in SUBSET Modules /\ {} \in SUBSET Contents
      OBVIOUS
    <2>6. QED
      BY <2>1, <2>2, <2>3, <2>4, <2>5 DEF ProvenStep
  <1>2. ASSUME NEW k \in Keys, NEW from \in Keys, CreateBranch(k, from)
        PROVE  BranchStep
    <2>1. heads[from] \in RevIds /\ revs[heads[from]].project = k[1]
      BY <1>2 DEF CreateBranch, LogInv, ProjectClosed
    <2>2. QED
      BY <1>2, <2>1 DEF CreateBranch, BranchStep
  <1>3. ASSUME NEW k \in Keys, NEW r \in RevIds, CreateBranchAt(k, r)
        PROVE  BranchStep
    BY <1>3 DEF CreateBranchAt, BranchStep
  \* An edit and a context document keep the head's other texts.
  <1>4. ASSUME NEW k \in Keys, heads[k] # NoRev,
               NEW written \in SUBSET Modules, NEW extra \in SUBSET Contents,
               Publish(k, heads[k], NoRev, revs[heads[k]].snap, written, extra)
        PROVE  ProvenStep
    <2>1. PICK h \in RevIds : h = heads[k]
      BY <1>4 DEF LogInv, ProjectClosed
    <2>2. revs[h].snap \in Snapshots /\ InHistory(h, h)
      BY RevisionType DEF LogInv, InHistory
    <2>3. FromParents(revs[h].snap, {heads[k], NoRev})
      BY <1>4, <2>1, <2>2 DEF FromParents
    <2>4. Publish(k, heads[k], NoRev, revs[h].snap, written, extra)
      BY <1>4, <2>1
    <2>5. QED
      BY <2>2, <2>3, <2>4 DEF ProvenStep
  <1>5. ASSUME NEW k \in Keys, NEW m \in Modules, WriteModule(k, m)
        PROVE  ProvenStep
    <2>1. {m} \in SUBSET Modules /\ {} \in SUBSET Contents
      OBVIOUS
    <2>2. QED
      BY <1>4, <1>5, <2>1 DEF WriteModule
  <1>6. ASSUME NEW k \in Keys, NEW c \in Contents, AddContext(k, c)
        PROVE  ProvenStep
    <2>1. {} \in SUBSET Modules /\ {c} \in SUBSET Contents
      OBVIOUS
    <2>2. QED
      BY <1>4, <1>6, <2>1 DEF AddContext
  <1>7. ASSUME NEW k \in Keys, NEW source \in Keys, Merge(k, source)
        PROVE  ProvenStep
    <2>1. PICK h \in RevIds : h = heads[source]
      BY <1>7 DEF Merge, LogInv, ProjectClosed
    <2>2. PICK base \in RevIds : PublishThreeWay(k, base, h, h)
      BY <1>7, <2>1 DEF Merge
    <2>3. heads[k] # NoRev /\ AdvanceHead(k) /\ h # NoRev
      BY <1>7, <2>1 DEF Merge
    <2>4. InHistory(h, h)
      BY DEF InHistory
    <2>5. QED
      BY <2>2, <2>3, <2>4, MergedIsProven
  <1>8. ASSUME NEW k \in Keys, NEW r \in RevIds, Revert(k, r)
        PROVE  ProvenStep
    <2>1. PICK t \in RevIds : t = revs[r].parent1
      BY <1>8 DEF Revert, LogInv, ProjectClosed, RevIds
    <2>2. heads[k] # NoRev /\ AdvanceHead(k) /\ PublishThreeWay(k, r, t, NoRev)
      BY <1>8, <2>1 DEF Revert
    <2>3. heads[k] \in RevIds
      BY <2>2 DEF LogInv, ProjectClosed
    <2>4. InHistory(t, heads[k])
      BY <1>8, <2>1, FirstParentHistoryInHistory, HistoryHoldsParent DEF Revert
    <2>5. QED
      BY <2>2, <2>3, <2>4, MergedIsProven
  <1>9. QED
    BY <1>1, <1>2, <1>3, <1>5, <1>6, <1>7, <1>8 DEF LogNext

LEMMA SnapshotProvenanceStep ==
  ASSUME LogInv, SnapshotProvenance, [LogNext]_logVars
  PROVE  SnapshotProvenance'
  <1>1. ASSUME NEW r \in RevIds, NEW m \in Modules, revs'[r].snap[m] # Absent
        PROVE  \E v \in RevIds' : v = revs'[r].snap[m] /\ InHistory(v, r)'
    <2>1. revs'[r] = revs[r]
      BY RevisionsKept
    <2>2. PICK v : v = revs[r].snap[m] /\ InHistory(v, r)
      BY <1>1, <2>1 DEF SnapshotProvenance
    <2>3. v \in RevIds
      BY <2>2, HistoryExists
    <2>4. QED
      BY <2>1, <2>2, <2>3, HistoryOfOldKept
  <1>2. CASE RevIds' = RevIds
    BY <1>1, <1>2 DEF SnapshotProvenance, InHistory
  <1>3. CASE ProvenStep
    <2>1. PICK k \in Keys, p2 \in RevIds \cup {NoRev}, snap \in Snapshots,
               written \in SUBSET Modules, extra \in SUBSET Contents :
            /\ Publish(k, heads[k], p2, snap, written, extra)
            /\ FromParents(snap, {heads[k], p2})
      BY <1>3 DEF ProvenStep
    <2>2. PICK n :
            /\ RevIds' = RevIds \cup {n}
            /\ revs'[n].parent1 = heads[k]
            /\ revs'[n].parent2 = p2
            /\ revs'[n].snap = Stamp(snap, written, n)
      <3>1. /\ RevIds' = RevIds \cup {Len(revs) + 1}
            /\ revs'[Len(revs) + 1].parent1 = heads[k]
            /\ revs'[Len(revs) + 1].parent2 = p2
        BY <2>1, PublishFacts
      <3>2. revs'[Len(revs) + 1].snap = Stamp(snap, written, Len(revs) + 1)
        BY <2>1, PublishedSnap
      <3>3. QED
        BY <3>1, <3>2
    <2>3. ASSUME NEW p \in RevIds, p \in {heads[k], p2} \ {NoRev}
          PROVE  InHistory(p, n)'
      BY <2>2, <2>3 DEF InHistory, AncestryClosed
    <2>4. ASSUME NEW m \in Modules, revs'[n].snap[m] # Absent
          PROVE  \E v \in RevIds' : v = revs'[n].snap[m] /\ InHistory(v, n)'
      <3>1. CASE m \in written
        <4>1. revs'[n].snap[m] = n
          BY <2>2, <3>1 DEF Stamp
        <4>2. QED
          BY <2>2, <4>1 DEF InHistory
      <3>2. CASE m \notin written
        <4>1. revs'[n].snap[m] = snap[m]
          BY <2>2, <3>2 DEF Stamp
        <4>2. PICK q \in RevIds, p \in {heads[k], p2} \ {NoRev} :
                 p \in RevIds /\ InHistory(q, p) /\ snap[m] = revs[q].snap[m]
          BY <2>1, <2>4, <4>1 DEF FromParents
        <4>3. PICK v : v = snap[m] /\ InHistory(v, q)
          BY <2>4, <4>1, <4>2 DEF SnapshotProvenance
        <4>4. v \in RevIds /\ InHistory(v, p)
          BY <4>2, <4>3, HistoryExists, HistoryTransitive
        <4>5. v \in RevIds' /\ InHistory(v, p)'
          BY <4>2, <4>4, HistoryOfOldKept
        <4>6. InHistory(p, n)'
          BY <2>3, <4>2
        <4>7. InHistory(v, n)'
          BY <4>5, <4>6 DEF InHistory
        <4>8. QED
          BY <4>1, <4>3, <4>5, <4>7
      <3>3. QED
        BY <3>1, <3>2
    <2>5. \A r \in RevIds', m \in Modules : revs'[r].snap[m] # Absent =>
            \E v \in RevIds' : v = revs'[r].snap[m] /\ InHistory(v, r)'
      BY <1>1, <2>2, <2>4
    <2>6. QED
      BY <2>5 DEF SnapshotProvenance, InHistory
  <1>4. QED
    BY <1>2, <1>3, ProvenanceShape DEF BranchStep, logVars, RevIds

\* Merging and reverting bring in no text from outside a revision's history.
THEOREM LogKeepsProvenance == LogSpec => []SnapshotProvenance
  <1>1. LogInit => SnapshotProvenance
    BY DEF LogInit, SnapshotProvenance, RevIds
  <1>2. LogSpec => [](LogInv /\ SnapshotProvenance)
    BY <1>1, LogInvInit, LogInvStep, SnapshotProvenanceStep, PTL DEF LogSpec
  <1>3. QED
    BY <1>2, PTL

------------------------------------------------------------------------------
(* First-parent history                                                     *)

\* Every revision is on its own first-parent history.
LEMMA FirstParentReflexive ==
  ASSUME NEW h PROVE OnFirstParentHistory(h, h)
  BY DEF OnFirstParentHistory

\* The history of a revision holds the histories of all it holds.
LEMMA FirstParentTransitive ==
  ASSUME NEW r, NEW q, NEW h, OnFirstParentHistory(r, q), OnFirstParentHistory(q, h)
  PROVE  OnFirstParentHistory(r, h)
  BY DEF OnFirstParentHistory

\* What is below h is h itself or below its first parent.
LEMMA BelowFirstParent ==
  ASSUME NEW r, NEW h \in RevIds, OnFirstParentHistory(r, h), r # h,
         revs[h].parent1 \in RevIds
  PROVE  OnFirstParentHistory(r, revs[h].parent1)
  <1>1. SUFFICES ASSUME NEW S \in SUBSET RevIds, revs[h].parent1 \in S, FirstParentClosed(S)
                 PROVE  r \in S
    BY DEF OnFirstParentHistory
  <1>2. FirstParentClosed(S \cup {h})
    BY <1>1 DEF FirstParentClosed
  <1>3. r \in S \cup {h}
    BY <1>2 DEF OnFirstParentHistory
  <1>4. QED
    BY <1>3

\* First-parent history of what exists is as it was, and a new revision adds
\* itself on top of its first parent.
LEMMA FirstParentGrows ==
  ASSUME LogInv, LogGrows, NEW h \in RevIds, NEW r, OnFirstParentHistory(r, h)
  PROVE  OnFirstParentHistory(r, h)'
  <1>1. SUFFICES ASSUME NEW S \in SUBSET RevIds', h \in S, FirstParentClosed(S)'
                 PROVE  r \in S
    BY DEF OnFirstParentHistory
  <1> DEFINE T == S \cap RevIds
  <1>2. FirstParentClosed(T)
    BY <1>1, ParentsExist DEF FirstParentClosed, LogGrows
  <1>3. h \in T /\ T \in SUBSET RevIds
    BY <1>1
  <1>4. QED
    BY <1>2, <1>3 DEF OnFirstParentHistory

\* The history of a new revision holds that of its first parent.
LEMMA FirstParentExtends ==
  ASSUME LogInv, LogGrows, NEW n \in RevIds', NEW h \in RevIds,
         revs'[n].parent1 = h, NEW r, OnFirstParentHistory(r, h)
  PROVE  OnFirstParentHistory(r, n)'
  <1>1. OnFirstParentHistory(r, h)'
    BY FirstParentGrows
  <1>2. SUFFICES ASSUME NEW S \in SUBSET RevIds', n \in S, FirstParentClosed(S)'
                 PROVE  r \in S
    BY DEF OnFirstParentHistory
  <1>3. h # NoRev
    BY DEF RevIds, NoRev
  <1>4. h \in S
    BY <1>2, <1>3 DEF FirstParentClosed
  <1>5. QED
    BY <1>1, <1>2, <1>4 DEF OnFirstParentHistory

\* A step adds nothing to the first-parent history of what exists.
LEMMA FirstParentStays ==
  ASSUME LogGrows, LogInv, NEW h \in RevIds, NEW r, OnFirstParentHistory(r, h)'
  PROVE  r \in RevIds /\ OnFirstParentHistory(r, h)
  <1>1. ASSUME NEW S \in SUBSET RevIds, h \in S, FirstParentClosed(S)
        PROVE  r \in S
    <2>1. S \in SUBSET RevIds' /\ \A x \in S : revs'[x] = revs[x]
      BY <1>1 DEF LogGrows
    <2>2. FirstParentClosed(S)'
      BY <1>1, <2>1 DEF FirstParentClosed
    <2>3. QED
      BY <1>1, <2>1, <2>2 DEF OnFirstParentHistory
  <1>2. FirstParentClosed(RevIds)
    BY ParentsExist DEF FirstParentClosed
  <1>3. QED
    BY <1>1, <1>2 DEF OnFirstParentHistory

------------------------------------------------------------------------------
(* Revisions of candidates                                                  *)

\* A revision of no branch: a candidate's edit, above revision h.
LEMMA InsertFacts ==
  ASSUME LogInv, NEW h \in RevIds, NEW p \in Projects, revs[h].project = p,
         NEW written \in SUBSET Modules,
         InsertRevision(<<p, NoBranch>>, NoBranch, h, NoRev, revs[h].snap, written, {})
  PROVE  LET n == Len(revs) + 1
         IN  /\ RevIds' = RevIds \cup {n}
             /\ Len(revs') = n
             /\ revs'[n].project = p
             /\ revs'[n].parent1 = h
             /\ LogGrows
             /\ heads' = heads => LogInv'
  <1> DEFINE n == Len(revs) + 1
             e == [project |-> p, branch |-> NoBranch, parent1 |-> h,
                   parent2 |-> NoRev, snap |-> Stamp(revs[h].snap, written, n),
                   docs |-> revs[h].docs]
  <1>1. revs \in Seq(Revision) /\ Len(revs) \in Nat /\ n \in Nat
    BY DEF LogInv, LogTypeOK
  <1>2. Stamp(revs[h].snap, written, n) \in Snapshots /\ revs[h].docs \in SUBSET Contents
    BY <1>1, RevisionType DEF Stamp, Snapshots, LogInv
  <1>3. h \in Nat /\ h # NoRev
    BY DEF RevIds, NoRev
  <1>4. e \in Revision
    BY <1>2, <1>3 DEF Revision, NoRev
  <1>5. revs' = Append(revs, e) /\ documents' = documents
    BY <1>3 DEF InsertRevision
  <1>6. e.project = p /\ e.parent1 = h /\ e.parent2 = NoRev
    OBVIOUS
  <1> HIDE DEF e
  <1>7. revs' \in Seq(Revision) /\ Len(revs') = n /\ revs'[n] = e
        /\ \A r \in 1 .. Len(revs) : revs'[r] = revs[r]
    BY <1>1, <1>4, <1>5
  <1>8. RevIds' = RevIds \cup {n}
    BY <1>1, <1>7 DEF RevIds
  <1>9. LogGrows
    BY <1>7, <1>8 DEF LogGrows, RevIds
  <1>10. ASSUME heads' = heads PROVE LogInv'
    <2>1. LogTypeOK'
      BY <1>5, <1>7, <1>10 DEF LogInv, LogTypeOK
    <2>2. \A r \in RevIds : \A q \in {revs'[r].parent1, revs'[r].parent2} \ {NoRev} :
             q \in 1 .. (r - 1) /\ revs'[q].project = revs'[r].project
      <3>1. TAKE r \in RevIds
      <3>2. \A q \in {revs[r].parent1, revs[r].parent2} \ {NoRev} :
               q \in RevIds /\ q \in 1 .. (r - 1) /\ revs[q].project = revs[r].project
        BY ParentsExist DEF LogInv, ProjectClosed
      <3>3. QED
        BY <1>9, <3>2 DEF LogGrows
    <2>3. h \in 1 .. (n - 1) /\ revs'[h].project = p
      BY <1>1, <1>9 DEF LogGrows, RevIds
    <2>4. \A q \in {revs'[n].parent1, revs'[n].parent2} \ {NoRev} :
             q \in 1 .. (n - 1) /\ revs'[q].project = revs'[n].project
      BY <1>6, <1>7, <2>3
    <2>5. \A k \in Keys : heads'[k] # NoRev =>
             heads'[k] \in RevIds' /\ revs'[heads'[k]].project = k[1]
      BY <1>8, <1>9, <1>10 DEF LogInv, ProjectClosed, LogGrows
    <2>6. ProjectClosed'
      BY <1>8, <2>2, <2>4, <2>5 DEF ProjectClosed
    <2>7. QED
      BY <2>1, <2>6 DEF LogInv
  <1>11. RevIds' = RevIds \cup {n} /\ Len(revs') = n
         /\ revs'[n].project = p /\ revs'[n].parent1 = h
    BY <1>6, <1>7, <1>8
  <1>12. QED
    BY <1>9, <1>10, <1>11

------------------------------------------------------------------------------
(* Merges and their bases                                                   *)

\* The ancestors of a revision are the least set with its parents, and with theirs.
LEMMA AncestryFacts ==
  ASSUME LogInv, NEW h \in RevIds
  PROVE  /\ Ancestors(h) \subseteq RevIds
         /\ h \in Ancestors(h)
         /\ AncestryClosed(Ancestors(h))
         /\ \A x \in Ancestors(h) : Ancestors(x) \subseteq Ancestors(h)
         /\ \A x : InHistory(x, h) <=> x \in Ancestors(h)
         /\ \A S \in SUBSET RevIds : h \in S /\ AncestryClosed(S) => Ancestors(h) \subseteq S
  <1>1. h \in Ancestors(h)
    BY DEF Ancestors, InHistory
  <1>2. AncestryClosed(Ancestors(h))
    <2>1. SUFFICES ASSUME NEW x \in Ancestors(h),
                          NEW p \in {revs[x].parent1, revs[x].parent2} \ {NoRev}
                   PROVE  p \in Ancestors(h)
      BY DEF AncestryClosed
    <2>2. InHistory(p, h)
      BY <2>1 DEF Ancestors, InHistory, AncestryClosed
    <2>3. QED
      BY <2>2, HistoryExists DEF Ancestors
  <1>3. \A x \in Ancestors(h) : Ancestors(x) \subseteq Ancestors(h)
    BY HistoryTransitive DEF Ancestors
  <1>4. \A x : InHistory(x, h) <=> x \in Ancestors(h)
    BY HistoryExists DEF Ancestors
  <1>5. \A S \in SUBSET RevIds : h \in S /\ AncestryClosed(S) => Ancestors(h) \subseteq S
    BY DEF Ancestors, InHistory
  <1>6. QED
    BY <1>1, <1>2, <1>3, <1>4, <1>5 DEF Ancestors

\* What exists keeps its ancestors, and so the bases of its merges.
LEMMA BasesStay ==
  ASSUME LogInv, LogGrows
  PROVE  /\ \A h \in RevIds : Ancestors(h)' = Ancestors(h)
         /\ \A l, r \in RevIds : BestCommonAncestors(l, r)' = BestCommonAncestors(l, r)
  <1>1. ASSUME NEW h \in RevIds
        PROVE  /\ Ancestors(h)' = Ancestors(h)
               /\ \A r \in RevIds : InHistory(r, h)' <=> InHistory(r, h)
    BY HistoryStays DEF Ancestors, LogGrows
  <1>2. ASSUME NEW l \in RevIds, NEW r \in RevIds
        PROVE  BestCommonAncestors(l, r)' = BestCommonAncestors(l, r)
    <2> DEFINE C == Ancestors(l) \cap Ancestors(r)
    <2>1. C' = C /\ C \subseteq RevIds
      BY <1>1, AncestryFacts
    <2>2. \A c, d \in C : InHistory(c, d)' <=> InHistory(c, d)
      BY <1>1, <2>1
    <2>3. QED
      BY <2>1, <2>2 DEF BestCommonAncestors
  <1>3. QED
    BY <1>1, <1>2

\* The ancestors of a new revision are itself and those of its parents.
LEMMA NewAncestors ==
  ASSUME LogInv, LogGrows, NEW n, RevIds' = RevIds \cup {n},
         NEW p \in RevIds, NEW q \in RevIds \cup {NoRev},
         revs'[n].parent1 = p, revs'[n].parent2 = q
  PROVE  Ancestors(n)' = {n} \cup Ancestors(p) \cup (IF q = NoRev THEN {} ELSE Ancestors(q))
  <1> DEFINE A == {n} \cup Ancestors(p) \cup (IF q = NoRev THEN {} ELSE Ancestors(q))
             AncestorsNew(x) == Ancestors(x)'
  <1>1. \A x \in RevIds :
          /\ x # NoRev /\ AncestorsNew(x) = Ancestors(x) /\ Ancestors(x) \subseteq RevIds
          /\ x \in Ancestors(x) /\ AncestryClosed(Ancestors(x))
    BY BasesStay, AncestryFacts DEF RevIds, NoRev
  <1>2. A \subseteq RevIds' /\ n \in A
    BY <1>1
  <1>3. \A x \in A : {revs'[x].parent1, revs'[x].parent2} \ {NoRev} \subseteq A
    <2>1. SUFFICES ASSUME NEW x \in A,
                          NEW y \in {revs'[x].parent1, revs'[x].parent2} \ {NoRev}
                   PROVE  y \in A
      OBVIOUS
    <2>2. CASE x = n
      BY <1>1, <2>1, <2>2
    <2>3. CASE x # n
      <3>1. x \in RevIds /\ revs'[x] = revs[x]
        BY <1>1, <2>1, <2>3 DEF LogGrows
      <3>2. QED
        BY <1>1, <2>1, <2>3, <3>1 DEF AncestryClosed
    <2>4. QED
      BY <2>2, <2>3
  <1>4. Ancestors(n)' \subseteq A
    <2>1. \A x \in Ancestors(n)' : x \in A
      <3> HIDE DEF A
      <3>1. QED
        BY <1>2, <1>3 DEF Ancestors, InHistory, AncestryClosed
    <2>2. QED
      BY <2>1
  <1>5. ASSUME NEW h \in RevIds, h \in {p, q}, NEW x \in Ancestors(h)
        PROVE  x \in Ancestors(n)'
    <2>1. x \in AncestorsNew(h) /\ h # NoRev
      BY <1>1, <1>5
    <2>2. x \in RevIds' /\ InHistory(x, h)'
      BY <2>1 DEF Ancestors
    <2>3. InHistory(h, n)'
      BY <1>5, <2>1 DEF InHistory, AncestryClosed
    <2>4. InHistory(x, n)'
      BY <2>2, <2>3 DEF InHistory
    <2>5. QED
      BY <2>2, <2>4 DEF Ancestors
  <1>6. n \in Ancestors(n)'
    BY DEF Ancestors, InHistory
  <1>7. QED
    BY <1>4, <1>5, <1>6

\* The snapshot of the merge r of two revisions.
MergedFrom(base, left, right, r) ==
  LET b == revs[base].snap
      o == revs[left].snap
      t == revs[right].snap
  IN  Stamp(ThreeWay(b, o, t), BothChanged(b, o, t), r)

\* Every merge in the log is one from the best common ancestor of its parents.
MergesExact ==
  \A r \in RevIds : revs[r].parent2 # NoRev =>
     \E left, right, base \in RevIds :
        /\ revs[r].parent1 = left /\ revs[r].parent2 = right
        /\ BestCommonAncestors(left, right) = {base}
        /\ revs[r].snap = MergedFrom(base, left, right, r)

\* A step that publishes a merge from the best common ancestor, or no merge.
ExactStep ==
  \E k \in Keys, p2 \in RevIds \cup {NoRev}, snap \in Snapshots,
     written \in SUBSET Modules, extra \in SUBSET Contents :
    /\ Publish(k, heads[k], p2, snap, written, extra)
    /\ p2 # NoRev => heads[k] # NoRev /\ \E base \in RevIds :
         LET b == revs[base].snap
             o == revs[heads[k]].snap
             t == revs[p2].snap
         IN  /\ BestCommonAncestors(heads[k], p2) = {base}
             /\ snap = ThreeWay(b, o, t) /\ written = BothChanged(b, o, t)

\* What is published with no second parent is no merge.
LEMMA PlainIsExact ==
  ASSUME NEW k \in Keys, NEW snap \in Snapshots,
         NEW written \in SUBSET Modules, NEW extra \in SUBSET Contents,
         Publish(k, heads[k], NoRev, snap, written, extra)
  PROVE  ExactStep
  <1>1. NoRev \in RevIds \cup {NoRev}
    OBVIOUS
  <1>2. QED
    BY <1>1 DEF ExactStep

\* A merge is one from the best common ancestor of the heads of the two branches.
LEMMA MergeIsExact ==
  ASSUME LogInv, NEW k \in Keys, NEW source \in Keys, Merge(k, source)
  PROVE  ExactStep
  <1>1. heads[k] # NoRev /\ heads[k] \in RevIds /\ heads[source] \in RevIds /\ AdvanceHead(k)
    BY DEF Merge, LogInv, ProjectClosed
  <1>2. PICK base \in RevIds :
          /\ BestCommonAncestors(heads[k], heads[source]) = {base}
          /\ PublishThreeWay(k, base, heads[source], heads[source])
    BY DEF Merge
  <1> DEFINE b == revs[base].snap
             o == revs[heads[k]].snap
             t == revs[heads[source]].snap
  <1>3. b \in Snapshots /\ o \in Snapshots /\ t \in Snapshots
    BY <1>1, RevisionType DEF LogInv
  <1>4. Publish(k, heads[k], heads[source], ThreeWay(b, o, t), BothChanged(b, o, t), {})
    BY <1>1, <1>2 DEF PublishThreeWay, Publish
  <1>5. /\ BestCommonAncestors(heads[k], heads[source]) = {base}
        /\ ThreeWay(b, o, t)
             = ThreeWay(revs[base].snap, revs[heads[k]].snap, revs[heads[source]].snap)
        /\ BothChanged(b, o, t)
             = BothChanged(revs[base].snap, revs[heads[k]].snap, revs[heads[source]].snap)
    BY <1>2
  <1> HIDE DEF b, o, t
  <1>6. /\ ThreeWay(b, o, t) \in Snapshots /\ BothChanged(b, o, t) \in SUBSET Modules
        /\ {} \in SUBSET Contents
    BY <1>3, ThreeWayType
  <1>7. QED
    BY <1>1, <1>4, <1>5, <1>6 DEF ExactStep

\* Every operation publishes a merge from the best common ancestor, no merge, or
\* nothing: a revert, too, has but one parent.
LEMMA LogNextIsExact ==
  ASSUME LogInv, LogNext
  PROVE  BranchStep \/ ExactStep
  <1>1. \A k \in Keys : heads[k] # NoRev =>
          heads[k] \in RevIds /\ revs[heads[k]].snap \in Snapshots
    BY RevisionType DEF LogInv, ProjectClosed
  <1>2. ASSUME NEW p \in Projects, InitProject(p)
        PROVE  ExactStep
    <2>1. <<p, Main>> \in Keys
      BY ConstantsAssumption DEF Keys
    <2>2. [m \in Modules |-> Absent] \in Snapshots
      BY DEF Snapshots, Absent
    <2>3. Publish(<<p, Main>>, heads[<<p, Main>>], NoRev, [m \in Modules |-> Absent], {}, {})
      BY <1>2 DEF InitProject
    <2>4. {} \in SUBSET Modules /\ {} \in SUBSET Contents
      OBVIOUS
    <2>5. QED
      BY <2>1, <2>2, <2>3, <2>4, PlainIsExact
  <1>3. ASSUME NEW k \in Keys, NEW from \in Keys, CreateBranch(k, from)
        PROVE  BranchStep
    <2>1. heads[from] \in RevIds /\ revs[heads[from]].project = k[1]
      BY <1>3 DEF CreateBranch, LogInv, ProjectClosed
    <2>2. QED
      BY <1>3, <2>1 DEF CreateBranch, BranchStep
  <1>4. ASSUME NEW k \in Keys, NEW r \in RevIds, CreateBranchAt(k, r)
        PROVE  BranchStep
    BY <1>4 DEF CreateBranchAt, BranchStep
  <1>5. ASSUME NEW k \in Keys, NEW m \in Modules, WriteModule(k, m)
        PROVE  ExactStep
    <2>1. {m} \in SUBSET Modules /\ {} \in SUBSET Contents
      OBVIOUS
    <2>2. QED
      BY <1>1, <1>5, <2>1, PlainIsExact DEF WriteModule
  <1>6. ASSUME NEW k \in Keys, NEW c \in Contents, AddContext(k, c)
        PROVE  ExactStep
    <2>1. {} \in SUBSET Modules /\ {c} \in SUBSET Contents
      OBVIOUS
    <2>2. QED
      BY <1>1, <1>6, <2>1, PlainIsExact DEF AddContext
  <1>7. ASSUME NEW k \in Keys, NEW r \in RevIds, Revert(k, r)
        PROVE  ExactStep
    <2>1. PICK t \in RevIds : t = revs[r].parent1
      BY <1>7 DEF Revert, LogInv, ProjectClosed, RevIds
    <2> DEFINE b == revs[r].snap
               o == revs[heads[k]].snap
               u == revs[t].snap
    <2>2. heads[k] # NoRev /\ AdvanceHead(k) /\ PublishThreeWay(k, r, t, NoRev)
      BY <1>7, <2>1 DEF Revert
    <2>3. Publish(k, heads[k], NoRev, ThreeWay(b, o, u), BothChanged(b, o, u), {})
      BY <2>2 DEF PublishThreeWay, Publish
    <2>4. b \in Snapshots /\ o \in Snapshots /\ u \in Snapshots
      BY <1>1, <2>2, RevisionType DEF LogInv
    <2> HIDE DEF b, o, u
    <2>5. ThreeWay(b, o, u) \in Snapshots /\ BothChanged(b, o, u) \in SUBSET Modules
      BY <2>4, ThreeWayType
    <2>6. {} \in SUBSET Contents
      OBVIOUS
    <2>7. QED
      BY <2>3, <2>5, <2>6, PlainIsExact
  <1>8. QED
    BY <1>2, <1>3, <1>4, <1>5, <1>6, <1>7, MergeIsExact DEF LogNext

\* Merges are from the best common ancestor as they are made, and the ancestors
\* of a revision never change.
LEMMA MergesExactStep ==
  ASSUME LogInv, MergesExact, [LogNext]_logVars
  PROVE  MergesExact'
  <1>1. /\ Len(revs) \in Nat /\ heads \in [Keys -> Nat]
        /\ \A k \in Keys : heads[k] # NoRev => heads[k] \in RevIds
    BY DEF LogInv, LogTypeOK, ProjectClosed
  <1> DEFINE Exact(r) == \E left, right, base \in RevIds' :
                           /\ revs'[r].parent1 = left /\ revs'[r].parent2 = right
                           /\ BestCommonAncestors(left, right)' = {base}
                           /\ revs'[r].snap = MergedFrom(base, left, right, r)'
  <1>3. ASSUME NEW r, NEW left \in RevIds, NEW right \in RevIds, NEW base \in RevIds,
               revs'[r].parent1 = left, revs'[r].parent2 = right,
               BestCommonAncestors(left, right) = {base},
               revs'[r].snap = MergedFrom(base, left, right, r)
        PROVE  Exact(r)
    <2>1. BestCommonAncestors(left, right)' = {base}
      BY <1>3, StepGrows, BasesStay
    <2>2. /\ left \in RevIds' /\ right \in RevIds' /\ base \in RevIds'
          /\ revs'[left] = revs[left] /\ revs'[right] = revs[right] /\ revs'[base] = revs[base]
      BY <1>3, RevisionsKept
    <2>3. MergedFrom(base, left, right, r)' = MergedFrom(base, left, right, r)
      BY <2>2 DEF MergedFrom, Stamp, ThreeWay, BothChanged
    <2>4. QED
      BY <1>3, <2>1, <2>2, <2>3
  <1>4. ASSUME NEW r \in RevIds, revs'[r].parent2 # NoRev
        PROVE  Exact(r)
    <2>1. revs'[r] = revs[r]
      BY RevisionsKept
    <2>2. PICK left \in RevIds, right \in RevIds, base \in RevIds :
            /\ revs[r].parent1 = left /\ revs[r].parent2 = right
            /\ BestCommonAncestors(left, right) = {base}
            /\ revs[r].snap = MergedFrom(base, left, right, r)
      BY <1>4, <2>1 DEF MergesExact
    <2> HIDE DEF Exact
    <2>3. QED
      BY <1>3, <2>1, <2>2
  <1>5. (\A r \in RevIds' : revs'[r].parent2 # NoRev => Exact(r)) => MergesExact'
    BY DEF MergesExact
  <1> HIDE DEF Exact
  <1>6. CASE RevIds' = RevIds
    BY <1>4, <1>5, <1>6
  <1>7. CASE ExactStep
    <2> DEFINE n == Len(revs) + 1
    <2>1. PICK k \in Keys, p2 \in RevIds \cup {NoRev}, snap \in Snapshots,
               written \in SUBSET Modules, extra \in SUBSET Contents :
            /\ Publish(k, heads[k], p2, snap, written, extra)
            /\ p2 # NoRev => heads[k] # NoRev /\ \E base \in RevIds :
                 LET b == revs[base].snap
                     o == revs[heads[k]].snap
                     t == revs[p2].snap
                 IN  /\ BestCommonAncestors(heads[k], p2) = {base}
                     /\ snap = ThreeWay(b, o, t) /\ written = BothChanged(b, o, t)
      BY <1>7 DEF ExactStep
    <2>2. /\ RevIds' = RevIds \cup {n}
          /\ revs'[n].parent1 = heads[k] /\ revs'[n].parent2 = p2
      BY <2>1, PublishFacts
    <2>3. revs'[n].snap = Stamp(snap, written, n)
      BY <2>1, PublishedSnap
    <2>4. ASSUME p2 # NoRev
          PROVE  Exact(n)
      <3>1. p2 \in RevIds /\ heads[k] \in RevIds
        BY <1>1, <2>1, <2>4
      <3>2. PICK base \in RevIds :
              LET b == revs[base].snap
                  o == revs[heads[k]].snap
                  t == revs[p2].snap
              IN  /\ BestCommonAncestors(heads[k], p2) = {base}
                  /\ snap = ThreeWay(b, o, t) /\ written = BothChanged(b, o, t)
        BY <2>1, <2>4
      <3>3. BestCommonAncestors(heads[k], p2) = {base}
        BY <3>2
      <3>4. revs'[n].snap = MergedFrom(base, heads[k], p2, n)
        BY <2>3, <3>2 DEF MergedFrom
      <3>5. revs'[n].parent1 = heads[k] /\ revs'[n].parent2 = p2
        BY <2>2
      <3> HIDE DEF n
      <3>6. QED
        BY <1>3, <3>1, <3>3, <3>4, <3>5
    <2>5. \A r \in RevIds' : revs'[r].parent2 # NoRev => Exact(r)
      BY <1>4, <2>2, <2>4
    <2>6. QED
      BY <1>5, <2>5
  <1>8. CASE LogNext
    <2>1. CASE BranchStep
      BY <1>6, <2>1 DEF BranchStep, RevIds
    <2>2. QED
      BY <1>7, <1>8, <2>1, LogNextIsExact
  <1>9. CASE UNCHANGED logVars
    BY <1>6, <1>9 DEF logVars, RevIds
  <1>10. QED
    BY <1>8, <1>9

\* Every merge ever published, by whatever operations came before, is one from
\* the best common ancestor of the two heads it was made of.
THEOREM LogMergesExact == LogSpec => []MergesExact
  <1>1. LogInit => MergesExact
    BY DEF LogInit, MergesExact, RevIds
  <1>2. LogSpec => [](LogInv /\ MergesExact)
    BY <1>1, LogInvInit, LogInvStep, MergesExactStep, PTL DEF LogSpec
  <1>3. QED
    BY <1>2, PTL
==============================================================================
