--------------------------- MODULE ProjectMetadata ---------------------------
(****************************************************************************)
(* The metadata of a project, which are documents of its revisions like the *)
(* program sources: build targets name a source, test targets name a build  *)
(* target, and task contracts name sources, tests and other contracts, and  *)
(* say who may edit which sources on which branch.                          *)
(*                                                                          *)
(* Every call reads a head and publishes, when nobody else has moved it.    *)
(* Merges and reverts bring documents together that no call has seen side   *)
(* by side; they are checked as a whole.  Ordinary node edits of metadata   *)
(* documents, which nothing forbids, are left out.                          *)
(****************************************************************************)
EXTENDS RevisionLog

CONSTANTS
  Sources, Builds, Tests, Tasks,   \* the documents; together they are Modules
  Agents,
  Foundations,   \* histories to start from: revisions, heads and entries
  Drafts         \* contracts that agents propose

VARIABLES
  entries,   \* what each revision did: its operation and the trees it wrote
  call       \* the head that some call has read

metadataVars == <<entries, call>>

NoTree == [kind |-> "none"]

\* The documents of revision r.
State(r) ==
  [d \in Modules |-> IF revs[r].snap[d] = Absent THEN NoTree
                     ELSE entries[revs[r].snap[d]].trees[d]]

Present(state, d) == state[d] # NoTree

AllPresent(state, docs) == \A d \in docs : Present(state, d)

\* Trees keep the identity of their nodes while they are set again, and get a
\* new one, the revision that made them, when they are put where there was none.
Made(state, d) == IF Present(state, d) THEN state[d].made ELSE Len(revs) + 1

\* Sources have a text, the set of edits it is made of: an edit replaces it, and
\* a merge of two texts holds what is in either.
Source(m)   == [kind |-> "source", made |-> m, text |-> {Len(revs) + 1}]
Build(d, m) == [kind |-> "build", made |-> m, document |-> d]
Test(b, m)  == [kind |-> "test", made |-> m, build |-> b]

Entry(op, about, actor, trees) ==
  [op |-> op, about |-> about, actor |-> actor, trees |-> trees]

NobodyCalls == [branch |-> <<CHOOSE p \in Projects : TRUE, Main>>, base |-> NoRev]

MetadataInit ==
  /\ \E f \in Foundations : revs = f.revs /\ heads = f.heads /\ entries = f.entries
  /\ documents = {}
  /\ call = NobodyCalls

------------------------------------------------------------------------------
(* References *)

BuildsResolve(state) ==
  \A b \in Builds : Present(state, b) => Present(state, state[b].document)

TestsResolve(state) ==
  \A t \in Tests : Present(state, t) => Present(state, state[t].build)

ContractResolves(state, contract) ==
  AllPresent(state, contract.allowed \cup contract.tests \cup contract.needs)

NeedsClosed(state, S) == \A n \in S : state[n].needs \subseteq S

\* No contract comes back to itself.
Acyclic(state, names) ==
  \A n \in names : \E S \in SUBSET (names \ {n}) :
     NeedsClosed(state, S) /\ state[n].needs \subseteq S

Contracts(state) == {n \in Tasks : Present(state, n)}

TasksResolve(state) ==
  /\ \A n \in Contracts(state) : ContractResolves(state, state[n])
  /\ Acyclic(state, Contracts(state))

\* Mutant: the tests of a merged state are not checked.
ChecksTargetsOnly(state) == BuildsResolve(state) /\ TasksResolve(state)

Checks(state) == BuildsResolve(state) /\ TestsResolve(state) /\ TasksResolve(state)

------------------------------------------------------------------------------
(* Publication on a head that was read before *)

\* Mutant: the head that was read is not compared.
AnyHead(k, base) == base # NoRev

HeadAsRead(k, base) == base # NoRev /\ heads[k] = base

PutTree(k, base, d, tree, op, about, actor) ==
  /\ HeadAsRead(k, base)
  /\ Publish(k, heads[k], NoRev, revs[base].snap, {d}, {})
  /\ entries' = Append(entries, Entry(op, about, actor, [x \in {d} |-> tree]))

RemoveTree(k, base, d, actor) ==
  /\ HeadAsRead(k, base)
  /\ Publish(k, heads[k], NoRev, [revs[base].snap EXCEPT ![d] = Absent], {}, {})
  /\ entries' = Append(entries, Entry("delete", d, actor, << >>))

EditSource(k, base, d, actor) ==
  PutTree(k, base, d, Source(Made(State(base), d)), "edit", d, actor)

SetBuild(k, base, b, d, actor) ==
  LET state == State(base)
  IN  /\ Present(state, d)
      /\ PutTree(k, base, b, Build(d, Made(state, b)), "set_build_target", b, actor)

DeleteBuild(k, base, b, actor) ==
  /\ Present(State(base), b)
  /\ \A t \in Tests : Present(State(base), t) => State(base)[t].build # b
  /\ RemoveTree(k, base, b, actor)

SetTest(k, base, t, b, actor) ==
  LET state == State(base)
  IN  /\ Present(state, b)
      /\ PutTree(k, base, t, Test(b, Made(state, t)), "set_test_target", t, actor)

\* Contracts that require the test are not asked.
DeleteTest(k, base, t, actor) ==
  /\ Present(State(base), t)
  /\ RemoveTree(k, base, t, actor)

------------------------------------------------------------------------------
(* Task contracts *)

Transitions ==
  [open |-> {"in_progress", "blocked", "complete"},
   in_progress |-> {"blocked", "ready_for_review", "complete"},
   blocked |-> {"in_progress"},
   ready_for_review |-> {"in_progress", "complete"},
   complete |-> {}]

ActiveStatuses == {"open", "in_progress"}

Contract(k, draft) ==
  [kind |-> "task", made |-> Len(revs) + 1, branch |-> k[2], owner |-> draft.owner,
   status |-> draft.status, allowed |-> draft.allowed, needs |-> draft.needs, tests |-> draft.tests]

CreateTask(k, base, draft, actor) ==
  LET state    == State(base)
      contract == Contract(k, draft)
  IN  /\ ~Present(state, draft.name)
      /\ ContractResolves(state, contract)
      /\ TasksResolve([state EXCEPT ![draft.name] = contract])
      /\ PutTree(k, base, draft.name, contract, "create_task_contract", draft.name, actor)

Owns(state, k, n, actor) ==
  /\ Present(state, n)
  /\ state[n].branch = k[2]
  /\ state[n].owner = actor

SetStatus(k, base, n, status, actor) ==
  LET state   == State(base)
      changed == [state[n] EXCEPT !.status = status]
  IN  /\ Owns(state, k, n, actor)
      /\ status \in Transitions[state[n].status]
      /\ TasksResolve([state EXCEPT ![n] = changed])
      /\ PutTree(k, base, n, changed, "set_task_status", n, actor)

\* May the actor edit this source for task n in this state?
Executable(state, k, n, actor, d) ==
  /\ Owns(state, k, n, actor)
  /\ state[n].status \in ActiveStatuses
  /\ d \in state[n].allowed
  /\ \A m \in state[n].needs : Present(state, m) /\ state[m].status = "complete"

\* The branch itself says what has last happened to the contract.
HasTaskRevision(base, n) ==
  \E r \in RevIds :
     /\ entries[r].op \in {"create_task_contract", "set_task_status"}
     /\ entries[r].about = n
     /\ OnFirstParentHistory(r, base)

ScopedBatch(k, base, n, d, actor) ==
  LET state == State(base)
  IN  /\ Executable(state, k, n, actor, d)
      /\ ContractResolves(state, state[n])
      /\ HasTaskRevision(base, n)
      /\ PutTree(k, base, d, Source(state[d].made), "task_node_apply_batch", n, actor)

------------------------------------------------------------------------------
(* Merges and reverts of metadata *)

\* Both sides changed a tree to the same one, or it is a conflict, for then they
\* changed the same node; sources may be merged node by node.
TreesMerge(base, ours, theirs) ==
  \A d \in BothChanged(revs[base].snap, revs[ours].snap, revs[theirs].snap) :
     d \in Sources \/ State(ours)[d] = State(theirs)[d]

MergedTree(ours, theirs) ==
  IF ours.kind = "source" THEN [ours EXCEPT !.text = @ \cup theirs.text] ELSE ours

MergedState(base, ours, theirs) ==
  LET both == BothChanged(revs[base].snap, revs[ours].snap, revs[theirs].snap)
  IN  [d \in Modules |-> IF d \in both THEN MergedTree(State(ours)[d], State(theirs)[d])
                         ELSE IF revs[ours].snap[d] = revs[base].snap[d] THEN State(theirs)[d]
                         ELSE State(ours)[d]]

PublishMerged(k, base, theirs, op) ==
  LET merged == MergedState(base, heads[k], theirs)
  IN  /\ TreesMerge(base, heads[k], theirs)
      /\ Checks(merged)
      /\ entries' = Append(entries, Entry(op, "nothing", "nobody",
           [d \in BothChanged(revs[base].snap, revs[heads[k]].snap, revs[theirs].snap) |->
              merged[d]]))

MergeMetadata(k, source) ==
  /\ Merge(k, source)
  /\ \E base \in BestCommonAncestors(heads[k], heads[source]) :
       PublishMerged(k, base, heads[source], "merge")

RevertMetadata(k, r) ==
  /\ Revert(k, r)
  /\ PublishMerged(k, r, revs[r].parent1, "revert")

------------------------------------------------------------------------------
Operations(k, base, actor) ==
  \/ \E d \in Sources : EditSource(k, base, d, actor)
  \/ \E b \in Builds, d \in Sources : SetBuild(k, base, b, d, actor)
  \/ \E b \in Builds : DeleteBuild(k, base, b, actor)
  \/ \E t \in Tests, b \in Builds : SetTest(k, base, t, b, actor)
  \/ \E t \in Tests : DeleteTest(k, base, t, actor)
  \/ \E draft \in Drafts : CreateTask(k, base, draft, actor)
  \/ \E n \in Tasks : \E status \in DOMAIN Transitions : SetStatus(k, base, n, status, actor)
  \/ \E n \in Tasks, d \in Sources : ScopedBatch(k, base, n, d, actor)

ReadHead(k) ==
  /\ call.base = NoRev
  /\ heads[k] # NoRev
  /\ call' = [branch |-> k, base |-> heads[k]]
  /\ UNCHANGED <<logVars, entries>>

\* A call that has read its head publishes; everybody else goes on meanwhile.
PublishCall ==
  /\ call.base # NoRev
  /\ \E actor \in Agents : Operations(call.branch, call.base, actor)
  /\ call' = NobodyCalls

OthersPublish ==
  /\ \E k \in {b \in Keys : heads[b] # NoRev} :
       \/ \E actor \in Agents : Operations(k, heads[k], actor)
       \/ \E source \in Keys \ {k} : MergeMetadata(k, source)
       \/ \E r \in RevIds : RevertMetadata(k, r)
  /\ UNCHANGED call

FailCall ==
  /\ call.base # NoRev
  /\ call' = NobodyCalls
  /\ UNCHANGED <<logVars, entries>>

MetadataNext ==
  \/ \E k \in Keys : ReadHead(k)
  \/ FailCall
  \/ /\ Len(revs) < MaxRevs
     /\ PublishCall \/ OthersPublish

------------------------------------------------------------------------------
\* In every revision the sources of build targets, the build targets of tests,
\* and the sources and contracts that contracts name are there, and contracts
\* wait for one another in no circle, however branches were merged and changes
\* reverted.  Required tests may be deleted, and are left out.
MetadataResolves ==
  \A r \in RevIds : LET state == State(r) IN
     /\ BuildsResolve(state) /\ TestsResolve(state)
     /\ \A n \in Contracts(state) : AllPresent(state, state[n].allowed \cup state[n].needs)
     /\ Acyclic(state, Contracts(state))

\* An edit in the name of a task follows a state in which the contract allowed
\* it; and a contract that is complete in a revision stays complete in every
\* later one, whatever is merged, until something is reverted: "complete" is
\* terminal in docs/task-contracts.md.
ContractsBind ==
  /\ \A r \in RevIds : LET e == entries[r] IN
       e.op = "task_node_apply_batch" =>
         \A d \in DOMAIN e.trees :
            Executable(State(revs[r].parent1), <<revs[r].project, revs[r].branch>>,
                       e.about, e.actor, d)
  /\ \A p \in RevIds : \A n \in Contracts(State(p)) :
       State(p)[n].status = "complete" =>
         \A r \in RevIds : p \in Ancestors(r) =>
            \/ Present(State(r), n) /\ State(r)[n].status = "complete"
            \/ \E q \in Ancestors(r) : entries[q].op = "revert"

\* Both: the metadata of every revision can be relied on by builds, tests and agents.
MetadataHolds == MetadataResolves /\ ContractsBind
==============================================================================
