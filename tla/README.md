# Verification of Weave Jacquard

Jacquard is a versioned workspace in which several agents edit programs as
trees. Each agent talks to an MCP server process of its own; all processes share
one SQLite database in WAL mode. The database holds immutable revisions, mutable
branch heads, context documents and edit candidates. Beside it, directories of
retained artifacts (builds, test runs, backups) are published, accounted,
quarantined and deleted.

This directory holds TLA+ models of that system, the TLC runs that check them on
small instances, and proofs, checked by TLAPS, of what holds for every instance.
Paths below are relative to `src/weave_frontend/` unless they say otherwise.

## The system

| Component | State | Operations | What is hard | What makes it correct |
|---|---|---|---|---|
| Revision repository (`service.py`, `concurrent_workspace.py`, `sexpr_service.py`) | `revisions`, `module_snapshots`, `branches`, `documents`, `revision_documents`, `operations` | initialize, node edits and batches, program creation and import, context documents, merge, revert, branch creation | heads are read outside the transaction that publishes; a merge reads two of them | no commit is lost; every publication takes effect at once on current heads; snapshots and documents come from the revision's history |
| Transactions (`database.py`) | SQLite's write lock, the connection | BEGIN IMMEDIATE, commit, rollback, busy timeout | crash and failure inside a transaction; waiting for the lock | nothing half written, the lock never kept, every call returns |
| Edits (`concurrent_sexpr.py`, `batch_edit.py`, `sexpr.py`) | a tree in memory | create, add, set, move, wrap, delete | a batch with aliases fails half way; cycles, bounds of positions | the tree stays a tree with unique ids; a batch is all or nothing |
| Tree merge (`sexpr_service.py`) | three trees | three-way merge of nodes and child orders | moves against deletions, crossing orders | no node lost, duplicated or reordered without a conflict |
| Ancestry (`revision_dag.py`) | the revision graph | best common ancestors under node and edge limits | criss-cross merges, limits | the answer is exact or an error |
| Edit candidates (`edit_candidates.py`) | `edit_candidates`, `candidate_qualifications` | open, apply, qualify, publish, abandon, revert_last, replay | every call reads first and commits later; qualifications are read outside the publishing transaction | edits in force are exactly those applied and not reverted; what is published was qualified; closed is closed |
| Merge admission (`mcp_policy.py`, `merges/`) | policies as revisions | set policy, preview, preflight, branch_merge | policy and heads are read at different times | a merge obeys the policy of the revision it extends; it publishes what was reviewed |
| Artifact retention (`artifacts/`) | live and quarantined directories, intents, results, quota lock | publish, reclaim, quarantine, restore, delete, reconcile | crash between a durable record and the rename it announces; retries | a live payload is never deleted; every interrupted step can be finished |
| Builds and tests (`builds/`, `test_*.py`, `merge_candidate_test_runs.py`, attestations) | named targets, retained runs | set target, run, batch, attest | a run must name the very revision and binary it tested | evidence never describes something else |
| Backups (`database_backup.py`) | backup directories | create, restore | crash between write and rename | a visible backup is complete |
| Metadata (`builds/targets.py`, `test_targets.py`, `task_contracts*.py`) | documents of revisions | set and delete targets, create contracts and set their status, edit in the name of a task | merges and reverts bring documents together that no call has seen side by side | what a document names is there; an edit obeys the contract in force |
| Merge impact (`merges/impact.py`, `merges/validation_set.py`, `test_impact*.py`) | none | affected targets and tests of a merge, validation of all of them | every step reads the heads again | what is left out has not changed |
| Read-only views (`merges/project_queue.py`, `merges/selected_train.py`, `branch_activity.py`, `resume/`) | none | queues, preflights, trains, pages of a history, timelines, status | several reads, one identity; pages joined by cursors | the view is of one moment; pages cover the history they started with |
| Compiler (`compiler/`, `source_map.py`) | caches of registries, stored builds | handshake, admission, build, validation, grammar help | the binary is replaced between two looks at it; documents that contradict each other | a result names the compiler that made it and says why it failed |
| Processes (`bounded_process.py`, `sandbox.py`) | a child and its descendants | run with a deadline and an output limit | pipes kept open, limits met at once | ended, reaped, reported once |
| Runtime (`runtime/container.py`) | services by name, of applications and of the process | ask, clear, close, install | factories ask for services while others discard them | services that work together are of one generation, each closed once |
| Capability documents, release compatibility, MCP surface, guidance | none | compose texts | - | - |

The components meet in the database: every tool that changes a program, a target,
a contract or a policy ends in the publication protocol of the repository,
`RevisionStore`; the candidates move a branch with a transaction of their own; a
merge under a policy is the repository's merge with checks in front of it. They
meet again in the directories of retained artifacts: builds, runs and
qualifications are published there, evidence is read from there, and an operator
moves entries out and back while all this goes on.

## Modules

| Module | Models |
|---|---|
| `RevisionLog` | what the repository promises: atomic operations on revisions, heads and context documents |
| `RevisionStore` | how the code does it: read, prepare, take the lock, compare heads, commit or roll back, crash |
| `DatabaseOpening` | processes that open a file of any release: inspection, migration, schema script |
| `RevisionDag` | the bounded walk that finds merge bases |
| `EditCandidates` | the candidate service on top of the log: each call as its read and its transaction |
| `MergePolicy` | policies as revisions, previews, preflights and `branch_merge` on top of the log |
| `ProjectMetadata` | build targets, test targets and task contracts as documents of the log |
| `MergeImpact` | on top of it: tests selected by impact, merges behind a validation set |
| `BranchViews` | queues, selected preflights and merge trains as sequences of reads |
| `HistoryPages` | pages of a history and of checkpoints, summaries and status |
| `SexprTree`, `TreeMerge`, `DocumentEdits` | a document as a tree with ids; its three-way merge; versions made by batches of edits, merged and reverted |
| `SourceText` | programs as texts that are rendered, imported, compiled and blamed |
| `ArtifactCatalog` | what retained artifacts promise: under a name nothing, or one complete result |
| `RetainedArtifacts` | how they are published: stage, quota, locks, rename, crashes and power failures |
| `RetentionPlan` | reconciliation and retention plans while artifacts and databases change |
| `Quarantine` | quarantine, restore and permanent deletion of one retained entry, step by durable step, with crashes |
| `TestedMerges` | builds, runs, batches, qualifications and attestations, on top of the log |
| `CompilerContract` | handshake, admission, build and validation against compilers that are replaced |
| `BoundedProcess` | a child process, its pipes, deadline and output limit |
| `RuntimeContainer` | services of a process and of applications, with the threads that ask for them |
| `RevisionLogProofs`, `ProcessProofs`, `EditCandidatesProofs`, `MergePolicyProofs`, `QuarantineProofs`, `RetainedArtifactsProofs`, `TestedMergesProofs`, `RevisionDagProofs` | the theorems |
| `MC...` | instances for TLC |

`RevisionStore` refines `RevisionLog` and `RetainedArtifacts` refines
`ArtifactCatalog`. `EditCandidates`, `MergePolicy`, `BranchViews`, `HistoryPages`,
`ProjectMetadata` and `TestedMerges` are built on the atomic operations of
`RevisionLog`, which the first refinement justifies, and in `TestedMerges` a
publication is one step, which the second one does. Some MC modules run several
specifications side by side that share nothing: a variable `part` says which one
moves, the others stay where they start, and a property says something only of its
own part.

### State and actions

*Revisions.* `revs` is the `revisions` table with the snapshot and the document
links of each; an id is the position in commit order (the code draws a fresh
uuid). `heads` is the `branches` table. A text is identified by the revision that
wrote it, so a node-by-node merge of a document that both sides changed is a new
text or a conflict. That identification can tell apart two texts that happen to
be equal; no property below depends on their being equal. `branch`, in a
revision, is not a column: it remembers on which branch the revision was committed.

*Processes.* In `RevisionStore` each client is one server process with one call
at a time, as the server is single threaded. `Start...` are the reads with which
a call begins (`_state_for_write`, `merge`, `create_branch`), `Prepare...` compute
the new snapshot from immutable revisions, `Begin`/`Busy` are BEGIN IMMEDIATE and
its timeout, `Commit`/`Rollback` end the transaction, `Crash` is the death of the
process. Readers in WAL mode do not see the writes of an open transaction, so
they happen in `Commit`. `ExpectedHeads` lists what each kind of transaction
compares: both heads of a merge, the head branched from, nothing for
`create_branch_at_revision`. All calls that publish through `_commit` pass
expected heads; its form without them, which moves the branch unconditionally, is
reached by no tool and is not modelled. A node edit, a batch and a task-scoped
batch are all `PrepareEdit`: one document replaced. `checkout` is left out too: it sets a branch to any revision of its project without
comparing the head (`service.py:98-110`), and is an internal recovery primitive
(`docs/architecture.md:74`) which neither MCP nor the public workspace exposes. After
one, commits may be missing from their branch, so what is said below of heads holds
while nobody calls it.

*Candidates.* In `EditCandidates` a call is its first read of the candidate's row
and then one step for its transaction, which checks again what the code checks
again: `StillAsRead` compares status and head, `Abandon` only the status. apply,
qualify, abandon and revert_last begin with the same read, so which of them runs
is chosen in the transaction. Other tools act through the atomic operations of
`RevisionLog`, which `RevisionStore` is proved to implement. `edits` and
`required` remember what was applied and what publication demanded.
`created_at` has whole seconds and ties are broken by random ids: `Qualify` may
insert a row before the one just recorded.

*Policies.* In `MergePolicy` an operation is kept for each revision; `PolicyAt` is
the walk of `MergePolicyRegistry.get` along first parents. An id of a preview or
a preflight is a hash and is modelled by what it hashes. An agent can present
only an id that was reported to it. The order of reads is that of the code:
policy, policy again when a preflight is replayed, target head, source head,
transaction. Of candidates only what branches see is here: `EditCandidate` commits a
revision on no branch, `PublishCandidate` sets a branch to a revision. Which one, the
recorded base decides: from it to the head lead edits of the candidate and nothing else
(`EditsLead`, which `EditCandidates` shows of its candidates as `EditsInForce`). With
`CallerBases` the caller may give a base instead, and any revision of the project may be the
head.

*Documents.* In `SexprTree` a tree is a nested record, as in the code; an id is a
number, drawn in order where the code draws it at random, and a value stands for
kind and content of an atom. `DocumentEdits` keeps three versions of one document
and one draft: `StartBatch` copies a version, each edit is one operation of
`EditBatchExecutor` with its checks in its guard, `Abort` is any refusal and
leaves nothing, `Commit` is the validation at the end and the publication. The
single-node tools do the same to the tree as a batch of one. A create may replay
an id (`ReplayNodeIds`), which the code accepts if the tree has no such node. In
a revert `selected` is the edit of the reverted revision: it makes `base`, later
batches make `ours`, and `theirs` stays the first parent. `MergeNode` is
`_merge_node` case by case; conflicts are kept as pairs of node and kind, without
their paths. Limits on the size of a tree are left out.

*Quarantine.* `live` is the directory entry under the retained name, `capsules`
the hidden directory of each plan (`.quarantine-...`, with the suffix `.staging`
until it is published), and `journals`, `restores` and `deletes` are the files of
the control directory. Each action is what lies between two durable steps of
`quarantine`, `restore` or `delete`; `Stop` is a failed check or the death of the
process between any two of them, and drops the lock, which is an flock. A step
that a crash has made durable stays: the code synchronizes files and directories
before it goes on. `live.by` remembers which restore put the entry back, because
a rename changes the entry's ctime and with it what `verify_normalized` compares:
after a restore the old plan no longer matches. `Outside` is the part of a capsule
that a snapshot of the artifact roots sees. A deletion is identified by the
verification it names, and that by the database snapshot, so `deletes` has one
record for each plan and database.

*Opening.* `file` has the schema version, the objects that exist, the rows of the
snapshot tables and the revisions that need them; `Script` is the order in which
the schema script makes objects, each statement committed by itself. An opener
inspects, migrates in one transaction and completes; it may be busy or die at any
step. A snapshot is its text and the text its encoding stands for.

*Merge bases.* `dag` is any small graph with two revisions and two limits; each
action is one revision taken from the queue, or one of the topological pass. A merge of
branches with one head names it twice: the walk counts two edges and follows one
(`Followed`).

*Metadata.* `entries` keeps what each revision did: the documents it wrote as
trees with the identity of their nodes (`made`). A call reads a head and publishes
if it is still the head. `PublishMerged` puts
documents together, for merges and reverts, and applies `Checks` to the whole. The text of a source is the
set of edits it is made of.

*Impact.* `gate` is a merge that is analysed, validated target by target and
published, with the two heads read again every time; `tested` is what an agent
knows to have passed, which it carries from one revision to the next by what a plan
selects. Compiling and testing succeed; a failure ends the gate.

*Views.* `reader` captures all heads, then previews one source after another and,
for preflights and trains, captures again. A train's state is kept in memory and
starts every step from the common ancestor with the target as it is. In
`HistoryPages` a client follows cursors; a head that has moved is read again by
each call.

*Artifacts.* `entry` is what lies under a final name, `publisher` a process with
its stage and with what it moved aside, `moved` what operators took away (one slot
for a name). A power failure damages what was not synchronized and may undo a
rename. `RetentionPlan` reads families one after the other, each entry with a stamp
that stands for its inode and times; the database may be replaced by another one
between calls. A verifier verifies again what the entry rests on (`RestsOn`,
`Support`: a qualification its builds, an attestation its qualification), so an entry may
become corrupt and good again without a change of its own.

*Evidence.* A subject is a revision or the virtual merge of two heads; a build, run,
batch, qualification or attestation names the evidence it rests on, and every
reader verifies that again (`RunVerifies`, `QualificationVerifies` and so on). The
compiler need not be reproducible: the same subject may give different executables.

*Compilers.* A compiler is the content of a binary and so its hash. A call looks at
the path several times, and anybody may replace the file in between. `Advertised`
gives each compiler's registry, `Reports` whatever it may leave behind a build.

*Texts.* A text is a sequence of characters of a few kinds. The tokenizer, the
parser with its marks, the renderings with their layout, the source of a compiler
and the map of its spans are functions on these.

*Processes.* `BoundedProcess` has the leader and one descendant, each holding the
ends of two pipes; the caller's loop is one action for each turn, in the form of
the bounded process or that of the sandbox. A signal takes effect in a later step.

*Runtime.* A thread asks a container for a service; under its lock a factory runs
and asks for others, of the container of its application or of the one the process
has at that moment. What is cleared or closed leaves its container under the lock
and is closed without it.

## Runs

| Run | Shows | Bounds |
|---|---|---|
| `revision_store` | two processes, all operations, crashes: types and lock (`TypeOK`), `NoLostUpdate`, `SnapshotProvenance`, `ContextSound`, and `LogSpec`: the store implements the log. Apart from that, compilers that are replaced: results were made by the compiler they name (`ContractHeld`), and builds say why they failed (`BuildsExplained`) | 1 project, 2 branches, 2 programs, 1 context document, 5 revisions; 3 compilers, 2 replacements, 1 stored build |
| `revision_calls` | `ProjectClosed` with two projects; a call that waits for a child process ends clean (`CallsEndClean`); under fairness every call returns, whatever it waits for (`EverybodyReturns`) | 2 projects, 2 branches, 4 revisions; 2 processes that write 4, output limit 2 |
| `edit_candidates` | two processes on two candidates of one branch, or on one candidate qualified twice and published to branches that move and appear: `EditsInForce`, `PublishedStays`, `ClosedForGood`, `PublishedAsQualified`, `FastForwards` | 4 revisions, 2 candidates and 1 qualification; or 3, 1 and 2 on 2 branches |
| `caller_bases` | finding 1: `FastForwards` fails once callers give an expected base | 1 branch, 4 revisions |
| `merge_policy` | reviewed merges obey the policy and publish what was reviewed (`ReviewedMergesObeyPolicy`, `ReviewedMergesAreExact`, `PolicyAuthority`); `MergeBasesExact` in every small history; views of one moment and trains that foretell (`ViewsHold`); `HistoryToldTruly`; `MetadataHolds`; `ImpactComplete` | see below |
| `unreviewed_merges` | finding 2: `MergesObeyPolicy` fails without a reviewed id | 2 branches, 3 revisions, 2 policies besides none |
| `document_edits` | every three edits of two versions of a document, in batches, and their merge: batches work on a tree whatever ids they replay, with live aliases (`DraftsValid`); a clean merge makes exactly the changes of both sides (`CleanMergeComplete`), keeps their orders (`OrdersKept`), and meets the same conflicts in both directions (`DirectionsAgree`). Databases of older releases survive being opened (`DataOutlastsOpening`). Texts are read back as what they were (`TextsReadBack`), and diagnostics lead to their nodes (`DiagnosticsLocate`). Services that work together belong together (`ServicesBelongTogether`) | see below |
| `later_edits` | finding 4: `LaterEditsConflict` fails | 2 edits |
| `retention` | publishers, crashes, power failures, operators: `WithinQuota`, `BackupsLast`, and `CatalogSpec`: publication implements the catalog; `PlansSpareEvidence`; two quarantine plans for one name, crashes between any two steps, retries: `PayloadConserved`, `CapsulesUsable` | see below |
| `deleted_is_gone` | finding 3: `DeletedIsGone` fails | 2 plans, 2 payloads, 2 database snapshots |
| `failed_builds` | finding 5: `FailedBuildsReplaced` fails | as `retention` |
| `tested_merges` | an agent tests revisions and virtual merges and attests committed ones while heads move and builds are shared, replaced and moved: `AttestedIsTested`, `EvidenceStaysReadable`, `CurrentAtCompletion` | 7 revisions, 2 executables, 3 runs, 1 qualification, 1 build moved away |

### Bounds, and why they are enough

*Repository.* A lost update needs two publications over one head, three revisions;
a merge of two diverged branches four; a revert of something merged five. Two
processes suffice for a race of two calls, and a process waiting for the lock meets
one that holds it. `RoomForCall` (`RevisionStore`) starts a call only while every
running call can still publish within `MaxRevs`, so the bound never blocks a
running call. In `revision_calls` nobody turns to the other project before there is a
first (`FirstFirst`): projects are alike. In the modules on top of the log, `MaxRevs`, `MaxCandidates` and
`MaxQualifications` are guards of the steps that use them up, and a call may fail at
the bound.

*Compilers* (`MaxReplaced` 2, `MaxStored` 1). A replacement in one call and one
between two calls; registries of two cores and one that contradicts itself; every
combination of exit, executable, nine forms of diagnostics and five manifests. The
binary found on PATH is there throughout.

*Processes* (`OutputLimit` 2, `MaxWritten` 4). One descendant that keeps a pipe, leaves
the group or both; the limit met exactly, passed, and met at the deadline.

*Candidates.* A race needs a base, two edits and an edit elsewhere. Where candidates are
qualified twice and published, nobody abandons them.

*The parts of* `merge_policy`. Policies: 2 branches, 3 revisions (`PolicyRevs`: a base, a
policy or an edit of a candidate, and a merge), 2 policies besides none, no context documents,
candidates published at their recorded base (`CallerBases` FALSE); what an agent has
reviewed is what it presents next, and for what it reviewed, as no other call looks at it
(`ReviewsPresented`). Merge bases: every history of at most
5 revisions (`MaxNodes`), revisions that name one parent twice included, where one of the two
revisions is the last, as a shorter history is
one of them too; limits that bite and limits that do not; 5 revisions hold a criss-cross. Views: 3 branches in four histories, one view (`MaxViews`) of `Main`, the sources of
all but trains in the order of their names, two
revisions by others. Pages: the longest branch of these, where one branch goes on from another, pages of 1 and 2, scans
of 1 to 3 (`MaxScan` is the limit of any call), one reading (`MaxWalks`). Metadata: two sources,
one build target, one test, two contracts, from a project of 2 or 3 revisions to 5.
Impact: 4 documents, from 4 revisions, others moving up to 5 and a merge behind the gate up to 6
(`MaxGated`), gates of `Main`, one agent besides. In the other parts every revision counts as an
edit of the two sources (`SourcesEdited`), and policies need only one of them.

*The parts of* `document_edits`. The document has two lists, one empty, and an atom,
so that a node can move in and out of a list, beside another and with its whole
subtree; two edits of one side (`MaxPerLine`) make the pairs that matter, and one of
the other meets them (`MaxEdits` 3); as no side sees the other, ours is edited before
theirs (`SidesInTurn`). Opening: two processes on ten files, from none
to one of a newer release, with size limits at which a text fits but not its
encoding, or one text but not two (`SizeLimit`, `PackedLimit`, `RevisionLimit`,
`ModuleLimit`), and up to 2 revisions (`MaxRevisions`). Texts: lines of 12 characters
(`LineWidth`), on which the programs partly fit; 2 edits or imports (`MaxChanges`);
strings with every character that is escaped, sources with every error. Reading
back and locating are apart, as neither changes what the other looks at. Services: two threads,
two containers of the process and one of an application, three services that depend
on one another, 3 built altogether (`MaxValues`); calls of applications and of the
process never meet in a container and are checked apart (`OfOneKind`).

*The parts of* `retention`. Publication: two publishers and two names of size 2 under
a quota of 3: a build and a piece of evidence, or a candidate and a backup. Plans: a candidate build, the qualification
that rests on it and an attestation that rests on the qualification, three families, each
verified with what it rests on and with the database, 3
changes of the disk and 2 replacements of the database (`MaxChanges`, `MaxSwaps`): one
between the two reads of a reconciliation and one back. Quarantine: a second
payload can take the name of the first while that is in a capsule, a second plan
can quarantine what the first has restored, and the database changes between a
verification and the deletion and again before its retry; the steps of an operation,
its crashes and retries are not bounded.

*Evidence.* One agent against single steps of everybody else, on two diverged
branches; two variants of the compiler's output show what is not reproducible; a
batch of two runs and one more (`MaxRuns` 3), of revisions of `Main`; builds are moved
once (`MaxMoves`), where virtual merges are tested.

Runs say CHECK_DEADLOCK FALSE because a system that reached its bound, with
everybody idle, stops.

*Symmetry* is that of processes, programs and executables, and in `deleted_is_gone` of plans
and payloads; it is used only in runs without liveness. In `retention` the symmetry of plans and
payloads is broken by naming the first of each instead.

*Fairness.* `Fairness` of `RevisionStore` is weak fairness of each process's own
steps: a process that is not killed goes on executing its call. It never has to
start one and may die at any time. Waiting for the lock is bounded by the busy
timeout that `Database.__init__` sets, so `Busy` is one of the steps.
`ProcessFairness` of `BoundedProcess` is weak fairness of the caller's loop, of the
two clocks, and of the death of a process that was sent SIGKILL; what the child and
its descendant do of themselves is never fair, they may write, hold their pipes and
live for ever.

## Findings

1. *An expected base given by the caller* (`caller_bases`). `candidate_publish`
   takes `expected_base_revision_id` and compares the branch with it instead of
   the recorded base (`edit_candidates.py:236`). The branch is then set to the
   candidate's head even if that head does not descend from the branch: commits
   made since disappear from it. `docs/architecture.md:140` promises a fast-forward
   "only when the branch is still at the recorded base"; `docs/edit-candidates.md`
   mentions the parameter and still says that "the branch fast-forwards". Without
   the parameter all is well (`edit_candidates`).
2. *A merge without a reviewed id* (`unreviewed_merges`). `branch_merge` reads the
   target's policy first and the heads later, and its transaction compares only
   the heads. A policy set in between is in force at the revision the merge
   extends and is not enforced. `docs/merge-policy.md:101`: "The target branch's
   current first-parent policy governs publication." With a preview or preflight id
   the merge is tied to heads that had been read before the policy, and the
   property holds (`merge_policy`).
3. *A deletion retried after a restore* (`deleted_is_gone`). `delete` makes its
   intent durable and dies before it removes anything. The operator restores the
   payload and later runs the same delete again: a stored intent skips the
   verification, `_continue_delete` finds no capsule and returns
   (`artifacts/quarantine/deletion.py:198`), and a durable result says that the
   payload, which is live, was permanently deleted.
   `docs/artifact-retention-lifecycle.md:140`: "A successful restore makes the
   payload live again and invalidates deletion of that capsule." Nothing is
   removed; it is the evidence that is wrong. For plans nobody restores the
   same holds as part of `PayloadConserved` (`retention`).
4. *A revert of something moved later* (`later_edits`). A revision creates a node,
   a later one wraps it or moves it into another list, and the first is reverted.
   `_merge_node` sees the node missing on both sides of the list it was created in
   (`sexpr_service.py:727`) and counts that as one change; where it is now it
   counts as an addition of ours. The revert is clean and the node stays.
   `docs/immutable-revert.md:38`: "A later edit to the same stable node or document
   region is not guessed through; it becomes an explicit conflict."

5. *A failed build of a virtual merge* (`failed_builds`). Builds of revisions move a
   failed directory aside; builds of virtual merges find the name taken and raise an
   error (`merges/candidate_build.py:570`), so a merge whose build has failed once can be
   built and tested no more until an operator moves the directory away.
   `docs/architecture.md:206`: "Virtual merge-candidate builds follow the same
   compiler and artifact rules", which are (`docs/compiler-bridge.md:152`): "failed or
   corrupt existing directories are moved aside". A remedy must take care: moving a
   failed build aside while a qualification rests on it makes that unreadable, which
   is the mutant `ReplacesFailed` of `EvidenceStaysReadable`.

### Preconditions of the properties

`CleanMergeComplete` and `OrdersKept` carry the hypothesis `NoNodeContested`: no
node was created, moved or deleted by both sides, except deleted by both. Without it
they fail: if both sides move a list to the same place and one had put a node into
it before, `_merge_additions` keeps the list of ours and drops the node, without a
conflict. No document promises otherwise for merges, so this is recorded as a
hazard and not as a finding.

`ReviewedMergesObeyPolicy`, `ReviewedMergesAreExact` and `PolicyAuthority` are checked and proved
with candidates published at the base recorded for them (`CallerBases` FALSE), which is the
default. With a base that the caller gives, the behaviour of finding 1, a branch may be set to
any revision of its project, and so to one of another lineage: then the policy in force there
changes although no `merge_policy_set` was published on it, against
`docs/merge-policy.md:115-119`, and a branch that goes back to a head read earlier lets a merge
be published under a policy that was read in between. The same moves of heads are outside
`ViewsHold`, `HistoryToldTruly`, `MetadataHolds`, `ImpactComplete` and `CurrentAtCompletion`,
whose modules move heads by the operations of `RevisionLog` only.

`PlansSpareEvidence` is about evidence that was there, with all it is verified with, when the
entries were located. An entry fails to verify while something it rests on is damaged or away;
if that is published again, or put back, after its family was scanned for the last time, the
entry is reachable evidence when the plan completes, and is selected. The plan only says what
could go: a quarantine makes it again, from a fresh reconciliation, before it moves anything
(`artifacts/quarantine/service.py:114`).

`ContractHeld` leaves out binaries replaced during a call (`disturbed`): a binary replaced
between hashing and handshake caches the new registry under the old hash, and one
replaced between hashing and running makes a build or a validation name a compiler
that did not run. `WithinQuota` leaves out names to which operators have returned
an entry, for which nobody reserves space. `TrainsForetell` (in `ViewsHold`) is about
sources that share no history beyond the target: a train always merges from the common ancestor with the
original target. `TextsReadBack` is about legible trees: edits check of a symbol only that it
is a string, and one with digits, parentheses, spaces or the mark of an id does not
read back as itself. `BuildsExplained` leaves out a compiler that claims success and
has written no executable: such a build fails without a diagnostic.
`MetadataHolds` leaves out the tests that a contract requires: `test_target_delete`
does not ask contracts. `ServicesBelongTogether` says of closing that no *one* thread
closes a service before another that was built from it: two threads that discard
at once may.

### Observations

Met while modelling, each by reading and not by a run of its own:

- Grammar help takes its forms from the present registry and names the registry of
  the startup as its source.
- Ordinary node tools may edit the documents that hold targets and contracts.
- The write path does not enforce the limits on the modules and decoded bytes of a
  revision, so that a revision may be accepted that cannot be loaded.
- A crash, or a second opener, during the first creation of a database leaves
  version 0 with some tables, which every later opening refuses as
  `MISSING_DATABASE_TABLES`; an inspection that meets another opener's migration
  may fail although nothing is wrong.
- A contract that came by a merge from another branch cannot be read by
  `task_get`; a revert can take a status back from complete.
- Workspace capabilities look for a compiler on PATH when the configured one is
  missing; validation and the bridge do not.
- A service that is being built while another container is installed for the
  process may take its dependencies from the new one, and is then closed with the
  old. Installing an old container again while its close is pending would leave the
  process with a closed one; the model installs each once.

## Proofs

TLAPS proves what follows for any projects, branches, programs, documents, names,
plans and payloads, and any number of processes. The bounds that TLC needs are
constants in guards and may be any number.

*`RevisionLogProofs`.* `LogWellFormed`: the log is well typed, parents are earlier
revisions of the same project, heads are revisions of theirs. This is inductive by
itself. `LogKeepsUpdates`, `LogKeepsProvenance` and `LogContextSound` follow from
it with lemmas on histories. Ancestry is defined without recursion (membership in
every closed set that contains the descendant), so that the lemmas need no
induction: a set closed in the longer log, restricted to the old ids, is closed in
the old one (`HistoryOfOldKept`), and a new revision's history is its parents' and
itself (`HistoryExtended`). `LogMergesExact` shows of the log that whatever is published
with a second parent is the merge from the one best common ancestor of its parents, and
stays so: the ancestors of a revision never change.

*`ProcessProofs`.* The inductive invariant `StoreInv` adds to the log's
invariant the types, that the holder of the lock is the one process inside a
transaction, and, for every running call (`CallInv`), that what it remembers is
still true: the heads it read are revisions of its project, its snapshot is what
the operation would compute from them. Nothing else connects a step `Commit` to
what the call read long before: immutability of revisions makes the prepared
snapshot valid for as long as the heads compare equal. `StoreImplementsLog` shows
that each step is an operation of the log or a stutter; the properties of the log
then hold for the store (`StoreKeepsUpdates`, `StoreProjectClosed`,
`StoreKeepsProvenance`, `StoreContextSound`).

The module also holds the proofs about what a call waits for and relies on.
*Child processes* (`ProcessInv`): every byte written is captured or still in a pipe,
unless a limit has cut it (`Conserved`); a stream is given up only at its end
(`AtEnd`); and the flags name the reason why a collection has stopped (`StoppedFor`). So
an outcome that names no limit has the whole output, and no process of the group outlives
the call: `ChildCallsEndClean`. *Compilers* (`ContractInv`): as long as no binary was
replaced in the middle of the call, whatever a call has looked at is still so at each later
stage (`StillSo`): a registry is that of the binary whose hash it is cached under, and
a stored build is by the compiler it is stored under. `ContractsHeld` follows;
`EveryBuildExplained` holds for any reports that a compiler may leave. *Opening*
(`OpeningInv`): the rows that were found are all there, in the table that the schema
objects say is the one to read (`RowsHold`, `Retabled`); how much of the script a process has
run, the file has (`ScriptRun`), since no process takes an object away but the table that a
migration replaces; and with a database that is refused nobody gets past the checks
(`RefusedSoFar`). `DatabasesOutlastOpening` needs also that moving rows from one table
to another changes no text, and so not what loads (`LoadsMoved`).

*`EditCandidatesProofs`.* `CandidatesInv` says of every row that its base, head and
edits are revisions of its project and that the edits in force lead from the base to
the head, first parent by first parent (`EditsLead`), and of every call what it may
still rely on although it read the row long before (`CallOK`). An append extends the
chain by a revision whose first parent is the old head, because the transaction
compares the head again; a revert_last takes the last link away. From it follow
`CandidatesWellFormed` and `CandidatesKeepEdits`; `CandidatesClosedForGood` (every
transaction compares the status) and `CandidatesPublishedAsQualified` (the
qualification that a publication has seen stays on record, and was of the head it
compares) are proved from it step by step. `BranchesFastForward` and
`PublishedStayPublished` carry the hypothesis `~CallerBases`, that no caller gives
an expected base of its own, which is the default of `candidate_publish`; finding 1
is what happens otherwise.

*`MergePolicyProofs`.* The difficulty is that `branch_merge` reads the policy before
the head it extends. `PolicyInv` keeps, for every running merge, the revision at which the
policy was read (`AdmittedAt`), and three inequalities: the reviewed head is not
later than that revision, that revision not later than the head that is extended,
and no branch goes back. Publication asks that the reviewed head is the extended
one, so that all three are equal and the policy that admitted the merge is the one it
must obey: `ReviewedMergesObey`, `ReviewedMergesExact`. Without a review the first
inequality is missing, which is finding 2. The invariant also carries that every
history with a policy has a latest one (`LatestKnown`): the proof needs no
induction on the length of a history, since each step adds one revision.
`PolicySetOnBranch` is about steps: a merge takes the policy of its first parent, and a candidate
that of the head its edits lead from (`EditsLead`): what sets a policy is a revision of a branch
(`SettersOwned`), which an edit of a candidate is not, so that none lies between the two heads
(`AuthorityOfCandidate`). These three theorems carry the hypothesis `~CallerBases`, without
which branches go back and the third inequality is lost; `PolicyWellFormed` does not need it.

`HistoryPagesToldTruly` is about readers of the log. First parents are a chain
(`LineageIsChain`: of two revisions of one lineage, the earlier is in the lineage of the
later), so that a walk which has come to a revision has met everything newer in the lineage
and nothing else (`NextOlder`); `PagesInv` says that what was read, followed by the rows of
the page that is being read, lists exactly what is due of it (`ToldOK`). Branches move meanwhile,
but a lineage never changes (`LineageKept`) and that of a head is part of that of every later
head (`BranchGrows`), so a cursor stays findable: the search for it passes only
revisions that are newer than it (`CheckOK`). The theorem starts from any log with `LogInv`,
not only from those that a run starts from.

*`QuarantineProofs`.* `QuarantineInv` says where the payload of each plan is, in terms of
the plan's durable records and of the place, files and payload of its capsule
(`CapsuleOK`), and what the running operation has done (`RunningOK`). The argument is
that an entry which a plan has moved never lives again: what is restored is another
entry (`by`), so no plan moves a payload twice, a capsule once decided is never
filled again, and every payload is in one place until somebody decides to delete the
capsule that holds it (`HeldOnce`). `PayloadsConserved`, `CapsulesStayUsable` and
`QuarantineWellFormed` follow.

`CompletedPlansSpareEvidence` is about retention plans (`PlanInv`). What was chosen
is eligible by the classification and the database that the plan's policy identifies
(`ChosenOK`); a plan completes only when a second classification equals it. Between the two,
everything may change, and an entry may verify again because something it rests on came back. The
argument is therefore about an entry with its whole `Support`: as long as none of it has been put
there since it was located (`AsLocated`; no stamp is used twice, `LocatedOK`), its bytes only get worse. What the
second scan finds corrupt has then something in its support that is still bad, or whose revisions
the database read before the scan did not hold (`RescanOK`), and that database is the one at the
end. So what verifies at the end with all of its support as located was found good by the scan;
and as evidence is reached through revisions it is about itself (`AnchorsAssumption`), it was
reachable by the scan as well, and not eligible.

*`RetainedArtifactsProofs`.* What the holder of the quota's lock has measured can only
shrink while it publishes, but for what operators put back; and what it moved aside
to give back later was either counted or itself put back (`RoomLeft`). That, with the
exclusion of the two locks (`PublisherOK`) and what a backup is before anybody can
find it (`BackupOK`), is `PublicationInv`, from which `QuotaKept` and
`ReportedBackupsLast` follow. `ArtifactsAreACatalog` shows that every step is one of
`ArtifactCatalog` or a stutter. `Retained` is a sum over a finite set, a fold, and is
reasoned about by `SubsetInduction`: a family of subsets of a finite set that holds the
empty set, and with a set also each set of one element more, holds them all. That
is a first-order consequence of the well-foundedness of strict inclusion, and gives that the
function behind the fold exists and is unique (`SumTaken`), and that sums split, keep
order, and change with the one term that changed (`SumParts`, `SumOrdered`,
`SumChanges`).

*`TestedMergesProofs`.* `EvidenceInv` rests on two facts about steps: revisions never
change, so that a virtual merge reconstructed later is the one that was tested
(`StateKept`); and whoever publishes takes no good build away and no build of a
virtual merge at all (`BuildsStay`). Every build, wherever it is now, was made of its
subject, and every running call keeps what its results describe (`CallOK`), through
builds that others replace between its reads. `AttestedMergesTested` and
`EvidenceGoesOnToVerify` follow. For `CurrentWhenCompleted` a call remembers how long the
log was when its results were complete: a head compared later that is still the one
that was read was the latest of its branch then (`HeadsLatest`, `NoneLater`), so that two
reads at different times suffice. `InvFromParts` reduces every step to what it writes.

*`RevisionDagProofs`.* `BasesAreExact`: what `analyze_common_ancestors` computes is what
`MergeBases` defines, for any two revisions of any history, with revisions that name one parent
twice, and any limits. An edge is a revision with a place in its list of parents (`EdgesOf`), as
the code counts them. While it
walks (`WalkOK`), a parent of what a side has reached is reached from that side or queued for
it, and the nodes and edges counted are those of the revisions known, so that a walk that ends
has reached both histories whole and a limit is met only by what belongs to them. In the
topological pass (`OrderOK`), what is marked lies below a common revision, and whatever is
processed and is common or marked has its parents marked. In the end a common revision and all
that is marked are closed under parents and so hold its whole history: a common revision below
another is marked. That the pass ends with nothing left over needs that the last of the revisions
left has no child left; that two revisions have a common ancestor, that every history holds
the first revision. Both take the least or the greatest of a set of numbers, from the
well-foundedness of `<`. The invariant is stated of any graph and any values, so that a step is
a fact without primes.

On `LogMergesExact` rests `ViewsCanBeActedUpon`, about views of several branches. *The moment they
show* (`ReadingOK`): heads only move to later revisions, so what is read lies between the catalog
and the heads; of a page each preview is compared with the catalog, and of preflights and
trains the second catalog, equal to the first, leaves no room in between. *Trains*: in a chain of
merges of the sources, a revision of the chain holds only the target's history, those of the
sources merged so far, and the chain (`ChainHoldsOnly`). When no two sources share what the target
does not have, what the next source shares with the chain is either what it shares with the target,
and the base is the same, or it holds a revision of the chain itself, which then
has merged nothing new (`NothingNew`) and has the target's texts. Either way the base holds the
same texts as that of the train's step (`SameBaseTexts`), and so does the merge: no
step is the first to differ (`TrainForetells`). The theorem starts from any repository (`Repository`)
with what `LogWellFormed`, `LogKeepsProvenance` and `LogMergesExact` say of every log, and in which
every branch that has a head has committed it. That last hypothesis is about the repository that is
found: `ViewsHold` tells the head of a branch at an earlier moment from the revisions committed
on it, and the repositories of the run are such.

`MetadataReliable` and `ImpactIsComplete` are about the documents in which targets and contracts
are kept. *Metadata* (`MetadataInv`): each document holds a tree of its sort, whatever a snapshot
shows was written by the entry of the revision it names, and in the state of every revision
targets and contracts resolve and are acyclic. Each operation is a `SoundRevision` of the head it
extends; the head it read long before is compared in the same transaction, so what it checked is
the state it changes. Merges are checked when they are made, except for one thing that nobody
checks: that a complete contract stays complete. There the base decides (`MergedStaysComplete`):
a contract complete in one side was completed there alone, or in both alike, or before the base,
from where both sides kept it unless one reverted. *The gate* (`ImpactInv`): what was analysed, compiled
and tested are facts about revisions (`AnalysisOK`, `CandidateTested`), which never change, so that
only the two heads need to be compared at the end; a target that is not affected has the
same sources in the target branch and in the merge (`Affected`), and a test that is not selected runs
the same as before. Both theorems start from any history that is itself sound (`Founded`), as
a project with only its first revision is (`NewProjectFounded`) and those of the run are, and assume
that every document is of one sort (`DocumentsApart`): their names differ by prefix. Ordinary node tools on these documents (see
the observations) are not among the operations.

The proofs assume what the modules assume of their constants and TLC evaluates in the
runs: `ConstantsAssumption` (there is a project, `Main` is a branch, `NoBranch` is
not, the bound is a number), `ClientsAssumption`, `CandidatesAssumption`,
`PoliciesAssumption`, `PagesAssumption`, `QuarantineAssumption`, `ProcessAssumption`,
`ContractAssumption`, `OpeningAssumption` (limits and sizes are numbers), `PublicationAssumption`
(names are finitely many and have sizes; the values that stand for nobody and nothing are no
others'), `DagAssumption` (revisions are numbered so that parents come first; the first has none,
the others one or two, which may be the same), `ReportsAssumption` (an executable is there or not, and a document of
diagnostics that could be read is a list), `FilesAssumption` (a file that is found was written by
some release: its rows are in the table that release reads and belong to revisions of it),
`PlanAssumption` (families are counted from 1; what an entry rests on is among what its manifest
names), `AnchorsAssumption` (what evidence rests on
is about the revisions it names itself or about ancestors of theirs, and a database holds whole
histories: `artifacts/reconciliation/service.py:597-670`; otherwise an artifact could
be reachable through evidence whose revisions are there while its own are not) and
`EvidenceAssumption` (the repository that is found was committed revision by revision; a selection
of tests is not empty, which `_validate_selection` of `test_batches.py` and
`merge_candidate_test_runs.py` refuse). All
inductive invariants were checked by TLC on the bounds of the runs before they were
proved.

*Only model-checked*: `EverybodyReturns`, since liveness under fairness is outside the
prover's reach; and the properties of `DocumentEdits`, `SourceText` and `RuntimeContainer`,
which rest on recursive operators on trees, texts and services.

## Not modelled yet, and the plan

1. The comparison of two checkpoints and resume snapshots: more readers in the
   manner of `HistoryPages`.
2. Batches of permanent deletions, the holding period, and the age of stages in a
   retention plan.
3. Additional sources and compiler options of build targets; the limit on affected
   targets in a policy.
4. Limits on the sizes of trees and texts.
5. More than one slot for what operators move aside, and builds that are replaced
   and moved back while a test of them runs.

Left out for good: wording (guidance, layout of answers), the shapes of tools'
arguments, the manifest of capabilities and release compatibility, which compare
documents and keep no state, and the compiler itself, which is an outcome.
