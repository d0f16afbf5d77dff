----------------------------- MODULE MergePolicy -----------------------------
(****************************************************************************)
(* Admission of merges: a branch's merge policy is a revision of that       *)
(* branch, and branch_merge publishes only what the policy of the target    *)
(* allows (mcp_policy, merges.policy, merges.preflight, merges.preview).    *)
(*                                                                          *)
(* branch_merge reads the policy, then the two heads, and publishes with a  *)
(* transaction that compares the heads.  A caller may present the id of a   *)
(* preview or a preflight it has reviewed; the call goes on only if its own *)
(* reads give that id again.  An id is a hash, modelled by what it hashes.  *)
(*                                                                          *)
(* A publication is one atomic operation of RevisionLog, which              *)
(* RevisionStore implements; of edit candidates only their revisions and    *)
(* publications are modelled here, the rest in EditCandidates.  The policy  *)
(* of the source branch is advisory and left out, and so is the number of   *)
(* targets a policy lets one merge validate.  The merge of a branch into    *)
(* itself is left to RevisionStore.                                         *)
(****************************************************************************)
EXTENDS RevisionLog, FiniteSetsExt

CONSTANTS
  Clients,      \* agents; each has one call running at a time
  Policies,     \* the policies that somebody may set
  CallerBases   \* may candidate_publish be given an expected base by its caller?

VARIABLES
  operations,   \* the operation each revision records: how it came about
  reviewed,     \* the last preview or preflight reported to each agent
  calls         \* the call of each agent

vars == <<revs, heads, documents, operations, reviewed, calls>>

\* require_preflight, require_affected_validation, allow_uncovered_documents
Policy == {p \in [preflight : BOOLEAN, affected : BOOLEAN, uncovered : BOOLEAN] :
             p.preflight => p.affected}

ASSUME PoliciesAssumption == Policies \subseteq Policy /\ CallerBases \in BOOLEAN

\* What holds as long as nobody has set a policy.
Unconfigured == [preflight |-> FALSE, affected |-> FALSE, uncovered |-> TRUE]

Review == [kind : {"none", "preview", "preflight"}, target : Keys, source : Keys,
           targetHead : Nat, sourceHead : Nat, policy : Policy, uncovered : BOOLEAN]

SomeKey == CHOOSE k \in Keys : TRUE

NoReview == [kind |-> "none", target |-> SomeKey, source |-> SomeKey,
             targetHead |-> NoRev, sourceHead |-> NoRev,
             policy |-> Unconfigured, uncovered |-> FALSE]

\* `affected`, `uncovered` and `review` record, for the properties, what a merge
\* was published with: all affected targets validated, uncovered documents
\* accepted, the id presented.
Operation == [kind : {"edit", "set_merge_policy", "merge"}, policy : Policy,
              affected : BOOLEAN, uncovered : BOOLEAN, review : Review]

Edit == [kind |-> "edit", policy |-> Unconfigured,
         affected |-> FALSE, uncovered |-> FALSE, review |-> NoReview]

Idle == [pc |-> "idle", op |-> "preview", target |-> SomeKey, source |-> SomeKey,
         policy |-> Unconfigured, affected |-> FALSE, uncovered |-> FALSE,
         review |-> NoReview, targetHead |-> NoRev, sourceHead |-> NoRev]

Call == [pc : {"idle", "policy", "target", "source", "ready"},
         op : {"preview", "preflight", "merge"}, target : Keys, source : Keys,
         policy : Policy, affected : BOOLEAN, uncovered : BOOLEAN,
         review : Review, targetHead : Nat, sourceHead : Nat]

TypeOK ==
  /\ LogTypeOK
  /\ operations \in Seq(Operation)
  /\ Len(operations) = Len(revs)
  /\ reviewed \in [Clients -> Review]
  /\ calls \in [Clients -> Call]

\* Nobody reviews or merges yet.
NoReviews ==
  /\ operations = [r \in RevIds |-> Edit]
  /\ reviewed = [c \in Clients |-> NoReview]
  /\ calls = [c \in Clients |-> Idle]

Init == LogInit /\ NoReviews

\* Mutant: the walk also follows second parents.
PolicyOfAnyParent(r) ==
  LET sets == {s \in RevIds : /\ operations[s].kind = "set_merge_policy"
                              /\ InHistory(s, r)}
  IN  IF sets = {} THEN Unconfigured ELSE operations[Max(sets)].policy

\* The policy in force at a revision: the latest one set on the way back along
\* first parents.
PolicyAt(r) ==
  LET sets == {s \in RevIds : /\ operations[s].kind = "set_merge_policy"
                              /\ OnFirstParentHistory(s, r)}
  IN  IF sets = {} THEN Unconfigured ELSE operations[Max(sets)].policy

------------------------------------------------------------------------------
(* Publications of other tools, and set_merge_policy *)

Records(op) == operations' = Append(operations, op)

SetPolicy ==
  /\ Len(revs) < MaxRevs
  /\ \E k \in Keys, p \in Policies :
       /\ heads[k] # NoRev
       /\ Publish(k, heads[k], NoRev, revs[heads[k]].snap, {}, {})
       /\ Records([Edit EXCEPT !.kind = "set_merge_policy", !.policy = p])
  /\ UNCHANGED <<reviewed, calls>>

Elsewhere ==
  /\ Len(revs) < MaxRevs
  /\ \/ /\ \/ \E p \in Projects : InitProject(p)
           \/ \E k \in Keys, m \in Modules : WriteModule(k, m)
        /\ Records(Edit)
     \/ /\ \E k \in Keys, r \in RevIds : CreateBranchAt(k, r)
        /\ UNCHANGED operations
  /\ UNCHANGED <<reviewed, calls>>

\* A candidate's edit: a revision that belongs to no branch.
EditCandidate ==
  /\ Len(revs) < MaxRevs
  /\ \E r \in RevIds, m \in Modules :
       /\ revs[r].snap[m] # Absent
       /\ InsertRevision(<<revs[r].project, NoBranch>>, NoBranch, r, NoRev, revs[r].snap, {m}, {})
  /\ Records(Edit)
  /\ UNCHANGED <<heads, reviewed, calls>>

\* Do edits of candidates, and nothing else, lead from base to head?
EditsLead(base, head) ==
  /\ OnFirstParentHistory(base, head)
  /\ \A r \in RevIds :
        OnFirstParentHistory(r, head) /\ ~OnFirstParentHistory(r, base) => revs[r].branch = NoBranch

\* The branch moves to a candidate's head, which every revision may be: one without
\* edits has its base for a head.  The branch is at the base that was recorded,
\* or at the one its caller gives instead, whatever the candidate was made from.
PublishCandidate ==
  /\ \E k \in Keys, head \in RevIds :
       /\ heads[k] # NoRev
       /\ revs[head].project = k[1]
       /\ CallerBases \/ EditsLead(heads[k], head)
       /\ heads' = [heads EXCEPT ![k] = head]
  /\ UNCHANGED <<revs, documents, operations, reviewed, calls>>

------------------------------------------------------------------------------
(* The calls.  First read: the policy of the target, for all but a preview. *)

Continue(c, call) ==
  /\ calls' = [calls EXCEPT ![c] = call]
  /\ UNCHANGED <<revs, heads, documents, operations, reviewed>>

CanStart(c, target, source) ==
  /\ calls[c].pc = "idle"
  /\ target # source
  /\ target[1] = source[1]
  /\ NoRev \notin {heads[target], heads[source]}

StartPreview(c, target, source) ==
  /\ CanStart(c, target, source)
  /\ Continue(c, [Idle EXCEPT !.pc = "target", !.target = target, !.source = source])

StartPreflight(c, target, source) ==
  /\ CanStart(c, target, source)
  /\ \E uncovered \in BOOLEAN :
       /\ uncovered => PolicyAt(heads[target]).uncovered
       /\ Continue(c, [Idle EXCEPT !.pc = "target", !.op = "preflight",
                                   !.target = target, !.source = source,
                                   !.policy = PolicyAt(heads[target]),
                                   !.uncovered = uncovered])

\* Mutant: a missing preflight is not noticed.
AdmitsUnreplayed(policy, review, affected, uncovered) ==
  /\ uncovered => policy.uncovered
  /\ policy.affected => affected

\* Does the policy admit a merge with these arguments?
Admits(policy, review, affected, uncovered) ==
  /\ uncovered => policy.uncovered
  /\ policy.affected => affected
  /\ policy.preflight => review.kind = "preflight"

StartMerge(c, target, source) ==
  /\ CanStart(c, target, source)
  /\ \E review \in {NoReview, reviewed[c]}, affected, uncovered \in BOOLEAN :
       /\ uncovered => affected
       /\ review.kind = "preflight" => affected
       /\ Admits(PolicyAt(heads[target]), review, affected, uncovered)
       /\ Continue(c, [Idle EXCEPT
            !.pc = IF review.kind = "preflight" THEN "policy" ELSE "target",
            !.op = "merge", !.target = target, !.source = source, !.review = review,
            !.affected = affected, !.uncovered = uncovered])

\* Replaying a preflight starts with the policy again.
RereadPolicy(c) ==
  LET call   == calls[c]
      policy == PolicyAt(heads[call.target])
  IN  /\ call.pc = "policy"
      /\ call.uncovered => policy.uncovered
      /\ Continue(c, [call EXCEPT !.pc = "target", !.policy = policy])

ReadTarget(c) ==
  /\ calls[c].pc = "target"
  /\ Continue(c, [calls[c] EXCEPT !.pc = "source", !.targetHead = heads[calls[c].target]])

\* Both heads are known: without a single merge base the call ends here.
ReadSource(c) ==
  LET call == calls[c]
  IN  /\ call.pc = "source"
      /\ Cardinality(BestCommonAncestors(call.targetHead, heads[call.source])) = 1
      /\ Continue(c, [call EXCEPT !.pc = "ready", !.sourceHead = heads[call.source]])

\* What a preview id or a preflight id stands for.
Identity(call, kind) ==
  LET preview == [NoReview EXCEPT !.kind = kind, !.target = call.target,
                                  !.source = call.source,
                                  !.targetHead = call.targetHead,
                                  !.sourceHead = call.sourceHead]
  IN  CASE kind = "none"      -> NoReview
        [] kind = "preview"   -> preview
        [] kind = "preflight" -> [preview EXCEPT !.policy = call.policy,
                                                 !.uncovered = call.uncovered]

Report(c) ==
  LET call == calls[c]
  IN  /\ call.pc = "ready"
      /\ call.op \in {"preview", "preflight"}
      /\ reviewed' = [reviewed EXCEPT ![c] = Identity(call, call.op)]
      /\ calls' = [calls EXCEPT ![c] = Idle]
      /\ UNCHANGED <<revs, heads, documents, operations>>

\* Mutant: the publishing transaction forgets one of the heads.
TargetAsRead(call) == heads[call.target] = call.targetHead

HeadsAsRead(call) ==
  /\ heads[call.target] = call.targetHead
  /\ heads[call.source] = call.sourceHead

\* Mutant: the merge is published without its operation.
MergeUnrecorded(c) ==
  LET call == calls[c]
  IN  /\ call.pc = "ready" /\ call.op = "merge"
      /\ call.review = Identity(call, call.review.kind)
      /\ HeadsAsRead(call)
      /\ Len(revs) < MaxRevs
      /\ Merge(call.target, call.source)
      /\ calls' = [calls EXCEPT ![c] = Idle]
      /\ UNCHANGED <<reviewed, operations>>

\* The id presented is the one the call's own reads give; then the transaction.
\* Affected targets that do not validate, and conflicts, end the call.
PublishMerge(c) ==
  LET call == calls[c]
  IN  /\ call.pc = "ready" /\ call.op = "merge"
      /\ call.review = Identity(call, call.review.kind)
      /\ HeadsAsRead(call)
      /\ Len(revs) < MaxRevs
      /\ Merge(call.target, call.source)
      /\ Records([Edit EXCEPT !.kind = "merge", !.affected = call.affected,
                              !.uncovered = call.uncovered, !.review = call.review])
      /\ calls' = [calls EXCEPT ![c] = Idle]
      /\ UNCHANGED reviewed

\* Any check above fails, or the process dies.
Fail(c) ==
  /\ calls[c].pc # "idle"
  /\ Continue(c, Idle)

------------------------------------------------------------------------------
Start(c) ==
  \E target, source \in Keys :
     \/ StartPreview(c, target, source)
     \/ StartPreflight(c, target, source)
     \/ StartMerge(c, target, source)

Next ==
  \/ SetPolicy
  \/ Elsewhere
  \/ EditCandidate
  \/ PublishCandidate
  \/ \E c \in Clients :
       \/ Start(c)
       \/ RereadPolicy(c)
       \/ ReadTarget(c)
       \/ ReadSource(c)
       \/ Report(c)
       \/ PublishMerge(c)
       \/ Fail(c)

Spec == Init /\ [][Next]_vars

------------------------------------------------------------------------------
Merges == {r \in DOMAIN operations : operations[r].kind = "merge"}

\* Did merge r respect the policy in force at its first parent?
ObeysPolicy(r) ==
  LET op     == operations[r]
      policy == PolicyAt(revs[r].parent1)
  IN  /\ policy.preflight => op.review.kind = "preflight"
      /\ policy.affected => op.affected
      /\ op.uncovered => policy.uncovered

\* Every merge respects the policy in force at the revision it extends: what
\* docs/merge-policy.md says of the target branch's current policy.
MergesObeyPolicy == \A r \in Merges : ObeysPolicy(r)

\* A merge that presented a preview or a preflight respects that policy,
\* although branch_merge reads the policy and the heads at different times.
ReviewedMergesObeyPolicy ==
  \A r \in Merges : operations[r].review.kind # "none" => ObeysPolicy(r)

\* What a merge published is exactly what its caller had reviewed: the same two
\* heads and, for a preflight, the policy in force at the reviewed target.
ReviewedMergesAreExact ==
  \A r \in Merges :
     LET review == operations[r].review
     IN  review.kind # "none" =>
           /\ revs[r].parent1 = review.targetHead
           /\ revs[r].parent2 = review.sourceHead
           /\ review.kind = "preflight" => review.policy = PolicyAt(review.targetHead)

\* The policy of a branch changes only when it is set on that very branch: no
\* merge, whatever its source, and no candidate published at the base recorded
\* for it brings in another policy.  One published at its caller's base may.
PolicyAuthority ==
  [][\A k \in Keys :
        heads[k] # NoRev /\ PolicyAt(heads[k])' # PolicyAt(heads[k]) =>
           /\ operations'[heads'[k]].kind = "set_merge_policy"
           /\ revs'[heads'[k]].parent1 = heads[k]]_vars

==============================================================================
