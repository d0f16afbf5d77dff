-------------------------- MODULE MergePolicyProofs --------------------------
(****************************************************************************)
(* Proofs about MergePolicy and HistoryPages, for any number of agents,     *)
(* branches, policies and revisions.                                        *)
(*                                                                          *)
(* branch_merge reads the policy before it reads the head that it will      *)
(* extend.  The policy it has read is that head's all the same whenever the *)
(* caller presents a review: heads only move forward, the review was of a   *)
(* head no later than the one the policy was read at, and publication asks  *)
(* that it is of the very head extended.  PolicyInv says so with the        *)
(* revision at which the policy was read (AdmittedAt).                      *)
(*                                                                          *)
(* Heads move forward while no caller of candidate_publish gives a base of  *)
(* its own; what rests on it carries the hypothesis ~CallerBases, and the   *)
(* types do not.  A candidate that is published then has only edits of      *)
(* candidates above the old head, and these set no policy (SettersOwned).   *)
(****************************************************************************)
EXTENDS MergePolicy, HistoryPages, RevisionLogProofs, FiniteSetTheorems, SequenceTheorems

\* The revisions up to r, on its branch, that set a policy.
Setters(r) == {s \in RevIds : /\ operations[s].kind = "set_merge_policy"
                              /\ OnFirstParentHistory(s, r)}

\* One of them is the latest.
LatestKnown ==
  \A h \in RevIds : Setters(h) # {} =>
     \E s \in Setters(h) : \A q \in Setters(h) : s >= q

\* Policies are set on branches.
SettersOwned ==
  \A s \in RevIds : operations[s].kind = "set_merge_policy" => revs[s].branch # NoBranch

\* The branch has not gone back since the review.
ReviewOK(review) ==
  ~CallerBases /\ review.kind # "none" =>
     heads[review.target] \in RevIds /\ review.targetHead <= heads[review.target]

\* The policy of the call was that of revision h.
AdmittedAt(call, h) ==
  /\ h <= heads[call.target]
  /\ call.review.kind # "none" /\ call.review.target = call.target =>
        call.review.targetHead <= h
  /\ call.pc \in {"source", "ready"} => h <= call.targetHead
  /\ Admits(PolicyAt(h), call.review, call.affected, call.uncovered)
  /\ call.review.kind = "preflight" /\ call.pc # "policy" => call.policy = PolicyAt(h)

CallOK(call) ==
  /\ ReviewOK(call.review)
  /\ call.pc # "idle" => heads[call.target] \in RevIds
  /\ ~CallerBases /\ call.pc \in {"source", "ready"} => call.targetHead <= heads[call.target]
  /\ call.pc = "policy" => call.op = "merge" /\ call.review.kind = "preflight"
  /\ call.review.kind = "preflight" => call.affected
  /\ ~CallerBases /\ call.pc # "idle" /\ call.op = "merge" =>
        \E h \in RevIds : AdmittedAt(call, h)

MergeOK(r) ==
  LET review == operations[r].review
  IN  ~CallerBases /\ review.kind # "none" =>
        /\ revs[r].parent1 \in RevIds
        /\ revs[r].parent1 = review.targetHead
        /\ revs[r].parent2 = review.sourceHead
        /\ review.kind = "preflight" => review.policy = PolicyAt(review.targetHead)
        /\ ObeysPolicy(r)

PolicyInv ==
  /\ TypeOK
  /\ ProjectClosed
  /\ LatestKnown
  /\ SettersOwned
  /\ \A c \in Clients : ReviewOK(reviewed[c]) /\ CallOK(calls[c])
  /\ \A r \in Merges : MergeOK(r)

------------------------------------------------------------------------------
(* Policies of existing revisions                                           *)

\* PolicyAt in terms of Setters.
LEMMA PolicyOfSetters ==
  ASSUME NEW h
  PROVE  PolicyAt(h) = IF Setters(h) = {} THEN Unconfigured
                                          ELSE operations[Max(Setters(h))].policy
  BY DEF PolicyAt, Setters

\* The latest of the revisions that set a policy is one of them.
LEMMA LatestSetter ==
  ASSUME LatestKnown, NEW h \in RevIds, Setters(h) # {}
  PROVE  Max(Setters(h)) \in Setters(h)
  <1>1. \E s \in Setters(h) : \A q \in Setters(h) : s >= q
    BY DEF LatestKnown
  <1>2. QED
    BY <1>1 DEF Max

\* The policy in force at a revision is a policy.
LEMMA PolicyType ==
  ASSUME TypeOK, LatestKnown, NEW h \in RevIds
  PROVE  PolicyAt(h) \in Policy
  <1>1. Unconfigured \in Policy
    BY DEF Unconfigured, Policy
  <1>2. ASSUME Setters(h) # {}
        PROVE  operations[Max(Setters(h))].policy \in Policy
    <2>1. Max(Setters(h)) \in RevIds
      BY <1>2, LatestSetter DEF Setters
    <2>2. operations[Max(Setters(h))] \in Operation
      BY <2>1 DEF TypeOK, LogTypeOK, RevIds
    <2>3. QED
      BY <2>2 DEF Operation
  <1>3. QED
    BY <1>1, <1>2, PolicyOfSetters

\* The operations of the revisions are never rewritten.
OperationsGrow == \A r \in RevIds : operations'[r] = operations[r]

\* What was the policy of a revision once stays its policy.
LEMMA PolicyStays ==
  ASSUME LogInv, LatestKnown, LogGrows, OperationsGrow, NEW h \in RevIds
  PROVE  Setters(h)' = Setters(h) /\ PolicyAt(h)' = PolicyAt(h)
  <1>1. Setters(h)' \subseteq Setters(h)
    BY FirstParentStays DEF Setters, OperationsGrow
  <1>2. Setters(h) \subseteq Setters(h)'
    BY FirstParentGrows DEF Setters, OperationsGrow, LogGrows
  <1>3. Setters(h)' = Setters(h)
    BY <1>1, <1>2
  <1>4. PolicyAt(h)' = IF Setters(h)' = {} THEN Unconfigured
                       ELSE operations'[Max(Setters(h)')].policy
    BY DEF PolicyAt, Setters
  <1>5. Setters(h) # {} => Max(Setters(h)) \in RevIds
    BY LatestSetter DEF Setters
  <1>6. QED
    BY <1>3, <1>4, <1>5, PolicyOfSetters DEF OperationsGrow

------------------------------------------------------------------------------
(* What a publication does                                                  *)

\* Revision n, made by operation op, is new and extends h.
Extends(n, h, op) ==
  /\ n \in Nat
  /\ n \notin RevIds
  /\ RevIds' = RevIds \cup {n}
  /\ \A r \in RevIds : r <= n
  /\ LogGrows
  /\ OperationsGrow
  /\ revs'[n].parent1 = h
  /\ operations'[n] = op
  /\ op.kind = "set_merge_policy" => revs'[n].branch # NoBranch

\* It is the new head of branch k.
NewRevision(n, k, op) == Extends(n, heads[k], op) /\ heads' = [heads EXCEPT ![k] = n]

\* Publishing a revision and recording how it came about.
LEMMA Publishes ==
  ASSUME PolicyInv, NEW k \in Keys, NEW p2 \in RevIds \cup {NoRev},
         NEW snap \in Snapshots, NEW written \in SUBSET Modules,
         NEW extra \in SUBSET Contents, NEW op \in Operation,
         p2 # NoRev => revs[p2].project = k[1],
         Publish(k, heads[k], p2, snap, written, extra), Records(op)
  PROVE  \E n \in Nat : /\ NewRevision(n, k, op)
                        /\ revs'[n].parent2 = p2
                        /\ operations' \in Seq(Operation)
                        /\ Len(operations') = Len(revs')
  <1>1. LogInv
    BY DEF PolicyInv, TypeOK, LogInv
  <1>2. PICK n \in Nat : n = Len(revs) + 1
    BY <1>1 DEF LogInv, LogTypeOK
  <1>3. /\ Len(revs) \in Nat
        /\ Len(revs') = n
        /\ RevIds' = RevIds \cup {n}
        /\ n \notin RevIds
        /\ \A r \in RevIds : revs'[r] = revs[r]
        /\ revs'[n].parent1 = heads[k]
        /\ revs'[n].parent2 = p2
        /\ revs'[n].branch = k[2]
        /\ heads' = [heads EXCEPT ![k] = n]
    BY <1>1, <1>2, PublishFacts
  <1>4. operations \in Seq(Operation) /\ Len(operations) = Len(revs)
    BY DEF PolicyInv, TypeOK
  <1>5. operations' = Append(operations, op)
    BY DEF Records
  <1>6. /\ operations' \in Seq(Operation)
        /\ Len(operations') = n
        /\ operations'[n] = op
        /\ \A r \in 1 .. Len(operations) : operations'[r] = operations[r]
    BY <1>2, <1>3, <1>4, <1>5
  <1>7. \A r \in RevIds : r <= n
    BY <1>2, <1>3 DEF RevIds
  <1>8. LogGrows /\ OperationsGrow
    BY <1>3, <1>4, <1>6 DEF LogGrows, OperationsGrow, RevIds
  <1>9. k[2] # NoBranch
    BY ConstantsAssumption DEF Keys
  <1>10. QED
    BY <1>3, <1>6, <1>7, <1>8, <1>9 DEF NewRevision, Extends

\* The first-parent history of the new revision: itself and what was below the
\* old head.
LEMMA BelowNew ==
  ASSUME LogInv, LogGrows, NEW n, n \notin RevIds, RevIds' = RevIds \cup {n},
         NEW h, revs'[n].parent1 = h, h # NoRev => h \in RevIds, NEW r
  PROVE  r \in RevIds' /\ OnFirstParentHistory(r, n)' <=>
            r = n \/ (h # NoRev /\ r \in RevIds /\ OnFirstParentHistory(r, h))
  <1>1. ASSUME r \in RevIds', OnFirstParentHistory(r, n)', r # n
        PROVE  h # NoRev /\ OnFirstParentHistory(r, h)'
    <2>1. ASSUME h = NoRev PROVE FALSE
      <3>1. {n} \in SUBSET RevIds' /\ FirstParentClosed({n})'
        BY <2>1 DEF FirstParentClosed
      <3>2. QED
        BY <1>1, <3>1 DEF OnFirstParentHistory
    <2>2. ASSUME NEW S \in SUBSET RevIds', h \in S, FirstParentClosed(S)'
          PROVE  r \in S
      <3>1. FirstParentClosed(S \cup {n})'
        BY <2>2 DEF FirstParentClosed
      <3>2. r \in S \cup {n}
        BY <1>1, <3>1 DEF OnFirstParentHistory
      <3>3. QED
        BY <1>1, <3>2
    <2>3. QED
      BY <2>1, <2>2 DEF OnFirstParentHistory
  <1>2. ASSUME h # NoRev, OnFirstParentHistory(r, h)'
        PROVE  r \in RevIds /\ OnFirstParentHistory(r, h)
    BY <1>2, FirstParentStays
  <1>3. OnFirstParentHistory(n, n)'
    BY DEF OnFirstParentHistory
  <1>4. ASSUME h # NoRev, r \in RevIds, OnFirstParentHistory(r, h)
        PROVE  r \in RevIds' /\ OnFirstParentHistory(r, n)'
    BY <1>4, FirstParentExtends DEF LogGrows
  <1>5. QED
    BY <1>1, <1>2, <1>3, <1>4

\* A revision that sets no policy has that of the revision it extends.
LEMMA SettersOfNew ==
  ASSUME LogInv, NEW n, NEW h, h # NoRev => h \in RevIds, NEW op, Extends(n, h, op)
  PROVE  /\ op.kind # "set_merge_policy" /\ h = NoRev => Setters(n)' = {}
         /\ op.kind # "set_merge_policy" /\ h # NoRev => Setters(n)' = Setters(h)
         /\ op.kind = "set_merge_policy" => n \in Setters(n)'
         /\ \A s \in Setters(n)' : s \in RevIds \cup {n}
  <1>1. /\ n \notin RevIds /\ RevIds' = RevIds \cup {n} /\ LogGrows /\ OperationsGrow
        /\ revs'[n].parent1 = h /\ operations'[n] = op
    BY DEF Extends
  <1>2. \A r : r \in RevIds' /\ OnFirstParentHistory(r, n)' <=>
           r = n \/ (h # NoRev /\ r \in RevIds /\ OnFirstParentHistory(r, h))
    BY <1>1, BelowNew
  <1>3. \A r \in RevIds' : operations'[r] = IF r = n THEN op ELSE operations[r]
    BY <1>1 DEF OperationsGrow
  <1>4. Setters(n)' = {s \in RevIds' : /\ operations'[s].kind = "set_merge_policy"
                                       /\ OnFirstParentHistory(s, n)'}
    BY DEF Setters
  <1>5. Setters(h) = {s \in RevIds : /\ operations[s].kind = "set_merge_policy"
                                     /\ OnFirstParentHistory(s, h)}
    BY DEF Setters
  <1>6. \A s : s \in Setters(n)' <=>
            \/ s = n /\ op.kind = "set_merge_policy"
            \/ h # NoRev /\ s \in Setters(h)
    BY <1>1, <1>2, <1>3, <1>4, <1>5
  <1>7. \A s \in Setters(n)' : s \in RevIds \cup {n}
    BY <1>1, <1>4
  <1>8. QED
    BY <1>6, <1>7

\* There is a latest revision that set a policy below every revision, still.
LEMMA LatestStays ==
  ASSUME LogInv, LatestKnown, NEW n, NEW p, p # NoRev => p \in RevIds, NEW op,
         Extends(n, p, op)
  PROVE  LatestKnown'
  <1>1. ASSUME NEW h \in RevIds
        PROVE  Setters(h)' # {} =>
                  \E s \in Setters(h)' : \A q \in Setters(h)' : s >= q
    BY PolicyStays DEF LatestKnown, Extends
  <1>2. ASSUME Setters(n)' # {}
        PROVE  \E s \in Setters(n)' : \A q \in Setters(n)' : s >= q
    <2>1. CASE op.kind = "set_merge_policy"
      <3>1. n \in Setters(n)' /\ \A s \in Setters(n)' : s \in RevIds \cup {n}
        BY <2>1, SettersOfNew
      <3>2. n \in Nat /\ \A r \in RevIds : r <= n
        BY DEF Extends
      <3>3. \A r \in RevIds : r \in Nat
        BY DEF RevIds
      <3>4. QED
        BY <3>1, <3>2, <3>3
    <2>2. CASE op.kind # "set_merge_policy"
      <3>1. Setters(n)' = Setters(p) /\ p \in RevIds
        BY <1>2, <2>2, SettersOfNew
      <3>2. QED
        BY <1>2, <3>1 DEF LatestKnown
    <2>3. QED
      BY <2>1, <2>2
  <1>3. QED
    BY <1>1, <1>2 DEF LatestKnown, Extends

------------------------------------------------------------------------------
(* What a step leaves alone                                                 *)

\* No branch disappears, or goes back unless a caller's base lets it.
HeadsForward ==
  \A k \in Keys : heads[k] \in RevIds =>
     heads'[k] \in RevIds' /\ (~CallerBases => heads[k] <= heads'[k])

\* A publication moves one branch forward.
LEMMA NewIsForward ==
  ASSUME LogInv, NEW n, NEW k \in Keys, NEW op, NewRevision(n, k, op)
  PROVE  HeadsForward
  <1>1. heads \in [Keys -> Nat] /\ heads' = [heads EXCEPT ![k] = n]
    BY DEF NewRevision, LogInv, LogTypeOK
  <1>2. n \in RevIds' /\ RevIds \subseteq RevIds' /\ \A r \in RevIds : r <= n
    BY DEF NewRevision, Extends
  <1>3. \A j \in Keys : heads'[j] = IF j = k THEN n ELSE heads[j]
    BY <1>1
  <1>4. \A j \in Keys : heads[j] \in Nat /\ (heads[j] \in RevIds => heads[j] \in RevIds')
    BY <1>1, <1>2
  <1>5. QED
    BY <1>2, <1>3, <1>4 DEF HeadsForward

\* What agents have reviewed is still no later than the heads.
LEMMA ReviewKept ==
  ASSUME LogInv, HeadsForward, NEW review \in Review, ReviewOK(review)
  PROVE  ReviewOK(review)'
  <1>1. review.target \in Keys /\ review.targetHead \in Nat
    BY DEF Review
  <1>2. ASSUME ~CallerBases, review.kind # "none"
        PROVE  heads'[review.target] \in RevIds' /\ review.targetHead <= heads'[review.target]
    <2>1. heads[review.target] \in RevIds /\ review.targetHead <= heads[review.target]
      BY <1>2 DEF ReviewOK
    <2>2. heads'[review.target] \in RevIds' /\ heads[review.target] <= heads'[review.target]
      BY <1>1, <1>2, <2>1 DEF HeadsForward
    <2>3. heads[review.target] \in Nat /\ heads'[review.target] \in Nat
      BY <2>1, <2>2 DEF RevIds
    <2>4. QED
      BY <1>1, <2>1, <2>2, <2>3
  <1>3. QED
    BY <1>2 DEF ReviewOK

\* A call that a step leaves alone may rely on what it could rely on before.
LEMMA CallKept ==
  ASSUME LogInv, LatestKnown, LogGrows, OperationsGrow, HeadsForward,
         NEW call \in Call, CallOK(call)
  PROVE  CallOK(call)'
  <1>1. /\ call.target \in Keys /\ call.targetHead \in Nat /\ call.review \in Review
    BY DEF Call
  <1>2. ReviewOK(call.review)'
    BY <1>1, ReviewKept DEF CallOK
  <1>3. ASSUME call.pc # "idle"
        PROVE  /\ heads[call.target] \in Nat /\ heads'[call.target] \in Nat
               /\ heads'[call.target] \in RevIds'
               /\ ~CallerBases => heads[call.target] <= heads'[call.target]
    <2>1. heads[call.target] \in RevIds
      BY <1>3 DEF CallOK
    <2>2. /\ heads'[call.target] \in RevIds'
          /\ ~CallerBases => heads[call.target] <= heads'[call.target]
      BY <1>1, <2>1 DEF HeadsForward
    <2>3. QED
      BY <2>1, <2>2 DEF RevIds
  <1>4. ~CallerBases /\ call.pc \in {"source", "ready"} =>
           call.targetHead <= heads'[call.target]
    BY <1>1, <1>3 DEF CallOK
  <1>5. ASSUME ~CallerBases, call.pc # "idle", call.op = "merge"
        PROVE  \E h \in RevIds' : AdmittedAt(call, h)'
    <2>1. PICK h \in RevIds : AdmittedAt(call, h)
      BY <1>5 DEF CallOK
    <2>2. PolicyAt(h)' = PolicyAt(h)
      BY PolicyStays
    <2>3. h <= heads'[call.target]
      BY <1>3, <1>5, <2>1 DEF AdmittedAt, RevIds
    <2>4. AdmittedAt(call, h)'
      BY <2>1, <2>2, <2>3 DEF AdmittedAt, Admits
    <2>5. QED
      BY <2>4 DEF LogGrows
  <1>6. QED
    BY <1>2, <1>3, <1>4, <1>5 DEF CallOK

\* A published merge stays what it should be.
LEMMA MergeKept ==
  ASSUME LogInv, LatestKnown, LogGrows, OperationsGrow, NEW r \in RevIds, MergeOK(r)
  PROVE  MergeOK(r)'
  <1>1. revs'[r] = revs[r] /\ operations'[r] = operations[r]
    BY DEF LogGrows, OperationsGrow
  <1>2. PICK p : p = revs[r].parent1
    OBVIOUS
  <1>3. p \in RevIds => p \in RevIds' /\ PolicyAt(p)' = PolicyAt(p)
    BY PolicyStays DEF LogGrows
  <1>4. ASSUME ObeysPolicy(r), p \in RevIds PROVE ObeysPolicy(r)'
    <2>1. PolicyAt(revs[r].parent1)' = PolicyAt(p)'
      BY <1>1, <1>2 DEF PolicyAt, OnFirstParentHistory
    <2>2. QED
      BY <1>1, <1>2, <1>3, <1>4, <2>1 DEF ObeysPolicy
  <1>5. QED
    BY <1>1, <1>2, <1>3, <1>4 DEF MergeOK

------------------------------------------------------------------------------
(* The invariant, put together again                                        *)

LEMMA NothingReviewed ==
  /\ NoReview \in Review /\ ReviewOK(NoReview)
  /\ Idle \in Call /\ CallOK(Idle)
  /\ Edit \in Operation
  <1>1. SomeKey \in Keys
    <2>1. PICK p \in Projects : TRUE
      BY ConstantsAssumption
    <2>2. <<p, Main>> \in Keys
      BY ConstantsAssumption DEF Keys
    <2>3. QED
      BY <2>2 DEF SomeKey
  <1>2. Unconfigured \in Policy
    BY DEF Unconfigured, Policy
  <1>3. NoReview \in Review
    BY <1>1, <1>2 DEF NoReview, Review, NoRev
  <1>4. ReviewOK(NoReview)
    BY DEF ReviewOK, NoReview
  <1>5. Idle \in Call
    BY <1>1, <1>2, <1>3 DEF Idle, Call, NoRev
  <1>6. CallOK(Idle)
    <2>1. /\ Idle.pc = "idle" /\ Idle.review = NoReview /\ NoReview.kind = "none"
      BY DEF Idle, NoReview
    <2>2. QED
      BY <1>4, <2>1 DEF CallOK
  <1>7. Edit \in Operation
    BY <1>2, <1>3 DEF Edit, Operation
  <1>8. QED
    BY <1>3, <1>4, <1>5, <1>6, <1>7

\* The agents, when a step ends some calls and leaves the others and all reviews
\* alone.
LEMMA AgentsKept ==
  ASSUME PolicyInv, LogGrows, OperationsGrow, HeadsForward, reviewed' = reviewed,
         calls' \in [Clients -> Call],
         \A c \in Clients : calls'[c] \in {calls[c], Idle}
  PROVE  \A c \in Clients : ReviewOK(reviewed[c])' /\ CallOK(calls[c])'
  <1>1. LogInv /\ LatestKnown
    BY DEF PolicyInv, TypeOK, LogInv
  <1>2. TAKE c \in Clients
  <1>3. PICK review \in Review : review = reviewed[c] /\ ReviewOK(review)
    BY DEF PolicyInv, TypeOK
  <1>4. PICK call \in Call : call = calls'[c] /\ CallOK(call)
    <2>1. CASE calls'[c] = calls[c]
      BY <2>1 DEF PolicyInv, TypeOK
    <2>2. CASE calls'[c] = Idle
      BY <2>2, NothingReviewed
    <2>3. QED
      BY <2>1, <2>2
  <1>5. ReviewOK(review)'
    BY <1>1, <1>3, ReviewKept
  <1>6. CallOK(call)'
    BY <1>1, <1>4, CallKept
  <1>7. ReviewOK(reviewed[c])'
    BY <1>3, <1>5 DEF ReviewOK
  <1>8. CallOK(calls[c])'
    BY <1>4, <1>6 DEF CallOK, ReviewOK, AdmittedAt, Admits
  <1>9. QED
    BY <1>7, <1>8

\* The merges, when a step publishes none.
LEMMA MergesKept ==
  ASSUME PolicyInv, LogGrows, OperationsGrow, NEW r \in RevIds, r \in Merges'
  PROVE  MergeOK(r)'
  <1>1. r \in Merges
    BY DEF PolicyInv, TypeOK, LogTypeOK, Merges, OperationsGrow, RevIds
  <1>2. QED
    BY <1>1, MergeKept DEF PolicyInv, TypeOK, LogInv

\* A new revision.
LEMMA ExtensionKeepsInv ==
  ASSUME PolicyInv, LogInv', NEW n, NEW h, h # NoRev => h \in RevIds, NEW op,
         Extends(n, h, op), HeadsForward,
         operations' \in Seq(Operation), Len(operations') = Len(revs'),
         op.kind = "merge" => MergeOK(n)',
         reviewed' = reviewed, calls' \in [Clients -> Call],
         \A c \in Clients : calls'[c] \in {calls[c], Idle}
  PROVE  PolicyInv'
  <1>1. LogInv /\ LatestKnown
    BY DEF PolicyInv, TypeOK, LogInv
  <1>2. LogGrows /\ OperationsGrow
    BY DEF Extends
  <1>3. TypeOK'
    BY DEF PolicyInv, TypeOK, LogInv
  <1>4. ASSUME NEW r \in Merges' PROVE MergeOK(r)'
    <2>1. r \in RevIds \cup {n}
      BY <1>4 DEF LogInv, LogTypeOK, Merges, RevIds, Extends
    <2>2. CASE r = n
      BY <1>4, <2>2 DEF Merges, Extends
    <2>3. CASE r \in RevIds
      BY <1>2, <1>4, <2>3, MergesKept
    <2>4. QED
      BY <2>1, <2>2, <2>3
  <1>5. SettersOwned'
    BY <1>2 DEF PolicyInv, SettersOwned, Extends, LogGrows, OperationsGrow
  <1>6. QED
    BY <1>1, <1>2, <1>3, <1>4, <1>5, LatestStays, AgentsKept DEF PolicyInv, LogInv

\* A publication.
LEMMA NewKeepsInv ==
  ASSUME PolicyInv, LogInv', NEW n, NEW k \in Keys, NEW op, NewRevision(n, k, op),
         operations' \in Seq(Operation), Len(operations') = Len(revs'),
         op.kind = "merge" => MergeOK(n)',
         reviewed' = reviewed, calls' \in [Clients -> Call],
         \A c \in Clients : calls'[c] \in {calls[c], Idle}
  PROVE  PolicyInv'
  <1>1. LogInv
    BY DEF PolicyInv, TypeOK, LogInv
  <1>2. PICK h : h = heads[k]
    OBVIOUS
  <1>3. Extends(n, h, op) /\ (h # NoRev => h \in RevIds)
    BY <1>1, <1>2 DEF NewRevision, LogInv, ProjectClosed
  <1>4. HeadsForward
    BY <1>1, NewIsForward
  <1>5. QED
    BY <1>3, <1>4, ExtensionKeepsInv

\* A step that publishes nothing.
LEMMA QuietKeepsInv ==
  ASSUME PolicyInv, LogInv', HeadsForward, UNCHANGED <<revs, operations>>,
         TypeOK',
         \A c \in Clients : ReviewOK(reviewed[c])' /\ CallOK(calls[c])'
  PROVE  PolicyInv'
  <1>1. LogInv /\ LatestKnown
    BY DEF PolicyInv, TypeOK, LogInv
  <1>2. LogGrows /\ OperationsGrow /\ RevIds' = RevIds /\ Merges' = Merges
    BY DEF LogGrows, OperationsGrow, RevIds, Merges
  <1>3. LatestKnown'
    BY <1>1, <1>2, PolicyStays DEF LatestKnown
  <1>4. ASSUME NEW r \in Merges' PROVE MergeOK(r)'
    <2>1. r \in RevIds
      BY <1>2, <1>4 DEF PolicyInv, TypeOK, LogTypeOK, Merges, RevIds
    <2>2. QED
      BY <1>2, <1>4, <2>1, MergesKept
  <1>5. SettersOwned'
    BY <1>2 DEF PolicyInv, SettersOwned
  <1>6. QED
    BY <1>3, <1>4, <1>5 DEF PolicyInv, LogInv

\* A call goes on.
LEMMA ContinueStep ==
  ASSUME PolicyInv, NEW c \in Clients, NEW call \in Call, CallOK(call),
         Continue(c, call)
  PROVE  PolicyInv'
  <1>1. LogInv /\ LogInv'
    BY DEF PolicyInv, TypeOK, LogInv, LogTypeOK, ProjectClosed, Continue, RevIds
  <1>2. HeadsForward
    BY <1>1 DEF HeadsForward, Continue, RevIds, LogInv, LogTypeOK
  <1>3. calls' = [calls EXCEPT ![c] = call] /\ calls \in [Clients -> Call]
    BY DEF Continue, PolicyInv, TypeOK
  <1>4. TypeOK'
    <2>1. calls' \in [Clients -> Call]
      BY <1>3
    <2>2. QED
      BY <1>1, <2>1 DEF Continue, PolicyInv, TypeOK, LogInv
  <1>5. LatestKnown /\ LogGrows /\ OperationsGrow
    BY DEF PolicyInv, Continue, LogGrows, OperationsGrow, RevIds
  <1>6. ASSUME NEW d \in Clients
        PROVE  ReviewOK(reviewed[d])' /\ CallOK(calls[d])'
    <2>1. ReviewOK(reviewed[d])'
      BY DEF Continue, PolicyInv, ReviewOK, RevIds
    <2>2. PICK other \in Call : other = calls'[d] /\ (other = call \/ other = calls[d])
      BY <1>3
    <2>3. CallOK(other)
      BY <2>2 DEF PolicyInv
    <2>4. CallOK(other)'
      BY <1>1, <1>2, <1>5, <2>3, CallKept
    <2>5. CallOK(calls[d])'
      BY <2>2, <2>4 DEF CallOK, ReviewOK, AdmittedAt, Admits
    <2>6. QED
      BY <2>1, <2>5
  <1>7. QED
    BY <1>1, <1>2, <1>4, <1>6, QuietKeepsInv DEF Continue

------------------------------------------------------------------------------
(* The calls                                                                *)

\* A call starts while the heads it names exist.
LEMMA Starting ==
  ASSUME PolicyInv, NEW c \in Clients, NEW target \in Keys, NEW source \in Keys,
         CanStart(c, target, source)
  PROVE  /\ heads[target] \in RevIds
         /\ PolicyAt(heads[target]) \in Policy
  <1>1. heads[target] \in RevIds
    BY DEF CanStart, PolicyInv, ProjectClosed
  <1>2. QED
    BY <1>1, PolicyType DEF PolicyInv

LEMMA StartPreviewStep ==
  ASSUME PolicyInv, NEW c \in Clients, NEW target \in Keys, NEW source \in Keys,
         StartPreview(c, target, source)
  PROVE  PolicyInv'
  <1> DEFINE call == [Idle EXCEPT !.pc = "target", !.target = target, !.source = source]
  <1>1. call \in Call
    BY NothingReviewed DEF Call
  <1>2. /\ call.pc = "target" /\ call.op = "preview" /\ call.target = target
        /\ call.review = NoReview
    BY DEF Idle
  <1>3. Continue(c, call) /\ heads[target] \in RevIds
    BY Starting DEF StartPreview
  <1> HIDE DEF call
  <1>4. CallOK(call)
    BY <1>2, <1>3, NothingReviewed DEF CallOK, NoReview
  <1>5. QED
    BY <1>1, <1>3, <1>4, ContinueStep

LEMMA StartPreflightStep ==
  ASSUME PolicyInv, NEW c \in Clients, NEW target \in Keys, NEW source \in Keys,
         StartPreflight(c, target, source)
  PROVE  PolicyInv'
  <1>1. PICK uncovered \in BOOLEAN, policy \in Policy :
          /\ policy = PolicyAt(heads[target])
          /\ Continue(c, [Idle EXCEPT !.pc = "target", !.op = "preflight",
                                      !.target = target, !.source = source,
                                      !.policy = policy, !.uncovered = uncovered])
    BY Starting DEF StartPreflight
  <1> DEFINE call == [Idle EXCEPT !.pc = "target", !.op = "preflight",
                                  !.target = target, !.source = source,
                                  !.policy = policy, !.uncovered = uncovered]
  <1>2. call \in Call
    BY NothingReviewed DEF Call
  <1>3. /\ call.pc = "target" /\ call.op = "preflight" /\ call.target = target
        /\ call.review = NoReview
    BY DEF Idle
  <1>4. Continue(c, call) /\ heads[target] \in RevIds
    BY <1>1, Starting DEF StartPreflight
  <1> HIDE DEF call
  <1>5. CallOK(call)
    BY <1>3, <1>4, NothingReviewed DEF CallOK, NoReview
  <1>6. QED
    BY <1>2, <1>4, <1>5, ContinueStep

\* A merge relies on the policy at the head of its target.
LEMMA StartMergeStep ==
  ASSUME PolicyInv, NEW c \in Clients, NEW target \in Keys, NEW source \in Keys,
         StartMerge(c, target, source)
  PROVE  PolicyInv'
  <1>1. PICK review \in {NoReview, reviewed[c]}, affected, uncovered \in BOOLEAN :
          /\ uncovered => affected
          /\ review.kind = "preflight" => affected
          /\ Admits(PolicyAt(heads[target]), review, affected, uncovered)
          /\ Continue(c, [Idle EXCEPT
               !.pc = IF review.kind = "preflight" THEN "policy" ELSE "target",
               !.op = "merge", !.target = target, !.source = source, !.review = review,
               !.affected = affected, !.uncovered = uncovered])
    BY Zenon DEF StartMerge
  <1>2. review \in Review /\ ReviewOK(review)
    BY NothingReviewed DEF PolicyInv, TypeOK
  <1> DEFINE call == [Idle EXCEPT
               !.pc = IF review.kind = "preflight" THEN "policy" ELSE "target",
               !.op = "merge", !.target = target, !.source = source, !.review = review,
               !.affected = affected, !.uncovered = uncovered]
  <1>3. call \in Call
    BY <1>2, NothingReviewed DEF Call
  <1>4. /\ call.pc = IF review.kind = "preflight" THEN "policy" ELSE "target"
        /\ call.op = "merge" /\ call.target = target
        /\ call.review = review /\ call.affected = affected /\ call.uncovered = uncovered
    BY DEF Idle
  <1>5. Continue(c, call)
    BY <1>1
  <1> HIDE DEF call
  <1>6. PICK h \in RevIds : h = heads[target]
    BY Starting DEF StartMerge
  <1>7. ~CallerBases => AdmittedAt(call, h)
    BY <1>1, <1>2, <1>4, <1>6 DEF AdmittedAt, ReviewOK, RevIds
  <1>8. CallOK(call)
    BY <1>1, <1>2, <1>4, <1>6, <1>7 DEF CallOK
  <1>9. QED
    BY <1>3, <1>5, <1>8, ContinueStep

\* A call under way.
LEMMA UnderWay ==
  ASSUME PolicyInv, NEW c \in Clients, calls[c].pc # "idle"
  PROVE  \E call \in Call, h \in RevIds :
           /\ call = calls[c] /\ CallOK(call) /\ call.target \in Keys
           /\ h = heads[call.target] /\ PolicyAt(h) \in Policy
  <1>1. PICK call \in Call : call = calls[c] /\ CallOK(call)
    BY DEF PolicyInv, TypeOK
  <1>2. heads[call.target] \in RevIds /\ call.target \in Keys
    BY <1>1 DEF CallOK, Call
  <1>3. PICK h \in RevIds : h = heads[call.target]
    BY <1>2
  <1>4. PolicyAt(h) \in Policy
    BY PolicyType DEF PolicyInv
  <1>5. QED
    BY <1>1, <1>2, <1>3, <1>4

LEMMA RereadPolicyStep ==
  ASSUME PolicyInv, NEW c \in Clients, RereadPolicy(c)
  PROVE  PolicyInv'
  <1>1. PICK old \in Call, h \in RevIds :
          /\ old = calls[c] /\ CallOK(old) /\ old.target \in Keys
          /\ h = heads[old.target] /\ PolicyAt(h) \in Policy
    BY UnderWay DEF RereadPolicy
  <1>2. PICK policy \in Policy : policy = PolicyAt(h)
    BY <1>1
  <1> DEFINE call == [old EXCEPT !.pc = "target", !.policy = policy]
  <1>3. old.pc = "policy" /\ (old.uncovered => policy.uncovered) /\ Continue(c, call)
    BY <1>1, <1>2 DEF RereadPolicy
  <1>4. call \in Call
    BY DEF Call
  <1>5. /\ call.pc = "target" /\ call.policy = policy /\ call.op = old.op
        /\ call.target = old.target /\ call.review = old.review
        /\ call.affected = old.affected /\ call.uncovered = old.uncovered
    BY DEF Call
  <1> HIDE DEF call
  <1>6. old.op = "merge"
    BY <1>1, <1>3 DEF CallOK
  <1>7. ASSUME ~CallerBases PROVE AdmittedAt(call, h)
    <2>1. h <= heads[call.target] /\ (call.review.kind # "none" /\ call.review.target = call.target
             => call.review.targetHead <= h)
      BY <1>1, <1>5, <1>7 DEF CallOK, ReviewOK, RevIds
    <2>2. Admits(PolicyAt(h), call.review, call.affected, call.uncovered)
      BY <1>1, <1>2, <1>3, <1>5 DEF Admits, CallOK
    <2>3. QED
      BY <1>2, <1>5, <2>1, <2>2 DEF AdmittedAt
  <1>8. CallOK(call)
    BY <1>1, <1>5, <1>6, <1>7 DEF CallOK
  <1>9. QED
    BY <1>3, <1>4, <1>8, ContinueStep

LEMMA ReadTargetStep ==
  ASSUME PolicyInv, NEW c \in Clients, ReadTarget(c)
  PROVE  PolicyInv'
  <1>1. PICK old \in Call, head \in RevIds :
          /\ old = calls[c] /\ CallOK(old) /\ old.target \in Keys
          /\ head = heads[old.target]
    BY UnderWay DEF ReadTarget
  <1>2. head \in Nat
    BY DEF RevIds
  <1> DEFINE call == [old EXCEPT !.pc = "source", !.targetHead = head]
  <1>3. old.pc = "target" /\ Continue(c, call)
    BY <1>1 DEF ReadTarget
  <1>4. call \in Call
    BY <1>2 DEF Call
  <1>5. /\ call.pc = "source" /\ call.targetHead = head /\ call.policy = old.policy
        /\ call.op = old.op /\ call.target = old.target /\ call.review = old.review
        /\ call.affected = old.affected /\ call.uncovered = old.uncovered
    BY DEF Call
  <1> HIDE DEF call
  <1>6. ASSUME ~CallerBases, call.op = "merge"
        PROVE  \E h \in RevIds : AdmittedAt(call, h)
    <2>1. PICK h \in RevIds : AdmittedAt(old, h)
      BY <1>1, <1>3, <1>5, <1>6 DEF CallOK
    <2>2. AdmittedAt(call, h)
      BY <1>1, <1>3, <1>5, <2>1 DEF AdmittedAt
    <2>3. QED
      BY <2>2
  <1>7. CallOK(call)
    <2>1. heads[call.target] = head /\ call.targetHead <= head
      BY <1>1, <1>2, <1>5
    <2>2. ReviewOK(call.review) /\ (call.review.kind = "preflight" => call.affected)
      BY <1>1, <1>5 DEF CallOK
    <2>3. QED
      BY <1>5, <1>6, <2>1, <2>2 DEF CallOK
  <1>8. QED
    BY <1>3, <1>4, <1>7, ContinueStep

LEMMA ReadSourceStep ==
  ASSUME PolicyInv, NEW c \in Clients, ReadSource(c)
  PROVE  PolicyInv'
  <1>1. PICK old \in Call : old = calls[c] /\ CallOK(old)
    BY UnderWay DEF ReadSource
  <1>2. PICK head \in Nat : head = heads[old.source]
    <2>1. old.source \in Keys
      BY DEF Call
    <2>2. QED
      BY <2>1 DEF PolicyInv, TypeOK, LogTypeOK
  <1> DEFINE call == [old EXCEPT !.pc = "ready", !.sourceHead = head]
  <1>3. old.pc = "source" /\ Continue(c, call)
    BY <1>1, <1>2 DEF ReadSource
  <1>4. call \in Call
    BY DEF Call
  <1>5. /\ call.pc = "ready" /\ call.targetHead = old.targetHead
        /\ call.policy = old.policy
        /\ call.op = old.op /\ call.target = old.target /\ call.review = old.review
        /\ call.affected = old.affected /\ call.uncovered = old.uncovered
    BY DEF Call
  <1> HIDE DEF call
  <1>6. \A h \in RevIds : AdmittedAt(old, h) => AdmittedAt(call, h)
    BY <1>3, <1>5 DEF AdmittedAt
  <1>7. CallOK(call)
    BY <1>1, <1>3, <1>5, <1>6 DEF CallOK
  <1>8. QED
    BY <1>3, <1>4, <1>7, ContinueStep

LEMMA FailStep ==
  ASSUME PolicyInv, NEW c \in Clients, Fail(c)
  PROVE  PolicyInv'
  BY NothingReviewed, ContinueStep DEF Fail

\* A review of the heads that the call has read.
LEMMA IdentityOK ==
  ASSUME NEW call \in Call, call.pc = "ready", CallOK(call), NEW kind \in {"preview", "preflight"}
  PROVE  /\ Identity(call, kind) \in Review
         /\ ReviewOK(Identity(call, kind))
         /\ Identity(call, kind).kind = kind
         /\ Identity(call, kind).target = call.target
         /\ Identity(call, kind).targetHead = call.targetHead
         /\ Identity(call, kind).sourceHead = call.sourceHead
         /\ kind = "preflight" => Identity(call, kind).policy = call.policy
  <1>1. PICK review \in Review :
          /\ review = Identity(call, kind)
          /\ review.kind = kind /\ review.target = call.target
          /\ review.targetHead = call.targetHead /\ review.sourceHead = call.sourceHead
          /\ kind = "preflight" => review.policy = call.policy
    <2>1. call.target \in Keys /\ call.source \in Keys /\ call.targetHead \in Nat
          /\ call.sourceHead \in Nat /\ call.policy \in Policy /\ call.uncovered \in BOOLEAN
      BY DEF Call
    <2> DEFINE preview == [NoReview EXCEPT !.kind = kind, !.target = call.target,
                                           !.source = call.source,
                                           !.targetHead = call.targetHead,
                                           !.sourceHead = call.sourceHead]
               preflight == [preview EXCEPT !.policy = call.policy,
                                            !.uncovered = call.uncovered]
    <2>2. /\ preview \in Review
          /\ preview.kind = kind /\ preview.target = call.target
          /\ preview.targetHead = call.targetHead /\ preview.sourceHead = call.sourceHead
      BY <2>1, NothingReviewed DEF Review
    <2>3. kind = "preview" => Identity(call, kind) = preview
      BY DEF Identity
    <2>4. kind = "preflight" => Identity(call, kind) = preflight
      BY DEF Identity
    <2> HIDE DEF preview
    <2>5. /\ preflight \in Review /\ preflight.policy = call.policy
          /\ preflight.kind = kind /\ preflight.target = call.target
          /\ preflight.targetHead = call.targetHead /\ preflight.sourceHead = call.sourceHead
      BY <2>1, <2>2 DEF Review
    <2>6. QED
      BY <2>2, <2>3, <2>4, <2>5
  <1>2. ReviewOK(review)
    BY <1>1 DEF CallOK, ReviewOK
  <1>3. QED
    BY <1>1, <1>2

LEMMA ReportStep ==
  ASSUME PolicyInv, NEW c \in Clients, Report(c)
  PROVE  PolicyInv'
  <1>1. PICK call \in Call : call = calls[c] /\ CallOK(call)
    BY UnderWay DEF Report
  <1>2. /\ call.pc = "ready" /\ call.op \in {"preview", "preflight"}
        /\ reviewed' = [reviewed EXCEPT ![c] = Identity(call, call.op)]
        /\ calls' = [calls EXCEPT ![c] = Idle]
        /\ UNCHANGED <<revs, heads, documents, operations>>
    BY <1>1 DEF Report
  <1>3. PICK review \in Review : review = Identity(call, call.op) /\ ReviewOK(review)
    BY <1>1, <1>2, IdentityOK
  <1>4. LogInv /\ LogInv'
    BY <1>2 DEF PolicyInv, TypeOK, LogInv, LogTypeOK, ProjectClosed, RevIds
  <1>5. HeadsForward
    BY <1>2, <1>4 DEF HeadsForward, RevIds, LogInv, LogTypeOK
  <1>6. LatestKnown /\ LogGrows /\ OperationsGrow
    BY <1>2 DEF PolicyInv, LogGrows, OperationsGrow, RevIds
  <1>7. reviewed \in [Clients -> Review] /\ calls \in [Clients -> Call]
    BY DEF PolicyInv, TypeOK
  <1>8. reviewed' \in [Clients -> Review] /\ calls' \in [Clients -> Call]
    BY <1>2, <1>3, <1>7, NothingReviewed
  <1>9. TypeOK'
    BY <1>2, <1>4, <1>8 DEF PolicyInv, TypeOK, LogInv
  <1>10. ASSUME NEW d \in Clients
         PROVE  ReviewOK(reviewed[d])' /\ CallOK(calls[d])'
    <2>1. PICK rev \in Review : rev = reviewed'[d] /\ (rev = review \/ rev = reviewed[d])
      BY <1>2, <1>3, <1>7, <1>8
    <2>2. PICK other \in Call : other = calls'[d] /\ (other = Idle \/ other = calls[d])
      BY <1>2, <1>7, <1>8
    <2>3. ReviewOK(rev) /\ CallOK(other)
      BY <1>3, <2>1, <2>2, NothingReviewed DEF PolicyInv
    <2>4. ReviewOK(rev)' /\ CallOK(other)'
      BY <1>4, <1>5, <1>6, <2>3, ReviewKept, CallKept
    <2>5. QED
      BY <2>1, <2>2, <2>4 DEF CallOK, ReviewOK, AdmittedAt, Admits
  <1>11. QED
    BY <1>2, <1>4, <1>5, <1>9, <1>10, QuietKeepsInv

------------------------------------------------------------------------------
(* Publications                                                             *)

\* A publication with its operation, and the log as it should be after it.
Published(n, k, op) ==
  /\ NewRevision(n, k, op)
  /\ op \in Operation
  /\ operations' \in Seq(Operation)
  /\ Len(operations') = Len(revs')
  /\ LogInv'

\* A merge publishes the two heads' revision.
LEMMA MergePublishes ==
  ASSUME LogInv, NEW k \in Keys, NEW source \in Keys, Merge(k, source)
  PROVE  /\ heads[k] \in RevIds
         /\ heads[source] \in RevIds
         /\ revs[heads[source]].project = k[1]
         /\ \E snap \in Snapshots, written \in SUBSET Modules :
              Publish(k, heads[k], heads[source], snap, written, {})
  <1>1. /\ heads[k] \in RevIds
        /\ heads[source] \in RevIds
        /\ revs[heads[source]].project = k[1]
    BY DEF Merge, LogInv, ProjectClosed
  <1>2. PICK base \in RevIds : PublishThreeWay(k, base, heads[source], heads[source])
    BY DEF Merge
  <1>3. PICK b \in Snapshots, o \in Snapshots, t \in Snapshots :
           b = revs[base].snap /\ o = revs[heads[k]].snap /\ t = revs[heads[source]].snap
    BY <1>1, RevisionType DEF LogInv
  <1>4. ThreeWay(b, o, t) \in Snapshots /\ BothChanged(b, o, t) \in SUBSET Modules
    BY ThreeWayType
  <1>5. Publish(k, heads[k], heads[source], ThreeWay(b, o, t), BothChanged(b, o, t), {})
    BY <1>2, <1>3 DEF PublishThreeWay, Publish, Merge
  <1>6. QED
    BY <1>1, <1>4, <1>5

LEMMA SetPolicyFacts ==
  ASSUME PolicyInv, SetPolicy
  PROVE  /\ \E n, op : \E k \in Keys : Published(n, k, op) /\ op.kind = "set_merge_policy"
         /\ UNCHANGED <<reviewed, calls>>
  <1>1. LogInv
    BY DEF PolicyInv, TypeOK, LogInv
  <1>2. PICK k \in Keys, p \in Policies :
          /\ heads[k] # NoRev
          /\ Publish(k, heads[k], NoRev, revs[heads[k]].snap, {}, {})
          /\ Records([Edit EXCEPT !.kind = "set_merge_policy", !.policy = p])
    BY DEF SetPolicy
  <1>3. revs[heads[k]].snap \in Snapshots
    BY <1>1, <1>2, RevisionType DEF LogInv, ProjectClosed
  <1> DEFINE made == [Edit EXCEPT !.kind = "set_merge_policy", !.policy = p]
  <1>4. PICK op \in Operation : op = made /\ op.kind = "set_merge_policy"
    <2>1. p \in Policy
      BY PoliciesAssumption
    <2>2. made \in Operation /\ made.kind = "set_merge_policy"
      BY <2>1, NothingReviewed DEF Operation
    <2>3. QED
      BY <2>2
  <1>5. PICK n \in Nat : /\ NewRevision(n, k, op)
                         /\ operations' \in Seq(Operation)
                         /\ Len(operations') = Len(revs')
    BY <1>2, <1>3, <1>4, Publishes
  <1>6. LogInv'
    <2>1. PublishStep
      BY <1>2, <1>3 DEF PublishStep
    <2>2. QED
      BY <1>1, <2>1, ShapeKeepsLog
  <1>7. QED
    BY <1>4, <1>5, <1>6 DEF Published, SetPolicy

\* Other tools initialize projects, edit documents and create branches.
LEMMA ElsewhereFacts ==
  ASSUME PolicyInv, Elsewhere
  PROVE  /\ \/ \E n, op : \E k \in Keys : Published(n, k, op) /\ op.kind = "edit"
            \/ BranchStep /\ LogInv' /\ UNCHANGED operations
         /\ UNCHANGED <<reviewed, calls>>
  <1>1. LogInv
    BY DEF PolicyInv, TypeOK, LogInv
  <1>2. Edit \in Operation /\ Edit.kind = "edit"
    BY NothingReviewed DEF Edit
  <1>3. ASSUME (\E p \in Projects : InitProject(p)) \/ (\E k \in Keys, m \in Modules : WriteModule(k, m)),
               Records(Edit)
        PROVE  \E n : \E k \in Keys : Published(n, k, Edit)
    <2>1. \E k \in Keys, snap \in Snapshots, written \in SUBSET Modules :
             Publish(k, heads[k], NoRev, snap, written, {})
      <3>1. ASSUME NEW p \in Projects, InitProject(p)
            PROVE  \E k \in Keys, snap \in Snapshots, written \in SUBSET Modules :
                      Publish(k, heads[k], NoRev, snap, written, {})
        <4>1. <<p, Main>> \in Keys /\ [m \in Modules |-> Absent] \in Snapshots
          BY ConstantsAssumption DEF Keys, Snapshots, Absent
        <4>2. Publish(<<p, Main>>, heads[<<p, Main>>], NoRev, [m \in Modules |-> Absent], {}, {})
          BY <3>1 DEF InitProject
        <4>3. {} \in SUBSET Modules
          OBVIOUS
        <4>4. QED
          BY <4>1, <4>2, <4>3
      <3>2. ASSUME NEW k \in Keys, NEW m \in Modules, WriteModule(k, m)
            PROVE  \E j \in Keys, snap \in Snapshots, written \in SUBSET Modules :
                      Publish(j, heads[j], NoRev, snap, written, {})
        <4>1. revs[heads[k]].snap \in Snapshots
          BY <1>1, <3>2, RevisionType DEF WriteModule, LogInv, ProjectClosed
        <4>2. Publish(k, heads[k], NoRev, revs[heads[k]].snap, {m}, {}) /\ {m} \in SUBSET Modules
          BY <3>2 DEF WriteModule
        <4>3. QED
          BY <4>1, <4>2
      <3>3. QED
        BY <1>3, <3>1, <3>2
    <2>2. PICK k \in Keys, snap \in Snapshots, written \in SUBSET Modules :
             Publish(k, heads[k], NoRev, snap, written, {})
      BY <2>1
    <2>3. \E n \in Nat : /\ NewRevision(n, k, Edit)
                         /\ operations' \in Seq(Operation)
                         /\ Len(operations') = Len(revs')
      BY <1>2, <1>3, <2>2, Publishes
    <2>4. LogInv'
      <3>1. PublishStep
        BY <2>2 DEF PublishStep
      <3>2. QED
        BY <1>1, <3>1, ShapeKeepsLog
    <2>5. QED
      BY <1>2, <2>3, <2>4 DEF Published
  <1>4. ASSUME NEW k \in Keys, NEW r \in RevIds, CreateBranchAt(k, r)
        PROVE  BranchStep /\ LogInv'
    BY <1>1, <1>4, ShapeKeepsLog DEF CreateBranchAt, BranchStep
  <1>5. QED
    BY <1>2, <1>3, <1>4 DEF Elsewhere

\* A merge extends the head of its target with the head of its source.
LEMMA PublishMergeFacts ==
  ASSUME PolicyInv, NEW c \in Clients, PublishMerge(c)
  PROVE  \E n, op : \E call \in Call, k \in Keys :
            /\ Published(n, k, op)
            /\ op.kind = "merge" /\ op.review = call.review
            /\ op.affected = call.affected /\ op.uncovered = call.uncovered
            /\ k = call.target /\ revs'[n].parent2 = call.sourceHead
            /\ call = calls[c] /\ call.pc = "ready" /\ call.op = "merge" /\ CallOK(call)
            /\ call.review = Identity(call, call.review.kind)
            /\ heads[k] = call.targetHead /\ heads[k] \in RevIds
            /\ reviewed' = reviewed /\ calls' = [calls EXCEPT ![c] = Idle]
  <1>1. LogInv
    BY DEF PolicyInv, TypeOK, LogInv
  <1>2. PICK call \in Call : call = calls[c] /\ CallOK(call)
    BY UnderWay DEF PublishMerge
  <1>3. /\ call.target \in Keys /\ call.source \in Keys /\ call.review \in Review
        /\ call.affected \in BOOLEAN /\ call.uncovered \in BOOLEAN
    BY DEF Call
  <1>4. /\ heads[call.target] \in RevIds /\ heads[call.source] \in RevIds
        /\ revs[heads[call.source]].project = call.target[1]
    BY <1>1, <1>2, <1>3, MergePublishes DEF PublishMerge
  <1>5. PICK snap \in Snapshots, written \in SUBSET Modules :
          Publish(call.target, heads[call.target], heads[call.source], snap, written, {})
    BY <1>1, <1>2, <1>3, MergePublishes DEF PublishMerge
  <1> DEFINE made == [Edit EXCEPT !.kind = "merge", !.affected = call.affected,
                                  !.uncovered = call.uncovered, !.review = call.review]
  <1>6. PICK op \in Operation :
          /\ op = made
          /\ op.kind = "merge" /\ op.review = call.review
          /\ op.affected = call.affected /\ op.uncovered = call.uncovered
    <2>1. /\ made \in Operation
          /\ made.kind = "merge" /\ made.review = call.review
          /\ made.affected = call.affected /\ made.uncovered = call.uncovered
      BY <1>3, NothingReviewed DEF Operation
    <2>2. QED
      BY <2>1
  <1>7. Records(op)
    BY <1>2, <1>6 DEF PublishMerge
  <1>8. PICK n \in Nat : /\ NewRevision(n, call.target, op)
                         /\ revs'[n].parent2 = heads[call.source]
                         /\ operations' \in Seq(Operation)
                         /\ Len(operations') = Len(revs')
    BY <1>3, <1>4, <1>5, <1>7, Publishes
  <1>9. LogInv'
    <2>1. PublishStep
      BY <1>3, <1>4, <1>5 DEF PublishStep
    <2>2. QED
      BY <1>1, <2>1, ShapeKeepsLog
  <1>10. /\ call.pc = "ready" /\ call.op = "merge"
         /\ call.review = Identity(call, call.review.kind)
         /\ heads[call.target] = call.targetHead /\ heads[call.source] = call.sourceHead
         /\ reviewed' = reviewed /\ calls' = [calls EXCEPT ![c] = Idle]
    BY <1>2 DEF PublishMerge, HeadsAsRead
  <1>11. Published(n, call.target, op)
    BY <1>8, <1>9 DEF Published
  <1>12. QED
    BY <1>2, <1>3, <1>4, <1>6, <1>8, <1>10, <1>11

------------------------------------------------------------------------------
(* The steps                                                                *)

LEMMA SetPolicyStep ==
  ASSUME PolicyInv, SetPolicy
  PROVE  PolicyInv'
  <1>1. /\ \E n, op : \E k \in Keys : Published(n, k, op) /\ op.kind = "set_merge_policy"
        /\ reviewed' = reviewed /\ calls' = calls /\ calls \in [Clients -> Call]
    BY SetPolicyFacts DEF PolicyInv, TypeOK
  <1>2. QED
    BY <1>1, NewKeepsInv DEF Published

LEMMA ElsewhereStep ==
  ASSUME PolicyInv, Elsewhere
  PROVE  PolicyInv'
  <1>1. reviewed' = reviewed /\ calls' = calls /\ calls \in [Clients -> Call]
    BY DEF Elsewhere, PolicyInv, TypeOK
  <1>2. CASE \E n, op : \E k \in Keys : Published(n, k, op) /\ op.kind = "edit"
    BY <1>1, <1>2, NewKeepsInv DEF Published
  <1>3. CASE BranchStep /\ LogInv' /\ UNCHANGED operations
    <2>1. LogInv /\ heads \in [Keys -> Nat] /\ revs' = revs
      BY <1>3 DEF BranchStep, PolicyInv, TypeOK, LogInv, LogTypeOK
    <2>2. LogGrows /\ OperationsGrow /\ RevIds' = RevIds
      BY <1>3, <2>1 DEF LogGrows, OperationsGrow, RevIds
    <2>3. HeadsForward
      <3>1. PICK k \in Keys, r \in RevIds : heads[k] = NoRev /\ heads' = [heads EXCEPT ![k] = r]
        BY <1>3 DEF BranchStep
      <3>2. \A j \in Keys : heads[j] \in RevIds => heads'[j] = heads[j]
        BY <2>1, <3>1 DEF RevIds, NoRev
      <3>3. \A j \in Keys : heads[j] \in Nat
        BY <2>1
      <3>4. QED
        BY <2>2, <3>2, <3>3 DEF HeadsForward
    <2>4. TypeOK'
      BY <1>1, <1>3, <2>1 DEF PolicyInv, TypeOK, LogInv
    <2>5. \A c \in Clients : ReviewOK(reviewed[c])' /\ CallOK(calls[c])'
      BY <1>1, <2>2, <2>3, AgentsKept
    <2>6. QED
      BY <1>3, <2>1, <2>3, <2>4, <2>5, QuietKeepsInv
  <1>4. QED
    BY <1>2, <1>3, ElsewhereFacts

\* The merge that is published obeys the policy and is what was reviewed.
LEMMA PublishMergeStep ==
  ASSUME PolicyInv, NEW c \in Clients, PublishMerge(c)
  PROVE  PolicyInv'
  <1>1. PICK n, op : \E call \in Call, k \in Keys :
            /\ Published(n, k, op)
            /\ op.kind = "merge" /\ op.review = call.review
            /\ op.affected = call.affected /\ op.uncovered = call.uncovered
            /\ k = call.target /\ revs'[n].parent2 = call.sourceHead
            /\ call = calls[c] /\ call.pc = "ready" /\ call.op = "merge" /\ CallOK(call)
            /\ call.review = Identity(call, call.review.kind)
            /\ heads[k] = call.targetHead /\ heads[k] \in RevIds
            /\ reviewed' = reviewed /\ calls' = [calls EXCEPT ![c] = Idle]
    BY PublishMergeFacts
  <1>2. PICK call \in Call, k \in Keys :
            /\ Published(n, k, op)
            /\ op.kind = "merge" /\ op.review = call.review
            /\ op.affected = call.affected /\ op.uncovered = call.uncovered
            /\ k = call.target /\ revs'[n].parent2 = call.sourceHead
            /\ call = calls[c] /\ call.pc = "ready" /\ call.op = "merge" /\ CallOK(call)
            /\ call.review = Identity(call, call.review.kind)
            /\ heads[k] = call.targetHead /\ heads[k] \in RevIds
            /\ reviewed' = reviewed /\ calls' = [calls EXCEPT ![c] = Idle]
    BY <1>1
  <1>3. LogInv /\ LatestKnown
    BY DEF PolicyInv, TypeOK, LogInv
  <1>4. PICK head \in RevIds : head = heads[k] /\ head = call.targetHead
    BY <1>2
  <1>5. /\ LogGrows /\ OperationsGrow /\ n \in RevIds'
        /\ revs'[n].parent1 = head /\ operations'[n] = op
    BY <1>2, <1>4 DEF Published, NewRevision, Extends
  <1>6. PolicyAt(head)' = PolicyAt(head) /\ head \in RevIds'
    BY <1>3, <1>5, PolicyStays DEF LogGrows
  <1>7. ASSUME ~CallerBases, op.review.kind # "none"
        PROVE  /\ op.review.targetHead = head
               /\ op.review.sourceHead = call.sourceHead
               /\ op.review.kind = "preflight" => op.review.policy = PolicyAt(head)
               /\ Admits(PolicyAt(head), op.review, op.affected, op.uncovered)
    <2>1. call.review.kind \in {"preview", "preflight"} /\ call.review \in Review
      BY <1>2, <1>7 DEF Call, Review
    <2>2. /\ call.review.target = call.target
          /\ call.review.targetHead = call.targetHead
          /\ call.review.sourceHead = call.sourceHead
          /\ call.review.kind = "preflight" => call.review.policy = call.policy
      BY <1>2, <2>1, IdentityOK
    <2>3. PICK h \in RevIds : AdmittedAt(call, h)
      BY <1>2, <1>7 DEF CallOK
    <2>4. call.review.targetHead <= h /\ h <= call.targetHead
      BY <1>2, <2>1, <2>2, <2>3 DEF AdmittedAt
    <2>5. h = head
      BY <1>4, <2>2, <2>4 DEF RevIds
    <2>6. /\ call.review.kind = "preflight" => call.policy = PolicyAt(head)
          /\ Admits(PolicyAt(head), call.review, call.affected, call.uncovered)
      BY <1>2, <2>3, <2>5 DEF AdmittedAt
    <2>7. QED
      BY <1>2, <1>4, <2>2, <2>6
  <1>8. MergeOK(n)'
    <2>1. PolicyAt(revs[n].parent1)' = PolicyAt(head)'
      BY <1>5 DEF PolicyAt, OnFirstParentHistory
    <2>2. ASSUME ~CallerBases, op.review.kind # "none"
          PROVE  /\ PolicyAt(op.review.targetHead)' = PolicyAt(head)
                 /\ ObeysPolicy(n)'
      <3>1. PolicyAt(op.review.targetHead)' = PolicyAt(head)'
        BY <1>7, <2>2 DEF PolicyAt, OnFirstParentHistory
      <3>2. ObeysPolicy(n)'
        BY <1>5, <1>6, <1>7, <2>1, <2>2 DEF ObeysPolicy, Admits
      <3>3. QED
        BY <1>6, <3>1, <3>2
    <2>3. QED
      BY <1>2, <1>5, <1>6, <1>7, <2>2 DEF MergeOK
  <1>9. calls \in [Clients -> Call]
    BY DEF PolicyInv, TypeOK
  <1>10. calls' \in [Clients -> Call] /\ \A d \in Clients : calls'[d] \in {calls[d], Idle}
    BY <1>2, <1>9, NothingReviewed
  <1>11. QED
    BY <1>2, <1>8, <1>10, NewKeepsInv DEF Published

\* An edit of a candidate extends a revision, and moves no branch.
LEMMA EditCandidateFacts ==
  ASSUME PolicyInv, EditCandidate
  PROVE  /\ \E n : \E h \in RevIds : Extends(n, h, Edit)
         /\ LogInv' /\ HeadsForward
         /\ operations' \in Seq(Operation) /\ Len(operations') = Len(revs')
         /\ UNCHANGED <<heads, reviewed, calls>>
  <1>1. LogInv
    BY DEF PolicyInv, TypeOK, LogInv
  <1>2. PICK h \in RevIds, m \in Modules :
          InsertRevision(<<revs[h].project, NoBranch>>, NoBranch, h, NoRev, revs[h].snap, {m}, {})
    BY DEF EditCandidate
  <1>3. operations' = Append(operations, Edit) /\ heads' = heads
    BY DEF EditCandidate, Records
  <1>4. PICK p \in Projects : p = revs[h].project
    BY <1>1, RevisionType DEF LogInv
  <1>5. PICK n \in Nat : n = Len(revs) + 1
    BY <1>1 DEF LogInv, LogTypeOK
  <1>6. /\ RevIds' = RevIds \cup {n} /\ Len(revs') = n
        /\ revs'[n].parent1 = h /\ LogGrows /\ LogInv'
    BY <1>1, <1>2, <1>3, <1>4, <1>5, InsertFacts
  <1>7. Edit \in Operation /\ Edit.kind = "edit"
    BY NothingReviewed DEF Edit
  <1>8. operations \in Seq(Operation) /\ Len(operations) = Len(revs) /\ Len(revs) \in Nat
    BY <1>1 DEF PolicyInv, TypeOK, LogInv, LogTypeOK
  <1>9. /\ operations' \in Seq(Operation)
        /\ Len(operations') = n
        /\ operations'[n] = Edit
        /\ \A r \in 1 .. Len(operations) : operations'[r] = operations[r]
    BY <1>3, <1>5, <1>7, <1>8
  <1>10. OperationsGrow /\ n \notin RevIds /\ \A r \in RevIds : r <= n
    BY <1>5, <1>8, <1>9 DEF OperationsGrow, RevIds
  <1>11. Extends(n, h, Edit)
    BY <1>6, <1>7, <1>9, <1>10 DEF Extends
  <1>12. HeadsForward
    BY <1>1, <1>3, <1>6 DEF HeadsForward, RevIds, LogInv, LogTypeOK
  <1>13. QED
    BY <1>3, <1>6, <1>9, <1>11, <1>12 DEF EditCandidate

LEMMA EditCandidateStep ==
  ASSUME PolicyInv, EditCandidate
  PROVE  PolicyInv'
  <1>1. calls \in [Clients -> Call] /\ Edit.kind = "edit"
    BY DEF PolicyInv, TypeOK, Edit
  <1>2. PICK n : \E h \in RevIds : Extends(n, h, Edit)
    BY EditCandidateFacts
  <1>3. PICK h \in RevIds : Extends(n, h, Edit)
    BY <1>2
  <1>4. QED
    BY <1>1, <1>3, EditCandidateFacts, ExtensionKeepsInv

\* First parents are earlier.
LEMMA OlderOnHistory ==
  ASSUME LogInv, NEW h \in RevIds, NEW r, OnFirstParentHistory(r, h)
  PROVE  r \in RevIds /\ r <= h
  <1> DEFINE S == {x \in RevIds : x <= h}
  <1>1. ASSUME NEW x \in S, revs[x].parent1 # NoRev
        PROVE  revs[x].parent1 \in S
    <2>1. revs[x].parent1 \in RevIds /\ revs[x].parent1 \in 1 .. (x - 1)
      BY <1>1, ParentsExist DEF LogInv, ProjectClosed
    <2>2. QED
      BY <2>1 DEF RevIds
  <1>2. FirstParentClosed(S)
    BY <1>1 DEF FirstParentClosed
  <1>3. h \in S /\ S \in SUBSET RevIds
    BY DEF RevIds
  <1>4. QED
    BY <1>2, <1>3 DEF OnFirstParentHistory

\* A candidate that is published where it was recorded moves its branch forward.
LEMMA PublishCandidateFacts ==
  ASSUME PolicyInv, PublishCandidate
  PROVE  /\ LogInv' /\ HeadsForward
         /\ UNCHANGED <<revs, operations, reviewed, calls>>
  <1>1. LogInv
    BY DEF PolicyInv, TypeOK, LogInv
  <1>2. PICK k \in Keys, head \in RevIds :
          /\ heads[k] # NoRev
          /\ revs[head].project = k[1]
          /\ CallerBases \/ EditsLead(heads[k], head)
          /\ heads' = [heads EXCEPT ![k] = head]
          /\ UNCHANGED <<revs, documents, operations, reviewed, calls>>
    BY DEF PublishCandidate
  <1>3. heads \in [Keys -> Nat] /\ head \in Nat
    BY <1>1 DEF LogInv, LogTypeOK, RevIds
  <1>4. \A j \in Keys : heads'[j] = IF j = k THEN head ELSE heads[j]
    BY <1>2, <1>3
  <1>5. RevIds' = RevIds
    BY <1>2 DEF RevIds
  <1>6. LogTypeOK'
    BY <1>1, <1>2, <1>3 DEF LogInv, LogTypeOK
  <1>7. ProjectClosed'
    BY <1>1, <1>2, <1>4, <1>5 DEF LogInv, ProjectClosed
  <1>8. ~CallerBases => heads[k] <= head
    BY <1>1, <1>2, OlderOnHistory DEF EditsLead
  <1>9. HeadsForward
    BY <1>3, <1>4, <1>5, <1>8 DEF HeadsForward
  <1>10. QED
    BY <1>2, <1>6, <1>7, <1>9 DEF LogInv

LEMMA PublishCandidateStep ==
  ASSUME PolicyInv, PublishCandidate
  PROVE  PolicyInv'
  <1>1. /\ LogInv' /\ HeadsForward
        /\ revs' = revs /\ operations' = operations /\ reviewed' = reviewed /\ calls' = calls
    BY PublishCandidateFacts
  <1>2. LogGrows /\ OperationsGrow /\ calls \in [Clients -> Call]
    BY <1>1 DEF LogGrows, OperationsGrow, RevIds, PolicyInv, TypeOK
  <1>3. TypeOK'
    BY <1>1 DEF PolicyInv, TypeOK, LogInv
  <1>4. \A c \in Clients : ReviewOK(reviewed[c])' /\ CallOK(calls[c])'
    BY <1>1, <1>2, AgentsKept
  <1>5. QED
    BY <1>1, <1>3, <1>4, QuietKeepsInv

LEMMA PolicyInvInit == Init => PolicyInv
  <1> SUFFICES ASSUME Init PROVE PolicyInv
    OBVIOUS
  <1>1. LogInv /\ RevIds = {}
    BY LogInvInit DEF Init, LogInit, RevIds
  <1>2. operations = << >> /\ revs = << >>
    BY <1>1 DEF Init, NoReviews, LogInit
  <1>3. TypeOK
    BY <1>1, <1>2, NothingReviewed DEF Init, NoReviews, TypeOK, LogInv
  <1>4. LatestKnown /\ SettersOwned /\ Merges = {}
    BY <1>1, <1>2 DEF LatestKnown, SettersOwned, Merges
  <1>5. \A c \in Clients : ReviewOK(reviewed[c]) /\ CallOK(calls[c])
    BY NothingReviewed DEF Init, NoReviews
  <1>6. QED
    BY <1>1, <1>3, <1>4, <1>5 DEF PolicyInv, LogInv

LEMMA StutterStep ==
  ASSUME PolicyInv, UNCHANGED vars
  PROVE  PolicyInv'
  <1>1. LogInv /\ LogInv'
    BY DEF vars, PolicyInv, TypeOK, LogInv, LogTypeOK, ProjectClosed, RevIds
  <1>2. /\ LogGrows /\ OperationsGrow /\ HeadsForward
        /\ reviewed' = reviewed /\ calls' = calls /\ calls \in [Clients -> Call]
    BY <1>1 DEF vars, LogGrows, OperationsGrow, HeadsForward, RevIds, PolicyInv, TypeOK,
                LogInv, LogTypeOK
  <1>3. TypeOK'
    BY <1>1 DEF vars, PolicyInv, TypeOK, LogInv
  <1>4. \A c \in Clients : ReviewOK(reviewed[c])' /\ CallOK(calls[c])'
    BY <1>2, AgentsKept
  <1>5. QED
    BY <1>1, <1>2, <1>3, <1>4, QuietKeepsInv DEF vars

LEMMA PolicyInvStep ==
  ASSUME PolicyInv, [Next]_vars
  PROVE  PolicyInv'
  <1>1. ASSUME NEW c \in Clients, Start(c)
        PROVE  PolicyInv'
    BY <1>1, StartPreviewStep, StartPreflightStep, StartMergeStep DEF Start
  <1>2. QED
    BY <1>1, SetPolicyStep, ElsewhereStep, EditCandidateStep, PublishCandidateStep,
       RereadPolicyStep, ReadTargetStep, ReadSourceStep, ReportStep, PublishMergeStep,
       FailStep, StutterStep DEF Next

LEMMA PolicyInvAlways == Spec => []PolicyInv
  BY PolicyInvInit, PolicyInvStep, PTL DEF Spec

------------------------------------------------------------------------------
(* What merge policies guarantee                                            *)

\* The log, its operations, the reviews and the calls are well formed.
THEOREM PolicyWellFormed == Spec => [](TypeOK /\ ProjectClosed)
  <1>1. PolicyInv => TypeOK /\ ProjectClosed
    BY DEF PolicyInv
  <1>2. QED
    BY <1>1, PolicyInvAlways, PTL

\* A merge that presents a preview or a preflight obeys the policy in force at the
\* head it extends, although branch_merge reads policy and head at different
\* times while others set policies and move heads; while no caller of
\* candidate_publish gives a base of its own, and heads go back therefore.
THEOREM ReviewedMergesObey ==
  ASSUME ~CallerBases
  PROVE  Spec => []ReviewedMergesObeyPolicy
  <1>1. PolicyInv => ReviewedMergesObeyPolicy
    BY DEF PolicyInv, ReviewedMergesObeyPolicy, MergeOK
  <1>2. QED
    BY <1>1, PolicyInvAlways, PTL

\* branch_merge publishes exactly the two heads its caller has reviewed, under
\* exactly the policy that the preflight had reported; under the same hypothesis.
THEOREM ReviewedMergesExact ==
  ASSUME ~CallerBases
  PROVE  Spec => []ReviewedMergesAreExact
  <1>1. PolicyInv => ReviewedMergesAreExact
    BY DEF PolicyInv, ReviewedMergesAreExact, MergeOK
  <1>2. QED
    BY <1>1, PolicyInvAlways, PTL

------------------------------------------------------------------------------
(* Only setting a policy changes it                                         *)

\* What PolicyAuthority says of one branch.
Authority(k) ==
  heads[k] # NoRev /\ PolicyAt(heads[k])' # PolicyAt(heads[k]) =>
     /\ operations'[heads'[k]].kind = "set_merge_policy"
     /\ revs'[heads'[k]].parent1 = heads[k]

\* A branch that stays where it is keeps its policy.
LEMMA AuthorityOfUnmoved ==
  ASSUME LogInv, LatestKnown, LogGrows, OperationsGrow, NEW k \in Keys,
         heads'[k] = heads[k]
  PROVE  Authority(k)
  <1>1. CASE heads[k] = NoRev
    BY <1>1 DEF Authority
  <1>2. CASE heads[k] # NoRev
    <2>1. PICK h \in RevIds : h = heads[k]
      BY <1>2 DEF LogInv, ProjectClosed
    <2>2. PolicyAt(h)' = PolicyAt(h)
      BY PolicyStays
    <2>3. PolicyAt(heads[k])' = PolicyAt(h)'
      BY <2>1 DEF PolicyAt, OnFirstParentHistory
    <2>4. QED
      BY <2>1, <2>2, <2>3 DEF Authority
  <1>3. QED
    BY <1>1, <1>2

\* A publication that sets no policy takes over that of the head it extends.
LEMMA AuthorityOfNew ==
  ASSUME LogInv, LatestKnown, NEW n, NEW k \in Keys, NEW op, NewRevision(n, k, op),
         NEW j \in Keys
  PROVE  Authority(j)
  <1>1. heads \in [Keys -> Nat] /\ heads' = [heads EXCEPT ![k] = n]
    BY DEF NewRevision, LogInv, LogTypeOK
  <1>2. LogGrows /\ OperationsGrow /\ Extends(n, heads[k], op)
    BY DEF NewRevision, Extends
  <1>3. CASE j # k
    BY <1>1, <1>2, <1>3, AuthorityOfUnmoved
  <1>4. CASE j = k /\ op.kind = "set_merge_policy"
    BY <1>1, <1>2, <1>4 DEF Authority, Extends
  <1>5. CASE j = k /\ op.kind # "set_merge_policy" /\ heads[k] # NoRev
    <2>1. PICK h \in RevIds : h = heads[k]
      BY <1>5 DEF LogInv, ProjectClosed
    <2>2. Setters(n)' = Setters(h)
      BY <1>2, <1>5, <2>1, SettersOfNew
    <2>3. PolicyAt(n)' = IF Setters(n)' = {} THEN Unconfigured
                         ELSE operations'[Max(Setters(n)')].policy
      BY DEF PolicyAt, Setters
    <2>4. Setters(h) # {} => operations'[Max(Setters(h))] = operations[Max(Setters(h))]
      BY <1>2, LatestSetter DEF OperationsGrow, Setters
    <2>5. PolicyAt(n)' = PolicyAt(h)
      BY <2>2, <2>3, <2>4, PolicyOfSetters
    <2>6. PolicyAt(heads[j])' = PolicyAt(n)'
      BY <1>1, <1>5 DEF PolicyAt, OnFirstParentHistory
    <2>7. QED
      BY <1>5, <2>1, <2>5, <2>6 DEF Authority
  <1>6. CASE j = k /\ heads[k] = NoRev
    BY <1>6 DEF Authority
  <1>7. QED
    BY <1>3, <1>4, <1>5, <1>6

\* What setters a revision has, it has through edits of candidates.
LEMMA SettersOfEdits ==
  ASSUME LogInv, SettersOwned, NEW b \in RevIds, NEW h \in RevIds, EditsLead(b, h)
  PROVE  Setters(h) = Setters(b)
  <1>1. ASSUME NEW s \in Setters(h) PROVE s \in Setters(b)
    BY DEF Setters, SettersOwned, EditsLead
  <1>2. ASSUME NEW s \in Setters(b) PROVE s \in Setters(h)
    BY FirstParentTransitive DEF Setters, EditsLead
  <1>3. QED
    BY <1>1, <1>2

\* A candidate brings in no policy where it was recorded.
LEMMA AuthorityOfCandidate ==
  ASSUME ~CallerBases, PolicyInv, PublishCandidate, NEW j \in Keys
  PROVE  Authority(j)
  <1>1. LogInv /\ LatestKnown /\ SettersOwned
    BY DEF PolicyInv, TypeOK, LogInv
  <1>2. revs' = revs /\ operations' = operations /\ RevIds' = RevIds
        /\ LogGrows /\ OperationsGrow
    BY DEF PublishCandidate, RevIds, LogGrows, OperationsGrow
  <1>3. PICK k \in Keys, head \in RevIds :
          heads[k] # NoRev /\ EditsLead(heads[k], head) /\ heads' = [heads EXCEPT ![k] = head]
    BY DEF PublishCandidate
  <1>4. heads \in [Keys -> Nat] /\ heads[k] \in RevIds
    BY <1>1, <1>3 DEF LogInv, LogTypeOK, ProjectClosed
  <1>5. CASE j # k
    BY <1>1, <1>2, <1>3, <1>4, <1>5, AuthorityOfUnmoved
  <1>6. CASE j = k
    <2>1. PolicyAt(head) = PolicyAt(heads[k])
      BY <1>1, <1>3, <1>4, SettersOfEdits, PolicyOfSetters
    <2>2. PolicyAt(heads[k])' = PolicyAt(head)'
      BY <1>3, <1>4 DEF PolicyAt, OnFirstParentHistory
    <2>3. PolicyAt(head)' = PolicyAt(head)
      BY <1>1, <1>2, PolicyStays
    <2>4. QED
      BY <1>6, <2>1, <2>2, <2>3 DEF Authority
  <1>7. QED
    BY <1>5, <1>6

\* Every other step publishes one revision or moves no branch that exists.
LEMMA StepMovesOne ==
  ASSUME PolicyInv, [Next]_vars, ~PublishCandidate
  PROVE  \/ \E n, op : \E k \in Keys : NewRevision(n, k, op)
         \/ /\ LogGrows /\ OperationsGrow
            /\ \A k \in Keys : heads[k] # NoRev => heads'[k] = heads[k]
  <1>1. CASE SetPolicy
    BY <1>1, SetPolicyFacts DEF Published
  <1>2. CASE Elsewhere
    <2>1. ASSUME BranchStep, UNCHANGED operations
          PROVE  /\ LogGrows /\ OperationsGrow
                 /\ \A k \in Keys : heads[k] # NoRev => heads'[k] = heads[k]
      BY <2>1 DEF BranchStep, LogGrows, OperationsGrow, RevIds, PolicyInv, TypeOK, LogTypeOK
    <2>2. QED
      BY <1>2, <2>1, ElsewhereFacts DEF Published
  <1>3. ASSUME NEW c \in Clients, PublishMerge(c)
        PROVE  \E n, op : \E k \in Keys : NewRevision(n, k, op)
    BY <1>3, PublishMergeFacts DEF Published
  <1>4. ASSUME UNCHANGED <<revs, heads, operations>>
        PROVE  /\ LogGrows /\ OperationsGrow
               /\ \A k \in Keys : heads[k] # NoRev => heads'[k] = heads[k]
    BY <1>4 DEF LogGrows, OperationsGrow, RevIds
  <1>5. ASSUME NEW c \in Clients,
               Start(c) \/ RereadPolicy(c) \/ ReadTarget(c) \/ ReadSource(c) \/ Report(c) \/ Fail(c)
        PROVE  UNCHANGED <<revs, heads, operations>>
    BY <1>5 DEF Start, StartPreview, StartPreflight, StartMerge, RereadPolicy, ReadTarget,
                ReadSource, Report, Fail, Continue
  <1>6. UNCHANGED vars => UNCHANGED <<revs, heads, operations>>
    BY DEF vars
  <1>7. ASSUME EditCandidate
        PROVE  LogGrows /\ OperationsGrow /\ heads' = heads
    BY <1>7, EditCandidateFacts DEF Extends
  <1>8. QED
    BY <1>1, <1>2, <1>3, <1>4, <1>5, <1>6, <1>7 DEF Next

\* The policy of a branch changes only when it is set on that branch: no merge
\* brings in another policy, whatever the policy of its source, and no candidate
\* that is published where it was recorded.
THEOREM PolicySetOnBranch ==
  ASSUME ~CallerBases
  PROVE  Spec => PolicyAuthority
  <1>1. ASSUME PolicyInv, [Next]_vars, NEW k \in Keys
        PROVE  Authority(k)
    <2>1. LogInv /\ LatestKnown
      BY <1>1 DEF PolicyInv, TypeOK, LogInv
    <2>2. CASE heads[k] = NoRev
      BY <2>2 DEF Authority
    <2>3. CASE heads[k] # NoRev
      BY <1>1, <2>1, <2>3, StepMovesOne, AuthorityOfNew, AuthorityOfUnmoved,
         AuthorityOfCandidate
    <2>4. QED
      BY <2>2, <2>3
  <1>2. PolicyInv /\ [Next]_vars =>
          [\A k \in Keys :
              heads[k] # NoRev /\ PolicyAt(heads[k])' # PolicyAt(heads[k]) =>
                 /\ operations'[heads'[k]].kind = "set_merge_policy"
                 /\ revs'[heads'[k]].parent1 = heads[k]]_vars
    BY <1>1 DEF Authority
  <1>3. QED
    BY <1>2, PolicyInvAlways, PTL DEF Spec, PolicyAuthority

------------------------------------------------------------------------------
(* Readers of a history.  First parents are a chain, so a walk that has come *)
(* to a revision has met what is newer in the history, and nothing else; and *)
(* what is above a revision in a history never changes, while branches move  *)
(* on.                                                                       *)

\* From any history that the log may have come to.
PagesSpec == LogInv /\ PagesInit /\ [][PagesNext]_<<logVars, pageVars>>

ReadingTypes ==
  [pc : {"idle", "check", "rows", "next", "scan"},
   kind : {"history", "summary", "timeline", "status"}, branch : Keys,
   limit : Nat, scan : Nat, top : Nat, cursor : Nat, current : Nat, scanned : Nat,
   rows : Seq(Nat), found : Seq(Nat)]

\* What a reader is to be told of a history.
Due(kind, h) == IF kind \in {"timeline", "status"} THEN Checkpoints(h) ELSE Lineage(h)

\* How far reader w has been told.
Place(w) == IF w.pc \in {"check", "next"} THEN w.cursor ELSE w.current

\* What it was told is all that was due before its place.
ToldOK(w) ==
  /\ w.top \in RevIds
  /\ heads[w.branch] \in RevIds
  /\ w.top \in Lineage(heads[w.branch])
  /\ Place(w) \in Lineage(w.top) \cup {NoRev}
  /\ Lists(w.found \o w.rows, {x \in Due(w.kind, w.top) : x > Place(w)})

\* The search of a cursor cannot miss it.
CheckOK(w) ==
  /\ w.kind = "history"
  /\ w.rows = << >>
  /\ w.cursor # NoRev
  /\ w.current \in Lineage(heads[w.branch])
  /\ w.cursor \in Lineage(w.current)
  /\ w.scanned <= Cardinality(Newer(w.current, heads[w.branch]))

\* One revision more than the page holds.
RowsOK(w) ==
  /\ w.kind \in {"history", "summary"}
  /\ Len(w.rows) <= w.limit + 1
  /\ w.kind = "summary" =>
       /\ w.limit = MaxScan
       /\ w.found = << >>
       /\ Len(w.rows) = Cardinality(Newer(w.current, w.top))

\* The first of the checkpoints of a history, where a status finds it.
LatestCheckpoint(r, h, scanned) ==
  /\ r \in Checkpoints(h)
  /\ Newer(r, h) \cap published = {}
  /\ scanned = Cardinality(Newer(r, h)) + 1

\* A status has looked at all that is newer, and stops at the first checkpoint.
ScanOK(w) ==
  /\ w.kind \in {"timeline", "status"}
  /\ w.kind = "status" =>
       /\ w.found = << >>
       /\ w.scanned = Cardinality(Newer(w.current, w.top))
       /\ w.rows # << >> =>
            \E r \in RevIds : w.rows = <<r>> /\ LatestCheckpoint(r, w.top, w.scanned)

ReadingOK(w) ==
  w.pc # "idle" =>
    /\ ToldOK(w)
    /\ w.pc = "check" => CheckOK(w)
    /\ w.pc = "rows" => RowsOK(w)
    /\ w.pc = "scan" => ScanOK(w)
    /\ w.pc = "next" => w.kind \in {"history", "timeline"} /\ w.rows = << >> /\ w.cursor # NoRev

Reports ==
  [kind : {"history", "summary", "timeline", "status"}, branch : Keys, top : Nat,
   outcome : {"complete", "limit", "unreachable", "none_in_first_parent_history",
              "not_found_within_scan", "head", "behind_head"},
   found : Seq(Nat), scanned : Nat]

\* What was reported is so.
ReportOK(w) ==
  /\ w.top \in RevIds
  /\ heads[w.branch] \in RevIds
  /\ w.outcome = "complete" =>
       Lists(w.found, IF w.kind = "timeline" THEN Checkpoints(w.top) ELSE Lineage(w.top))
  /\ w.outcome # "unreachable"
  /\ w.outcome = "limit" => Cardinality(Lineage(heads[w.branch])) > MaxScan
  /\ w.outcome = "none_in_first_parent_history" => Checkpoints(w.top) = {}
  /\ w.outcome = "not_found_within_scan" =>
       /\ Cardinality(Lineage(w.top)) > w.scanned
       /\ \A r \in Checkpoints(w.top) : Cardinality(Newer(r, w.top)) >= w.scanned
  /\ w.outcome = "head" => w.top \in Checkpoints(w.top)
  /\ w.outcome = "behind_head" =>
       \E r \in RevIds : /\ w.found = <<r>> /\ LatestCheckpoint(r, w.top, w.scanned)
                         /\ r # w.top

PagesInv ==
  /\ LogInv
  /\ published \subseteq RevIds
  /\ reading \in ReadingTypes
  /\ ReadingOK(reading)
  /\ readings \in Seq(Reports)
  /\ \A i \in 1..Len(readings) : ReportOK(readings[i])

------------------------------------------------------------------------------
(* Histories along first parents *)

LEMMA RevIdsAreNumbers ==
  ASSUME LogInv
  PROVE  Len(revs) \in Nat /\ RevIds \subseteq Nat /\ NoRev \notin RevIds /\ IsFiniteSet(RevIds)
<1>1. Len(revs) \in Nat
  BY LenProperties DEF LogInv, LogTypeOK
<1>2. IsFiniteSet(1..Len(revs))
  BY <1>1, FS_Interval
<1> QED
  BY <1>1, <1>2 DEF RevIds, NoRev

\* A first parent is an earlier revision, or there is none.
LEMMA FirstParentEarlier ==
  ASSUME LogInv, NEW h \in RevIds
  PROVE  revs[h].parent1 # NoRev => revs[h].parent1 \in RevIds /\ revs[h].parent1 < h
<1>1. \A p \in {revs[h].parent1, revs[h].parent2} \ {NoRev} : p \in 1 .. (h - 1)
  BY DEF LogInv, ProjectClosed
<1>2. h \in Nat /\ h <= Len(revs) /\ Len(revs) \in Nat
  BY RevIdsAreNumbers DEF RevIds
<1> SUFFICES ASSUME revs[h].parent1 # NoRev
             PROVE  revs[h].parent1 \in RevIds /\ revs[h].parent1 < h
  OBVIOUS
<1>3. revs[h].parent1 \in 1 .. (h - 1)
  BY <1>1
<1> QED
  BY <1>2, <1>3 DEF RevIds

LEMMA LineageBelow ==
  ASSUME LogInv, NEW h \in RevIds
  PROVE  /\ h \in Lineage(h) /\ Lineage(h) \subseteq RevIds /\ IsFiniteSet(Lineage(h))
         /\ \A r \in Lineage(h) : r <= h /\ Lineage(r) \subseteq Lineage(h)
<1>1. h \in Lineage(h) /\ Lineage(h) \subseteq RevIds
  BY FirstParentReflexive DEF Lineage
<1>2. IsFiniteSet(Lineage(h))
  BY <1>1, RevIdsAreNumbers, FS_Subset
<1>3. ASSUME NEW r \in Lineage(h) PROVE r <= h
  <2> DEFINE S == {x \in RevIds : x <= h}
  <2>1. FirstParentClosed(S)
    <3> SUFFICES ASSUME NEW x \in S, revs[x].parent1 # NoRev PROVE revs[x].parent1 \in S
      BY DEF FirstParentClosed
    <3>1. revs[x].parent1 \in RevIds /\ revs[x].parent1 < x
      BY FirstParentEarlier
    <3>2. revs[x].parent1 \in Nat /\ x \in Nat /\ h \in Nat
      BY <3>1, RevIdsAreNumbers
    <3> QED
      BY <3>1, <3>2
  <2>2. h \in S
    BY RevIdsAreNumbers
  <2> QED
    BY <1>3, <2>1, <2>2 DEF Lineage, OnFirstParentHistory
<1>4. ASSUME NEW r \in Lineage(h) PROVE Lineage(r) \subseteq Lineage(h)
  BY <1>4, FirstParentTransitive DEF Lineage
<1> QED
  BY <1>1, <1>2, <1>3, <1>4

\* The history of a revision is itself and the history of its first parent.
LEMMA LineageUnfolds ==
  ASSUME LogInv, NEW h \in RevIds, NEW r \in Lineage(h), r # h
  PROVE  revs[h].parent1 \in RevIds /\ r \in Lineage(revs[h].parent1)
<1>1. r \in RevIds /\ OnFirstParentHistory(r, h)
  BY DEF Lineage
<1>2. revs[h].parent1 # NoRev
  <2> SUFFICES ASSUME revs[h].parent1 = NoRev PROVE FALSE
    OBVIOUS
  <2>1. FirstParentClosed({h})
    BY DEF FirstParentClosed
  <2> QED
    BY <1>1, <2>1 DEF OnFirstParentHistory
<1>3. revs[h].parent1 \in RevIds
  BY <1>2, FirstParentEarlier
<1> QED
  BY <1>1, <1>3, BelowFirstParent DEF Lineage

\* The parent of what a history holds is in it.
LEMMA LineageHoldsParent ==
  ASSUME LogInv, NEW h \in RevIds, NEW r \in Lineage(h), revs[r].parent1 # NoRev
  PROVE  revs[r].parent1 \in Lineage(h)
<1>1. r \in RevIds /\ OnFirstParentHistory(r, h)
  BY DEF Lineage
<1>2. revs[r].parent1 \in RevIds
  BY <1>1, FirstParentEarlier
<1>3. OnFirstParentHistory(revs[r].parent1, h)
  BY <1>1 DEF OnFirstParentHistory, FirstParentClosed
<1> QED
  BY <1>2, <1>3 DEF Lineage

\* Of two revisions of a history the earlier is in the history of the later.
LEMMA LineageIsChain ==
  ASSUME LogInv, NEW h \in RevIds, NEW c \in Lineage(h), NEW r \in Lineage(h), r <= c
  PROVE  r \in Lineage(c)
<1> DEFINE S == {x \in Lineage(h) : c \in Lineage(x) \/ x \in Lineage(c)}
<1>1. c \in RevIds /\ r \in RevIds /\ c \in Nat /\ r \in Nat
  BY RevIdsAreNumbers DEF Lineage
<1>2. FirstParentClosed(S)
  <2> SUFFICES ASSUME NEW x \in S, revs[x].parent1 # NoRev PROVE revs[x].parent1 \in S
    BY DEF FirstParentClosed
  <2> DEFINE p == revs[x].parent1
  <2>1. x \in RevIds /\ p \in Lineage(h)
    BY LineageHoldsParent DEF Lineage
  <2>2. CASE x \in Lineage(c)
    BY <1>1, <2>1, <2>2, LineageHoldsParent
  <2>3. CASE c \in Lineage(x) /\ c # x
    BY <2>1, <2>3, LineageUnfolds
  <2>4. CASE c = x
    BY <1>1, <2>1, <2>4, LineageBelow, LineageHoldsParent
  <2> QED
    BY <2>2, <2>3, <2>4
<1>3. h \in S /\ S \in SUBSET RevIds
  BY LineageBelow DEF Lineage
<1>4. r \in S
  BY <1>2, <1>3 DEF Lineage, OnFirstParentHistory
<1>5. CASE c \in Lineage(r)
  <2>1. c <= r
    BY <1>1, <1>5, LineageBelow
  <2>2. c = r
    BY <1>1, <2>1
  <2> QED
    BY <1>1, <2>2, LineageBelow
<1> QED
  BY <1>4, <1>5

\* Between a revision of a history and its first parent the history has nothing.
LEMMA NextOlder ==
  ASSUME LogInv, NEW h \in RevIds, NEW c \in Lineage(h)
  PROVE  LET p == revs[c].parent1
         IN  /\ p \in Lineage(h) \cup {NoRev} /\ p \in Nat /\ c \in Nat /\ p < c
             /\ Newer(p, h) = Newer(c, h) \cup {c}
             /\ Cardinality(Newer(p, h)) = Cardinality(Newer(c, h)) + 1
             /\ IsFiniteSet(Newer(c, h)) /\ Cardinality(Newer(c, h)) \in Nat
<1> DEFINE p == revs[c].parent1
<1>1. c \in RevIds /\ c \in Nat /\ c > 0 /\ c # NoRev
  BY RevIdsAreNumbers DEF Lineage, RevIds
<1>2. p \in Lineage(h) \cup {NoRev}
  BY LineageHoldsParent
<1>3. p \in Nat /\ p < c
  <2>1. CASE p = NoRev
    BY <1>1, <2>1 DEF NoRev
  <2>2. CASE p # NoRev
    BY <1>1, <2>2, FirstParentEarlier, RevIdsAreNumbers
  <2> QED
    BY <2>1, <2>2
<1>4. \A r \in Lineage(h) : r > p => r = c \/ r > c
  <2> SUFFICES ASSUME NEW r \in Lineage(h), r > p, r # c, ~(r > c) PROVE FALSE
    OBVIOUS
  <2>1. r \in Nat
    BY RevIdsAreNumbers DEF Lineage
  <2>2. r \in Lineage(c)
    BY <1>1, <2>1, LineageIsChain
  <2>3. p \in RevIds /\ r \in Lineage(p)
    BY <1>1, <2>2, LineageUnfolds
  <2>4. r <= p
    BY <2>3, LineageBelow
  <2> QED
    BY <1>3, <2>1, <2>4
<1>5. \A r \in Lineage(h) : r \in Nat
  BY RevIdsAreNumbers DEF Lineage
<1>6. Newer(p, h) = Newer(c, h) \cup {c}
  <2>1. ASSUME NEW r \in Lineage(h) PROVE r > p <=> r > c \/ r = c
    BY <1>1, <1>3, <1>4, <1>5
  <2>2. \A q : Newer(q, h) = {r \in Lineage(h) : r > q}
    BY DEF Newer
  <2> QED
    BY <2>1, <2>2
<1>7. IsFiniteSet(Newer(c, h))
  BY LineageBelow, FS_Subset DEF Newer
<1>8. c \notin Newer(c, h)
  BY <1>1 DEF Newer
<1>9. Cardinality(Newer(p, h)) = Cardinality(Newer(c, h)) + 1
  BY <1>6, <1>7, <1>8, FS_AddElement
<1>10. Cardinality(Newer(c, h)) \in Nat
  BY <1>7, FS_CardinalityType
<1> QED
  BY <1>1, <1>2, <1>3, <1>6, <1>7, <1>9, <1>10

\* Above the head of a history there is nothing, and above nothing all of it.
LEMMA NewestOfLineage ==
  ASSUME LogInv, NEW h \in RevIds
  PROVE  /\ Newer(h, h) = {} /\ Cardinality(Newer(h, h)) = 0
         /\ Newer(NoRev, h) = Lineage(h)
<1>1. \A r \in Lineage(h) : r \in Nat /\ r > 0 /\ r <= h /\ h \in Nat
  <2>1. \A r \in Lineage(h) : r \in RevIds /\ r <= h
    BY LineageBelow
  <2>2. \A r \in RevIds : r \in Nat /\ r > 0
    BY RevIdsAreNumbers DEF RevIds
  <2> QED
    BY <2>1, <2>2
<1>2. Newer(h, h) = {}
  BY <1>1 DEF Newer
<1>3. Newer(NoRev, h) = Lineage(h)
  BY <1>1 DEF Newer, NoRev
<1> QED
  BY <1>2, <1>3, FS_EmptySet

\* What exists keeps its history.
LEMMA LineageKept ==
  ASSUME LogInv, LogGrows, NEW h \in RevIds
  PROVE  Lineage(h)' = Lineage(h)
<1>1. ASSUME NEW r \in Lineage(h)' PROVE r \in Lineage(h)
  BY FirstParentStays DEF Lineage
<1>2. ASSUME NEW r \in Lineage(h) PROVE r \in Lineage(h)'
  BY FirstParentGrows DEF Lineage, LogGrows
<1> QED
  BY <1>1, <1>2

------------------------------------------------------------------------------
(* Lists *)

LEMMA ListOfNothing == Lists(<< >>, {})
BY DEF Lists, ToSet

\* Something older is added at the end.
LEMMA ListGrows ==
  ASSUME NEW s \in Seq(Nat), NEW S \in SUBSET Nat, Lists(s, S), NEW x \in Nat,
         \A y \in S : y > x
  PROVE  Lists(Append(s, x), S \cup {x})
<1> DEFINE t == Append(s, x)
<1>1. /\ Len(s) \in Nat /\ DOMAIN s = 1..Len(s) /\ t \in Seq(Nat) /\ Len(t) = Len(s) + 1
      /\ DOMAIN t = 1..Len(s) + 1
      /\ t[Len(s) + 1] = x /\ \A i \in 1..Len(s) : t[i] = s[i] /\ s[i] \in S /\ s[i] \in Nat
  BY LenProperties, AppendProperties DEF Lists, ToSet
<1>2. ToSet(t) = S \cup {x}
  <2>1. ASSUME NEW i \in DOMAIN t PROVE t[i] \in S \cup {x}
    BY <1>1
  <2>2. ASSUME NEW y \in S PROVE \E i \in DOMAIN t : t[i] = y
    <3>1. PICK i \in DOMAIN s : s[i] = y
      BY DEF Lists, ToSet
    <3> QED
      BY <1>1, <3>1
  <2>3. Len(s) + 1 \in DOMAIN t /\ t[Len(s) + 1] = x
    BY <1>1
  <2> HIDE DEF t
  <2>4. ToSet(t) \subseteq S \cup {x}
    BY <2>1 DEF ToSet
  <2>5. S \cup {x} \subseteq ToSet(t)
    BY <2>2, <2>3 DEF ToSet
  <2> QED
    BY <2>4, <2>5
<1>3. ASSUME NEW i \in DOMAIN t, NEW j \in DOMAIN t, i < j PROVE t[i] > t[j]
  <2>1. CASE j = Len(s) + 1
    BY <1>1, <1>3, <2>1
  <2>2. CASE j # Len(s) + 1
    <3>1. i \in DOMAIN s /\ j \in DOMAIN s
      BY <1>1, <1>3, <2>2
    <3> QED
      BY <1>1, <1>3, <3>1 DEF Lists
  <2> QED
    BY <2>1, <2>2
<1> QED
  BY <1>2, <1>3 DEF Lists

\* Without the last one it is a list of what is newer.
LEMMA ListWithoutLast ==
  ASSUME NEW s \in Seq(Nat), NEW x \in Nat, NEW S, Lists(Append(s, x), S)
  PROVE  x \in S /\ Lists(s, {y \in S : y > x})
<1> DEFINE t == Append(s, x)
<1>1. /\ Len(s) \in Nat /\ DOMAIN s = 1..Len(s)
      /\ DOMAIN t = 1..Len(s) + 1
      /\ t[Len(s) + 1] = x /\ \A i \in 1..Len(s) : t[i] = s[i] /\ s[i] \in Nat
  BY LenProperties, AppendProperties
<1>2. \A i \in 1..Len(s) : s[i] \in S /\ s[i] > x
  <2> SUFFICES ASSUME NEW i \in 1..Len(s) PROVE t[i] \in S /\ t[i] > x
    BY <1>1
  <2>1. i \in DOMAIN t /\ Len(s) + 1 \in DOMAIN t /\ i < Len(s) + 1
    BY <1>1
  <2> HIDE DEF t
  <2> QED
    BY <1>1, <2>1 DEF Lists, ToSet
<1>3. x \in S
  BY <1>1 DEF Lists, ToSet
<1>4. ASSUME NEW y \in S, y > x PROVE \E i \in DOMAIN s : s[i] = y
  <2>1. PICK i \in DOMAIN t : t[i] = y
    BY DEF Lists, ToSet
  <2>2. i # Len(s) + 1
    BY <1>1, <1>4, <2>1
  <2> QED
    BY <1>1, <2>1, <2>2
<1>5. \A i, j \in DOMAIN s : i < j => s[i] > s[j]
  <2> SUFFICES ASSUME NEW i \in DOMAIN s, NEW j \in DOMAIN s, i < j PROVE s[i] > s[j]
    OBVIOUS
  <2>1. i \in DOMAIN t /\ j \in DOMAIN t
    BY <1>1
  <2>2. t[i] > t[j]
    BY <2>1 DEF Lists
  <2> QED
    BY <1>1, <2>2
<1>6. ToSet(s) = {y \in S : y > x}
  BY <1>1, <1>2, <1>4 DEF ToSet
<1> QED
  BY <1>3, <1>5, <1>6 DEF Lists

\* What comes last, and what comes before it.
LEMMA WithoutLast ==
  ASSUME NEW s \in Seq(Nat), NEW n \in Nat, Len(s) = n + 1
  PROVE  /\ SubSeq(s, 1, n) \in Seq(Nat) /\ s[n + 1] \in Nat
         /\ s = Append(SubSeq(s, 1, n), s[n + 1])
<1>1. s[n + 1] \in Nat /\ \A i \in 1..n : s[i] \in Nat
  BY ElementOfSeq
<1>2. /\ SubSeq(s, 1, n) \in Seq(Nat) /\ Len(SubSeq(s, 1, n)) = n
      /\ \A i \in 1..n : SubSeq(s, 1, n)[i] = s[i]
  BY <1>1, SubSeqProperties
<1> DEFINE t == Append(SubSeq(s, 1, n), s[n + 1])
<1>3. /\ t \in Seq(Nat) /\ Len(t) = n + 1 /\ t[n + 1] = s[n + 1]
      /\ \A i \in 1..n : t[i] = s[i]
  BY <1>1, <1>2, AppendProperties
<1>4. \A i \in 1..Len(s) : s[i] = t[i]
  BY <1>3
<1> QED
  BY <1>1, <1>2, <1>3, <1>4, SeqEqual

LEMMA ConcatAppend ==
  ASSUME NEW s \in Seq(Nat), NEW t \in Seq(Nat), NEW x \in Nat
  PROVE  s \o Append(t, x) = Append(s \o t, x) /\ s \o t \in Seq(Nat)
<1>1. Append(t, x) = t \o <<x>> /\ <<x>> \in Seq(Nat)
  BY AppendIsConcat
<1>2. s \o t \in Seq(Nat)
  BY ConcatProperties
<1>3. Append(s \o t, x) = (s \o t) \o <<x>>
  BY <1>2, AppendIsConcat
<1> QED
  BY <1>1, <1>2, <1>3, ConcatAssociative

------------------------------------------------------------------------------
(* Steps *)

LEMMA NothingMoved ==
  ASSUME UNCHANGED <<logVars, published>>
  PROVE  /\ RevIds' = RevIds /\ heads' = heads /\ published' = published /\ LogInv' = LogInv
         /\ \A h : Lineage(h)' = Lineage(h) /\ Checkpoints(h)' = Checkpoints(h)
         /\ \A r, h : Newer(r, h)' = Newer(r, h)
<1>1. UNCHANGED <<revs, heads, documents, published>>
  BY DEF logVars
<1>2. RevIds' = RevIds
  BY <1>1 DEF RevIds
<1>3. \A h : Lineage(h)' = Lineage(h)
  BY <1>1, <1>2 DEF Lineage, OnFirstParentHistory, FirstParentClosed
<1>4. LogInv' = LogInv
  BY <1>1, <1>2 DEF LogInv, LogTypeOK, ProjectClosed
<1> QED
  BY <1>1, <1>2, <1>3, <1>4 DEF Checkpoints, Newer

LEMMA ReportKept ==
  ASSUME UNCHANGED <<logVars, published>>, NEW w, ReportOK(w)
  PROVE  ReportOK(w)'
BY NothingMoved DEF ReportOK, LatestCheckpoint

LEMMA ReportOfRow ==
  ASSUME NEW i, NEW v, v = readings'[i], ReportOK(v)'
  PROVE  ReportOK(readings[i])'
BY DEF ReportOK, LatestCheckpoint

LEMMA ReadingKept ==
  ASSUME UNCHANGED <<logVars, published>>, NEW w, ReadingOK(w)
  PROVE  ReadingOK(w)'
<1> USE NothingMoved
<1>1. ToldOK(w)' = ToldOK(w)
  BY DEF ToldOK, Due, Place
<1>2. CheckOK(w)' = CheckOK(w) /\ RowsOK(w)' = RowsOK(w) /\ ScanOK(w)' = ScanOK(w)
  BY DEF CheckOK, RowsOK, ScanOK, LatestCheckpoint
<1> QED
  BY <1>1, <1>2 DEF ReadingOK

\* The reader goes on.
LEMMA WalksOn ==
  ASSUME PagesInv, NEW c \in ReadingTypes, ReadingOK(c), Walks(c)
  PROVE  PagesInv'
<1>1. reading' = c /\ UNCHANGED <<logVars, published, readings>>
  BY DEF Walks
<1>2. ReadingOK(c)'
  BY <1>1, ReadingKept
<1>3. ReadingOK(reading)'
  BY <1>1, <1>2 DEF ReadingOK, ToldOK, CheckOK, RowsOK, ScanOK, Place
<1>4. ASSUME NEW i \in 1..Len(readings) PROVE ReportOK(readings[i])'
  <2>1. PICK v : v = readings[i]
    OBVIOUS
  <2>2. ReportOK(v)'
    BY <1>1, <2>1, ReportKept DEF PagesInv
  <2> QED
    BY <1>1, <2>1, <2>2, ReportOfRow
<1> QED
  BY <1>1, <1>3, <1>4, NothingMoved DEF PagesInv

\* The reading ends with a true report.
LEMMA ReportsOn ==
  ASSUME PagesInv, NEW w \in Reports, ReportOK(w), readings' = Append(readings, w),
         reading' = NobodyWalks, NobodyWalks \in ReadingTypes, UNCHANGED <<logVars, published>>
  PROVE  PagesInv'
<1>1. ReadingOK(reading)'
  BY DEF ReadingOK, NobodyWalks
<1>2. /\ Len(readings) \in Nat /\ readings' \in Seq(Reports) /\ Len(readings') = Len(readings) + 1
      /\ readings'[Len(readings) + 1] = w
      /\ \A i \in 1..Len(readings) : readings'[i] = readings[i]
  BY LenProperties, AppendProperties DEF PagesInv
<1>3. ASSUME NEW i \in 1..Len(readings) + 1 PROVE ReportOK(readings[i])'
  <2>1. PICK v : v = readings'[i]
    OBVIOUS
  <2>2. ReportOK(v)
    <3>1. CASE i = Len(readings) + 1
      BY <1>2, <2>1, <3>1
    <3>2. CASE i # Len(readings) + 1
      BY <1>2, <2>1, <3>2 DEF PagesInv
    <3> QED
      BY <3>1, <3>2
  <2>3. ReportOK(v)'
    BY <2>2, ReportKept
  <2> QED
    BY <2>1, <2>3, ReportOfRow
<1> QED
  BY <1>1, <1>2, <1>3, NothingMoved DEF PagesInv

LEMMA IdleReader == NobodyWalks \in ReadingTypes /\ NobodyWalks.pc = "idle"
<1>1. <<CHOOSE p \in Projects : TRUE, Main>> \in Keys
  BY ConstantsAssumption DEF Keys
<1>2. << >> \in Seq(Nat) /\ NoRev \in Nat
  BY EmptySeq DEF NoRev
<1> QED
  BY <1>1, <1>2 DEF NobodyWalks, ReadingTypes

\* The parts of a reader's state.
LEMMA ReadingParts ==
  ASSUME PagesInv
  PROVE  /\ reading.pc \in {"idle", "check", "rows", "next", "scan"}
         /\ reading.kind \in {"history", "summary", "timeline", "status"}
         /\ reading.branch \in Keys
         /\ reading.limit \in Nat /\ reading.scan \in Nat /\ reading.top \in Nat
         /\ reading.cursor \in Nat /\ reading.current \in Nat /\ reading.scanned \in Nat
         /\ reading.rows \in Seq(Nat) /\ reading.found \in Seq(Nat)
         /\ Len(reading.rows) \in Nat /\ LogInv
<1>1. reading.rows \in Seq(Nat)
  BY DEF PagesInv, ReadingTypes
<1>2. Len(reading.rows) \in Nat
  BY <1>1, LenProperties
<1> QED
  BY <1>1, <1>2 DEF PagesInv, ReadingTypes

\* Reporting something true of what was read ends the reading.
LEMMA ClosesOn ==
  ASSUME PagesInv, NEW outcome, NEW found \in Seq(Nat), Closes(outcome, found),
         ReportOK([kind |-> reading.kind, branch |-> reading.branch, top |-> reading.top,
                   outcome |-> outcome, found |-> found, scanned |-> reading.scanned]),
         outcome \in {"complete", "limit", "unreachable", "none_in_first_parent_history",
                      "not_found_within_scan", "head", "behind_head"}
  PROVE  PagesInv'
<1>1. PICK w : w = [kind |-> reading.kind, branch |-> reading.branch, top |-> reading.top,
                    outcome |-> outcome, found |-> found, scanned |-> reading.scanned]
  OBVIOUS
<1>2. w \in Reports
  BY <1>1, ReadingParts DEF Reports
<1>3. /\ readings' = Append(readings, w) /\ reading' = NobodyWalks
      /\ UNCHANGED <<logVars, published>>
  BY <1>1 DEF Closes
<1>4. ReportOK(w)
  BY <1>1
<1> QED
  BY <1>2, <1>3, <1>4, IdleReader, ReportsOn

LEMMA WalkStarts ==
  ASSUME PagesInv, NEW kind \in {"history", "summary", "timeline", "status"}, NEW branch \in Keys,
         NEW limit \in PageLimits, NEW scan \in ScanLimits, StartWalk(kind, branch, limit, scan)
  PROVE  PagesInv'
<1> DEFINE h == heads[branch]
<1>1. h \in RevIds /\ LogInv
  BY DEF StartWalk, PagesInv, LogInv, ProjectClosed
<1>2. PICK c : /\ Walks(c)
               /\ c = [NobodyWalks EXCEPT
                    !.pc = CASE kind = "history" -> "check" [] kind = "summary" -> "rows"
                             [] OTHER -> "scan",
                    !.kind = kind, !.branch = branch, !.scan = scan,
                    !.limit = IF kind = "summary" THEN MaxScan ELSE limit,
                    !.top = h, !.cursor = h, !.current = h]
  BY DEF StartWalk
<1>3. /\ c.pc = CASE kind = "history" -> "check" [] kind = "summary" -> "rows" [] OTHER -> "scan"
      /\ c.kind = kind /\ c.branch = branch /\ c.top = h /\ c.cursor = h /\ c.current = h
      /\ c.limit = (IF kind = "summary" THEN MaxScan ELSE limit)
      /\ c.scanned = 0 /\ c.rows = << >> /\ c.found = << >>
  BY <1>2 DEF NobodyWalks
<1>4. c \in ReadingTypes
  <2>1. limit \in Nat /\ scan \in Nat /\ MaxScan \in Nat /\ h \in Nat
    BY <1>1, PagesAssumption, RevIdsAreNumbers
  <2> QED
    BY <1>2, <2>1, IdleReader DEF ReadingTypes
<1>5. /\ h \in Lineage(h) /\ Newer(h, h) = {} /\ Cardinality(Newer(h, h)) = 0
      /\ h # NoRev /\ h \in Nat
  BY <1>1, LineageBelow, NewestOfLineage, RevIdsAreNumbers
<1>6. ToldOK(c)
  <2>1. {x \in Due(kind, h) : x > h} = {}
    BY <1>5 DEF Due, Checkpoints, Newer
  <2>2. << >> \o << >> = << >>
    BY EmptySeq, ConcatEmptySeq
  <2>3. Place(c) = h
    BY <1>3 DEF Place
  <2> QED
    BY <1>1, <1>3, <1>5, <2>1, <2>2, <2>3, ListOfNothing DEF ToldOK
<1>7. c.limit \in Nat /\ Len(<< >>) = 0
  BY <1>4, EmptySeq DEF ReadingTypes
<1>8. /\ c.pc = "check" => CheckOK(c)
      /\ c.pc = "rows" => RowsOK(c)
      /\ c.pc = "scan" => ScanOK(c)
      /\ c.pc # "next"
  BY <1>3, <1>5, <1>7 DEF CheckOK, RowsOK, ScanOK
<1> QED
  BY <1>2, <1>4, <1>6, <1>8, WalksOn DEF ReadingOK

LEMMA CheckStep ==
  ASSUME PagesInv, CheckCursor
  PROVE  PagesInv'
<1> DEFINE top  == heads[reading.branch]
           older == revs[reading.current].parent1
<1>0. /\ reading.pc = "check" /\ ToldOK(reading) /\ CheckOK(reading) /\ LogInv
      /\ reading \in ReadingTypes
  BY DEF CheckCursor, PagesInv, ReadingOK
<1>1. /\ top \in RevIds /\ reading.current \in Lineage(top) /\ reading.current \in RevIds
      /\ reading.current # NoRev /\ reading.cursor \in Lineage(reading.current)
  BY <1>0, LineageBelow, RevIdsAreNumbers DEF ToldOK, CheckOK
<1>2. /\ older \in Lineage(top) \cup {NoRev} /\ older \in Nat
      /\ Cardinality(Newer(older, top)) = Cardinality(Newer(reading.current, top)) + 1
      /\ Cardinality(Newer(reading.current, top)) \in Nat
      /\ reading.scanned <= Cardinality(Newer(reading.current, top)) /\ reading.scanned \in Nat
  BY <1>0, <1>1, NextOlder, ReadingParts DEF CheckOK
<1>3. CASE /\ reading.current = reading.cursor
           /\ Walks([reading EXCEPT !.pc = "rows", !.scanned = 0])
  <2>1. PICK c : c = [reading EXCEPT !.pc = "rows", !.scanned = 0]
    OBVIOUS
  <2>2. /\ c \in ReadingTypes /\ c.pc = "rows" /\ c.kind = reading.kind
        /\ c.branch = reading.branch
        /\ c.top = reading.top /\ c.current = reading.cursor /\ c.limit = reading.limit
        /\ c.rows = reading.rows /\ c.found = reading.found
    BY <1>0, <1>3, <2>1 DEF ReadingTypes
  <2>3. Place(c) = Place(reading)
    BY <1>0, <2>2 DEF Place
  <2>4. ToldOK(c)
    BY <1>0, <2>2, <2>3 DEF ToldOK
  <2>5. RowsOK(c)
    <3>1. Len(<< >>) = 0 /\ reading.limit \in Nat
      BY EmptySeq, ReadingParts
    <3> QED
      BY <1>0, <2>2, <3>1 DEF CheckOK, RowsOK
  <2> QED
    BY <1>3, <2>1, <2>2, <2>4, <2>5, WalksOn DEF ReadingOK
<1>4. CASE /\ reading.current \notin {reading.cursor, NoRev}
           /\ Walks([reading EXCEPT !.current = revs[@].parent1, !.scanned = @ + 1])
  <2>1. PICK c : c = [reading EXCEPT !.current = revs[@].parent1, !.scanned = @ + 1]
    OBVIOUS
  <2>2. older \in RevIds /\ reading.cursor \in Lineage(older) /\ older # NoRev
    BY <1>0, <1>1, <1>4, LineageUnfolds, RevIdsAreNumbers
  <2>3. /\ c \in ReadingTypes /\ c.pc = "check" /\ c.kind = reading.kind
        /\ c.branch = reading.branch
        /\ c.top = reading.top /\ c.cursor = reading.cursor /\ c.current = older
        /\ c.scanned = reading.scanned + 1
        /\ c.rows = reading.rows /\ c.found = reading.found
    <3>1. older \in Nat /\ reading.scanned + 1 \in Nat
      BY <1>2
    <3> HIDE DEF older
    <3>2. c = [reading EXCEPT !.current = older, !.scanned = reading.scanned + 1]
      BY <2>1 DEF older
    <3> QED
      BY <1>0, <3>1, <3>2 DEF ReadingTypes
  <2>4. ToldOK(c)
    BY <1>0, <2>3 DEF ToldOK, Place
  <2>5. CheckOK(c)
    BY <1>0, <1>2, <2>2, <2>3 DEF CheckOK
  <2> QED
    BY <1>4, <2>1, <2>3, <2>4, <2>5, WalksOn DEF ReadingOK
<1>5. CASE reading.scanned = MaxScan /\ Closes("limit", reading.found)
  <2>1. Newer(older, top) \subseteq Lineage(top) /\ IsFiniteSet(Lineage(top))
    BY <1>0, <1>1, LineageBelow DEF Newer
  <2>2. /\ Cardinality(Newer(older, top)) <= Cardinality(Lineage(top))
        /\ Cardinality(Lineage(top)) \in Nat
    BY <2>1, FS_Subset, FS_CardinalityType
  <2>3. Cardinality(Lineage(top)) > MaxScan
    BY <1>2, <1>5, <2>2
  <2> QED
    BY <1>0, <1>5, <2>3, ClosesOn, ReadingParts DEF ReportOK, ToldOK
<1> QED
  BY <1>1, <1>3, <1>4, <1>5 DEF CheckCursor

LEMMA RowStep ==
  ASSUME PagesInv, FetchRow
  PROVE  PagesInv'
<1> DEFINE older == revs[reading.current].parent1
           all   == reading.found \o reading.rows
<1>0. /\ reading.pc = "rows" /\ ToldOK(reading) /\ RowsOK(reading) /\ LogInv
      /\ reading \in ReadingTypes /\ reading.current # NoRev /\ Len(reading.rows) <= reading.limit
  BY DEF FetchRow, PagesInv, ReadingOK
<1>1. /\ reading.top \in RevIds /\ reading.current \in Lineage(reading.top)
      /\ Place(reading) = reading.current
  BY <1>0 DEF ToldOK, Place
<1>2. /\ older \in Lineage(reading.top) \cup {NoRev} /\ older \in Nat /\ reading.current \in Nat
      /\ Newer(older, reading.top) = Newer(reading.current, reading.top) \cup {reading.current}
      /\ Cardinality(Newer(older, reading.top))
           = Cardinality(Newer(reading.current, reading.top)) + 1
  BY <1>0, <1>1, NextOlder
<1>3. PICK c : c = [reading EXCEPT !.rows = Append(@, reading.current),
                                  !.current = revs[@].parent1]
  OBVIOUS
<1>4. /\ Append(reading.rows, reading.current) \in Seq(Nat)
      /\ Len(Append(reading.rows, reading.current)) = Len(reading.rows) + 1
      /\ Len(reading.rows) \in Nat /\ reading.limit \in Nat
  BY <1>2, ReadingParts, AppendProperties
<1>5. /\ c \in ReadingTypes /\ c.pc = "rows" /\ c.kind = reading.kind
        /\ c.branch = reading.branch
      /\ c.limit = reading.limit /\ c.top = reading.top /\ c.current = older
      /\ c.rows = Append(reading.rows, reading.current) /\ c.found = reading.found
  BY <1>0, <1>2, <1>3, <1>4 DEF ReadingTypes
<1>6. Lists(c.found \o c.rows, Newer(older, reading.top))
  <2>1. all \in Seq(Nat) /\ c.found \o c.rows = Append(all, reading.current)
    BY <1>2, <1>5, ReadingParts, ConcatAppend
  <2>2. Lists(all, Newer(reading.current, reading.top))
    BY <1>0, <1>1 DEF ToldOK, RowsOK, Due, Newer
  <2>3. Newer(reading.current, reading.top) \in SUBSET Nat
    BY <1>0, <1>1, LineageBelow, RevIdsAreNumbers DEF Newer
  <2>4. \A y \in Newer(reading.current, reading.top) : y > reading.current
    BY DEF Newer
  <2> QED
    BY <1>2, <2>1, <2>2, <2>3, <2>4, ListGrows
<1>7. ToldOK(c)
  <2>1. {x \in Due(c.kind, c.top) : x > Place(c)} = Newer(older, reading.top) /\ Place(c) = older
    BY <1>0, <1>5 DEF RowsOK, Due, Newer, Place
  <2> QED
    BY <1>0, <1>2, <1>5, <1>6, <2>1 DEF ToldOK
<1>8. RowsOK(c)
  <2>1. Len(c.rows) = Len(reading.rows) + 1 /\ Len(c.rows) <= c.limit + 1
    BY <1>0, <1>4, <1>5
  <2>2. c.kind = "summary" => /\ c.limit = MaxScan /\ c.found = << >>
                             /\ Len(c.rows) = Cardinality(Newer(older, reading.top))
    BY <1>0, <1>2, <1>5, <2>1 DEF RowsOK
  <2>3. c.kind \in {"history", "summary"}
    BY <1>0, <1>5 DEF RowsOK
  <2> QED
    BY <1>5, <2>1, <2>2, <2>3 DEF RowsOK
<1> QED
  BY <1>3, <1>5, <1>7, <1>8, WalksOn DEF ReadingOK, FetchRow

\* A part of a history is no longer than the history.
LEMMA PartOfLineage ==
  ASSUME LogInv, NEW h \in RevIds, NEW S \in SUBSET Lineage(h)
  PROVE  /\ Cardinality(S) <= Cardinality(Lineage(h)) /\ Cardinality(S) \in Nat
         /\ Cardinality(Lineage(h)) \in Nat
<1>1. IsFiniteSet(Lineage(h))
  BY LineageBelow
<1> QED
  BY <1>1, FS_Subset, FS_CardinalityType

LEMMA SummaryStep ==
  ASSUME PagesInv, EndSummary
  PROVE  PagesInv'
<1>0. /\ reading.pc = "rows" /\ ToldOK(reading) /\ RowsOK(reading) /\ LogInv
      /\ reading.kind = "summary" /\ reading.found = << >> /\ reading.limit = MaxScan
      /\ reading.rows \in Seq(Nat) /\ Len(reading.rows) \in Nat /\ MaxScan \in Nat
  BY ReadingParts, PagesAssumption DEF EndSummary, RowsFetched, PagesInv, ReadingOK, RowsOK
<1>1. CASE Len(reading.rows) > MaxScan /\ Closes("limit", << >>)
  <2>1. Lineage(reading.top) \subseteq Lineage(heads[reading.branch])
    BY <1>0, LineageBelow DEF ToldOK
  <2>2. Newer(reading.current, reading.top) \subseteq Lineage(heads[reading.branch])
    BY <2>1 DEF Newer
  <2>3. /\ Cardinality(Newer(reading.current, reading.top))
             <= Cardinality(Lineage(heads[reading.branch]))
        /\ Cardinality(Lineage(heads[reading.branch])) \in Nat
    BY <1>0, <2>2, PartOfLineage DEF ToldOK
  <2>4. Cardinality(Lineage(heads[reading.branch])) > MaxScan
    BY <1>0, <1>1, <2>3 DEF RowsOK
  <2>5. << >> \in Seq(Nat)
    BY EmptySeq
  <2> QED
    BY <1>0, <1>1, <2>4, <2>5, ClosesOn DEF ReportOK, ToldOK
<1>2. CASE ~(Len(reading.rows) > MaxScan) /\ Closes("complete", reading.rows)
  <2>1. reading.current = NoRev
    BY <1>0, <1>2 DEF EndSummary, RowsFetched
  <2>2. {x \in Due(reading.kind, reading.top) : x > Place(reading)} = Lineage(reading.top)
    BY <1>0, <2>1, NewestOfLineage DEF ToldOK, Due, Place, Newer
  <2>3. Lists(reading.rows, Lineage(reading.top))
    BY <1>0, <2>2, ConcatEmptySeq DEF ToldOK
  <2> QED
    BY <1>0, <1>2, <2>3, ClosesOn DEF ReportOK, ToldOK
<1> QED
  BY <1>1, <1>2 DEF EndSummary

\* The smaller of two numbers.
LEMMA MinOfTwo ==
  ASSUME NEW a \in Nat, NEW b \in Nat
  PROVE  Min({a, b}) = IF a <= b THEN a ELSE b
<1> DEFINE m == IF a <= b THEN a ELSE b
<1>1. m \in {a, b} /\ \A y \in {a, b} : m <= y
  OBVIOUS
<1>2. \A x \in {a, b} : (\A y \in {a, b} : x <= y) => x = m
  OBVIOUS
<1> HIDE DEF m
<1> QED
  BY <1>1, <1>2 DEF Min, m

\* A page ends, and the next one begins with its cursor.
LEMMA PageStep ==
  ASSUME PagesInv, reading.pc \in {"rows", "scan"}, reading.kind \in {"history", "timeline"},
         NEW page \in Seq(Nat), NEW cursor \in Lineage(reading.top) \cup {NoRev},
         Lists(reading.found \o page, {x \in Due(reading.kind, reading.top) : x > cursor}),
         Pages(page, cursor)
  PROVE  PagesInv'
<1>0. /\ ToldOK(reading) /\ LogInv /\ reading \in ReadingTypes
      /\ reading.top \in RevIds /\ reading.found \o page \in Seq(Nat)
  BY ReadingParts, ConcatProperties DEF PagesInv, ReadingOK, ToldOK
<1>1. CASE cursor = NoRev
  <2>1. \A x \in Lineage(reading.top) : x > cursor
    BY <1>0, <1>1, NewestOfLineage DEF Newer
  <2>2. {x \in Due(reading.kind, reading.top) : x > cursor}
          = IF reading.kind = "timeline" THEN Checkpoints(reading.top) ELSE Lineage(reading.top)
    BY <2>1 DEF Due, Checkpoints
  <2> QED
    BY <1>0, <1>1, <2>2, ClosesOn DEF Pages, ReportOK, ToldOK
<1>2. CASE cursor # NoRev
  <2>1. cursor \in Nat
    BY <1>0, <1>2, LineageBelow, RevIdsAreNumbers
  <2>2. PICK c : c = [reading EXCEPT !.pc = "next", !.cursor = cursor, !.rows = << >>,
                                     !.found = @ \o page]
    OBVIOUS
  <2>3. /\ c \in ReadingTypes /\ c.pc = "next" /\ c.kind = reading.kind
        /\ c.branch = reading.branch
        /\ c.top = reading.top /\ c.cursor = cursor /\ c.rows = << >>
        /\ c.found = reading.found \o page
    <3>1. << >> \in Seq(Nat)
      BY EmptySeq
    <3> QED
      BY <1>0, <2>1, <2>2, <3>1 DEF ReadingTypes
  <2>4. c.found \o c.rows = reading.found \o page
    BY <1>0, <2>3, ConcatEmptySeq
  <2>5. ToldOK(c)
    BY <1>0, <2>3, <2>4 DEF ToldOK, Place
  <2> QED
    BY <1>2, <2>2, <2>3, <2>5, WalksOn DEF Pages, ReadingOK
<1> QED
  BY <1>1, <1>2

LEMMA HistoryPageStep ==
  ASSUME PagesInv, EndHistoryPage
  PROVE  PagesInv'
<1> DEFINE page   == SubSeq(reading.rows, 1, Min({reading.limit, Len(reading.rows)}))
           cursor == NextCursor(reading.rows, reading.limit)
<1>0. /\ reading.pc = "rows" /\ ToldOK(reading) /\ RowsOK(reading) /\ LogInv
      /\ reading.kind = "history" /\ Pages(page, cursor) /\ RowsFetched
      /\ reading.rows \in Seq(Nat) /\ Len(reading.rows) \in Nat /\ reading.limit \in Nat
      /\ reading.found \in Seq(Nat) /\ reading.current \in Nat
  BY ReadingParts DEF EndHistoryPage, RowsFetched, PagesInv, ReadingOK
<1>1. /\ Place(reading) = reading.current /\ reading.top \in RevIds
      /\ reading.current \in Lineage(reading.top) \cup {NoRev}
      /\ \A q : {x \in Due(reading.kind, reading.top) : x > q} = Newer(q, reading.top)
      /\ Lists(reading.found \o reading.rows, Newer(reading.current, reading.top))
  BY <1>0 DEF ToldOK, Place, Due, Newer
<1>2. CASE Len(reading.rows) = reading.limit + 1
  <2> DEFINE x == reading.rows[reading.limit + 1]
             front == SubSeq(reading.rows, 1, reading.limit)
  <2>1. Min({reading.limit, Len(reading.rows)}) = reading.limit /\ cursor = x
    <3>1. Min({reading.limit, Len(reading.rows)}) = reading.limit
      BY <1>0, <1>2, MinOfTwo
    <3>2. cursor = x
      BY <1>0, <1>2 DEF NextCursor
    <3> QED
      BY <3>1, <3>2
  <2>2. front \in Seq(Nat) /\ x \in Nat /\ reading.rows = Append(front, x)
    BY <1>0, <1>2, WithoutLast
  <2>7. page = front
    BY <2>1
  <2> HIDE DEF x, front, page, cursor
  <2>3. /\ reading.found \o front \in Seq(Nat)
        /\ reading.found \o reading.rows = Append(reading.found \o front, x)
    <3>1. reading.found \in Seq(Nat) /\ front \in Seq(Nat) /\ x \in Nat
      BY <1>0, <2>2
    <3>2. /\ reading.found \o front \in Seq(Nat)
          /\ reading.found \o Append(front, x) = Append(reading.found \o front, x)
      BY <3>1, ConcatAppend
    <3>3. reading.rows = Append(front, x)
      BY <2>2
    <3> QED
      BY <3>2, <3>3, Zenon
  <2>4. /\ x \in Newer(reading.current, reading.top)
        /\ Lists(reading.found \o front, {y \in Newer(reading.current, reading.top) : y > x})
    <3> DEFINE s == reading.found \o front
               S == Newer(reading.current, reading.top)
    <3>1. s \in Seq(Nat) /\ x \in Nat /\ Lists(Append(s, x), S)
      BY <1>1, <2>2, <2>3
    <3> HIDE DEF s, S
    <3>2. x \in S /\ Lists(s, {y \in S : y > x})
      BY <3>1, ListWithoutLast
    <3> QED
      BY <3>2 DEF s, S
  <2>5. {y \in Newer(reading.current, reading.top) : y > x} = Newer(x, reading.top)
    <3>1. \A y \in Lineage(reading.top) : y \in Nat
      BY <1>0, <1>1, LineageBelow, RevIdsAreNumbers
    <3>2. x > reading.current
      BY <2>4 DEF Newer
    <3>3. ASSUME NEW y \in Lineage(reading.top), y > x PROVE y > reading.current
      BY <1>0, <2>2, <3>1, <3>2, <3>3
    <3> QED
      BY <3>3 DEF Newer
  <2>6. x \in Lineage(reading.top) /\ Lists(reading.found \o front, Newer(x, reading.top))
    BY <2>4, <2>5 DEF Newer
  <2> QED
    BY <1>0, <1>1, <2>1, <2>2, <2>6, <2>7, PageStep
<1>3. CASE Len(reading.rows) # reading.limit + 1
  <2>1. reading.current = NoRev /\ Len(reading.rows) <= reading.limit
    BY <1>0, <1>3 DEF RowsFetched, RowsOK
  <2>2. Min({reading.limit, Len(reading.rows)}) = Len(reading.rows) /\ cursor = NoRev
    BY <1>0, <2>1, MinOfTwo DEF NextCursor
  <2>3. page = reading.rows
    BY <1>0, <2>2, SubSeqFull
  <2> QED
    BY <1>0, <1>1, <2>1, <2>2, <2>3, PageStep
<1> QED
  BY <1>2, <1>3

\* The caller asks for the next page: the branch may have moved on.
LEMMA NextPageStep ==
  ASSUME PagesInv, NextPage
  PROVE  PagesInv'
<1> DEFINE top == heads[reading.branch]
<1>0. /\ reading.pc = "next" /\ ToldOK(reading) /\ LogInv /\ reading \in ReadingTypes
      /\ reading.kind \in {"history", "timeline"} /\ reading.rows = << >>
      /\ reading.cursor # NoRev /\ Place(reading) = reading.cursor
  BY DEF NextPage, PagesInv, ReadingOK, Place
<1>1. /\ top \in RevIds /\ top \in Nat /\ reading.top \in RevIds
      /\ reading.cursor \in Lineage(reading.top)
      /\ reading.top \in Lineage(top) /\ reading.cursor \in Nat
  BY <1>0, RevIdsAreNumbers, ReadingParts DEF ToldOK
<1>2. PICK c : /\ Walks(c)
               /\ c = [reading EXCEPT !.pc = IF reading.kind = "history" THEN "check" ELSE "scan",
                                      !.scanned = 0,
                                      !.current = IF reading.kind = "history" THEN top
                                                  ELSE reading.cursor]
  BY DEF NextPage
<1>3. /\ c \in ReadingTypes /\ c.kind = reading.kind
        /\ c.branch = reading.branch
      /\ c.top = reading.top /\ c.cursor = reading.cursor /\ c.rows = reading.rows
      /\ c.found = reading.found /\ c.scanned = 0
      /\ c.pc = (IF reading.kind = "history" THEN "check" ELSE "scan")
      /\ c.current = (IF reading.kind = "history" THEN top ELSE reading.cursor)
  <2> HIDE DEF top
  <2> QED
    BY <1>0, <1>1, <1>2 DEF ReadingTypes
<1>4. ToldOK(c)
  <2>1. Place(c) = reading.cursor
    BY <1>0, <1>3 DEF Place
  <2> QED
    BY <1>0, <1>3, <2>1 DEF ToldOK
<1>5. CASE reading.kind = "history"
  <2>1. reading.cursor \in Lineage(top) /\ top \in Lineage(top)
    BY <1>0, <1>1, LineageBelow
  <2>2. Cardinality(Newer(top, top)) = 0
    BY <1>0, <1>1, NewestOfLineage
  <2>3. CheckOK(c)
    BY <1>0, <1>3, <1>5, <2>1, <2>2 DEF CheckOK
  <2>4. c.pc = "check"
    BY <1>3, <1>5
  <2>5. ReadingOK(c)
    BY <1>4, <2>3, <2>4 DEF ReadingOK
  <2>6. Walks(c) /\ c \in ReadingTypes
    BY <1>2, <1>3
  <2> QED
    BY <2>5, <2>6, WalksOn
<1>6. CASE reading.kind = "timeline"
  <2>1. ScanOK(c)
    BY <1>3, <1>6 DEF ScanOK
  <2>2. c.pc = "scan"
    BY <1>3, <1>6
  <2>3. ReadingOK(c)
    BY <1>4, <2>1, <2>2 DEF ReadingOK
  <2>4. Walks(c) /\ c \in ReadingTypes
    BY <1>2, <1>3
  <2> QED
    BY <2>3, <2>4, WalksOn
<1> QED
  BY <1>0, <1>5, <1>6

LEMMA ScanStep ==
  ASSUME PagesInv, ScanRevision
  PROVE  PagesInv'
<1> DEFINE older == revs[reading.current].parent1
           all   == reading.found \o reading.rows
           due(q) == {x \in Checkpoints(reading.top) : x > q}
<1>0. /\ reading.pc = "scan" /\ ToldOK(reading) /\ ScanOK(reading) /\ LogInv
      /\ reading \in ReadingTypes /\ reading.current # NoRev /\ Len(reading.rows) < Wanted
  BY DEF ScanRevision, ScanGoesOn, PagesInv, ReadingOK
<1>1. /\ reading.top \in RevIds /\ reading.current \in Lineage(reading.top)
      /\ Place(reading) = reading.current
  BY <1>0 DEF ToldOK, Place
<1>2. /\ older \in Lineage(reading.top) \cup {NoRev} /\ older \in Nat /\ reading.current \in Nat
      /\ Newer(older, reading.top) = Newer(reading.current, reading.top) \cup {reading.current}
      /\ Cardinality(Newer(older, reading.top))
           = Cardinality(Newer(reading.current, reading.top)) + 1
  BY <1>0, <1>1, NextOlder
<1>3. PICK c : c = [reading EXCEPT
         !.scanned = @ + 1, !.current = revs[@].parent1,
         !.rows = IF reading.current \in published THEN Append(@, reading.current) ELSE @]
  OBVIOUS
<1>4. Append(reading.rows, reading.current) \in Seq(Nat) /\ reading.scanned + 1 \in Nat
      /\ reading.rows \in Seq(Nat) /\ reading.found \in Seq(Nat)
  BY <1>2, ReadingParts, AppendProperties
<1>5. /\ c \in ReadingTypes /\ c.pc = "scan" /\ c.kind = reading.kind
        /\ c.branch = reading.branch
      /\ c.scanned = reading.scanned + 1 /\ c.top = reading.top /\ c.current = older
      /\ c.rows = (IF reading.current \in published THEN Append(reading.rows, reading.current)
                                                   ELSE reading.rows)
      /\ c.found = reading.found
  <2> HIDE DEF older
  <2>1. c = [reading EXCEPT !.scanned = reading.scanned + 1, !.current = older,
               !.rows = IF reading.current \in published THEN Append(reading.rows, reading.current)
                                                       ELSE reading.rows]
    BY <1>3 DEF older
  <2> QED
    BY <1>0, <1>2, <1>4, <2>1 DEF ReadingTypes
<1>6. Lists(all, due(reading.current)) /\ all \in Seq(Nat)
      /\ \A q : due(q) = Newer(q, reading.top) \cap published
  <2>1. Lists(all, due(reading.current))
    BY <1>0, <1>1 DEF ToldOK, ScanOK, Due
  <2>2. all \in Seq(Nat)
    BY <1>4, ConcatProperties
  <2> QED
    BY <2>1, <2>2 DEF Checkpoints, Newer
<1>7. Lists(c.found \o c.rows, due(older))
  <2>1. CASE reading.current \in published
    <3>1. c.found \o c.rows = Append(all, reading.current)
      <4>1. reading.found \o Append(reading.rows, reading.current) = Append(all, reading.current)
        BY <1>2, <1>4, ConcatAppend
      <4>2. c.rows = Append(reading.rows, reading.current) /\ c.found = reading.found
        BY <1>5, <2>1
      <4> QED
        BY <4>1, <4>2, Zenon
    <3>2. due(older) = due(reading.current) \cup {reading.current}
      <4>1. /\ due(older) = Newer(older, reading.top) \cap published
            /\ due(reading.current) = Newer(reading.current, reading.top) \cap published
        BY <1>6
      <4> HIDE DEF due, older
      <4> QED
        BY <1>2, <2>1, <4>1
    <3>3. due(reading.current) \in SUBSET Nat
      BY <1>0, <1>1, LineageBelow, RevIdsAreNumbers DEF Checkpoints
    <3>4. \A y \in due(reading.current) : y > reading.current
      OBVIOUS
    <3> HIDE DEF due, all
    <3> QED
      BY <1>2, <1>6, <3>1, <3>2, <3>3, <3>4, ListGrows
  <2>2. CASE reading.current \notin published
    <3>1. due(older) = due(reading.current)
      BY <1>2, <1>6, <2>2
    <3> QED
      BY <1>5, <1>6, <2>2, <3>1
  <2> QED
    BY <2>1, <2>2
<1>8. ToldOK(c)
  <2>1. {x \in Due(c.kind, c.top) : x > Place(c)} = due(older) /\ Place(c) = older
    BY <1>0, <1>5 DEF ScanOK, Due, Place
  <2> QED
    BY <1>0, <1>2, <1>5, <1>7, <2>1 DEF ToldOK
<1>9. ASSUME c.kind = "status", c.rows # << >>
      PROVE  c.rows = <<reading.current>> /\ LatestCheckpoint(reading.current, c.top, c.scanned)
             /\ reading.current \in RevIds
  <2>1. reading.rows = << >> /\ reading.found = << >>
    <3>1. Len(reading.rows) < 1 /\ Len(reading.rows) \in Nat
      BY <1>0, <1>5, <1>9, ReadingParts DEF Wanted
    <3>2. reading.rows = << >>
      BY <1>4, <3>1, EmptySeq
    <3> QED
      BY <1>0, <1>5, <1>9, <3>2 DEF ScanOK
  <2>2. reading.current \in published /\ c.rows = <<reading.current>>
    BY <1>2, <1>5, <1>9, <2>1
  <2>3. Newer(reading.current, reading.top) \cap published = {}
    <3>1. all = << >>
      BY <2>1, EmptySeq, ConcatEmptySeq
    <3>2. ToSet(<< >>) = due(reading.current)
      BY <1>6, <3>1 DEF Lists
    <3>3. ToSet(<< >>) = {}
      BY DEF ToSet
    <3> QED
      BY <1>6, <3>2, <3>3
  <2>4. c.scanned
           = Cardinality(Newer(reading.current, reading.top)) + 1
    BY <1>0, <1>5, <1>9 DEF ScanOK
  <2>5. reading.current \in RevIds
    BY <1>0, <1>1, LineageBelow
  <2> QED
    BY <1>1, <1>5, <2>2, <2>3, <2>4, <2>5 DEF LatestCheckpoint, Checkpoints
<1>10. ScanOK(c)
  <2>1. c.kind = "status" => c.found = << >> /\ c.scanned = Cardinality(Newer(c.current, c.top))
    BY <1>0, <1>2, <1>5 DEF ScanOK
  <2>2. c.kind \in {"timeline", "status"}
    BY <1>0, <1>5 DEF ScanOK
  <2> QED
    BY <1>9, <2>1, <2>2 DEF ScanOK
<1> QED
  BY <1>3, <1>5, <1>8, <1>10, WalksOn DEF ReadingOK, ScanRevision

LEMMA TimelinePageStep ==
  ASSUME PagesInv, EndTimelinePage
  PROVE  PagesInv'
<1>1. /\ reading.pc = "scan" /\ reading.kind = "timeline" /\ ToldOK(reading)
      /\ Pages(reading.rows, reading.current) /\ Place(reading) = reading.current
  BY DEF EndTimelinePage, PagesInv, ReadingOK, Place
<1> QED
  BY <1>1, PageStep, ReadingParts DEF ToldOK

LEMMA StatusStep ==
  ASSUME PagesInv, EndStatus
  PROVE  PagesInv'
<1> DEFINE outcome == CheckpointState(reading.current, reading.scanned, reading.rows)
           h == reading.top
           w == [kind |-> reading.kind, branch |-> reading.branch, top |-> h,
                 outcome |-> outcome, found |-> reading.rows, scanned |-> reading.scanned]
<1>0. /\ reading.pc = "scan" /\ ToldOK(reading) /\ ScanOK(reading) /\ LogInv
      /\ reading.kind = "status" /\ reading.found = << >> /\ reading.rows \in Seq(Nat)
      /\ Closes(outcome, reading.rows) /\ reading.current \in Nat
      /\ reading.scanned = Cardinality(Newer(reading.current, h))
      /\ h \in RevIds /\ heads[reading.branch] \in RevIds
      /\ reading.current \in Lineage(h) \cup {NoRev}
  BY ReadingParts DEF EndStatus, PagesInv, ReadingOK, ScanOK, ToldOK, Place
<1>1. outcome \in {"none_in_first_parent_history", "not_found_within_scan", "head", "behind_head"}
  BY DEF CheckpointState
<1>2. reading.rows = << >> => {x \in Checkpoints(h) : x > reading.current} = {}
  <2>1. Lists(reading.found \o reading.rows, {x \in Checkpoints(h) : x > reading.current})
    BY <1>0 DEF ToldOK, Place, Due
  <2>2. reading.rows = << >> => reading.found \o reading.rows = << >>
    BY <1>0, EmptySeq, ConcatEmptySeq
  <2>3. ToSet(<< >>) = {}
    BY DEF ToSet
  <2> QED
    BY <2>1, <2>2, <2>3 DEF Lists
<1>3. /\ \A x \in Lineage(h) : x \in Nat /\ x > NoRev /\ x \in RevIds
      /\ h \in Nat /\ \A x \in Lineage(h) : x <= h
      /\ h \in Lineage(h)
  <2>1. h \in Lineage(h) /\ Lineage(h) \subseteq RevIds /\ \A x \in Lineage(h) : x <= h
    BY <1>0, LineageBelow
  <2>2. RevIds \subseteq Nat /\ \A x \in RevIds : x > NoRev
    BY <1>0, RevIdsAreNumbers DEF RevIds, NoRev
  <2> QED
    BY <1>0, <2>1, <2>2
<1>4. CASE outcome = "none_in_first_parent_history"
  <2>1. reading.rows = << >> /\ reading.current = NoRev
    <3>1. CASE reading.rows = << >> /\ reading.current # NoRev
      BY <1>4, <3>1 DEF CheckpointState
    <3>2. CASE reading.rows # << >>
      BY <1>4, <3>2 DEF CheckpointState
    <3> QED
      BY <3>1, <3>2
  <2>2. Checkpoints(h) = {}
    BY <1>2, <1>3, <2>1 DEF Checkpoints
  <2> QED
    BY <1>0, <1>4, <2>2, ClosesOn DEF ReportOK
<1>5. CASE outcome = "not_found_within_scan"
  <2>1. reading.rows = << >> /\ reading.current # NoRev
    BY <1>5 DEF CheckpointState
  <2> DEFINE older == revs[reading.current].parent1
  <2>2. Cardinality(Newer(older, h)) = reading.scanned + 1 /\ reading.scanned \in Nat
    BY <1>0, <2>1, NextOlder
  <2>3. Newer(older, h) \subseteq Lineage(h)
    BY DEF Newer
  <2>4. Cardinality(Lineage(h)) > reading.scanned
    BY <1>0, <2>2, <2>3, PartOfLineage
  <2>5. ASSUME NEW r \in Checkpoints(h) PROVE Cardinality(Newer(r, h)) >= reading.scanned
    <3>1. r \in Lineage(h) /\ r \in Nat
      BY <1>3 DEF Checkpoints
    <3>4. ~(r > reading.current)
      BY <1>2, <2>1
    <3>5. r <= reading.current
      BY <1>0, <3>1, <3>4
    <3>2. Newer(reading.current, h) \subseteq Newer(r, h)
      <4>1. ASSUME NEW x \in Newer(reading.current, h) PROVE x > r
        <5>1. x \in Nat /\ x > reading.current
          BY <1>3 DEF Newer
        <5> QED
          BY <1>0, <3>1, <3>5, <5>1
      <4> QED
        BY <4>1 DEF Newer
    <3>3. IsFiniteSet(Newer(r, h))
      BY <1>0, LineageBelow, FS_Subset DEF Newer
    <3> QED
      BY <1>0, <3>2, <3>3, FS_Subset, FS_CardinalityType
  <2> QED
    BY <1>0, <1>5, <2>4, <2>5, ClosesOn DEF ReportOK
<1>6. CASE outcome \in {"head", "behind_head"}
  <2>1. reading.rows # << >>
    BY <1>6 DEF CheckpointState
  <2>2. PICK r \in RevIds : reading.rows = <<r>> /\ LatestCheckpoint(r, h, reading.scanned)
    BY <1>0, <2>1 DEF ScanOK
  <2>3. /\ r \in Checkpoints(h) /\ r \in Lineage(h)
        /\ reading.scanned = Cardinality(Newer(r, h)) + 1
        /\ IsFiniteSet(Newer(r, h)) /\ Cardinality(Newer(r, h)) \in Nat
    BY <1>0, <2>2, NextOlder DEF LatestCheckpoint, Checkpoints
  <2>4. reading.scanned = 1 <=> r = h
    <3>1. Cardinality(Newer(r, h)) = 0 <=> Newer(r, h) = {}
      BY <2>3, FS_EmptySet
    <3>2. Newer(r, h) = {} <=> r = h
      <4>1. r \in Nat /\ r <= h
        BY <1>3, <2>3
      <4>2. CASE r = h
        BY <1>0, <4>2, NewestOfLineage
      <4>3. CASE r # h
        <5>1. h \in Newer(r, h)
          BY <1>3, <4>1, <4>3 DEF Newer
        <5> QED
          BY <4>3, <5>1
      <4> QED
        BY <4>2, <4>3
    <3> QED
      BY <2>3, <3>1, <3>2
  <2>5. outcome = "head" <=> reading.scanned = 1
    BY <1>6, <2>1 DEF CheckpointState
  <2> QED
    BY <1>0, <1>1, <1>6, <2>2, <2>3, <2>4, <2>5, ClosesOn DEF ReportOK
<1> QED
  BY <1>1, <1>4, <1>5, <1>6

\* The history of a branch, when its head is known.
LEMMA HeadIsRevision ==
  ASSUME NEW b, NEW h, h = heads'[b]
  PROVE  /\ Lineage(heads[b])' = Lineage(h)'
         /\ \A r : Newer(r, heads[b])' = Newer(r, h)'
BY DEF Newer, Lineage, OnFirstParentHistory

\* A branch only gets further: what was in its history stays there.
LEMMA BranchGrows ==
  ASSUME LogInv, LogNext, NEW b \in Keys, heads[b] \in RevIds
  PROVE  heads'[b] \in RevIds' /\ Lineage(heads[b]) \subseteq Lineage(heads[b])'
<1>1. LogGrows /\ NoRev \notin RevIds
  BY StepGrows, RevIdsAreNumbers
<1>2. PICK h : h = heads[b]
  OBVIOUS
<1>3. h \in RevIds /\ Lineage(h)' = Lineage(h) /\ Lineage(heads[b]) = Lineage(h)
  BY <1>1, <1>2, LineageKept
<1>4. CASE heads'[b] = heads[b]
  BY <1>1, <1>2, <1>3, <1>4, HeadIsRevision DEF LogGrows
<1>5. CASE heads'[b] # heads[b]
  <2>1. CASE BranchStep
    <3>1. PICK k \in Keys, r \in RevIds : heads[k] = NoRev /\ heads' = [heads EXCEPT ![k] = r]
      BY <2>1 DEF BranchStep
    <3>2. k # b
      BY <1>1, <3>1
    <3>3. heads'[b] = heads[b]
      BY <3>1, <3>2 DEF LogInv, LogTypeOK
    <3> QED
      BY <1>5, <3>3
  <2>2. CASE PublishStep
    <3>1. PICK k \in Keys, p2 \in RevIds \cup {NoRev}, snap \in Snapshots,
               written \in SUBSET Modules, extra \in SUBSET Contents :
             Publish(k, heads[k], p2, snap, written, extra)
      BY <2>2 DEF PublishStep
    <3>2. PICK n : n = Len(revs) + 1
      OBVIOUS
    <3>3. /\ n \in RevIds' /\ revs'[n].parent1 = heads[k]
          /\ heads' = [heads EXCEPT ![k] = n]
      <4>1. RevIds' = RevIds \cup {Len(revs) + 1}
        BY <3>1, PublishFacts
      <4>2. revs'[Len(revs) + 1].parent1 = heads[k]
        BY <3>1, PublishFacts
      <4>3. heads' = [heads EXCEPT ![k] = Len(revs) + 1]
        BY <3>1, PublishFacts
      <4> QED
        BY <3>2, <4>1, <4>2, <4>3
    <3>4. k = b /\ heads'[b] = n
      BY <1>5, <3>3 DEF LogInv, LogTypeOK
    <3>5. Lineage(heads[b])' = Lineage(n)'
      BY <3>4, HeadIsRevision
    <3>6. ASSUME NEW r \in Lineage(h) PROVE r \in Lineage(n)'
      <4>1. r \in RevIds' /\ OnFirstParentHistory(r, h)
        BY <1>1 DEF Lineage, LogGrows
      <4>2. OnFirstParentHistory(r, n)'
        BY <1>1, <1>2, <1>3, <3>3, <3>4, <4>1, FirstParentExtends
      <4> QED
        BY <4>1, <4>2 DEF Lineage
    <3> QED
      BY <1>3, <3>3, <3>4, <3>5, <3>6
  <2> QED
    BY <2>1, <2>2, StepShape
<1> QED
  BY <1>4, <1>5

\* What others do leaves every history as it is, and adds to branches.
LEMMA OthersAdd ==
  ASSUME PagesInv, Advance
  PROVE  /\ LogInv' /\ RevIds \subseteq RevIds' /\ IsFiniteSet(RevIds')
         /\ published' \subseteq RevIds' /\ published' \cap RevIds = published
         /\ \A b \in Keys : heads[b] \in RevIds =>
              /\ heads'[b] \in RevIds' /\ Lineage(heads[b]) \subseteq Lineage(heads[b])'
              /\ IsFiniteSet(Lineage(heads[b])')
         /\ \A h \in RevIds : /\ Lineage(h)' = Lineage(h) /\ Checkpoints(h)' = Checkpoints(h)
                              /\ \A r : Newer(r, h)' = Newer(r, h)
<1>0. LogInv /\ published \subseteq RevIds
  BY DEF PagesInv
<1>1. LogNext
  BY DEF Advance, PublishCheckpoint, LogNext
<1>2. LogInv' /\ LogGrows
  BY <1>0, <1>1, LogInvStep, StepGrows
<1>3. RevIds \subseteq RevIds'
  BY <1>2 DEF LogGrows
<1>4. IsFiniteSet(RevIds')
  <2>1. Len(revs') \in Nat
    BY <1>2, LenProperties DEF LogInv, LogTypeOK
  <2> QED
    BY <2>1, FS_Interval DEF RevIds
<1>5. published' \subseteq RevIds' /\ published' \cap RevIds = published
  <2>1. CASE UNCHANGED published
    BY <1>0, <1>3, <2>1
  <2>2. ASSUME NEW k \in Keys, PublishCheckpoint(k)
        PROVE  published' \subseteq RevIds' /\ published' \cap RevIds = published
    <3>1. PICK v : revs' = Append(revs, v)
      BY <2>2 DEF PublishCheckpoint, AddContext, Publish, InsertRevision
    <3>2. Len(revs') = Len(revs) + 1 /\ Len(revs) \in Nat
      BY <1>0, <3>1, LenProperties, AppendProperties DEF LogInv, LogTypeOK
    <3>3. Len(revs') \in RevIds' /\ Len(revs') \notin RevIds
      BY <3>2 DEF RevIds
    <3> QED
      BY <1>0, <1>3, <2>2, <3>3 DEF PublishCheckpoint
  <2> QED
    BY <2>1, <2>2 DEF Advance
<1>6. ASSUME NEW b \in Keys, heads[b] \in RevIds
      PROVE  /\ heads'[b] \in RevIds' /\ Lineage(heads[b]) \subseteq Lineage(heads[b])'
             /\ IsFiniteSet(Lineage(heads[b])')
  <2>1. Lineage(heads[b])' \subseteq RevIds'
    BY DEF Lineage
  <2> QED
    BY <1>0, <1>1, <1>4, <1>6, <2>1, BranchGrows, FS_Subset
<1>7. ASSUME NEW h \in RevIds
      PROVE  /\ Lineage(h)' = Lineage(h) /\ Checkpoints(h)' = Checkpoints(h)
             /\ \A r : Newer(r, h)' = Newer(r, h)
  <2>1. Lineage(h)' = Lineage(h)
    BY <1>0, <1>2, LineageKept
  <2>2. Lineage(h) \subseteq RevIds
    BY DEF Lineage
  <2> QED
    BY <1>5, <2>1, <2>2 DEF Checkpoints, Newer
<1> QED
  BY <1>2, <1>3, <1>4, <1>5, <1>6, <1>7

\* What is known of the latest checkpoint of a history stays so.
LEMMA LatestCheckpointStays ==
  ASSUME PagesInv, Advance, NEW w, w.top \in RevIds
  PROVE  \A r : LatestCheckpoint(r, w.top, w.scanned) => LatestCheckpoint(r, w.top, w.scanned)'
<1>1. published' \cap RevIds = published
  BY OthersAdd
<1>2. Checkpoints(w.top)' = Checkpoints(w.top) /\ \A r : Newer(r, w.top)' = Newer(r, w.top)
  BY OthersAdd
<1>3. \A r : Newer(r, w.top) \subseteq RevIds
  BY DEF Newer, Lineage
<1> QED
  BY <1>1, <1>2, <1>3 DEF LatestCheckpoint

LEMMA ReportStays ==
  ASSUME PagesInv, Advance, NEW w \in Reports, ReportOK(w)
  PROVE  ReportOK(w)'
<1>1. /\ w.branch \in Keys /\ w.top \in RevIds /\ heads[w.branch] \in RevIds
      /\ MaxScan \in Nat
  BY PagesAssumption DEF Reports, ReportOK
<1>2. /\ w.top \in RevIds' /\ heads'[w.branch] \in RevIds' /\ RevIds \subseteq RevIds'
      /\ Lineage(w.top)' = Lineage(w.top) /\ Checkpoints(w.top)' = Checkpoints(w.top)
      /\ \A r : Newer(r, w.top)' = Newer(r, w.top)
      /\ Lineage(heads[w.branch]) \subseteq Lineage(heads[w.branch])'
      /\ IsFiniteSet(Lineage(heads[w.branch])')
  BY <1>1, OthersAdd
<1>3. w.outcome = "limit" => Cardinality(Lineage(heads[w.branch])') > MaxScan
  <2>1. /\ Cardinality(Lineage(heads[w.branch])) <= Cardinality(Lineage(heads[w.branch])')
        /\ Cardinality(Lineage(heads[w.branch])) \in Nat
        /\ Cardinality(Lineage(heads[w.branch])') \in Nat
    BY <1>2, FS_Subset, FS_CardinalityType
  <2> QED
    BY <1>1, <2>1 DEF ReportOK
<1>4. \A r : LatestCheckpoint(r, w.top, w.scanned) => LatestCheckpoint(r, w.top, w.scanned)'
  BY <1>1, LatestCheckpointStays
<1>5. w.outcome = "behind_head" =>
        \E r \in RevIds' : /\ w.found = <<r>> /\ LatestCheckpoint(r, w.top, w.scanned)'
                           /\ r # w.top
  BY <1>2, <1>4 DEF ReportOK
<1> QED
  BY <1>2, <1>3, <1>5 DEF ReportOK

LEMMA ReadingStays ==
  ASSUME PagesInv, Advance, NEW w \in ReadingTypes, ReadingOK(w)
  PROVE  ReadingOK(w)'
<1> SUFFICES ASSUME w.pc # "idle" PROVE ReadingOK(w)'
  BY DEF ReadingOK
<1>1. /\ w.branch \in Keys /\ w.top \in RevIds /\ heads[w.branch] \in RevIds /\ ToldOK(w)
      /\ w.scanned \in Nat /\ LogInv
  BY DEF ReadingTypes, ReadingOK, ToldOK, PagesInv
<1>2. /\ w.top \in RevIds' /\ heads'[w.branch] \in RevIds' /\ RevIds \subseteq RevIds'
      /\ Lineage(w.top)' = Lineage(w.top) /\ Checkpoints(w.top)' = Checkpoints(w.top)
      /\ \A r : Newer(r, w.top)' = Newer(r, w.top)
      /\ Lineage(heads[w.branch]) \subseteq Lineage(heads[w.branch])'
      /\ IsFiniteSet(Lineage(heads[w.branch])')
  BY <1>1, OthersAdd
<1>3. ToldOK(w)'
  BY <1>1, <1>2 DEF ToldOK, Due, Place
<1>4. CheckOK(w) => CheckOK(w)'
  <2> SUFFICES ASSUME CheckOK(w) PROVE CheckOK(w)'
    OBVIOUS
  <2>1. w.current \in Lineage(heads[w.branch]) /\ w.current \in RevIds
    BY DEF CheckOK, Lineage
  <2>2. Lineage(w.current)' = Lineage(w.current)
    BY <2>1, OthersAdd
  <2>3. /\ Newer(w.current, heads[w.branch]) \subseteq Newer(w.current, heads[w.branch])'
        /\ Newer(w.current, heads[w.branch])' \subseteq Lineage(heads[w.branch])'
    BY <1>2 DEF Newer
  <2>4. IsFiniteSet(Newer(w.current, heads[w.branch])')
    BY <1>2, <2>3, FS_Subset
  <2>5. /\ Cardinality(Newer(w.current, heads[w.branch]))
             <= Cardinality(Newer(w.current, heads[w.branch])')
        /\ Cardinality(Newer(w.current, heads[w.branch])) \in Nat
        /\ Cardinality(Newer(w.current, heads[w.branch])') \in Nat
    BY <2>3, <2>4, FS_Subset, FS_CardinalityType
  <2>6. w.scanned <= Cardinality(Newer(w.current, heads[w.branch])')
    BY <1>1, <2>5 DEF CheckOK
  <2>7. w.current \in Lineage(heads[w.branch])'
    BY <1>2, <2>1
  <2> QED
    BY <2>2, <2>6, <2>7 DEF CheckOK
<1>5. RowsOK(w) => RowsOK(w)'
  BY <1>2 DEF RowsOK
<1>6. ScanOK(w) => ScanOK(w)'
  <2>1. \A r : LatestCheckpoint(r, w.top, w.scanned) => LatestCheckpoint(r, w.top, w.scanned)'
    BY <1>1, LatestCheckpointStays
  <2> QED
    BY <1>2, <2>1 DEF ScanOK
<1> QED
  BY <1>3, <1>4, <1>5, <1>6 DEF ReadingOK

LEMMA AdvanceStep ==
  ASSUME PagesInv, Advance
  PROVE  PagesInv'
<1>1. reading' = reading /\ readings' = readings
  BY DEF Advance
<1>2. LogInv' /\ published' \subseteq RevIds'
  BY OthersAdd
<1>3. ReadingOK(reading)'
  <2>1. PICK w : w = reading
    OBVIOUS
  <2>2. ReadingOK(w)'
    BY <2>1, ReadingStays DEF PagesInv
  <2> QED
    BY <1>1, <2>1, <2>2 DEF ReadingOK, ToldOK, CheckOK, RowsOK, ScanOK, Place, LatestCheckpoint
<1>4. ASSUME NEW i \in 1..Len(readings) PROVE ReportOK(readings[i])'
  <2>1. PICK w : w = readings[i]
    OBVIOUS
  <2>2. w \in Reports
    BY <2>1, ElementOfSeq DEF PagesInv
  <2>3. ReportOK(w)'
    BY <2>1, <2>2, ReportStays DEF PagesInv
  <2> QED
    BY <1>1, <2>1, <2>3, ReportOfRow
<1> QED
  BY <1>1, <1>2, <1>3, <1>4 DEF PagesInv

LEMMA StopStep ==
  ASSUME PagesInv, StopReading
  PROVE  PagesInv'
<1>1. PICK c : c = NobodyWalks /\ Walks(c)
  BY DEF StopReading
<1>2. c \in ReadingTypes /\ ReadingOK(c)
  BY <1>1, IdleReader DEF ReadingOK
<1> QED
  BY <1>1, <1>2, WalksOn

LEMMA PagesStart ==
  ASSUME LogInv, PagesInit
  PROVE  PagesInv
<1>1. readings \in Seq(Reports) /\ Len(readings) = 0
  BY EmptySeq DEF PagesInit
<1>2. reading \in ReadingTypes /\ ReadingOK(reading)
  BY IdleReader DEF PagesInit, ReadingOK
<1>3. published \subseteq RevIds
  BY DEF PagesInit
<1> QED
  BY <1>1, <1>2, <1>3 DEF PagesInv

LEMMA PagesSteps ==
  ASSUME PagesInv, [PagesNext]_<<logVars, pageVars>>
  PROVE  PagesInv'
<1>1. CASE UNCHANGED <<logVars, pageVars>>
  <2>1. UNCHANGED <<logVars, published>> /\ reading' = reading /\ readings' = readings
    BY <1>1 DEF pageVars
  <2>2. PICK c : c = reading
    OBVIOUS
  <2>3. Walks(c) /\ c \in ReadingTypes /\ ReadingOK(c)
    BY <2>1, <2>2 DEF Walks, PagesInv
  <2> QED
    BY <2>3, WalksOn
<1>2. ASSUME NEW kind \in {"history", "summary", "timeline", "status"}, NEW branch \in Keys,
             NEW limit \in PageLimits, NEW scan \in ScanLimits,
             StartWalk(kind, branch, limit, scan)
      PROVE  PagesInv'
  BY <1>2, WalkStarts
<1>3. CASE CheckCursor
  BY <1>3, CheckStep
<1>4. CASE FetchRow
  BY <1>4, RowStep
<1>5. CASE EndSummary
  BY <1>5, SummaryStep
<1>6. CASE EndHistoryPage
  BY <1>6, HistoryPageStep
<1>7. CASE NextPage
  BY <1>7, NextPageStep
<1>8. CASE ScanRevision
  BY <1>8, ScanStep
<1>9. CASE EndTimelinePage
  BY <1>9, TimelinePageStep
<1>10. CASE EndStatus
  BY <1>10, StatusStep
<1>11. CASE Advance
  BY <1>11, AdvanceStep
<1>12. CASE StopReading
  BY <1>12, StopStep
<1> QED
  BY <1>1, <1>2, <1>3, <1>4, <1>5, <1>6, <1>7, <1>8, <1>9, <1>10, <1>11, <1>12 DEF PagesNext

\* What a reader is told is what the histories hold.
LEMMA ToldAsItIs ==
  ASSUME PagesInv
  PROVE  HistoryToldTruly
<1>1. DOMAIN readings = 1..Len(readings)
  BY LenProperties DEF PagesInv
<1>2. PagesCoverHistory
  BY <1>1 DEF PagesInv, ReportOK, PagesCoverHistory
<1>3. StatusTruthful
  <2> SUFFICES ASSUME NEW i \in DOMAIN readings
               PROVE  LET w == readings[i] IN
     /\ w.outcome = "none_in_first_parent_history" => Checkpoints(w.top) = {}
     /\ w.outcome = "not_found_within_scan" =>
          /\ Cardinality(Lineage(w.top)) > w.scanned
          /\ \A r \in Checkpoints(w.top) : Cardinality(Newer(r, w.top)) >= w.scanned
     /\ w.outcome = "head" => w.top \in Checkpoints(w.top)
     /\ w.outcome = "behind_head" =>
          \E latest \in Checkpoints(w.top) :
            /\ w.found = <<latest>>
            /\ Newer(latest, w.top) \cap published = {}
            /\ w.scanned = Cardinality(Newer(latest, w.top)) + 1
            /\ latest # w.top
    BY DEF StatusTruthful
  <2>1. ReportOK(readings[i])
    BY <1>1 DEF PagesInv
  <2> QED
    BY <2>1 DEF ReportOK, LatestCheckpoint
<1> QED
  BY <1>2, <1>3 DEF HistoryToldTruly

\* What clients read of a history in pages, and what they are told of its
\* checkpoints, is so: for any limits, and however far branches have moved on
\* between the calls.  The log is any that its own operations may have reached
\* (LogInvStep): StartWalk needs a branch with a head.
THEOREM HistoryPagesToldTruly == PagesSpec => []HistoryToldTruly
<1>1. LogInv /\ PagesInit => PagesInv
  BY PagesStart
<1>2. PagesInv /\ [PagesNext]_<<logVars, pageVars>> => PagesInv'
  BY PagesSteps
<1>3. PagesInv => HistoryToldTruly
  BY ToldAsItIs
<1> QED
  BY <1>1, <1>2, <1>3, PTL DEF PagesSpec
==============================================================================
