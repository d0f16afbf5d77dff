---------------------------- MODULE EditCandidates ----------------------------
(****************************************************************************)
(* Working edit candidates: chains of unpublished revisions that a branch   *)
(* may later be fast-forwarded to (edit_candidates.EditCandidateService).   *)
(*                                                                          *)
(* Every call of the service reads the candidate first and changes it later *)
(* in one write transaction, which is one step here (RevisionStore models   *)
(* how a transaction takes the lock, waits and rolls back).  All the other  *)
(* tools that write to the repository are the atomic operations of          *)
(* RevisionLog, which RevisionStore implements.                             *)
(****************************************************************************)
EXTENDS RevisionLog, SequencesExt

CONSTANTS
  Clients,         \* processes; each serves one call at a time
  Names,           \* candidate names
  NoName,
  CallerBases,     \* may publish be given an expected base by its caller?
  MaxCandidates,   \* bounds
  MaxQualifications

ASSUME CandidatesAssumption ==
  /\ NoName \notin Names
  /\ CallerBases \in BOOLEAN
  /\ MaxCandidates \in Nat
  /\ MaxQualifications \in Nat

VARIABLES
  candidates,      \* the edit_candidates table; a candidate's id is its index
  qualifications,  \* candidate_qualifications, in ORDER BY created_at, id
  calls            \* the call each process is serving

candidateVars == <<candidates, qualifications, calls>>

vars == <<revs, heads, documents, candidates, qualifications, calls>>

Levels == {"syntactic", "compiler"}

NoLevel == "none"

\* `edits` and `required` are not columns.  They record, for the properties, the
\* edits in force and the level the publication demanded.
Candidate ==
  [project   : Projects,
   name      : Names,
   base      : Nat,
   head      : Nat,
   status    : {"open", "abandoned", "published"},
   branch    : Branches \cup {NoBranch},
   published : Nat,
   edits     : Seq(Nat),
   required  : Levels \cup {NoLevel}]

\* A compiler that is unavailable counts as failed: neither is a pass.
Qualification ==
  [candidate : Nat, revision : Nat, level : Levels, status : {"passed", "failed"}]

Operations == {"open", "replay", "apply", "publish", "any"}

SomeKey == CHOOSE k \in Keys : TRUE

Idle == [pc |-> "idle", op |-> "open", key |-> SomeKey, name |-> NoName,
         candidate |-> 0, base |-> NoRev, head |-> NoRev, level |-> NoLevel]

Call == [pc : {"idle", "candidate", "qualification", "ready"}, op : Operations,
         key : Keys, name : Names \cup {NoName}, candidate : Nat,
         base : Nat, head : Nat, level : Levels \cup {NoLevel}]

TypeOK ==
  /\ LogTypeOK
  /\ candidates \in Seq(Candidate)
  /\ qualifications \in Seq(Qualification)
  /\ calls \in [Clients -> Call]
  /\ \A i \in DOMAIN candidates :
        (candidates[i].status = "published") <=> (candidates[i].published # NoRev)

Init ==
  /\ LogInit
  /\ candidates = << >>
  /\ qualifications = << >>
  /\ calls = [c \in Clients |-> Idle]

\* Another tool's operation on the repository.  A merge, a revert and a context
\* document move a head as a write does: to a new revision above it.
Elsewhere ==
  /\ Len(revs) < MaxRevs
  /\ \/ \E p \in Projects : InitProject(p)
     \/ \E k, from \in Keys : CreateBranch(k, from)
     \/ \E k \in Keys, m \in Modules : WriteModule(k, m)
  /\ UNCHANGED candidateVars

Continue(c, call) == calls' = [calls EXCEPT ![c] = call]

Return(c) == Continue(c, Idle)

\* The first reads of a call change nothing but the call itself.
Reads(c, call) ==
  /\ Continue(c, call)
  /\ UNCHANGED <<revs, heads, documents, candidates, qualifications>>

------------------------------------------------------------------------------
(* open, and replay, which opens a candidate and then applies a batch to it *)

\* The branch must exist even when an explicit base revision replaces its head.
StartOpen(c, k, name, op) ==
  /\ calls[c].pc = "idle"
  /\ heads[k] # NoRev
  /\ \E base \in {heads[k]} \cup {r \in RevIds : revs[r].project = k[1]} :
       Reads(c, [Idle EXCEPT !.pc = "ready", !.op = op, !.key = k, !.name = name,
                             !.base = base])

Open(c) ==
  LET call == calls[c]
  IN  /\ call.pc = "ready" /\ call.op \in {"open", "replay"}
      /\ Len(candidates) < MaxCandidates
      /\ \A i \in DOMAIN candidates :
           ~ /\ candidates[i].project = call.key[1]
             /\ candidates[i].name = call.name
             /\ candidates[i].status = "open"
      /\ candidates' = Append(candidates,
           [project |-> call.key[1], name |-> call.name,
            base |-> call.base, head |-> call.base, status |-> "open",
            branch |-> NoBranch, published |-> NoRev,
            edits |-> << >>, required |-> NoLevel])
      /\ IF call.op = "open"
         THEN Return(c)
         ELSE Continue(c, [Idle EXCEPT !.pc = "candidate", !.op = "replay",
                                       !.candidate = Len(candidates) + 1,
                                       !.head = call.base])
      /\ UNCHANGED <<revs, heads, documents, qualifications>>

------------------------------------------------------------------------------
(* apply, qualify, abandon, revert_last: read the open candidate, then a    *)
(* transaction that checks what it read                                     *)

\* The row the call works from; expected_revision_id, when given, must name the
\* head found here.  Which of the four calls it is matters first in its
\* transaction.
StartOn(c, i) ==
  /\ calls[c].pc = "idle"
  /\ candidates[i].status = "open"
  /\ Reads(c, [Idle EXCEPT !.pc = "ready", !.op = "any", !.candidate = i,
                           !.head = candidates[i].head])

\* The second half of replay expects the head that its first half created.
ReadReplayed(c) ==
  LET call == calls[c]
      row  == candidates[call.candidate]
  IN  /\ call.pc = "candidate"
      /\ row.status = "open"
      /\ row.head = call.head
      /\ Reads(c, [call EXCEPT !.pc = "ready", !.op = "apply"])

\* Mutants of the check below: only the status, or only the head, is compared.
StillOpen(c) == candidates[calls[c].candidate].status = "open"
SameHead(c)  == candidates[calls[c].candidate].head = calls[c].head

\* Is the candidate as the call c read it, when its transaction looks again?
StillAsRead(c) ==
  LET row == candidates[calls[c].candidate]
  IN  row.status = "open" /\ row.head = calls[c].head

Ready(c, op) == calls[c].pc = "ready" /\ calls[c].op \in {op, "any"}

\* One revision that belongs to no branch; the candidate's head moves to it.
Apply(c) ==
  LET i    == calls[c].candidate
      head == calls[c].head
      new  == Len(revs) + 1
  IN  /\ Ready(c, "apply")
      /\ StillAsRead(c)
      /\ Len(revs) < MaxRevs
      /\ \E m \in Modules :
           /\ revs[head].snap[m] # Absent
           /\ InsertRevision(<<candidates[i].project, NoBranch>>, NoBranch,
                             head, NoRev, revs[head].snap, {m}, {})
      /\ candidates' = [candidates EXCEPT ![i].head = new,
                                          ![i].edits = Append(@, new)]
      /\ Return(c)
      /\ UNCHANGED <<heads, qualifications>>

\* Rows of the same second sort by a random id: the new row may end up before
\* the one recorded just before it.
Qualify(c) ==
  /\ Ready(c, "qualify")
  /\ StillAsRead(c)
  /\ Len(qualifications) < MaxQualifications
  /\ \E level \in Levels, status \in {"passed", "failed"} :
       /\ level = "syntactic" => status = "passed"
       /\ \E place \in {Len(qualifications), Len(qualifications) + 1} \ {0} :
            qualifications' = InsertAt(qualifications, place,
              [candidate |-> calls[c].candidate, revision |-> calls[c].head,
               level |-> level, status |-> status])
  /\ Return(c)
  /\ UNCHANGED <<revs, heads, documents, candidates>>

\* Mutant: the transaction trusts the status read before it.
AbandonAnyway(c) ==
  LET i == calls[c].candidate
  IN  /\ Ready(c, "abandon")
      /\ candidates' = [candidates EXCEPT ![i].status = "abandoned"]
      /\ Return(c)
      /\ UNCHANGED <<revs, heads, documents, qualifications>>

\* Only the status is checked again, not the head.
Abandon(c) ==
  LET i == calls[c].candidate
  IN  /\ Ready(c, "abandon")
      /\ candidates[i].status = "open"
      /\ candidates' = [candidates EXCEPT ![i].status = "abandoned"]
      /\ Return(c)
      /\ UNCHANGED <<revs, heads, documents, qualifications>>

RevertLast(c) ==
  LET i == calls[c].candidate
  IN  /\ Ready(c, "revert")
      /\ calls[c].head # candidates[i].base
      /\ revs[calls[c].head].parent1 # NoRev
      /\ StillAsRead(c)
      /\ candidates' = [candidates EXCEPT ![i].head = revs[calls[c].head].parent1,
                                          ![i].edits = Front(@)]
      /\ Return(c)
      /\ UNCHANGED <<revs, heads, documents, qualifications>>

------------------------------------------------------------------------------
(* publish *)

\* Mutant: any expected base is taken from the caller.
AnyBase(i) == RevIds

\* The base the target branch must be at: the caller's, or the candidate's.
RequiredBases(i) == {candidates[i].base} \cup (IF CallerBases THEN RevIds ELSE {})

StartPublish(c, i, branch, level) ==
  /\ calls[c].pc = "idle"
  /\ candidates[i].status = "open"
  /\ \E base \in RequiredBases(i) :
       Reads(c, [Idle EXCEPT !.pc = IF level = NoLevel THEN "ready" ELSE "qualification",
                             !.op = "publish", !.candidate = i, !.level = level,
                             !.key = <<candidates[i].project, branch>>,
                             !.base = base, !.head = candidates[i].head])

\* Row n is the latest qualification of its candidate.
LatestQualification(n) ==
  \A later \in DOMAIN qualifications :
     later > n => qualifications[later].candidate # qualifications[n].candidate

\* Mutant: a stale qualification passes.
ReadStaleQualification(c) ==
  LET call == calls[c]
  IN  /\ call.pc = "qualification"
      /\ \E n \in DOMAIN qualifications :
           /\ qualifications[n].candidate = call.candidate
           /\ LatestQualification(n)
           /\ qualifications[n].status = "passed"
           /\ qualifications[n].level = call.level
      /\ Reads(c, [call EXCEPT !.pc = "ready"])

\* The candidate's latest qualification, read after its row and outside the
\* publishing transaction.
ReadQualification(c) ==
  LET call == calls[c]
  IN  /\ call.pc = "qualification"
      /\ \E n \in DOMAIN qualifications :
           /\ qualifications[n].candidate = call.candidate
           /\ LatestQualification(n)
           /\ qualifications[n].status = "passed"
           /\ qualifications[n].level = call.level
           /\ qualifications[n].revision = call.head
      /\ Reads(c, [call EXCEPT !.pc = "ready"])

Publishing(c) == calls[c].pc = "ready" /\ calls[c].op = "publish"

\* Mutants: the branch moves wherever it is now; the revision is not recorded.
PublishUnconditionally(c) ==
  LET call == calls[c]
  IN  /\ Publishing(c)
      /\ StillAsRead(c)
      /\ heads' = [heads EXCEPT ![call.key] = call.head]
      /\ candidates' = [candidates EXCEPT ![call.candidate].status = "published",
                                          ![call.candidate].branch = call.key[2],
                                          ![call.candidate].published = call.head,
                                          ![call.candidate].required = call.level]
      /\ Return(c)
      /\ UNCHANGED <<revs, documents, qualifications>>

PublishUnrecorded(c) ==
  LET call == calls[c]
  IN  /\ Publishing(c)
      /\ heads[call.key] = call.base
      /\ StillAsRead(c)
      /\ heads' = [heads EXCEPT ![call.key] = call.head]
      /\ candidates' = [candidates EXCEPT ![call.candidate].status = "published"]
      /\ Return(c)
      /\ UNCHANGED <<revs, documents, qualifications>>

PublishCandidate(c) ==
  LET call == calls[c]
  IN  /\ Publishing(c)
      /\ heads[call.key] = call.base
      /\ StillAsRead(c)
      /\ heads' = [heads EXCEPT ![call.key] = call.head]
      /\ candidates' = [candidates EXCEPT ![call.candidate].status = "published",
                                          ![call.candidate].branch = call.key[2],
                                          ![call.candidate].published = call.head,
                                          ![call.candidate].required = call.level]
      /\ Return(c)
      /\ UNCHANGED <<revs, documents, qualifications>>

\* A check fails, the lock stays busy, or the process dies: whatever the call had
\* not committed is gone.  A replay may leave the candidate it opened.
Fail(c) ==
  /\ calls[c].pc # "idle"
  /\ Return(c)
  /\ UNCHANGED <<revs, heads, documents, candidates, qualifications>>

------------------------------------------------------------------------------
Start(c) ==
  \/ \E k \in Keys, name \in Names, op \in {"open", "replay"} : StartOpen(c, k, name, op)
  \/ \E i \in DOMAIN candidates : StartOn(c, i)
  \/ \E i \in DOMAIN candidates, branch \in Branches, level \in Levels \cup {NoLevel} :
        StartPublish(c, i, branch, level)

Next ==
  \/ Elsewhere
  \/ \E c \in Clients :
       \/ Start(c)
       \/ Open(c)
       \/ ReadReplayed(c)
       \/ Apply(c)
       \/ Qualify(c)
       \/ Abandon(c)
       \/ RevertLast(c)
       \/ ReadQualification(c)
       \/ PublishCandidate(c)
       \/ Fail(c)

Spec == Init /\ [][Next]_vars

------------------------------------------------------------------------------
\* The head is reached from the base by exactly the edits that were applied and
\* not reverted, in their order: no concurrent apply or revert_last is lost.
EditsInForce ==
  \A i \in DOMAIN candidates :
     LET cand  == candidates[i]
         chain == <<cand.base>> \o cand.edits
     IN  /\ cand.head = Last(chain)
         /\ \A n \in DOMAIN cand.edits : revs[chain[n + 1]].parent1 = chain[n]

\* A candidate published at a required level had a passing qualification of that
\* level for the very revision it published.
PublishedAsQualified ==
  \A i \in DOMAIN candidates : candidates[i].required # NoLevel =>
     \E q \in Range(qualifications) :
        /\ q.candidate = i
        /\ q.revision = candidates[i].published
        /\ q.level = candidates[i].required
        /\ q.status = "passed"

\* What was published stays on its branch.
PublishedStays ==
  \A i \in DOMAIN candidates : candidates[i].status = "published" =>
     LET head == heads[<<candidates[i].project, candidates[i].branch>>]
     IN  head \in RevIds /\ OnFirstParentHistory(candidates[i].published, head)

\* Branches only ever move forward along first parents.
FastForwards ==
  [][\A k \in Keys, r \in RevIds :
        heads[k] = r => OnFirstParentHistory(r, heads[k])']_vars

\* An abandoned or published candidate never changes again.
ClosedForGood ==
  [][\A i \in DOMAIN candidates :
        candidates[i].status # "open" => candidates'[i] = candidates[i]]_vars

==============================================================================
